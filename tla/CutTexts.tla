------------------------------ MODULE CutTexts ------------------------------
(***************************************************************************)
(* Texts that are cut: a worker's answer for people, results for a model.  *)
(*                                                                         *)
(* A worker's answer becomes posts (group/roundtable.rs): its sentences    *)
(* are put together to bubbles of a length people write, and the name a    *)
(* model likes to put before its words is taken off each of them.  A text  *)
(* is a sequence of characters: x for a letter, "." for the end of a       *)
(* sentence, " " and "n" (a line break) for blanks, the rest as it is.     *)
(***************************************************************************)
EXTENDS Integers, FiniteSets, SequencesExt

CONSTANTS
  Speaker,         \* the worker's name, without blanks
  Target, HardMax, MinMerge,   \* 20, 120 and 6 characters in the code
  MaxLayers,       \* 3: names taken off one post
  Replies          \* answers: names, words, and whether the words begin with none of them

VARIABLE reply

Blanks == {" ", "n"}
Boundaries == {".", "n"}
IsText(s) == \E i \in DOMAIN s : s[i] \notin Blanks
NoBlanks(s) == SelectSeq(s, LAMBDA c : c \notin Blanks)
\* the first place from i on that holds none of the given characters
PastSet(s, i, set) ==
  CHOOSE j \in i .. Len(s) + 1 :
    (j > Len(s) \/ s[j] \notin set) /\ \A k \in i .. j - 1 : s[k] \in set
TrimBlanks(s) ==
  IF ~IsText(s) THEN <<>>
  ELSE LET from == PastSet(s, 1, Blanks) IN SubSeq(s, from, Len(s) + 1 - PastSet(Reverse(s), 1, Blanks))
-----------------------------------------------------------------------------
\* split_into_units: sentences, trimmed; blank ones are left out
WithUnit(units, s) == IF IsText(s) THEN Append(units, TrimBlanks(s)) ELSE units
UnitStep(st, c) ==
  IF c \in Boundaries THEN [units |-> WithUnit(st.units, Append(st.cur, c)), cur |-> <<>>]
  ELSE [st EXCEPT !.cur = Append(@, c)]
SplitIntoUnits(s) ==
  LET st == FoldLeft(UnitStep, [units |-> <<>>, cur |-> <<>>], s) IN WithUnit(st.units, st.cur)

\* (mutant) a mood word stands alone
StartsNewAtOnce(cur, u) ==
  cur # <<>> /\ (Len(cur) + Len(u) > HardMax \/ (Len(cur) >= Target /\ Len(u) >= MinMerge))
\* group_into_bubbles: what is shorter than MinMerge takes the next sentence along, however
\* long that is
StartsNew(cur, u) ==
  /\ Len(cur) >= MinMerge
  /\ Len(cur) + Len(u) > HardMax \/ (Len(cur) >= Target /\ Len(u) >= MinMerge)
BubbleStep(st, u) ==
  CASE st.cur = <<>> -> [st EXCEPT !.cur = u]
    [] StartsNew(st.cur, u) -> [out |-> Append(st.out, st.cur), cur |-> u]
    [] OTHER -> [st EXCEPT !.cur = @ \o <<"n">> \o u]
GroupIntoBubbles(units) ==
  LET st == FoldLeft(BubbleStep, [out |-> <<>>, cur |-> <<>>], units)
  IN  IF st.cur = <<>> THEN st.out ELSE Append(st.out, st.cur)

\* split_roundtable_reply in a group of kind chat
SplitReply(s) ==
  LET units == SplitIntoUnits(s) IN IF Len(units) <= 1 THEN units ELSE GroupIntoBubbles(units)
-----------------------------------------------------------------------------
\* where the name ends that is written from i on, blanks anywhere in it; 0 if it is not
NameEnd(s, i) ==
  LET ends == {j \in i .. Len(s) : s[j] \notin Blanks /\ NoBlanks(SubSeq(s, i, j)) = Speaker}
  IN  IF ends = {} THEN 0 ELSE CHOOSE j \in ends : TRUE
\* one turn of strip_speaker_prefix: @name #1 : is taken off, with the blanks around it;
\* without a colon the text stays as it is
StripOnce(s) ==
  LET start == PastSet(s, 1, Blanks)
      at == IF start <= Len(s) /\ s[start] = "@" THEN start + 1 ELSE start
      name == NameEnd(s, at)
      sign == PastSet(s, name + 1, Blanks)
      digits == IF sign <= Len(s) /\ s[sign] = "#" THEN PastSet(s, sign + 1, {"1"}) ELSE sign
      colon == PastSet(s, digits, Blanks)
  IN  IF name = 0 \/ colon > Len(s) THEN s
      ELSE IF s[colon] = ":" THEN SubSeq(s, PastSet(s, colon + 1, Blanks), Len(s)) ELSE s
\* (mutant) one name only
StripFirst(s) == StripOnce(s)
StripSpeakerPrefix(s) ==
  IF Speaker = <<>> THEN s ELSE FoldLeft(LAMBDA t, i : StripOnce(t), s, [i \in 1 .. MaxLayers |-> i])

\* the posts of process_worker_turn: a bubble of nothing but the name is not posted, and what
\* hangs on the first bubble (mentions, attachments) is then posted with none
Posts(s) ==
  LET bubbles == SplitReply(s)
      stripped == [i \in DOMAIN bubbles |-> [first |-> i = 1, text |-> StripSpeakerPrefix(bubbles[i])]]
  IN  SelectSeq(stripped, LAMBDA p : IsText(p.text))

RepliesInit == reply \in Replies
RepliesNext == UNCHANGED reply
-----------------------------------------------------------------------------
Answered == FlattenSeq(reply.names) \o reply.words

\* What is posted is the whole answer in bubbles as people write them, without the names
\* (roundtable.rs: the tests of split_into_units, group_into_bubbles, strip_speaker_prefix):
\* nothing is lost, doubled or put elsewhere by the cutting; a mood word stands alone only at
\* the end, and a bubble is too long only for one sentence with at most a mood word before it;
\* up to MaxLayers names come off however they are written, and nothing of the words behind;
\* mentions and attachments are on the first post, unless that one was nothing but a name.
PostsWhole ==
  LET units == SplitIntoUnits(Answered)
      bubbles == SplitReply(Answered)
      posts == Posts(Answered)
  IN  /\ NoBlanks(FlattenSeq(bubbles)) = NoBlanks(Answered)
      /\ \A i \in DOMAIN bubbles :
           /\ i < Len(bubbles) => Len(bubbles[i]) >= MinMerge
           /\ Len(bubbles[i]) > HardMax + 1 =>
                \E j \in DOMAIN units :
                  IsSuffix(units[j], bubbles[i]) /\ Len(bubbles[i]) - Len(units[j]) <= MinMerge
      /\ reply.plain /\ Len(reply.names) <= MaxLayers => StripSpeakerPrefix(Answered) = reply.words
      /\ posts # <<>> /\ IsText(StripSpeakerPrefix(bubbles[1])) =>
           posts[1].first /\ \A i \in 2 .. Len(posts) : ~posts[i].first
-----------------------------------------------------------------------------
(***************************************************************************)
(* What a model gets to read of its tools' results: a long result is cut,  *)
(* a page becomes its text (agent/engine/engine_toolrun.rs), and a request *)
(* that is too long loses the ends of its oldest results                   *)
(* (agent/engine/engine_loop.rs).  A page is a sequence of symbols:        *)
(* "<head" opens a tag and ">" closes it, "</head>" is a whole closing     *)
(* tag, "&" and a name with its semicolon make a character; x is any other *)
(* character.                                                              *)
(***************************************************************************)
CONSTANTS
  Pages,           \* results of tools, in pieces
  MaxResult,       \* MAX_TOOL_RESULT_CHARS
  MinPage,         \* 64: shorter results are taken as they are
  Requests,        \* requests: role, characters and bytes per character of each message
  MaxPrompt,       \* MAX_PROMPT_CHARS
  CutTo,           \* TRUNCATED_TOOL_RESULT_CHARS
  NoticeSize       \* characters of the note that is put behind a cut result

VARIABLES page, request
textVars == <<page, request>>

\* what a tag's name is the beginning of; find() does not ask where the name ends
OpensTag(tag, x) == x = "<" \o tag \/ (tag = "head" /\ x = "<header")
TagStarts == {"<", "<html", "<div", "<script", "<style", "<head", "<header", "<svg"}
ClosingTags == {"</html>", "</div>", "</script>", "</style>", "</head>", "</header>", "</svg>"}
Spaces == {" ", "nbsp"}
-----------------------------------------------------------------------------
\* looks_like_html, of what is left without the blanks in front
LooksLikeHtml(s) ==
  LET texts == {i \in DOMAIN s : s[i] # " "}
  IN  /\ texts # {} /\ Len(s) + 1 - (CHOOSE i \in texts : \A j \in texts : i <= j) >= MinPage
      /\ \E i \in DOMAIN s : s[i] \in {"<html", "<head", "<header", "<div"}

\* (mutant) any closing tag ends a block
StripToAnyTag(acc, x, tag) ==
  CASE acc.in -> [acc EXCEPT !.in = x \notin ClosingTags]
    [] ~acc.in /\ OpensTag(tag, x) -> [acc EXCEPT !.in = TRUE]
    [] OTHER -> [acc EXCEPT !.out = Append(@, x)]
\* strip_blocks: everything from an opening tag to the next closing one, or to the end
StripStep(acc, x, tag) ==
  CASE acc.in -> [acc EXCEPT !.in = x # "</" \o tag \o ">"]
    [] ~acc.in /\ OpensTag(tag, x) -> [acc EXCEPT !.in = TRUE]
    [] OTHER -> [acc EXCEPT !.out = Append(@, x)]
StripBlocks(s, tag) ==
  FoldLeft(LAMBDA acc, x : StripStep(acc, x, tag), [out |-> <<>>, in |-> FALSE], s).out

\* strip_tags: nothing between < and >, whatever the tag
TagStep(acc, x) ==
  CASE x \in TagStarts -> [acc EXCEPT !.in = TRUE]
    [] x = ">" \/ x \in ClosingTags -> [acc EXCEPT !.in = FALSE]
    [] OTHER -> IF acc.in THEN acc ELSE [acc EXCEPT !.out = Append(@, x)]
StripTags(s) == FoldLeft(TagStep, [out |-> <<>>, in |-> FALSE], s).out

\* decode_entities: once over the text; what is decoded is not looked at again
EntityName(x) == x \in {"amp;", "lt;", "nbsp;"}
Decoded(x) == CASE x = "amp;" -> "&" [] x = "lt;" -> "<" [] x = "nbsp;" -> "nbsp"
\* (mutant) a decoded & is taken for one of the page
DecodeAgain(acc, x) ==
  IF EntityName(x) /\ acc.out # <<>> /\ Last(acc.out) = "&"
  THEN [acc EXCEPT !.out = Append(Front(@), Decoded(x))] ELSE [acc EXCEPT !.out = Append(@, x)]
DecodeStep(acc, x) ==
  IF EntityName(x) /\ acc.out # <<>> /\ Last(acc.out) = "&" /\ acc.raw
  THEN [out |-> Append(Front(acc.out), Decoded(x)), raw |-> FALSE]
  ELSE [out |-> Append(acc.out, x), raw |-> TRUE]
DecodeEntities(s) == FoldLeft(DecodeStep, [out |-> <<>>, raw |-> FALSE], s).out

\* blanks become one, and none is left at the ends
SpaceStep(acc, x) ==
  IF x \in Spaces THEN IF acc = <<>> \/ Last(acc) = " " THEN acc ELSE Append(acc, " ")
  ELSE Append(acc, x)
Collapsed(s) ==
  LET t == FoldLeft(SpaceStep, <<>>, s) IN IF t # <<>> /\ Last(t) = " " THEN Front(t) ELSE t

HtmlToText(s) ==
  Collapsed(DecodeEntities(StripTags(
    FoldLeft(StripBlocks, s, <<"script", "style", "head", "svg">>))))

NoteText == <<" ", "note">>
Capped(s) == IF Len(s) > MaxResult THEN SubSeq(s, 1, MaxResult) \o NoteText ELSE s
SanitizeToolResult(s) ==
  IF LooksLikeHtml(Capped(s)) THEN HtmlToText(Capped(s)) ELSE Capped(s)
-----------------------------------------------------------------------------
(***************************************************************************)
(* The request: estimate_messages counts bytes, a cut result is counted in *)
(* characters.                                                             *)
(***************************************************************************)
BytesOf(m) == IF m.cut THEN CutTo * m.width + 3 * NoticeSize ELSE m.chars * m.width
EstimateMessages(req) == FoldLeft(LAMBDA n, m : n + BytesOf(m), 0, req)
LeastZero(n) == IF n > 0 THEN n ELSE 0
IsLong(m) == m.role = "tool" /\ m.chars > CutTo
CutMessage(m) == [m EXCEPT !.chars = CutTo + NoticeSize, !.cut = TRUE]
\* (mutant) what a cut saves is not counted
CutUncounted(acc, m) ==
  IF acc.total > MaxPrompt /\ IsLong(m) THEN [acc EXCEPT !.req = Append(@, CutMessage(m))]
  ELSE [acc EXCEPT !.req = Append(@, m)]
CutOldest(acc, m) ==
  IF acc.total > MaxPrompt /\ IsLong(m)
  THEN [req |-> Append(acc.req, CutMessage(m)),
        total |-> LeastZero(acc.total - LeastZero(m.chars - CutMessage(m).chars))]
  ELSE [acc EXCEPT !.req = Append(@, m)]
EnforcePromptBudget(req) ==
  FoldLeft(CutOldest, [req |-> <<>>, total |-> EstimateMessages(req)], req).req

TextInit == page \in Pages /\ request \in Requests
TextNext == UNCHANGED textVars
-----------------------------------------------------------------------------
WrittenCode == FlattenSeq([i \in DOMAIN page |-> page[i].code])
ShownText == FlattenSeq([i \in DOMAIN page |-> page[i].text])
Foreign == \E i \in DOMAIN page : ~page[i].sound
\* Of a page whose blocks are closed exactly its text is read, in order, with what its
\* entities stand for, whatever its scripts and heads hold, and a result that is no page is
\* read as it is; of one that is too long, at most the beginning and a note.
PageTextKept ==
  LET read == SanitizeToolResult(WrittenCode)
  IN  /\ Len(read) <= MaxResult + Len(NoteText)
      /\ Len(WrittenCode) <= MaxResult /\ ~Foreign =>
           read = IF LooksLikeHtml(WrittenCode) THEN Collapsed(ShownText) ELSE WrittenCode

\* A request that is too long loses the ends of its oldest results only: nothing but a long
\* result is cut, and none behind one that is left whole; then it fits, but for the notes,
\* unless no long result is left; and where characters are bytes no cut was in vain.
OldestCutFirst ==
  LET after == EnforcePromptBudget(request)
      cuts == {i \in DOMAIN after : after[i].cut}
      whole == {i \in DOMAIN after : IsLong(after[i]) /\ ~after[i].cut}
      before(j) == [i \in DOMAIN after |-> IF i < j THEN after[i] ELSE request[i]]
  IN  /\ \A i \in cuts : IsLong(request[i])
      /\ \A i \in whole, j \in cuts : j < i
      /\ \A i \in DOMAIN after \ cuts : after[i] = request[i]
      /\ whole # {} => EstimateMessages(after) <= MaxPrompt + 3 * NoticeSize * Cardinality(cuts)
      /\ (\A i \in DOMAIN request : request[i].width = 1) =>
           \A j \in cuts : EstimateMessages(before(j)) > MaxPrompt
=============================================================================
