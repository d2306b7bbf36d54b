----------------------------- MODULE JsonRepair -----------------------------
(***************************************************************************)
(* What becomes of the arguments of a tool call that are no JSON           *)
(* (llm/json_repair.rs): repair_json runs four passes over the text; when  *)
(* that does not parse either, single fields are picked out of it.  A text *)
(* is a sequence of symbols; what the passes do not tell apart is the      *)
(* symbol x.                                                               *)
(***************************************************************************)
EXTENDS Integers, SequencesExt

CONSTANTS RepairUnits,      \* what a value is made of
          MaxUnits          \* bound: units of the long value

VARIABLES sample   \* the arguments a model meant, and how it wrote them down

Quotes == {"Q", "A"}              \* double quote and apostrophe
Whitespace == {" ", "N"}
Closing == {"}", "]"}
-----------------------------------------------------------------------------
\* normalize_quotes: the quote that opened a string closes it, and both become
\* double quotes; an escaped symbol is passed over
NormalStep(st, b) ==
  CASE st.esc -> [st EXCEPT !.out = Append(@, b), !.esc = FALSE]
    [] ~st.esc /\ st.in = "-" /\ b \in Quotes ->
         [st EXCEPT !.out = Append(@, "Q"), !.in = b]
    [] ~st.esc /\ st.in # "-" /\ b = "B" -> [st EXCEPT !.out = Append(@, b), !.esc = TRUE]
    [] ~st.esc /\ st.in # "-" /\ b = st.in -> [st EXCEPT !.out = Append(@, "Q"), !.in = "-"]
    [] OTHER -> [st EXCEPT !.out = Append(@, b)]
\* (mutant) a quote of either kind closes the string
NormalStepAny(st, b) ==
  IF ~st.esc /\ st.in # "-" /\ b \in Quotes THEN [st EXCEPT !.out = Append(@, "Q"), !.in = "-"]
  ELSE NormalStep(st, b)
NormalizeQuotesAny(s) == FoldLeft(NormalStepAny, [out |-> <<>>, in |-> "-", esc |-> FALSE], s).out
NormalizeQuotes(s) == FoldLeft(NormalStep, [out |-> <<>>, in |-> "-", esc |-> FALSE], s).out

\* escape_control_in_strings: a raw line break inside a string is written as an
\* escape
EscapeStep(st, b) ==
  CASE st.esc -> [st EXCEPT !.out = Append(@, b), !.esc = FALSE]
    [] ~st.esc /\ b = "Q" -> [st EXCEPT !.out = Append(@, b), !.in = ~@]
    [] ~st.esc /\ st.in /\ b = "B" -> [st EXCEPT !.out = Append(@, b), !.esc = TRUE]
    [] ~st.esc /\ st.in /\ b = "N" -> [st EXCEPT !.out = @ \o <<"B", "n">>]
    [] OTHER -> [st EXCEPT !.out = Append(@, b)]
EscapeControl(s) == FoldLeft(EscapeStep, [out |-> <<>>, in |-> FALSE, esc |-> FALSE], s).out

\* find_closing_quote: 0 when there is none
RECURSIVE ClosingQuote(_, _)
ClosingQuote(s, from) ==
  IF from > Len(s) THEN 0
  ELSE IF s[from] = "B" THEN ClosingQuote(s, from + 2)
  ELSE IF s[from] = "Q" THEN from ELSE ClosingQuote(s, from + 1)
LastBefore(s, i, wanted) ==
  LET at == {j \in 1 .. i - 1 : s[j] \in wanted}
  IN  IF at = {} THEN 0 ELSE CHOOSE j \in at : \A k \in at : k <= j
\* is_object_key: by what stands before the quote before this one
IsObjectKey(s, i) ==
  LET p == LastBefore(s, i, {"Q"})
      q == LastBefore(s, p, {s[j] : j \in DOMAIN s} \ Whitespace)
  IN  p <= 1 \/ q = 0 \/ s[q] \in {"{", ",", "["}
\* fix_missing_colons: a string right after a key becomes its value, unless it is empty
RECURSIVE FixFrom(_, _)
FixFrom(s, i) ==
  LET close == ClosingQuote(s, i + 1)
      j == CHOOSE n \in close + 1 .. Len(s) + 1 :
             /\ n > Len(s) \/ s[n] # " "
             /\ \A m \in close + 1 .. n - 1 : s[m] = " "
  IN  CASE i > Len(s) -> <<>>
        [] i <= Len(s) /\ s[i] # "Q" -> <<s[i]>> \o FixFrom(s, i + 1)
        [] i <= Len(s) /\ s[i] = "Q" /\ close = 0 -> SubSeq(s, i, Len(s))
        [] OTHER -> SubSeq(s, i, close) \o
             (IF j <= Len(s) /\ s[j] = "Q" /\ ClosingQuote(s, j + 1) # j + 1 /\ IsObjectKey(s, i)
              THEN <<":", " ", "Q">> \o FixFrom(s, j + 1)
              ELSE FixFrom(s, close + 1))
FixMissingColons(s) == FixFrom(s, 1)

\* a comma before a closing bracket is dropped, wherever it is
DropStep(out, b) ==
  IF b \in Closing /\ out # <<>> /\ Last(out) = "," THEN Append(Front(out), b) ELSE Append(out, b)
DropTrailingCommas(s) == FoldLeft(DropStep, <<>>, s)

RepairJson(s) == DropTrailingCommas(FixMissingColons(EscapeControl(NormalizeQuotes(s))))
-----------------------------------------------------------------------------
(***************************************************************************)
(* Picking fields out of what cannot be repaired.                          *)
(***************************************************************************)
\* the text after key, its colon and its opening quote; <<>> without them
After(s, key) ==
  LET marker == <<"Q", key, "Q">>
      at == {i \in 1 .. Len(s) - 2 : SubSeq(s, i, i + 2) = marker}
      from == (CHOOSE i \in at : \A j \in at : i <= j) + 3
      colons == {i \in from .. Len(s) : s[i] = ":"}
      colon == CHOOSE i \in colons : \A j \in colons : i <= j
      start == CHOOSE i \in colon + 1 .. Len(s) + 1 :
                 /\ i > Len(s) \/ s[i] \notin Whitespace
                 /\ \A j \in colon + 1 .. i - 1 : s[j] \in Whitespace
  IN  IF at = {} \/ colons = {} \/ start > Len(s) \/ s[start] # "Q" THEN <<>>
      ELSE SubSeq(s, start + 1, Len(s))
\* read_simple_field: up to the next quote that is not escaped
RECURSIVE SimpleValue(_)
SimpleValue(s) ==
  CASE s = <<>> -> <<>>
    [] s # <<>> /\ Head(s) = "B" -> SubSeq(s, 1, 2) \o SimpleValue(SubSeq(s, 3, Len(s)))
    [] s # <<>> /\ Head(s) = "Q" -> <<>>
    [] OTHER -> <<Head(s)>> \o SimpleValue(Tail(s))
\* (mutant) a bracket after a quote ends the field wherever it is
EndsFieldBlind(s, depth) == Tail(s) # <<>> /\ s[2] \in Closing
\* a quote ends the field when a bracket follows that no bracket in the value opened
EndsField(s, depth) == depth <= 0 /\ Tail(s) # <<>> /\ s[2] \in Closing
\* read_terminal_field: the value may hold quotes nobody escaped
RECURSIVE TerminalValue(_, _)
TerminalValue(s, depth) ==
  CASE s = <<>> -> <<>>
    [] s # <<>> /\ Head(s) = "B" -> SubSeq(s, 1, 2) \o TerminalValue(SubSeq(s, 3, Len(s)), depth)
    [] s # <<>> /\ Head(s) = "Q" /\ EndsField(s, depth) -> <<>>
    [] s # <<>> /\ Head(s) = "{" -> <<"{">> \o TerminalValue(Tail(s), depth + 1)
    [] s # <<>> /\ Head(s) = "}" -> <<"}">> \o TerminalValue(Tail(s), depth - 1)
    [] OTHER -> <<Head(s)>> \o TerminalValue(Tail(s), depth)
\* extract_tool_args_tolerant of write_file
Extract(s) == [path |-> SimpleValue(After(s, "p")), content |-> TerminalValue(After(s, "c"), 0)]
-----------------------------------------------------------------------------
(***************************************************************************)
(* The samples: path and content, written down with these slips.           *)
(***************************************************************************)
Flat(units) == FlattenSeq(units)
SampleContents == UNION {[1 .. n -> RepairUnits] : n \in 0 .. MaxUnits}
RepairInit ==
  sample \in [content : SampleContents, quote : Quotes, colon : BOOLEAN, comma : BOOLEAN]
RepairNext == UNCHANGED sample

Str(q, s) == <<q>> \o s \o <<q>>
Pair(q, k, colon, v) == Str(q, <<k>>) \o (IF colon THEN <<":", " ">> ELSE <<" ">>) \o Str(q, v)
Object(q, colon, comma, content) ==
  <<"{">> \o Pair(q, "p", colon, <<"x">>) \o <<",", " ">> \o Pair(q, "c", TRUE, content)
    \o (IF comma THEN <<",">> ELSE <<>>) \o <<"}">>
Meant == Flat(sample.content)
\* what a sound text has for a line break
Escaped == FlattenSeq([i \in DOMAIN Meant |-> IF Meant[i] = "N" THEN <<"B", "n">> ELSE <<Meant[i]>>])
Written == Object(sample.quote, sample.colon, sample.comma, Meant)
Sound == Object("Q", TRUE, FALSE, Escaped)

Holds(x) == \E i \in DOMAIN Meant : Meant[i] = x
\* a double quote always stands escaped in a value that can be repaired; and an
\* empty value after a missing colon is taken for one more missing colon, because
\* the pass goes on inside the string it put the colon before
Repairable ==
  /\ sample.colon \/ Meant # <<>>
  /\ ~(sample.quote = "A" /\ Holds("A"))
  /\ \A i \in DOMAIN Meant : Meant[i] = "Q" => i > 1 /\ Meant[i - 1] = "B"
CommaBeforeBracket == \E i \in 1 .. Len(Meant) - 1 : Meant[i] = "," /\ Meant[i + 1] \in Closing
Opened(i) == Cardinality({j \in 1 .. i : Meant[j] = "{"})
Closed(i) == Cardinality({j \in 1 .. i : Meant[j] = "}"})
Balanced ==
  /\ \A i \in DOMAIN Meant : Closed(i) <= Opened(i)
  /\ Opened(Len(Meant)) = Closed(Len(Meant))

\* A path and a content that were written with apostrophes around them, raw line
\* breaks in them, no colon after the first key or a comma too many come out of
\* the repair as they were meant, whatever quotes, escapes and brackets they hold.
RepairRecovers ==
  Repairable /\ ~CommaBeforeBracket => RepairJson(Written) = Sound

\* A content with quotes nobody escaped is picked out whole when its braces match.
TolerantRecovers ==
  sample.quote = "Q" /\ sample.colon /\ ~sample.comma /\ Balanced
    => Extract(Written) = [path |-> <<"x">>, content |-> Meant]

\* The repair leaves what is inside a value alone (the tests of json_repair.rs
\* that compare a value with what was written).
RepairKeepsValues == Repairable => RepairJson(Written) = Sound
=============================================================================
