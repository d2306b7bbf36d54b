------------------------------- MODULE History -------------------------------
(***************************************************************************)
(* What a run sends to the model of a session's stored messages            *)
(* (agent/engine/engine_history.rs and agent/compaction.rs): an old        *)
(* stretch is folded into a summary, the rest is replayed, and the tool    *)
(* messages are repaired until every call has exactly one result.          *)
(***************************************************************************)
EXTENDS Naturals, SequencesExt

CONSTANTS
  FoldAt,      \* COMPACTION_MSG_THRESHOLD
  KeepRecent,  \* KEEP_RECENT
  RunMin,      \* IN_RUN_COMPACT_MIN_MSGS
  RunTail      \* IN_RUN_KEEP_TAIL

ASSUME HistoryConstants ==
  /\ {FoldAt, KeepRecent, RunMin, RunTail} \subseteq Nat \ {0}
  /\ RunTail < RunMin

\* a stored message: its row id, what it is, its call id (call_0 is 1 here, and
\* 0 marks a message without one) and the run that wrote it
NoCall == 0
Message(id, role, call, run) == [id |-> id, role |-> role, call |-> call, run |-> run]

\* an entry of a request: what it is, the call it carries, the stored message
\* it shows (0 for one the engine made up)
Item(kind, call, of) == [kind |-> kind, call |-> call, of |-> of]

(***************************************************************************)
(* Folding.                                                                *)
(***************************************************************************)
NoWindow == [start |-> 0, end |-> 0]
\* the messages up to and with the first one of the user
FirstUser(h) ==
  LET us == {i \in DOMAIN h : h[i].role = "user"}
  IN  IF us = {} THEN 0 ELSE CHOOSE i \in us : \A j \in us : i <= j

Minus(a, b) == IF a < b THEN 0 ELSE a - b
Larger(a, b) == IF a < b THEN b ELSE a
\* compute_fold_window: messages start + 1 .. end go into the summary
FoldWindow(len, firstUser, cursor) ==
  LET w == [start |-> Larger(firstUser, cursor), end |-> Minus(len, KeepRecent)]
  IN  IF len <= KeepRecent + 2 \/ w.end <= w.start THEN NoWindow ELSE w
\* (mutant) one message more is left out than the summary covers
SkipWindowLong(len, firstUser, cursor) ==
  LET w == [start |-> Larger(firstUser, cursor), end |-> Minus(len, KeepRecent) + 1]
  IN  IF w.end > w.start THEN w ELSE NoWindow

\* build_messages computes the messages it leaves out once more
SkipWindow(len, firstUser, cursor) ==
  LET w == [start |-> Larger(firstUser, cursor), end |-> Minus(len, KeepRecent)]
  IN  IF w.end > w.start THEN w ELSE NoWindow

(***************************************************************************)
(* Replay: one pass over the history that renumbers the calls.             *)
(***************************************************************************)
Folded(win, i) == i > win.start /\ i <= win.end
\* the entries for one message: n calls seen, `last` the call still open
Replayed(acc, m) ==
  CASE m.role = "user" ->
         [out |-> Append(acc.out, Item("user", NoCall, m.id)),
          n |-> acc.n, last |-> NoCall]
    [] m.role = "answer" ->
         [out |-> Append(acc.out, Item("answer", NoCall, m.id)),
          n |-> acc.n, last |-> NoCall]
    [] m.role = "call" ->
         [out |-> Append(acc.out, Item("call", acc.n, m.id)),
          n |-> acc.n + 1, last |-> acc.n]
    [] m.role = "result" ->
         [out |-> Append(acc.out, Item("result", IF acc.last = NoCall THEN acc.n
                                                 ELSE acc.last, m.id)),
          n |-> acc.n, last |-> NoCall]
\* the summary stands where the window ends
ReplayAt(acc, h, win, i) ==
  IF Folded(win, i) THEN acc
  ELSE Replayed(IF win # NoWindow /\ i = win.end + 1
                THEN [acc EXCEPT !.out = Append(@, Item("summary", NoCall, 0))]
                ELSE acc, h[i])
Replay(h, win) ==
  FoldLeft(LAMBDA acc, i : ReplayAt(acc, h, win, i),
           [out |-> <<>>, n |-> 1, last |-> NoCall], [i \in DOMAIN h |-> i])

(***************************************************************************)
(* sanitize_tool_messages                                                  *)
(***************************************************************************)
\* (mutant) a call whose result never came is forgotten
CloseOpenSilently(acc) == [out |-> acc.out, open |-> <<>>]

\* a call whose result never came gets a placeholder before anything else
CloseOpen(acc) ==
  [out |-> acc.out \o [k \in DOMAIN acc.open |-> Item("result", acc.open[k], 0)],
   open |-> <<>>]
SanitizeItem(acc, it) ==
  CASE it.kind = "call" ->
         LET c == CloseOpen(acc)
         IN  [out |-> Append(c.out, it), open |-> Append(c.open, it.call)]
    [] it.kind = "result" ->
         IF \E k \in DOMAIN acc.open : acc.open[k] = it.call
         THEN [out |-> Append(acc.out, it),
               open |-> SelectSeq(acc.open, LAMBDA c : c # it.call)]
         ELSE acc
    [] OTHER -> [out |-> Append(CloseOpen(acc).out, it), open |-> <<>>]
Sanitize(items) ==
  CloseOpen(FoldLeft(SanitizeItem, [out |-> <<>>, open |-> <<>>], items)).out

(***************************************************************************)
(* Compaction inside a run (agent/engine/engine_loop.rs).                  *)
(***************************************************************************)
SystemPrompt == Item("system", NoCall, 0)
IsUser(it) == it.kind \in {"user", "summary"}
\* find_compact_boundary: the last user message that leaves a whole tail, and
\* never the one right after the system prompt; 0 when there is none
CompactBoundary(req) ==
  LET ks == {k \in 3 .. Len(req) : k <= Len(req) - RunTail + 1 /\ IsUser(req[k])}
  IN  IF Len(req) < 2 \/ req[1] # SystemPrompt \/ ks = {} THEN 0
      ELSE CHOOSE k \in ks : \A x \in ks : x <= k
\* maybe_in_run_compact: everything before the boundary becomes one summary
InRunCompact(req) ==
  LET k == CompactBoundary(req)
  IN  IF Len(req) < RunMin \/ k = 0 THEN req
      ELSE <<req[1], Item("summary", NoCall, 0)>> \o SubSeq(req, k, Len(req))

(***************************************************************************)
(* What a well-formed request is.                                          *)
(***************************************************************************)
Paired(req) ==
  \A i \in DOMAIN req :
    /\ req[i].kind = "call" =>
         i < Len(req) /\ req[i + 1].kind = "result" /\ req[i + 1].call = req[i].call
    /\ req[i].kind = "result" => i > 1 /\ req[i - 1].kind = "call"
Shown(req) == {req[i].of : i \in DOMAIN req} \ {0}
=============================================================================
