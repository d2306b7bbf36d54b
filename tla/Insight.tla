------------------------------ MODULE Insight ------------------------------
(***************************************************************************)
(* What a group's and a seat's runs cost (agent/insight.rs) and the replay *)
(* that is exported of them (commands/insight.rs, commands/redact.rs). The *)
(* totals, the prices, the runs and their steps are read one statement     *)
(* after the other while runs begin, step and finish.                      *)
(***************************************************************************)
EXTENDS Integers, FiniteSets, SequencesExt, Functions

CONSTANTS
  SeatOf,          \* the seats of one group's runs, in order of their start
  InsightKits,     \* how many runs, their steps, tokens and models, the price table, the limit
  Texts            \* digests to redact

VARIABLES
  insightKit,
  runRows,     \* status, tokens and steps of the runs that have begun
  view,        \* what the reader has so far
  digestText
insightVars == <<insightKit, runRows, view, digestText>>

Begun == DOMAIN runRows
OfSeat(seat) == {r \in Begun : SeatOf[r] = seat}
TokensOf(rows, rs) == SumFunctionOnSet([r \in DOMAIN rows |-> rows[r].tokens], rs)

\* CostTable::lookup: the first entry that matches, "*" matches all; 2 without one
Lookup(table, model) ==
  LET hits == {i \in DOMAIN table : table[i].pattern \in {"*", model}}
  IN  IF hits = {} THEN 2 ELSE table[CHOOSE i \in hits : \A j \in hits : i <= j].price
CostOf(rows, rs) ==
  SumFunctionOnSet([r \in DOMAIN rows |-> rows[r].tokens * Lookup(insightKit.table, insightKit.model[r])], rs)
-----------------------------------------------------------------------------
\* the ledger: a run begins with no tokens, gets steps, and its tokens when it finishes
RunBegins ==
  LET r == Cardinality(Begun) + 1 IN
    /\ r <= insightKit.runs
    /\ runRows' = [q \in Begun \cup {r} |->
                     IF q = r THEN [status |-> "running", tokens |-> 0, steps |-> 0] ELSE runRows[q]]
    /\ UNCHANGED <<insightKit, view, digestText>>
RunSteps ==
  \E r \in Begun :
    /\ runRows[r].status = "running" /\ runRows[r].steps < insightKit.steps
    /\ runRows' = [runRows EXCEPT ![r].steps = @ + 1]
    /\ UNCHANGED <<insightKit, view, digestText>>
RunFinishes ==
  \E r \in Begun, status \in {"ok", "failed"} :
    /\ runRows[r].status = "running"
    /\ runRows' = [runRows EXCEPT ![r].status = status, ![r].tokens = insightKit.tokens]
    /\ UNCHANGED <<insightKit, view, digestText>>

NoView == [at |-> "idle", who |-> "group", before |-> <<>>, count |-> 0, tokens |-> 0, success |-> 0,
           cost |-> 0, runs |-> <<>>, tokensOf |-> <<>>, steps |-> <<>>]
\* whose runs: the group's or one seat's
Mine == IF view.who = "group" THEN Begun ELSE OfSeat(view.who)
\* bound: one reading of a behaviour
StartView ==
  /\ view = NoView
  /\ \E who \in {"group"} \cup Range(SeatOf) :
       view' = [NoView EXCEPT !.at = "totals", !.who = who, !.before = runRows]
  /\ UNCHANGED <<insightKit, runRows, digestText>>
\* group_summary, seat_summary: the totals, then the rows the prices are put to
ReadTotals ==
  /\ view.at = "totals"
  /\ view' = [view EXCEPT !.at = "prices", !.count = Cardinality(Mine), !.tokens = TokensOf(runRows, Mine),
                          !.success = Cardinality({r \in Mine : runRows[r].status = "ok"})]
  /\ UNCHANGED <<insightKit, runRows, digestText>>
ReadPrices ==
  /\ view.at = "prices"
  /\ view' = [view EXCEPT !.at = "runs", !.cost = CostOf(runRows, Mine)]
  /\ UNCHANGED <<insightKit, runRows, digestText>>
\* group_runs from the oldest, seat_runs from the newest and not more than the limit
RunsInOrder(rs) == SetToSortSeq(rs, LAMBDA a, b : a < b)
ShortList(s, n) == SubSeq(s, 1, IF Len(s) < n THEN Len(s) ELSE n)
ReadRuns ==
  /\ view.at = "runs"
  /\ view' = [view EXCEPT !.at = IF view.who = "group" THEN "steps" ELSE "idle",
                          !.tokensOf = [r \in Mine |-> runRows[r].tokens],
                          !.runs = IF view.who = "group" THEN RunsInOrder(Mine)
                                   ELSE ShortList(Reverse(RunsInOrder(Mine)), insightKit.limit)]
  /\ UNCHANGED <<insightKit, runRows, digestText>>
\* (mutant) the steps of all runs that have begun by then
AllSteps(rs) == [r \in Begun |-> runRows[r].steps]
\* the steps are read for the whole group and given to the runs of the list
StepsOf(rs) == [r \in rs |-> runRows[r].steps]
ReadSteps ==
  /\ view.at = "steps"
  /\ view' = [view EXCEPT !.at = "idle", !.steps = StepsOf(ToSet(view.runs))]
  /\ UNCHANGED <<insightKit, runRows, digestText>>

InsightNext ==
  \/ RunBegins \/ RunSteps \/ RunFinishes
  \/ StartView \/ ReadTotals \/ ReadPrices \/ ReadRuns \/ ReadSteps
-----------------------------------------------------------------------------
(***************************************************************************)
(* The export: every complete block of personal memory is replaced.        *)
(***************************************************************************)
Opens(k) == "<" \o k
Closes(k) == "/" \o k
FirstAt(s, from, x) ==
  LET at == {i \in from .. Len(s) : s[i] = x} IN IF at = {} THEN 0 ELSE CHOOSE i \in at : \A j \in at : i <= j
\* (mutant) the first block only
ReplaceFirst(s, k) ==
  LET open == FirstAt(s, 1, Opens(k))
      close == IF open = 0 THEN 0 ELSE FirstAt(s, open, Closes(k))
  IN  IF close = 0 THEN s ELSE SubSeq(s, 1, open - 1) \o <<"hidden">> \o SubSeq(s, close + 1, Len(s))
\* replace_blocks: from an opening tag to the next closing one, then on behind it; a block
\* that is not closed stays
ReplaceStep(s, k, acc, i) ==
  LET close == FirstAt(s, i, Closes(k))
  IN  CASE i <= acc.to -> acc
        [] i > acc.to /\ s[i] = Opens(k) /\ close # 0 ->
             [to |-> close, out |-> Append(acc.out, "hidden")]
        [] OTHER -> [acc EXCEPT !.out = Append(@, s[i])]
ReplaceBlocks(s, k) ==
  FoldLeft(LAMBDA acc, i : ReplaceStep(s, k, acc, i), [to |-> 0, out |-> <<>>],
           [i \in DOMAIN s |-> i]).out
RedactSensitive(s) == FoldLeft(ReplaceBlocks, s, <<"u", "p">>)

InsightInit ==
  /\ insightKit \in InsightKits
  /\ runRows = <<>>
  /\ view = NoView
  /\ digestText \in Texts
-----------------------------------------------------------------------------
\* What is shown of the costs was true while it was read: the totals are at least those of
\* the moment the reading began, and the runs listed cover them; they add up to exactly what
\* is listed unless a run began or finished in between. Every run that had begun is listed,
\* in order, with the steps it had; a seat's list is its newest runs.
TotalsCovered ==
  LET then == IF view.who = "group" THEN DOMAIN view.before
              ELSE {r \in DOMAIN view.before : SeatOf[r] = view.who}
      listed == DOMAIN view.tokensOf
      sum == SumFunctionOnSet([r \in listed |-> view.tokensOf[r]], listed)
  IN  /\ view.at = "idle" /\ view.before # <<>> =>
           /\ view.count \in Cardinality(then) .. Cardinality(listed)
           /\ view.tokens \in TokensOf(view.before, then) .. sum
           /\ view.success <= view.count
           /\ view.cost >= CostOf(view.before, then)
           /\ view.before = runRows => view.tokens = sum /\ view.cost = CostOf(runRows, listed)
           /\ then \subseteq listed
           /\ view.who = "group" =>
                ToSet(view.runs) = listed /\ \A r \in listed : r \in then => view.steps[r] >= view.before[r].steps
           /\ view.who # "group" =>
                \A r \in listed \ ToSet(view.runs) :
                  Len(view.runs) = insightKit.limit /\ \A q \in ToSet(view.runs) : q > r
      /\ view.steps # <<>> => DOMAIN view.steps = ToSet(view.runs)

CountOf(s, x) == Cardinality({i \in DOMAIN s : s[i] = x})
InBlock(s, i) ==
  \E k \in {"u", "p"} : \E a \in 1 .. i, b \in i .. Len(s) :
    s[a] = Opens(k) /\ s[b] = Closes(k) /\ \A j \in a .. b - 1 : s[j] # Closes(k)
\* every block is closed, behind those within it, and none holds its own tag
NestStep(open, x) ==
  CASE x \in {Opens("u"), Opens("p")} /\ x \notin ToSet(open) -> Append(open, x)
    [] open # <<>> /\ \E k \in {"u", "p"} : x = Closes(k) /\ Last(open) = Opens(k) -> Front(open)
    [] x = "x" -> open
    [] OTHER -> Append(open, "never")
WellNested(s) == FoldLeft(NestStep, <<>>, s) = <<>>
\* In a replay no complete block of personal memory is left; of blocks that are nested as they
\* should be nothing is left at all, and what stands outside of them is all there.
RedactionHides ==
  LET out == RedactSensitive(digestText)
  IN  /\ \A k \in {"u", "p"} :
           ~\E a, b \in DOMAIN out : a < b /\ out[a] = Opens(k) /\ out[b] = Closes(k)
      /\ WellNested(digestText) =>
           CountOf(out, "x") = Cardinality({i \in DOMAIN digestText : digestText[i] = "x" /\ ~InBlock(digestText, i)})
=============================================================================
