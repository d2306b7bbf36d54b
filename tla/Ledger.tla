------------------------------- MODULE Ledger -------------------------------
(***************************************************************************)
(* The run ledger (agent/ledger_sqlite.rs): begin, checkpoint and finish   *)
(* are statements of their own, steps go through a channel to a writer     *)
(* thread that inserts them in batches, one transaction each.  A statement *)
(* that fails is dropped.  finish waits for the writer to have written     *)
(* what is in the channel.                                                 *)
(***************************************************************************)
EXTENDS Naturals, FiniteSets, SequencesExt

CONSTANTS LedgerRuns, LedgerKits, FlushBatch

ASSUME LedgerConstants == FlushBatch \in Nat \ {0}

VARIABLES
  runRow,     \* runs.status, "absent" when begin did not reach the table
  sent,       \* steps a run has handed in, in order
  channel,    \* mpsc: steps and the flushes callers wait for
  buf,        \* the writer's batch
  nextSeq,    \* the writer's counter of a run
  stepRows,   \* run_steps, in order of id
  ending,     \* where a run is in finish
  faulty,     \* a flush was dropped, or the program went down
  ledgerKit   \* what is left of the bounds

ledgerVars == <<runRow, sent, channel, buf, nextSeq, stepRows, ending, faulty, ledgerKit>>

StepMsg(r, n) == [run |-> r, n |-> n]
FlushMsg(r) == [run |-> r, n |-> 0]
Pay(f) == ledgerKit[f] > 0 /\ ledgerKit' = [ledgerKit EXCEPT ![f] = @ - 1]

LedgerInit ==
  /\ runRow = [r \in LedgerRuns |-> "none"]
  /\ sent = [r \in LedgerRuns |-> 0]
  /\ channel = <<>> /\ buf = <<>>
  /\ nextSeq = [r \in LedgerRuns |-> 0]
  /\ stepRows = <<>>
  /\ ending = [r \in LedgerRuns |-> "no"]
  /\ faulty = FALSE /\ ledgerKit \in LedgerKits

BeginRun(r) ==
  /\ runRow[r] = "none"
  /\ \/ runRow' = [runRow EXCEPT ![r] = "running"] /\ UNCHANGED ledgerKit
     \/ runRow' = [runRow EXCEPT ![r] = "absent"] /\ Pay("faults")
  /\ UNCHANGED <<sent, channel, buf, nextSeq, stepRows, ending, faulty>>

Open(r) == runRow[r] \in {"running", "absent"} /\ ending[r] = "no"
Step(r) ==
  /\ Open(r) /\ Pay("steps")
  /\ sent' = [sent EXCEPT ![r] = @ + 1]
  /\ channel' = Append(channel, StepMsg(r, sent[r] + 1))
  /\ UNCHANGED <<runRow, buf, nextSeq, stepRows, ending, faulty>>

\* (mutant) a finish that does not wait for the writer
FinishNow(r) ==
  /\ Open(r)
  /\ ending' = [ending EXCEPT ![r] = "flushed"]
  /\ UNCHANGED <<runRow, sent, channel, buf, nextSeq, stepRows, faulty, ledgerKit>>

\* finish: a flush is queued, its answer awaited, then the row is closed
FinishFlush(r) ==
  /\ Open(r)
  /\ channel' = Append(channel, FlushMsg(r))
  /\ ending' = [ending EXCEPT ![r] = "waiting"]
  /\ UNCHANGED <<runRow, sent, buf, nextSeq, stepRows, faulty, ledgerKit>>
FinishRow(r) ==
  /\ ending[r] = "flushed"
  /\ runRow' = [runRow EXCEPT ![r] = IF @ = "running" THEN "ended" ELSE @]
  /\ ending' = [ending EXCEPT ![r] = "done"]
  /\ UNCHANGED <<sent, channel, buf, nextSeq, stepRows, faulty, ledgerKit>>

\* how many of the first i steps are the run's
StepsOf(r, steps, i) == Cardinality({j \in 1 .. i : steps[j].run = r})
\* (mutant) numbering that starts over with every batch
NumberedPerBatch(batch) ==
  [i \in DOMAIN batch |->
     [run |-> batch[i].run, n |-> batch[i].n, seq |-> StepsOf(batch[i].run, batch, i)]]

\* flush: the rows are numbered per run first; then they are inserted in one
\* transaction, which any row without its run (a foreign key) or a busy
\* database undoes; the batch is gone either way
Numbered(batch) ==
  [i \in DOMAIN batch |->
     [run |-> batch[i].run, n |-> batch[i].n,
      seq |-> nextSeq[batch[i].run] + StepsOf(batch[i].run, batch, i)]]
Flush(batch) ==
  LET new == Numbered(batch)
      sound == \A i \in DOMAIN batch : runRow[batch[i].run] # "absent"
  IN  /\ nextSeq' = [r \in LedgerRuns |-> nextSeq[r] + StepsOf(r, batch, Len(batch))]
      /\ buf' = <<>>
      /\ \/ /\ sound /\ stepRows' = stepRows \o new
            /\ UNCHANGED <<faulty, ledgerKit>>
         \/ /\ ~sound
            /\ faulty' = TRUE /\ UNCHANGED <<stepRows, ledgerKit>>
         \/ /\ batch # <<>> /\ sound /\ Pay("faults")
            /\ faulty' = TRUE /\ UNCHANGED stepRows

\* (mutant) a finish is only answered when something was written
AcknowledgeWritten(r) ==
  ending' = IF buf = <<>> THEN ending ELSE [ending EXCEPT ![r] = "flushed"]

\* the answer a finish waits for
Acknowledge(r) == ending' = [ending EXCEPT ![r] = "flushed"]

\* one turn of the writer's loop; the timeout is a turn without a message
Receive ==
  /\ channel # <<>>
  /\ channel' = Tail(channel)
  /\ LET m == Head(channel)
     IN  \/ /\ m.n > 0 /\ Len(buf) + 1 < FlushBatch
            /\ buf' = Append(buf, m)
            /\ UNCHANGED <<nextSeq, stepRows, ending, faulty, ledgerKit>>
         \/ /\ m.n > 0 /\ Len(buf) + 1 >= FlushBatch
            /\ Flush(Append(buf, m)) /\ UNCHANGED ending
         \/ /\ m.n = 0 /\ Flush(buf) /\ Acknowledge(m.run)
  /\ UNCHANGED <<runRow, sent>>
FlushTimer ==
  /\ buf # <<>> /\ Flush(buf)
  /\ UNCHANGED <<runRow, sent, channel, ending>>

\* what is in the channel and in the batch is gone, the rows stay
LedgerCrash ==
  /\ Pay("crash")
  /\ channel' = <<>> /\ buf' = <<>>
  /\ nextSeq' = [r \in LedgerRuns |-> 0]
  /\ ending' = [r \in LedgerRuns |-> "done"]
  /\ runRow' = [r \in LedgerRuns |-> IF runRow[r] = "none" THEN "absent" ELSE runRow[r]]
  /\ faulty' = TRUE
  /\ UNCHANGED <<sent, stepRows>>

LedgerNext ==
  \/ \E r \in LedgerRuns : BeginRun(r) \/ Step(r) \/ FinishFlush(r) \/ FinishRow(r)
  \/ Receive \/ FlushTimer \/ LedgerCrash
LedgerSpec == LedgerInit /\ [][LedgerNext]_ledgerVars
LedgerFairness == WF_ledgerVars(Receive) /\ \A r \in LedgerRuns : WF_ledgerVars(FinishRow(r))
-----------------------------------------------------------------------------
\* When a run's row is closed, every step it handed in is in the table, whatever
\* the other runs put into the same batches; only a dropped batch takes steps along.
ClosedRunsAreComplete ==
  \A r \in LedgerRuns :
    runRow[r] = "ended" /\ ~faulty => StepsOf(r, stepRows, Len(stepRows)) = sent[r]

\* A run's steps are numbered upwards in the order they were handed in, also past
\* a batch that was dropped: a gap shows that something is missing.
StepsNumbered ==
  \A i \in DOMAIN stepRows :
    /\ stepRows[i].seq = stepRows[i].n
    /\ \A j \in 1 .. i - 1 :
         stepRows[j].run = stepRows[i].run => stepRows[j].seq < stepRows[i].seq

\* Whoever waits in finish gets its answer: the writer always comes round.
FinishReturns == \A r \in LedgerRuns : ending[r] = "waiting" ~> ending[r] = "done"

\* The writer that batches the steps of all runs keeps each run's account: whole and
\* in order when the run's row closes.
LedgerKept == ClosedRunsAreComplete /\ StepsNumbered
=============================================================================
