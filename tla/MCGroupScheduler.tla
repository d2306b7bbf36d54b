-------------------------- MODULE MCGroupScheduler --------------------------
(***************************************************************************)
(* Small instances of GroupScheduler.  Three tasks in one batch, or two    *)
(* batches; each shape is a set of definitions a .cfg picks from.          *)
(***************************************************************************)
EXTENDS GroupScheduler, TLC

CONSTANTS t1, t2, t3, w1, w2, w3, b1, b2, a1, s1, s2

ProcSymmetry == Permutations(Procs)

OneBatch == [t \in Tasks |-> b1]
TwoBatches == [t \in Tasks |-> IF t = t1 THEN b1 ELSE b2]

\* t2 waits for t1
Chain == [t \in Tasks |-> IF t = t2 THEN {t1} ELSE {}]
NoDeps == [t \in Tasks |-> {}]

Unassigned == [t \in Tasks |-> NoWorker]
FirstToW1 == [t \in Tasks |-> IF t = t1 THEN w1 ELSE NoWorker]
OthersToW2 == [t \in Tasks |-> IF t = t2 THEN NoWorker ELSE w2]
OneEach == [t \in Tasks |-> IF t = t1 THEN w1 ELSE IF t = t3 THEN w2 ELSE NoWorker]
AllToW1 == [t \in Tasks |-> w1]

NoNeed == [t \in Tasks |-> {}]
NeedT3 == [t \in Tasks |-> IF t = t3 THEN {s1} ELSE {}]

Staffed == [w \in Workers |-> [agent |-> a1, caps |-> {s1}]]
\* w2 is a capability seat nobody fills yet, and no preset declares its skill
SeatW2 == [w \in Workers |-> IF w = w2 THEN [agent |-> NoAgent, caps |-> {s2}]
                                       ELSE [agent |-> a1, caps |-> {s1}]]
SkilledAgents == [a \in Agents |-> {s1}]
AllAuto == [b \in Batches |-> TRUE]
FirstAuto == [b \in Batches |-> b = b1]
=============================================================================
