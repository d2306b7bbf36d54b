---------------------------- MODULE WorkerLease ----------------------------
(***************************************************************************)
(* What the worker pool promises: a worker is leased to at most one        *)
(* activity, which took it while it was free; an activity may hand the     *)
(* lease it holds to the future it spawns, and gives it back once.  A      *)
(* restart of the process forgets every lease.                             *)
(***************************************************************************)
CONSTANTS Workers, Procs

VARIABLE lease     \* lease[w]: the activities that hold worker w

LeaseInit == lease = [w \in Workers |-> {}]

Take(w, p) == lease[w] = {} /\ lease' = [lease EXCEPT ![w] = {p}]
Hand(w, p, q) == lease[w] = {p} /\ lease' = [lease EXCEPT ![w] = {q}]
Give(w, p) == lease[w] = {p} /\ lease' = [lease EXCEPT ![w] = {}]
Forfeit == lease' = [w \in Workers |-> {}]

LeaseNext ==
  \/ \E w \in Workers, p \in Procs : Take(w, p) \/ Give(w, p)
  \/ \E w \in Workers, p, q \in Procs : Hand(w, p, q)
  \/ Forfeit

LeaseSpec == LeaseInit /\ [][LeaseNext]_lease
=============================================================================
