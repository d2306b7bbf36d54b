------------------------------- MODULE Stores -------------------------------
(***************************************************************************)
(* The shared blackboard of a group (agent/blackboard_sqlite.rs, the tools *)
(* read_state and update_state, the owner's commands) and the versions of  *)
(* its communication policy (group/topology_repo.rs).  A blackboard write  *)
(* compares the version its author read and writes in one transaction; a   *)
(* policy takes the next version in one statement and is inserted in       *)
(* another.                                                                *)
(***************************************************************************)
EXTENDS Topology, FiniteSets

CONSTANTS Keys,        \* keys of the board
          Writers,     \* workers of the group with a turn under way
          GroupOwner,       \* the user at the board's and the policy's dialogs
          Policies,    \* the policies the owner may save
          MaxStoreWrites, MaxPolicies   \* bounds

ASSUME StoresConstants ==
  /\ MaxStoreWrites \in Nat /\ MaxPolicies \in Nat
  /\ NoPolicy \notin Policies

VARIABLES
  board,     \* blackboard: the row of a key, with the writes its value builds on
  draft,     \* what an author last read, and where it is in its write
  saved,     \* topology_policies: the versions of the group, newest last
  editor,    \* the dialogs that save a policy: the version they were given
  writes     \* bound: writes tried

storeVars == <<board, draft, saved, editor, writes>>
Authors == Writers \cup {GroupOwner}
Dialogs == {1, 2}

NoRow == [version |-> 0, value |-> {}]
NoDraft == [at |-> "idle", key |-> "none", version |-> 0, value |-> {}]
NoVersion == 0
Versions == 1 .. MaxPolicies

StoresInit ==
  /\ board = [k \in Keys |-> NoRow]
  /\ draft = [a \in Authors |-> NoDraft]
  /\ saved = [v \in Versions |-> NoPolicy]
  /\ editor = [d \in Dialogs |-> NoVersion]
  /\ writes = 0
-----------------------------------------------------------------------------
Declared(k) == board[k].version > 0
\* read, list: the value with its version; an undeclared key has neither
BoardRead(k) == board[k]

\* (mutant) a newer version is no conflict
CasDecisionLoose(current, expected) ==
  IF expected <= current THEN current + 1 ELSE 0
\* 0 for a conflict
CasDecision(current, expected) ==
  IF expected = current THEN current + 1 ELSE 0

\* cas_write, one transaction; the namespace bb:<group> is what it is given for
\* a session
CasWrite(a, k, value, expected) ==
  LET new == CasDecision(board[k].version, expected)
  IN  IF new = 0 THEN UNCHANGED board
      ELSE board' = [board EXCEPT ![k] = [version |-> new, value |-> value]]
\* a transaction that cannot be upgraded or committed leaves the row as it was
CasFails == UNCHANGED board

Latest == LET vs == {v \in Versions : saved[v] # NoPolicy}
          IN  IF vs = {} THEN NoPolicy
              ELSE saved[CHOOSE v \in vs : \A u \in vs : u <= v]
\* enforce_topology as cas_write asks it: bb:<group> is no rt: session
BoardMay(a) == MayReach(Latest, FALSE, a, Everyone, "Blackboard")

\* read_state, and the owner's snapshot
ReadState(a, k) ==
  /\ draft[a].at \in {"idle", "read"} /\ writes < MaxStoreWrites
  /\ a = GroupOwner \/ Declared(k)
  /\ draft' = [draft EXCEPT ![a] = [at |-> "read", key |-> k,
                                    version |-> BoardRead(k).version,
                                    value |-> BoardRead(k).value]]
  /\ UNCHANGED <<board, saved, editor, writes>>
\* update_state finds the key declared, before it writes
UpdateState(a) ==
  /\ a \in Writers /\ draft[a].at = "read" /\ Declared(draft[a].key)
  /\ draft' = [draft EXCEPT ![a].at = "checked"]
  /\ UNCHANGED <<board, saved, editor, writes>>
\* group_blackboard_set has no such check: the owner declares keys
BlackboardSet(a) ==
  /\ a = GroupOwner /\ draft[a].at = "read"
  /\ draft' = [draft EXCEPT ![a].at = "checked"]
  /\ UNCHANGED <<board, saved, editor, writes>>
\* an author adds to what it read; after a conflict it reads again, as it is told
TryWrite(a) ==
  LET k == draft[a].key
      id == writes + 1
  IN  /\ draft[a].at = "checked" /\ writes < MaxStoreWrites
      /\ \/ BoardMay(a) /\ CasWrite(a, k, draft[a].value \cup {id}, draft[a].version)
         \/ BoardMay(a) /\ CasFails
         \/ ~BoardMay(a) /\ UNCHANGED board
      /\ writes' = id
      /\ draft' = [draft EXCEPT ![a] = NoDraft]
      /\ UNCHANGED <<saved, editor>>
-----------------------------------------------------------------------------
\* next_version
NextVersion ==
  LET vs == {v \in Versions : saved[v] # NoPolicy}
  IN  IF vs = {} THEN 1 ELSE 1 + (CHOOSE v \in vs : \A u \in vs : u <= v)
TopologySet(d) ==
  /\ editor[d] = NoVersion /\ NextVersion \in Versions
  /\ editor' = [editor EXCEPT ![d] = NextVersion]
  /\ UNCHANGED <<board, draft, saved, writes>>
\* (mutant) a version that is taken is replaced
InsertOrReplace(v, p) == saved' = [saved EXCEPT ![v] = p]
\* save: (group_id, version) is a key, the later of two equal versions fails
InsertVersion(v, p) ==
  saved' = IF saved[v] = NoPolicy THEN [saved EXCEPT ![v] = p] ELSE saved
SavePolicy(d, p) ==
  /\ editor[d] # NoVersion
  /\ InsertVersion(editor[d], p)
  /\ editor' = [editor EXCEPT ![d] = NoVersion]
  /\ UNCHANGED <<board, draft, writes>>

StoresNext ==
  \/ \E a \in Authors : \/ \E k \in Keys : ReadState(a, k)
                        \/ UpdateState(a) \/ BlackboardSet(a) \/ TryWrite(a)
  \/ \E d \in Dialogs : TopologySet(d) \/ \E p \in Policies : SavePolicy(d, p)
StoresSpec == StoresInit /\ [][StoresNext]_storeVars
-----------------------------------------------------------------------------
\* Nobody's write is lost: the value of a key only ever changes to one that was
\* made from the value it replaces.
WritesBuildOn ==
  [][\A k \in Keys : board[k].value \subseteq board'[k].value]_storeVars

\* A policy somebody saved stays: two dialogs that save at once do not replace
\* each other's version, and versions have no gap.
PoliciesKept ==
  [][/\ \A v \in Versions : saved[v] # NoPolicy => saved'[v] = saved[v]
     /\ \A v \in Versions : saved'[v] # NoPolicy => \A u \in 1 .. v : saved'[u] # NoPolicy]_storeVars

\* Neither a write to the blackboard nor a version of the policy is lost to somebody
\* who read before it and wrote after it.
StoresKept == WritesBuildOn /\ PoliciesKept

\* The policy holds on the board as well: a worker that it keeps from the board
\* changes nothing there (docs/architecture-collab-agent-m2-2026-08-03.md).
BoardObeysPolicy ==
  [][\A a \in Writers :
       draft[a].at = "checked" /\ draft'[a] = NoDraft /\ board' # board
         => MayReach(Latest, TRUE, a, Everyone, "Blackboard")]_storeVars
=============================================================================
