--------------------------- MODULE ServicesProofs ---------------------------
(***************************************************************************)
(* Theorems about services that share nothing with one another: the        *)
(* blackboard and the policy versions (Stores), the versions of a file     *)
(* (Changesets), the tool calls of one answer (ToolRound), the order of    *)
(* the cards (BoardOrder).  They hold for any number of keys, workers,     *)
(* policies, edits, writes, rollbacks, calls, cards and operations.        *)
(***************************************************************************)
EXTENDS Stores, Changesets, ToolRound, BoardOrder,
        FiniteSetTheorems, SequenceTheorems, WellFoundedInduction, TLAPS
-----------------------------------------------------------------------------
(***************************************************************************)
(* Stores.  Both theorems rest on what an activity carries over from its   *)
(* read to its write: a draft is as old as the version it names, and a     *)
(* dialog's version is no further than the next free one.                  *)
(***************************************************************************)
BoardRow == [version : Nat, value : SUBSET Nat]
BoardType ==
  /\ board \in [Keys -> BoardRow]
  /\ writes \in Nat
  /\ draft \in [Authors -> [at : {"idle", "read", "checked"}, key : Keys \cup {"none"},
                            version : Nat, value : SUBSET Nat]]

\* A draft is of a key, and what it holds is no newer than the row: the same
\* version means the same value.
DraftIsOld ==
  \A a \in Authors : draft[a].at # "idle" =>
    /\ draft[a].key \in Keys
    /\ draft[a].version <= board[draft[a].key].version
    /\ draft[a].version = board[draft[a].key].version
         => draft[a].value = board[draft[a].key].value
BoardInv == BoardType /\ DraftIsOld

\* The saved versions are the first n, and no dialog was given a later one than
\* the next.
VersionsAreFirst(n) ==
  /\ n \in 0 .. MaxPolicies
  /\ \A v \in Versions : saved[v] # NoPolicy <=> v <= n
  /\ \A d \in Dialogs : editor[d] <= n + 1
PolicyInv ==
  /\ saved \in [Versions -> Policies \cup {NoPolicy}]
  /\ editor \in [Dialogs -> Versions \cup {NoVersion}]
  /\ \E n \in 0 .. MaxPolicies : VersionsAreFirst(n)
-----------------------------------------------------------------------------
\* What compare-and-set does to one row: it stays, or it takes the next version
\* with the value given, and then the version expected was the row's.
LEMMA CasIsConditional ==
  ASSUME BoardType, NEW a, NEW k \in Keys, NEW value \in SUBSET Nat, NEW expected \in Nat,
         CasWrite(a, k, value, expected) \/ UNCHANGED board
  PROVE  \/ board' = board
         \/ /\ board[k].version = expected
            /\ board' = [board EXCEPT ![k] = [version |-> expected + 1, value |-> value]]
  BY DEF CasWrite, CasDecision, BoardType, BoardRow

\* A write of the blackboard, whoever tries it and however it ends.
LEMMA TryWriteIsConditional ==
  ASSUME BoardInv, NEW a \in Authors, TryWrite(a)
  PROVE  LET k == draft[a].key
         IN  /\ k \in Keys
             /\ \/ board' = board
                \/ /\ board[k].version = draft[a].version
                   /\ board' = [board EXCEPT ![k] = [version |-> draft[a].version + 1,
                                                     value |-> draft[a].value \cup {writes + 1}]]
  <1> DEFINE k == draft[a].key
             new == draft[a].value \cup {writes + 1}
  <1>1. k \in Keys /\ draft[a].version \in Nat /\ new \in SUBSET Nat
    BY DEF BoardInv, BoardType, DraftIsOld, TryWrite
  <1>2. CasWrite(a, k, new, draft[a].version) \/ UNCHANGED board
    BY DEF TryWrite, CasFails
  <1>3. BoardType
    BY DEF BoardInv
  <1> HIDE DEF k, new
  <1>4. \/ board' = board
        \/ /\ board[k].version = draft[a].version
           /\ board' = [board EXCEPT ![k] = [version |-> draft[a].version + 1, value |-> new]]
    BY <1>1, <1>2, <1>3, CasIsConditional
  <1> QED
    BY <1>1, <1>4 DEF k, new

LEMMA BoardInductive ==
  ASSUME BoardInv, [StoresNext]_storeVars
  PROVE  BoardInv' /\ \A k \in Keys : board[k].value \subseteq board'[k].value
  <1> USE DEF BoardInv
  <1>1. ASSUME NEW a \in Authors, NEW k \in Keys, ReadState(a, k)
        PROVE  BoardInv' /\ \A j \in Keys : board[j].value \subseteq board'[j].value
    BY <1>1 DEF ReadState, BoardRead, BoardType, DraftIsOld, BoardRow
  <1>2. ASSUME NEW a \in Authors, UpdateState(a) \/ BlackboardSet(a)
        PROVE  BoardInv' /\ \A j \in Keys : board[j].value \subseteq board'[j].value
    <2>1. draft[a].at = "read" /\ draft' = [draft EXCEPT ![a].at = "checked"]
          /\ UNCHANGED <<board, writes>>
      BY <1>2 DEF UpdateState, BlackboardSet
    <2>2. BoardType'
      BY <2>1 DEF BoardType
    <2>3. DraftIsOld'
      BY <2>1 DEF BoardType, DraftIsOld
    <2> QED
      BY <2>1, <2>2, <2>3
  <1>3. ASSUME NEW a \in Authors, TryWrite(a)
        PROVE  BoardInv' /\ \A j \in Keys : board[j].value \subseteq board'[j].value
    <2> DEFINE k == draft[a].key
               row == [version |-> draft[a].version + 1,
                       value |-> draft[a].value \cup {writes + 1}]
    <2>1. /\ k \in Keys
          /\ \/ board' = board
             \/ board[k].version = draft[a].version /\ board' = [board EXCEPT ![k] = row]
      BY <1>3, TryWriteIsConditional
    <2>2. draft[a].at = "checked" /\ writes' = writes + 1
          /\ draft' = [draft EXCEPT ![a] = NoDraft]
      BY <1>3 DEF TryWrite
    <2>3. BoardType'
      BY <2>1, <2>2 DEF BoardType, NoDraft, BoardRow
    <2>4. CASE board' = board
      BY <2>2, <2>3, <2>4 DEF BoardType, DraftIsOld, NoDraft
    <2>5. CASE board[k].version = draft[a].version /\ board' = [board EXCEPT ![k] = row]
      <3>1. board[k].value = draft[a].value
        BY <2>2, <2>5 DEF DraftIsOld
      <3>2. board[k].value \subseteq board'[k].value /\ board'[k].version = board[k].version + 1
        BY <2>1, <2>5, <3>1 DEF BoardType, BoardRow
      <3>3. \A j \in Keys : board[j].value \subseteq board'[j].value
        BY <2>1, <2>5, <3>2 DEF BoardType
      <3>4. ASSUME NEW b \in Authors, draft'[b].at # "idle"
            PROVE  /\ draft'[b].key \in Keys
                   /\ draft'[b].version <= board'[draft'[b].key].version
                   /\ draft'[b].version = board'[draft'[b].key].version
                        => draft'[b].value = board'[draft'[b].key].value
        <4>1. draft'[b] = draft[b] /\ draft[b].at # "idle"
          BY <2>2, <3>4 DEF BoardType, NoDraft
        <4>2. /\ draft[b].key \in Keys
              /\ draft[b].version <= board[draft[b].key].version
              /\ draft[b].version = board[draft[b].key].version
                   => draft[b].value = board[draft[b].key].value
          BY <4>1 DEF DraftIsOld
        <4>3. draft[b].version \in Nat /\ board[k].version \in Nat
          BY <2>1 DEF BoardType, BoardRow
        <4>4. CASE draft[b].key = k
          BY <3>2, <4>1, <4>2, <4>3, <4>4
        <4>5. CASE draft[b].key # k
          BY <2>1, <2>5, <4>1, <4>2, <4>5 DEF BoardType
        <4> QED
          BY <4>4, <4>5
      <3>5. DraftIsOld'
        BY <3>4 DEF DraftIsOld
      <3> QED
        BY <2>3, <3>3, <3>5
    <2> QED
      BY <2>1, <2>4, <2>5
  <1>4. ASSUME NEW d \in Dialogs, TopologySet(d) \/ \E p \in Policies : SavePolicy(d, p)
        PROVE  BoardInv' /\ \A j \in Keys : board[j].value \subseteq board'[j].value
    BY <1>4 DEF TopologySet, SavePolicy, BoardType, DraftIsOld
  <1>5. CASE UNCHANGED storeVars
    BY <1>5 DEF storeVars, BoardType, DraftIsOld
  <1> QED
    BY <1>1, <1>2, <1>3, <1>4, <1>5 DEF StoresNext

\* No write of the blackboard is lost (cas_write): between the version an author
\* read and the write it makes from it, nobody else's write fits.
THEOREM NoWriteIsLost == StoresSpec => WritesBuildOn
  <1>1. StoresInit => BoardInv
    BY DEF StoresInit, BoardInv, BoardType, DraftIsOld, NoRow, NoDraft, BoardRow
  <1>2. BoardInv /\ [StoresNext]_storeVars => BoardInv'
    BY BoardInductive
  <1>3. BoardInv /\ [StoresNext]_storeVars
          => [\A k \in Keys : board[k].value \subseteq board'[k].value]_storeVars
    BY BoardInductive
  <1> QED
    BY <1>1, <1>2, <1>3, PTL DEF StoresSpec, WritesBuildOn
-----------------------------------------------------------------------------
\* next_version counts on from the last one when there is no gap.
LEMMA NextIsOneMore ==
  ASSUME NEW n, VersionsAreFirst(n)
  PROVE  NextVersion = n + 1
  <1> DEFINE vs == {v \in Versions : saved[v] # NoPolicy}
  <1>1. n \in 0 .. MaxPolicies /\ MaxPolicies \in Nat /\ vs = 1 .. n
    BY StoresConstants DEF VersionsAreFirst, Versions
  <1>2. CASE n = 0
    BY <1>1, <1>2 DEF NextVersion
  <1>3. CASE n # 0
    <2>1. \A m \in vs : (\A u \in vs : u <= m) => m = n
      BY <1>1, <1>3
    <2>2. n \in vs /\ \A u \in vs : u <= n
      BY <1>1, <1>3
    <2>3. (CHOOSE v \in vs : \A u \in vs : u <= v) = n
      BY <2>1, <2>2
    <2>4. vs # {}
      BY <2>2
    <2> QED
      BY <1>1, <2>3, <2>4 DEF NextVersion
  <1> QED
    BY <1>2, <1>3

LEMMA PolicyInductive ==
  ASSUME PolicyInv, [StoresNext]_storeVars
  PROVE  /\ PolicyInv'
         /\ \A v \in Versions : saved[v] # NoPolicy => saved'[v] = saved[v]
         /\ \A v \in Versions : saved'[v] # NoPolicy => \A u \in 1 .. v : saved'[u] # NoPolicy
  <1> DEFINE Intact == \A v \in Versions : saved[v] # NoPolicy => saved'[v] = saved[v]
             Gapless == \A v \in Versions :
                          saved'[v] # NoPolicy => \A u \in 1 .. v : saved'[u] # NoPolicy
  <1>1. PICK n \in 0 .. MaxPolicies : VersionsAreFirst(n)
    BY DEF PolicyInv
  <1>2. MaxPolicies \in Nat /\ NoPolicy \notin Policies
    BY StoresConstants
  <1>3. ASSUME NEW m \in 0 .. MaxPolicies, VersionsAreFirst(m)'
        PROVE  Gapless
    BY <1>2, <1>3 DEF VersionsAreFirst, Versions
  <1>4. ASSUME UNCHANGED <<saved, editor>>
        PROVE  PolicyInv' /\ Intact /\ Gapless
    <2>1. VersionsAreFirst(n)'
      BY <1>1, <1>4 DEF VersionsAreFirst
    <2> QED
      BY <1>3, <1>4, <2>1 DEF PolicyInv
  <1>5. ASSUME NEW d \in Dialogs, TopologySet(d)
        PROVE  PolicyInv' /\ Intact /\ Gapless
    <2>1. NextVersion = n + 1 /\ NextVersion \in Versions
      BY <1>1, <1>5, NextIsOneMore DEF TopologySet
    <2>2. editor' = [editor EXCEPT ![d] = n + 1] /\ saved' = saved
      BY <1>5, <2>1 DEF TopologySet
    <2>3. VersionsAreFirst(n)'
      BY <1>1, <1>2, <2>2 DEF VersionsAreFirst, PolicyInv
    <2>4. editor' \in [Dialogs -> Versions \cup {NoVersion}]
      BY <2>1, <2>2 DEF PolicyInv
    <2> QED
      BY <1>3, <2>2, <2>3, <2>4 DEF PolicyInv
  <1>6. ASSUME NEW d \in Dialogs, NEW p \in Policies, SavePolicy(d, p)
        PROVE  PolicyInv' /\ Intact /\ Gapless
    <2> DEFINE v == editor[d]
    <2>1. v \in Versions /\ v <= n + 1
      BY <1>1, <1>6 DEF SavePolicy, PolicyInv, VersionsAreFirst
    <2>2. editor' = [editor EXCEPT ![d] = NoVersion]
          /\ saved' = IF saved[v] = NoPolicy THEN [saved EXCEPT ![v] = p] ELSE saved
      BY <1>6 DEF SavePolicy, InsertVersion
    <2>3. editor' \in [Dialogs -> Versions \cup {NoVersion}]
          /\ saved' \in [Versions -> Policies \cup {NoPolicy}] /\ Intact
      BY <2>1, <2>2 DEF PolicyInv
    <2>4. CASE saved[v] # NoPolicy
      <3>1. VersionsAreFirst(n)'
        BY <1>1, <1>2, <2>2, <2>4 DEF VersionsAreFirst, PolicyInv, NoVersion
      <3> QED
        BY <1>3, <2>3, <3>1 DEF PolicyInv
    <2>5. CASE saved[v] = NoPolicy
      <3>1. v = n + 1 /\ n + 1 \in 0 .. MaxPolicies
        BY <1>1, <1>2, <2>1, <2>5 DEF VersionsAreFirst, Versions
      <3>2. \A u \in Versions : saved'[u] # NoPolicy <=> u <= n + 1
        BY <1>1, <1>2, <2>2, <2>5, <3>1 DEF VersionsAreFirst, PolicyInv, Versions
      <3>3. \A e \in Dialogs : editor'[e] <= n + 2
        BY <1>1, <1>2, <2>2 DEF VersionsAreFirst, PolicyInv, Versions, NoVersion
      <3>4. VersionsAreFirst(n + 1)'
        BY <1>1, <1>2, <3>1, <3>2, <3>3 DEF VersionsAreFirst
      <3> QED
        BY <1>3, <2>3, <3>1, <3>4 DEF PolicyInv
    <2> QED
      BY <2>4, <2>5
  <1>7. ASSUME NEW a \in Authors, (\E k \in Keys : ReadState(a, k)) \/ UpdateState(a)
                                    \/ BlackboardSet(a) \/ TryWrite(a)
        PROVE  UNCHANGED <<saved, editor>>
    BY <1>7 DEF ReadState, UpdateState, BlackboardSet, TryWrite
  <1>8. CASE UNCHANGED storeVars
    BY <1>4, <1>8 DEF storeVars
  <1> QED
    BY <1>4, <1>5, <1>6, <1>7, <1>8 DEF StoresNext

\* A policy that was saved stays, and versions are counted without a gap, though
\* a version is taken in one statement and inserted in another (commit_next).
THEOREM PoliciesAreKept == StoresSpec => PoliciesKept
  <1>1. StoresInit => PolicyInv
    <2> SUFFICES ASSUME StoresInit PROVE PolicyInv
      OBVIOUS
    <2>1. VersionsAreFirst(0)
      BY StoresConstants DEF StoresInit, VersionsAreFirst, Versions, NoVersion, Dialogs
    <2> QED
      BY <2>1, StoresConstants DEF StoresInit, PolicyInv
  <1>2. PolicyInv /\ [StoresNext]_storeVars => PolicyInv'
    BY PolicyInductive
  <1>3. PolicyInv /\ [StoresNext]_storeVars
          => [/\ \A v \in Versions : saved[v] # NoPolicy => saved'[v] = saved[v]
              /\ \A v \in Versions : saved'[v] # NoPolicy
                   => \A u \in 1 .. v : saved'[u] # NoPolicy]_storeVars
    BY PolicyInductive
  <1> QED
    BY <1>1, <1>2, <1>3, PTL DEF StoresSpec, PoliciesKept

\* Both together: whoever wrote from an older reading is turned away or built upon,
\* on the blackboard by the version it read, in the policies by the key's uniqueness.
THEOREM StoresAreKept == StoresSpec => StoresKept
  BY NoWriteIsLost, PoliciesAreKept, PTL DEF StoresKept
-----------------------------------------------------------------------------
(***************************************************************************)
(* Changesets.  What is overwritten had been read before, and what was read*)
(* is kept, or about to be.                                                *)
(***************************************************************************)
\* What may stand on the disk without being lost when it is overwritten.
Known == Kept \cup overrun \cup {Absent}
RowType == [before : Nat, after : Nat, kind : {"normal", "auto_snapshot"}]
\* An agent between its read and its write finds what it read, or something that
\* is kept or came late; a rollback finds in addition what such an agent has just
\* written and is about to record.
FileInv ==
  /\ disk \in Nat /\ fresh \in Nat /\ rows \in Seq(RowType)
  /\ writer \in [at : {"none", "write", "record"}, before : Nat, after : Nat]
  /\ rollback \in [at : {"none", "archive", "restore"}, before : Nat, cur : Nat,
                   of : {"normal", "auto_snapshot"}]
  /\ \A i \in DOMAIN rows : rows[i].kind = "normal" => rows[i].after # NoContent
  /\ writer.at = "record" => writer.after # NoContent
  /\ writer.at = "write" => disk \in Known \cup {writer.before}
  /\ rollback.at # "none" => rollback.before \in Kept
  /\ rollback.at # "none" /\ rollback.of = "normal" =>
       disk \in Known \cup (IF rollback.at = "archive" THEN {rollback.cur} ELSE {})
                      \cup (IF writer.at = "record" THEN {writer.after} ELSE {})

\* The invariant holds from the start and through every step.
LEMMA FileInvHolds == FileSpec => []FileInv
  <1> USE DEF Absent, NoContent
  <1>1. FileInit => FileInv
    BY DEF FileInit, FileInv, NoWriter, NoRollback, Known, Kept, RowType
  <1>2. FileInv /\ [FileNext]_fileVars => FileInv'
    <2> SUFFICES ASSUME FileInv, [FileNext]_fileVars
                 PROVE  FileInv'
      OBVIOUS
    <2> USE DEF FileInv
    <2>1. ASSUME NEW r \in RowType, rows' = Append(rows, r)
          PROVE  /\ rows' \in Seq(RowType)
                 /\ Kept' = Kept \cup {r.before, r.after}
                 /\ (r.kind = "normal" => r.after # NoContent) =>
                      \A i \in DOMAIN rows' : rows'[i].kind = "normal" => rows'[i].after # NoContent
      <3>1. rows' \in Seq(RowType) /\ DOMAIN rows' = DOMAIN rows \cup {Len(rows) + 1}
        BY <2>1
      <3>2. rows'[Len(rows) + 1] = r /\ \A i \in DOMAIN rows : rows'[i] = rows[i]
        BY <2>1
      <3> QED
        BY SMTT(60), <3>1, <3>2 DEF Kept
    <2>2. \A i \in DOMAIN rows :
            rows[i] \in RowType /\ rows[i].before \in Kept /\ rows[i].after \in Kept
      BY DEF Kept
    <2>3. CASE Edit
      BY <2>3 DEF Edit, Busy, Known, Kept
    <2>4. CASE ReadBefore
      BY ZenonT(60), <2>4 DEF ReadBefore, NoWriter, Known, Kept
    <2>5. CASE WriteOut
      <3> DEFINE n == fresh + 1
      <3>1. n \in Nat /\ n # NoContent
        OBVIOUS
      <3>2. /\ disk' = n /\ fresh' = n
            /\ writer' = [writer EXCEPT !.at = "record", !.after = n]
            /\ UNCHANGED <<rows, rollback, overrun>>
        BY <2>5 DEF WriteOut
      <3> HIDE DEF n
      <3>3. /\ writer' \in [at : {"none", "write", "record"}, before : Nat, after : Nat]
            /\ writer'.at = "record" /\ writer'.after = n
        BY <3>1, <3>2
      <3>4. Kept' = Kept
        BY <3>2 DEF Kept
      <3>5. Known' = Known
        BY <3>2, <3>4 DEF Known
      <3>6. disk' \in Known' \cup (IF rollback.at = "archive" THEN {rollback.cur} ELSE {})
                            \cup (IF writer'.at = "record" THEN {writer'.after} ELSE {})
        BY <3>2, <3>3
      <3> QED
        BY <3>1, <3>2, <3>3, <3>4, <3>5, <3>6
    <2>6. CASE Record
      <3> DEFINE r == Row(writer.before, writer.after, "normal")
      <3>1. writer.at = "record" /\ r \in RowType /\ r.kind = "normal" /\ r.after # NoContent
        BY <2>6 DEF Record, Row, RowType
      <3>2. rows' = Append(rows, r)
        BY <2>6 DEF Record
      <3>3. Kept' = Kept \cup {writer.before, writer.after}
        BY <2>1, <3>1, <3>2 DEF Row
      <3>4. /\ rows' \in Seq(RowType)
            /\ \A i \in DOMAIN rows' : rows'[i].kind = "normal" => rows'[i].after # NoContent
        BY <2>1, <3>1, <3>2
      <3> QED
        BY <2>6, <3>1, <3>3, <3>4 DEF Record, NoWriter, Known
    <2>7. CASE Archive
      <3> DEFINE r == Row(rollback.cur, NoContent, "auto_snapshot")
      <3>1. rollback.at = "archive" /\ r \in RowType /\ r.kind # "normal"
        BY <2>7 DEF Archive, Row, RowType
      <3>2. rows' = Append(rows, r)
        BY <2>7 DEF Archive
      <3>3. Kept' = Kept \cup {rollback.cur, NoContent}
        BY <2>1, <3>1, <3>2 DEF Row
      <3>4. /\ rows' \in Seq(RowType)
            /\ \A i \in DOMAIN rows' : rows'[i].kind = "normal" => rows'[i].after # NoContent
        BY <2>1, <3>1, <3>2
      <3> QED
        BY <2>7, <3>1, <3>3, <3>4 DEF Archive, Known
    <2>8. CASE ArchiveFails
      BY <2>8 DEF ArchiveFails, NoRollback, Known, Kept
    <2>9. CASE Restore
      BY <2>9 DEF Restore, NoRollback, Known, Kept
    <2>10. ASSUME NEW i \in DOMAIN rows, ReadRow(i)
           PROVE  FileInv'
      <3>1. rows[i] \in RowType /\ rows[i].before \in Kept /\ rows[i].after \in Kept
        BY <2>2
      <3>2. Kept' = Kept /\ Known' = Known
        BY <2>10 DEF ReadRow, Kept, Known
      <3>3. rows[i].kind = "normal" => rows[i].after # NoContent
        OBVIOUS
      <3> QED
        BY <2>10, <3>1, <3>2, <3>3 DEF ReadRow, NeedsArchive, RowType, Known
    <2>11. CASE UNCHANGED fileVars
      BY <2>11 DEF fileVars, Known, Kept
    <2> QED
      BY <2>3, <2>4, <2>5, <2>6, <2>7, <2>8, <2>9, <2>10, <2>11 DEF FileNext
  <1> QED
    BY <1>1, <1>2, PTL DEF FileSpec

\* ChangesKept: for any number of edits, writes and rollbacks, what a write or the
\* rollback of an agent's change puts away is in a row, or had come after the file
\* was read.  Only two actions overwrite, and FileInv says what they find.
THEOREM ChangesAreKept == FileSpec => []ChangesKept
  <1>1. FileInit => ChangesKept
    BY DEF FileInit, ChangesKept
  <1>2. FileInv /\ ChangesKept /\ [FileNext]_fileVars => ChangesKept'
    <2> SUFFICES ASSUME FileInv, ChangesKept, [FileNext]_fileVars
                 PROVE  ChangesKept'
      OBVIOUS
    <2>1. CASE WriteOut
      BY <2>1 DEF WriteOut, Overwrites, ChangesKept, FileInv, Known
    <2>2. CASE Restore
      <3>1. rollback.of # "normal" => rollback.of = "auto_snapshot"
        BY DEF FileInv
      <3>2. rollback.of = "normal" => disk \in Known \cup {writer.after}
        BY <2>2 DEF Restore, FileInv
      <3> QED
        BY <2>2, <3>1, <3>2 DEF Restore, Overwrites, ChangesKept, Known, Absent, NoContent
    <2>3. CASE UNCHANGED overwritten
      BY <2>3 DEF ChangesKept
    <2>4. WriteOut \/ Restore \/ UNCHANGED overwritten
      BY DEF FileNext, fileVars, Edit, ReadBefore, Record, Archive, ArchiveFails, ReadRow
    <2> QED
      BY <2>1, <2>2, <2>3, <2>4
  <1> QED
    BY <1>1, <1>2, FileInvHolds, PTL DEF FileSpec
-----------------------------------------------------------------------------
(***************************************************************************)
(* ToolRound.  One invariant for both ways through a round: what is already*)
(* told, written and stepped is of the calls before the one in hand.       *)
(***************************************************************************)
\* Where a round that goes call by call may be, and one that goes side by side.
Serial == {"call", "permit", "asked", "skip", "invoke", "invoked"}
Side == {"chunk", "running", "persist"}
Whats == Outcomes \cup {NotYet, "out of scope", "denied", "declined"}
Hows == {"auto", "accept", "edit", "respond", "ignore", "timeout", "nobody"}
MessageType == [call : Nat, what : Whats \cup {"call"}]
StepType == [call : Nat, outcome : Whats, how : Hows]
RoundType ==
  /\ round \in RoundKits
  /\ roundAt \in {"plan", "over"} \cup Serial \cup Side
  /\ nth \in 1 .. Len(Calls) + 1 /\ (roundAt # "over" => nth \in CallsOf)
  /\ told \in [CallsOf -> Whats] /\ invoked \subseteq CallsOf
  /\ spent \in [DOMAIN SkillTools -> Nat]
  /\ messages \in Seq(MessageType) /\ steps \in Seq(StepType)

\* Side by side, the calls before the chunk are back; one by one, only the calls
\* up to the one in hand were invoked.  What came back is what was answered.
RunsInTurn ==
  /\ roundAt = "plan" => nth = 1 /\ invoked = {}
  /\ roundAt \in Serial =>
       \A i \in invoked : i < nth \/ (i = nth /\ roundAt = "invoked")
  /\ roundAt = "invoked" => nth \in invoked
  /\ roundAt \in {"skip", "invoked"} => told[nth] # NotYet
  /\ roundAt \in {"chunk", "running"} =>
       \A i \in CallsOf : i < nth => i \in invoked /\ told[i] # NotYet
  /\ roundAt = "running" => Chunk \subseteq invoked
  /\ roundAt \in {"plan", "chunk", "running"} => \A i \in CallsOf \ invoked : told[i] = NotYet
  /\ roundAt = "persist" => \A i \in CallsOf : i \in invoked /\ told[i] # NotYet
  /\ \A i \in invoked : told[i] # NotYet /\ round.answers[i] # "any" => told[i] = round.answers[i]

\* The messages are the pairs of the calls that are through, and the request of the
\* one in hand.
PairsInOrder ==
  /\ roundAt \in {"plan", "chunk", "running"} => messages = <<>>
  /\ roundAt \in {"persist", "call", "over"} => Len(messages) = 2 * nth - 2
  /\ roundAt \in Serial \ {"call"} => Len(messages) = 2 * nth - 1
  /\ \A i \in CallsOf :
       /\ 2 * i - 1 <= Len(messages) => messages[2 * i - 1] = Request(i)
       /\ 2 * i <= Len(messages) => messages[2 * i] = Result(i) /\ told[i] # NotYet

LetThrough(i) == Decide(Calls[i]) = "allow" \/ Exempt(Calls[i])
MayRun(i) == InScope(Calls[i]) /\ (Decide(Calls[i]) = "deny" => IsSkill(Calls[i]))
\* The call in hand: only a budget that is used up overrules a denial, and only an
\* exemption lets such a call through without a question.
NotBarred == InScope(Calls[nth]) /\ (Decide(Calls[nth]) = "deny" => UsedUp(Calls[nth]))
ByExemption == UsedUp(Calls[nth]) => Exempt(Calls[nth])
\* Where a call is on its way to its tool, nothing bars it, and what it is said to be
\* let through by is true.
Permitted ==
  /\ roundAt \in Side => \A i \in CallsOf : MayRun(i) /\ LetThrough(i)
  /\ roundAt = "permit" =>
       /\ InScope(Calls[nth]) /\ (perm # "deny" => NotBarred)
       /\ perm = "allow" => LetThrough(nth) /\ ByExemption
  /\ roundAt = "asked" => NotBarred
  /\ roundAt \in {"invoke", "invoked"} =>
       /\ NotBarred /\ perm \in {"auto", "accept", "edit"}
       /\ perm = "auto" => LetThrough(nth) /\ ByExemption
  /\ roundAt = "skip" /\ told[nth] = "declined" => perm \in {"respond", "ignore", "timeout"}
  /\ \A i \in invoked : MayRun(i)
\* Steps are of calls that are through.
StepsTell ==
  /\ roundAt \in {"plan", "chunk", "running"} => steps = <<>>
  /\ \A s \in DOMAIN steps : steps[s].call \in CallsOf /\ steps[s].call < nth
  /\ RanByPermission
RoundInv == RoundType /\ RunsInTurn /\ PairsInOrder /\ Permitted /\ StepsTell

\* A set of positions has a first one.
LEMMA FirstIs ==
  ASSUME NEW n \in Nat, NEW S \in SUBSET (1 .. n), S # {}
  PROVE  \E s \in S : \A x \in S : s <= x
  <1> DEFINE Upto(s) == {x \in S : x <= s}
             T == {Upto(s) : s \in S}
             R == StrictSubsetOrdering(S)
  <1>1. IsFiniteSet(S)
    <2>1. IsFiniteSet(1 .. n)
      BY FS_Interval
    <2> QED
      BY <2>1, FS_Subset
  <1>2. IsWellFoundedOn(R, SUBSET S)
    BY <1>1, FS_FiniteSubsetsOfFinite, FS_StrictSubsetOrderingWellFounded
  <1>3. T \subseteq SUBSET S /\ T # {}
    OBVIOUS
  <1>4. PICK Y \in T : \A Z \in T : ~ (<<Z, Y>> \in R)
    <2> HIDE DEF T, R
    <2> QED
      BY <1>2, <1>3, WFMin
  <1>5. PICK s \in S : Y = Upto(s)
    OBVIOUS
  <1>6. ASSUME NEW x \in S, ~ (s <= x)
        PROVE  FALSE
    <2>1. Upto(x) \in T /\ Upto(x) \in SUBSET S /\ Upto(s) \in SUBSET S
      OBVIOUS
    <2>2. s \in Nat /\ x \in Nat /\ x < s /\ ~ (s <= x) /\ s <= s
      BY <1>6
    <2>3. \A y \in S : y \in Nat /\ (y <= x => y <= s)
      BY <2>2
    <2>4. Upto(x) \subseteq Upto(s)
      BY <2>3
    <2>5. s \in Upto(s) /\ s \notin Upto(x)
      BY <2>2
    <2>6. <<Upto(x), Upto(s)>> \in R
      BY <2>1, <2>4, <2>5 DEF StrictSubsetOrdering
    <2> QED
      BY <1>4, <1>5, <2>1, <2>6
  <1> QED
    BY <1>6

LEMMA FirstIsIn ==
  ASSUME NEW n \in Nat, NEW S \in SUBSET (1 .. n), S # {}
  PROVE  (CHOOSE s \in S : \A x \in S : s <= x) \in S
  BY FirstIs

\* A tool that somebody lists is served.
LEMMA ServedByFirst ==
  ASSUME RoundType, NEW t, \E p \in DOMAIN round.providers : t \in round.providers[p]
  PROVE  Provider(t) # 0
  <1> DEFINE listing == {p \in DOMAIN round.providers : t \in round.providers[p]}
  <1>1. round.providers \in Seq(SUBSET STRING)
    BY RoundsAssumption DEF RoundType
  <1>2. /\ Len(round.providers) \in Nat /\ listing # {}
        /\ listing \in SUBSET (1 .. Len(round.providers))
    BY <1>1
  <1>3. (CHOOSE p \in listing : \A q \in listing : p <= q) \in 1 .. Len(round.providers)
    <2> HIDE DEF listing
    <2> QED
      BY <1>2, FirstIsIn
  <1>4. Provider(t) = IF listing = {} THEN 0 ELSE CHOOSE p \in listing : \A q \in listing : p <= q
    BY Zenon DEF Provider
  <1>5. \A p \in 1 .. Len(round.providers) : p # 0
    BY <1>2
  <1> HIDE DEF listing
  <1> QED
    BY <1>2, <1>3, <1>4, <1>5, Zenon

\* What a call of a round answers is what its kit prescribes, if it does.
LEMMA AnswerIsPrescribed ==
  ASSUME RoundType, NEW i \in CallsOf, NEW what \in Answer(i)
  PROVE  /\ what \in Whats /\ what # NotYet
         /\ round.answers[i] # "any" => what = round.answers[i]
  <1>1. round.answers[i] # "any" => Provider(Calls[i]) # 0
    BY RoundsAssumption, ServedByFirst DEF RoundType, Calls, CallsOf
  <1>2. what \in Outcomes
    BY DEF Answer, Outcomes
  <1> QED
    BY <1>1, <1>2 DEF Answer, Whats, Outcomes, NotYet

\* A round is fixed when it starts, and so is all that is read off it.
LEMMA RoundIsFixed ==
  ASSUME [RoundNext]_roundVars
  PROVE  /\ round' = round /\ Calls' = Calls /\ CallsOf' = CallsOf
         /\ \A t : InScope(t)' = InScope(t)
  <1>1. round' = round
    BY DEF RoundNext, roundVars, Plan, StartChunk, NextChunk, PersistParallel, FinishOne, StoreCall,
           Permit, Decision, Skip, InvokeOne, StoreResult
  <1> QED
    BY <1>1 DEF Calls, CallsOf, InScope
\* The policy's decision is one of what is fixed.
LEMMA DecideIsFixed ==
  ASSUME round' = round, NEW t
  PROVE  Decide(t)' = Decide(t)
  BY DEF Decide, First, Exact, Wildcard, ByRisk
-----------------------------------------------------------------------------
\* A payment adds to what a skill has used.
LEMMA PaymentsCount ==
  ASSUME spent \in [DOMAIN SkillTools -> Nat], NEW t, NEW asked, Pays(t, asked)
  PROVE  spent' \in [DOMAIN SkillTools -> Nat]
  <1> DEFINE s == SkillOf(t)
             n == IF asked THEN 2 ELSE 1
  <1>1. IsSkill(t) => s \in DOMAIN SkillTools
    BY DEF IsSkill, SkillOf
  <1>2. IF IsSkill(t) THEN spent' = [spent EXCEPT ![s] = @ + n] ELSE spent' = spent
    BY DEF Pays, RecordUsage
  <1>3. n \in Nat
    OBVIOUS
  <1> HIDE DEF s, n
  <1> QED
    BY <1>1, <1>2, <1>3

\* Steps keep the types.
LEMMA RoundTypeKept ==
  ASSUME RoundInv, [RoundNext]_roundVars
  PROVE  RoundType'
  <1>0. RoundType
    BY DEF RoundInv
  <1>1. round' = round /\ Calls' = Calls /\ CallsOf' = CallsOf
    BY RoundIsFixed
  <1>2. Len(Calls) \in Nat /\ CallsOf = 1 .. Len(Calls) /\ round' \in RoundKits
    BY <1>0, <1>1, RoundsAssumption DEF RoundType, Calls, CallsOf
  <1> USE <1>0, <1>1, <1>2, ParallelAssumption DEF RoundType, Serial, Side
  <1>3. CASE UNCHANGED roundVars
    BY <1>3 DEF roundVars
  <1>4. CASE Plan
    BY <1>4 DEF Plan
  <1>5. CASE StartChunk
    BY <1>5 DEF StartChunk, Chunk
  <1>6. CASE NextChunk
    BY <1>6 DEF NextChunk
  <1>7. CASE PersistParallel
    <2>1. nth \in CallsOf /\ told[nth] \in Whats
      BY <1>7 DEF PersistParallel
    <2>2. /\ Request(nth) \in MessageType /\ Result(nth) \in MessageType
          /\ StepRow(nth, "auto") \in StepType
      BY <2>1 DEF Request, Result, StepRow, MessageType, StepType, Hows
    <2>3. messages' \in Seq(MessageType) /\ steps' \in Seq(StepType)
      BY <1>7, <2>2 DEF PersistParallel
    <2> QED
      BY <1>7, <2>1, <2>3 DEF PersistParallel
  <1>8. ASSUME NEW i \in CallsOf, FinishOne(i)
        PROVE  RoundType'
    <2>1. PICK what \in Answer(i) : told' = [told EXCEPT ![i] = what]
      BY <1>8 DEF FinishOne, Finish
    <2>2. what \in Whats
      BY <2>1, AnswerIsPrescribed
    <2> QED
      BY <1>8, <2>1, <2>2 DEF FinishOne
  <1>9. CASE StoreCall
    <2>0. nth \in CallsOf /\ nth \in Nat
      <3>1. roundAt = "call"
        BY <1>9 DEF StoreCall
      <3> QED
        BY <3>1
    <2>1. Request(nth) \in MessageType
      BY <2>0, Zenon DEF Request, MessageType
    <2>2. messages' \in Seq(MessageType)
      <3>1. messages' = Append(messages, Request(nth)) /\ messages \in Seq(MessageType)
        BY <1>9 DEF StoreCall
      <3> QED
        BY <2>1, <3>1
    <2>3. told' \in [CallsOf -> Whats]
      BY <1>9 DEF StoreCall, Whats
    <2> QED
      BY <1>9, <2>1, <2>2, <2>3 DEF StoreCall
  <1>10. CASE Permit
    <2>1. told' \in [CallsOf -> Whats]
      BY <1>10 DEF Permit, Whats
    <2> QED
      BY <1>10, <2>1 DEF Permit
  <1>11. CASE Decision
    <2>1. told' \in [CallsOf -> Whats]
      BY <1>11 DEF Decision, Whats
    <2> QED
      BY <1>11, <2>1 DEF Decision
  <1>12. CASE Skip
    <2> DEFINE how == IF told[nth] = "declined" THEN perm ELSE "nobody"
    <2>1. nth \in CallsOf /\ told[nth] \in Whats /\ how \in Hows
      BY <1>12 DEF Skip, RoundInv, Permitted, Hows
    <2>2. Result(nth) \in MessageType /\ StepRow(nth, how) \in StepType
      BY <2>1 DEF Result, StepRow, MessageType, StepType
    <2>3. messages' \in Seq(MessageType) /\ steps' \in Seq(StepType)
      BY <1>12, <2>2 DEF Skip
    <2> QED
      BY <1>12, <2>1, <2>3 DEF Skip
  <1>13. CASE InvokeOne
    <2>1. nth \in CallsOf
      BY <1>13 DEF InvokeOne
    <2>2. PICK what \in Answer(nth) : told' = [told EXCEPT ![nth] = what]
      BY <1>13 DEF InvokeOne, Finish
    <2>3. what \in Whats
      BY <2>1, <2>2, AnswerIsPrescribed
    <2>4. told' \in [CallsOf -> Whats]
      BY <2>2, <2>3
    <2> QED
      BY <1>13, <2>1, <2>4 DEF InvokeOne
  <1>14. CASE StoreResult
    <2>1. nth \in CallsOf /\ told[nth] \in Whats /\ perm \in Hows
      BY <1>14 DEF StoreResult, RoundInv, Permitted, Hows
    <2>2. Result(nth) \in MessageType /\ StepRow(nth, perm) \in StepType
      BY <2>1 DEF Result, StepRow, MessageType, StepType
    <2>3. messages' \in Seq(MessageType) /\ steps' \in Seq(StepType)
      BY <1>14, <2>2 DEF StoreResult
    <2>4. spent' \in [DOMAIN SkillTools -> Nat]
      <3>1. spent \in [DOMAIN SkillTools -> Nat] /\ Pays(Calls[nth], perm # "auto")
        BY <1>14 DEF StoreResult
      <3> QED
        BY <3>1, PaymentsCount
    <2> QED
      BY <1>14, <2>1, <2>3, <2>4 DEF StoreResult
  <1> QED
    BY <1>3, <1>4, <1>5, <1>6, <1>7, <1>8, <1>9, <1>10, <1>11, <1>12, <1>13, <1>14 DEF RoundNext
\* Steps keep the calls in turn: a chunk starts when the one before is back.
LEMMA RunsInTurnKept ==
  ASSUME RoundInv, [RoundNext]_roundVars
  PROVE  RunsInTurn'
  <1>0. RoundType /\ RunsInTurn
    BY DEF RoundInv
  <1>1. round' = round /\ Calls' = Calls /\ CallsOf' = CallsOf
    BY RoundIsFixed
  <1>2. Len(Calls) \in Nat /\ CallsOf = 1 .. Len(Calls)
    BY <1>0, <1>1, RoundsAssumption DEF RoundType, Calls, CallsOf
  <1>3. /\ told \in [CallsOf -> Whats] /\ nth \in Nat /\ (roundAt # "over" => nth \in CallsOf)
        /\ invoked \subseteq CallsOf
    BY <1>0, <1>2 DEF RoundType
  <1>4. "declined" # NotYet /\ "denied" # NotYet /\ "out of scope" # NotYet
    BY DEF NotYet
  <1> USE <1>1, <1>2, <1>3, ParallelAssumption DEF Serial, Side
  <1>5. CASE UNCHANGED roundVars
    BY <1>0, <1>5 DEF roundVars, RunsInTurn, Chunk
  <1>6. CASE Plan
    BY <1>0, <1>6 DEF Plan, RunsInTurn, Chunk
  <1>7. CASE StartChunk
    BY <1>0, <1>7 DEF StartChunk, RunsInTurn, Chunk
  <1>8. CASE NextChunk
    BY <1>0, <1>8 DEF NextChunk, RunsInTurn, Chunk
  <1>9. CASE PersistParallel
    BY <1>0, <1>9 DEF PersistParallel, RunsInTurn, Chunk
  <1>10. ASSUME NEW i \in CallsOf, FinishOne(i)
         PROVE  RunsInTurn'
    <2>1. PICK what \in Answer(i) : told' = [told EXCEPT ![i] = what]
      BY <1>10 DEF FinishOne, Finish
    <2>2. what # NotYet /\ (round.answers[i] # "any" => what = round.answers[i])
      BY <1>0, <2>1, AnswerIsPrescribed
    <2> QED
      BY <1>0, <1>10, <2>1, <2>2 DEF FinishOne, RunsInTurn, Chunk
  <1>11. ASSUME roundAt \in {"call", "permit", "asked"},
                roundAt' \in {"permit", "asked", "skip", "invoke"},
                nth' = nth, invoked' = invoked, roundAt' # "skip" => told' = told,
                roundAt' = "skip" => \E what \in {"out of scope", "denied", "declined"} :
                                       told' = [told EXCEPT ![nth] = what]
         PROVE  RunsInTurn'
    <2>1. /\ nth \in CallsOf /\ nth \notin invoked /\ \A i \in invoked : i < nth
          /\ \A i \in invoked :
               told[i] # NotYet /\ round.answers[i] # "any" => told[i] = round.answers[i]
      <3>1. nth \in CallsOf /\ roundAt \in {"call", "permit", "asked"}
        BY <1>11
      <3>2. \A i \in invoked : i < nth /\ i # nth
        BY <1>0, <3>1 DEF RunsInTurn
      <3> QED
        BY <1>0, <3>1, <3>2 DEF RunsInTurn
    <2>2. /\ \A i \in CallsOf \ {nth} : told'[i] = told[i]
          /\ roundAt' = "skip" => told'[nth] # NotYet
      BY <1>4, <1>11, <2>1
    <2> QED
      BY <1>11, <2>1, <2>2 DEF RunsInTurn
  <1>12. StoreCall \/ Permit \/ Decision => RunsInTurn'
    <2>1. CASE StoreCall
      BY <1>11, <2>1 DEF StoreCall
    <2>2. CASE Permit
      BY <1>11, <2>2 DEF Permit
    <2>3. CASE Decision
      BY <1>11, <2>3 DEF Decision
    <2> QED
      BY <2>1, <2>2, <2>3
  <1>14. CASE Skip
    BY <1>0, <1>14 DEF Skip, RunsInTurn, Chunk
  <1>15. CASE InvokeOne
    <2>1. nth \in CallsOf
      BY <1>15 DEF InvokeOne
    <2>2. PICK what \in Answer(nth) : told' = [told EXCEPT ![nth] = what]
      BY <1>15 DEF InvokeOne, Finish
    <2>3. what # NotYet /\ (round.answers[nth] # "any" => what = round.answers[nth])
      BY <1>0, <2>1, <2>2, AnswerIsPrescribed
    <2> QED
      BY <1>0, <1>15, <2>1, <2>2, <2>3 DEF InvokeOne, RunsInTurn, Chunk
  <1>16. CASE StoreResult
    BY <1>0, <1>16 DEF StoreResult, RunsInTurn, Chunk
  <1> QED
    BY <1>5, <1>6, <1>7, <1>8, <1>9, <1>10, <1>12, <1>14, <1>15, <1>16 DEF RoundNext

\* A tool belongs to one skill, whose budget is the one that is looked up.
LEMMA OneSkill ==
  ASSUME RoundType, NEW t
  PROVE  OverBudget(t) <=> UsedUp(t)
  <1>1. IsSkill(t) => SkillOf(t) \in DOMAIN SkillTools /\ t \in SkillTools[SkillOf(t)]
    BY DEF IsSkill, SkillOf
  <1>2. \A s \in DOMAIN SkillTools : t \in SkillTools[s] => IsSkill(t) /\ s = SkillOf(t)
    BY <1>1, SkillsAssumption DEF IsSkill
  <1>3. OverBudget(t) <=> IsSkill(t) /\ spent[SkillOf(t)] > round.limit[SkillOf(t)]
    BY DEF OverBudget, Exceeded, GetBudget, GetUsage
  <1> QED
    BY <1>1, <1>2, <1>3 DEF UsedUp

\* Steps keep to the permissions: a denied call is let near its tool by nothing but a
\* budget that is used up, and the budget does not change while a call is in hand.
LEMMA PermittedKept ==
  ASSUME RoundInv, [RoundNext]_roundVars
  PROVE  Permitted'
  <1>0. RoundType /\ RunsInTurn /\ Permitted
    BY DEF RoundInv
  <1>1. round' = round /\ Calls' = Calls /\ CallsOf' = CallsOf /\ \A t : InScope(t)' = InScope(t)
    BY RoundIsFixed
  <1>2. \A t : Decide(t)' = Decide(t)
    BY <1>1, DecideIsFixed
  <1>3. exemptNow \subseteq exemptNow'
    BY DEF RoundNext, roundVars, Plan, StartChunk, NextChunk, PersistParallel, FinishOne, StoreCall,
           Permit, Decision, Skip, InvokeOne, StoreResult
  <1>4. \A i : (MayRun(i) => MayRun(i)') /\ (LetThrough(i) => LetThrough(i)')
    BY <1>1, <1>2, <1>3 DEF MayRun, LetThrough, Exempt
  <1>5. nth \in Nat /\ (roundAt # "over" => nth \in CallsOf) /\ invoked \subseteq CallsOf
    BY <1>0, RoundsAssumption DEF RoundType, Calls, CallsOf
  <1>6. ASSUME UNCHANGED <<spent, nth>>
        PROVE  (NotBarred => NotBarred') /\ (ByExemption => ByExemption')
    <2>1. \A t : UsedUp(t)' = UsedUp(t)
      BY <1>1, <1>6 DEF UsedUp
    <2>2. \A t : Exempt(t) => Exempt(t)'
      BY <1>1, <1>3 DEF Exempt
    <2> QED
      BY <1>1, <1>2, <1>6, <2>1, <2>2 DEF NotBarred, ByExemption
  <1>7. ASSUME NEW t, Permission(t) # "deny"
        PROVE  Decide(t) = "deny" => UsedUp(t) /\ IsSkill(t)
    <2>1. Decide(t) = "deny" => OverBudget(t)
      BY <1>7 DEF Permission
    <2> QED
      BY <1>0, <2>1, OneSkill DEF OverBudget
  <1>8. ASSUME NEW t, Permission(t) = "allow"
        PROVE  (Decide(t) = "allow" \/ Exempt(t)) /\ (UsedUp(t) => Exempt(t))
    <2>1. UsedUp(t) => OverBudget(t)
      BY <1>0, OneSkill
    <2> QED
      BY <1>8, <2>1 DEF Permission
  <1>9. NotBarred => MayRun(nth)
    BY DEF NotBarred, MayRun, UsedUp, IsSkill
  <1>10. ASSUME \A i \in invoked' : i \in invoked \/ MayRun(i)
         PROVE  \A i \in invoked' : MayRun(i)'
    BY <1>0, <1>4, <1>10 DEF Permitted
  <1> USE <1>1, <1>5 DEF Serial, Side
  <1>11. CASE UNCHANGED roundVars
    <2>1. UNCHANGED <<spent, roundAt, perm, told, invoked, nth>>
      BY <1>11 DEF roundVars
    <2> QED
      BY <1>0, <1>4, <1>6, <1>10, <2>1 DEF Permitted
  <1>12. CASE Plan
    <2>1. UNCHANGED <<spent, perm, told, invoked, nth>> /\ roundAt' \in {"chunk", "call"}
      BY <1>12 DEF Plan
    <2>2. roundAt' = "chunk" => \A i \in CallsOf : MayRun(i) /\ LetThrough(i)
      <3>1. roundAt' = "chunk" =>
              \A i \in CallsOf : Permission(Calls[i]) = "allow" /\ InScope(Calls[i])
        BY <1>12 DEF Plan, UseParallel
      <3> QED
        BY <1>7, <1>8, <3>1 DEF MayRun, LetThrough
    <2> QED
      BY <1>0, <1>4, <1>10, <2>1, <2>2 DEF Permitted
  <1>13. CASE StartChunk
    <2>1. /\ UNCHANGED <<spent, perm, told, nth>> /\ roundAt = "chunk" /\ roundAt' = "running"
          /\ invoked' = invoked \cup Chunk /\ Chunk \subseteq CallsOf
      BY <1>13 DEF StartChunk, Chunk
    <2> QED
      BY <1>0, <1>4, <1>10, <2>1 DEF Permitted
  <1>14. CASE NextChunk \/ PersistParallel \/ \E i \in CallsOf : FinishOne(i)
    <2>1. /\ UNCHANGED <<spent, invoked>> /\ roundAt \in Side /\ roundAt' \in Side \cup {"over"}
      BY <1>14 DEF NextChunk, PersistParallel, FinishOne
    <2> QED
      BY <1>0, <1>4, <1>10, <2>1 DEF Permitted
  <1>15. CASE StoreCall
    <2>1. /\ UNCHANGED <<spent, nth, invoked>> /\ roundAt = "call" /\ perm' = Permission(Calls[nth])
          /\ \/ roundAt' = "permit" /\ InScope(Calls[nth])
             \/ roundAt' = "skip" /\ told' = [told EXCEPT ![nth] = "out of scope"]
      BY <1>15 DEF StoreCall
    <2>2. roundAt' = "skip" => told'[nth] # "declined"
      BY <1>0, <2>1 DEF RoundType
    <2>3. roundAt' = "permit" =>
            /\ InScope(Calls[nth]) /\ (perm' # "deny" => NotBarred)
            /\ perm' = "allow" => LetThrough(nth) /\ ByExemption
      BY <1>7, <1>8, <2>1 DEF NotBarred, ByExemption, LetThrough
    <2>4. roundAt' = "permit" =>
            /\ InScope(Calls[nth])' /\ (perm' # "deny" => NotBarred')
            /\ perm' = "allow" => LetThrough(nth)' /\ ByExemption'
      BY <1>4, <1>6, <2>1, <2>3
    <2> QED
      BY <1>0, <1>10, <2>1, <2>2, <2>4 DEF Permitted
  <1>16. CASE Permit
    <2>1. /\ UNCHANGED <<spent, nth, invoked>> /\ roundAt = "permit"
          /\ \/ perm = "allow" /\ roundAt' = "invoke" /\ perm' = "auto"
             \/ roundAt' = "skip" /\ told' = [told EXCEPT ![nth] = "denied"]
             \/ perm = "ask" /\ roundAt' = "asked"
      BY <1>16 DEF Permit
    <2>2. roundAt' = "skip" => told'[nth] # "declined"
      BY <1>0, <2>1 DEF RoundType
    <2>3. roundAt' \in {"invoke", "asked"} => NotBarred'
      BY <1>0, <1>6, <2>1 DEF Permitted
    <2>4. roundAt' = "invoke" => LetThrough(nth)' /\ ByExemption'
      BY <1>0, <1>4, <1>6, <2>1 DEF Permitted
    <2> QED
      BY <1>0, <1>10, <2>1, <2>2, <2>3, <2>4 DEF Permitted
  <1>17. CASE Decision
    <2>1. /\ UNCHANGED <<spent, nth, invoked>> /\ roundAt = "asked"
          /\ \/ roundAt' = "invoke" /\ perm' \in {"accept", "edit"}
             \/ roundAt' = "skip" /\ perm' \in {"respond", "ignore", "timeout"}
      BY <1>17 DEF Decision
    <2>2. NotBarred'
      BY <1>0, <1>6, <2>1 DEF Permitted
    <2> QED
      BY <1>0, <1>10, <2>1, <2>2 DEF Permitted
  <1>18. CASE Skip
    <2>1. UNCHANGED <<spent, invoked>> /\ roundAt' \in {"over", "call"}
      BY <1>18 DEF Skip
    <2> QED
      BY <1>0, <1>10, <2>1 DEF Permitted
  <1>19. CASE InvokeOne
    <2>1. /\ UNCHANGED <<spent, nth, perm>> /\ roundAt = "invoke" /\ roundAt' = "invoked"
          /\ invoked' = invoked \cup {nth}
      BY <1>19 DEF InvokeOne
    <2>2. /\ NotBarred /\ perm \in {"auto", "accept", "edit"}
          /\ perm = "auto" => LetThrough(nth) /\ ByExemption
      BY <1>0, <2>1 DEF Permitted
    <2>3. /\ NotBarred' /\ (perm' = "auto" => LetThrough(nth)' /\ ByExemption')
      BY <1>4, <1>6, <2>1, <2>2
    <2>4. \A i \in invoked' : MayRun(i)'
      BY <1>9, <1>10, <2>1, <2>2
    <2> QED
      BY <2>1, <2>2, <2>3, <2>4 DEF Permitted
  <1>20. CASE StoreResult
    <2>1. /\ UNCHANGED <<invoked>> /\ roundAt = "invoked" /\ roundAt' \in {"over", "call"}
      BY <1>20 DEF StoreResult
    <2> QED
      BY <1>0, <1>10, <2>1 DEF Permitted
  <1> QED
    BY <1>11, <1>12, <1>13, <1>14, <1>15, <1>16, <1>17, <1>18, <1>19, <1>20 DEF RoundNext

\* Steps write the messages in pairs, a result only when it is there.
LEMMA InOrderKept ==
  ASSUME RoundInv, [RoundNext]_roundVars
  PROVE  PairsInOrder'
  <1>0. RoundType /\ RunsInTurn /\ PairsInOrder
    BY DEF RoundInv
  <1>1. round' = round /\ Calls' = Calls /\ CallsOf' = CallsOf
    BY RoundIsFixed
  <1>2. Len(Calls) \in Nat /\ CallsOf = 1 .. Len(Calls)
    BY <1>0, RoundsAssumption DEF RoundType, Calls, CallsOf
  <1>3. told \in [CallsOf -> Whats] /\ nth \in Nat /\ (roundAt # "over" => nth \in CallsOf)
        /\ messages \in Seq(MessageType)
    BY <1>0, <1>2 DEF RoundType
  <1> USE <1>1, <1>2, <1>3, ParallelAssumption DEF Serial, Side
  <1>4. ASSUME UNCHANGED <<messages, told>>,
               roundAt' \in {"persist", "call", "over"} => Len(messages) = 2 * nth' - 2,
               roundAt' \in {"plan", "chunk", "running"} => messages = <<>>,
               roundAt' \in Serial \ {"call"} => Len(messages) = 2 * nth' - 1
        PROVE  PairsInOrder'
    BY <1>0, <1>4 DEF PairsInOrder, Result, Request
  \* the call in hand is told before its result is written
  <1>5. ASSUME messages = <<>>, messages' = <<>>, roundAt' \in {"chunk", "running"}
        PROVE  PairsInOrder'
    BY <1>5 DEF PairsInOrder
  <1>6. ASSUME messages' = messages, Len(messages) = 2 * nth - 1, nth' = nth,
               roundAt \in Serial, roundAt' \in Serial \ {"call"},
               \A i \in CallsOf : i # nth => told'[i] = told[i]
        PROVE  PairsInOrder'
    <2>1. ASSUME NEW i \in CallsOf
          PROVE  /\ 2 * i - 1 <= Len(messages') => messages'[2 * i - 1] = Request(i)
                 /\ 2 * i <= Len(messages') => messages'[2 * i] = Result(i)' /\ told'[i] # NotYet
      <3>1. 2 * i - 1 <= Len(messages') => messages'[2 * i - 1] = Request(i)
        BY <1>0, <1>6 DEF PairsInOrder
      <3>2. ASSUME 2 * i <= Len(messages')
            PROVE  messages'[2 * i] = Result(i)' /\ told'[i] # NotYet
        <4>1. i # nth
          BY <1>6, <3>2
        <4>2. told'[i] = told[i]
          BY <1>6, <4>1
        <4>3. messages[2 * i] = Result(i) /\ told[i] # NotYet
          BY <1>0, <1>6, <3>2 DEF PairsInOrder
        <4> QED
          BY <1>6, <4>2, <4>3 DEF Result
      <3> QED
        BY <3>1, <3>2
    <2> QED
      BY <1>6, <2>1 DEF PairsInOrder, Request
  <1>7. CASE UNCHANGED roundVars
    <2>1. UNCHANGED <<messages, told, roundAt, nth>>
      BY <1>7 DEF roundVars
    <2> QED
      BY <1>0, <1>4, <2>1 DEF PairsInOrder
  <1>8. CASE Plan
    <2>1. /\ UNCHANGED <<messages, told, nth>> /\ nth = 1
          /\ roundAt = "plan" /\ roundAt' \in {"chunk", "call"}
      BY <1>0, <1>8 DEF Plan, RunsInTurn
    <2>2. Len(messages) = 0 /\ messages = <<>>
      BY <1>0, <2>1 DEF PairsInOrder
    <2> QED
      BY <1>4, <2>1, <2>2
  <1>9. CASE StartChunk \/ NextChunk
    <2>1. UNCHANGED <<messages, told>> /\ roundAt \in {"chunk", "running"}
          /\ roundAt' \in {"chunk", "running", "persist"} /\ (roundAt' = "persist" => nth' = 1)
      BY <1>9 DEF StartChunk, NextChunk
    <2>2. messages = <<>> /\ Len(messages) = 0
      BY <1>0, <2>1 DEF PairsInOrder
    <2> QED
      BY <1>4, <2>1, <2>2
  <1>10. ASSUME NEW i \in CallsOf, FinishOne(i)
         PROVE  PairsInOrder'
    <2>1. UNCHANGED <<messages>> /\ roundAt = "running" /\ roundAt' = "running"
      BY <1>10 DEF FinishOne
    <2> QED
      BY <1>0, <1>5, <2>1 DEF PairsInOrder
  <1>11. CASE PersistParallel
    <2>1. /\ messages' = messages \o <<Request(nth), Result(nth)>> /\ told' = told /\ nth' = nth + 1
          /\ roundAt = "persist" /\ roundAt' \in {"over", "persist"} /\ nth \in CallsOf
      BY <1>11 DEF PersistParallel
    <2>2. Len(messages) = 2 * nth - 2 /\ told[nth] # NotYet
      BY <1>0, <2>1 DEF PairsInOrder, RunsInTurn
    <2>3. /\ Len(messages') = 2 * nth
          /\ messages'[2 * nth - 1] = Request(nth) /\ messages'[2 * nth] = Result(nth)
          /\ \A j \in 1 .. Len(messages) : messages'[j] = messages[j]
      <3> DEFINE asked == Request(nth)
                 answer == Result(nth)
      <3>1. messages' = messages \o <<asked, answer>> /\ nth \in Nat
        BY <2>1
      <3> HIDE DEF asked, answer
      <3>2. /\ Len(messages') = Len(messages) + 2
            /\ messages'[Len(messages) + 1] = asked /\ messages'[Len(messages) + 2] = answer
            /\ \A j \in 1 .. Len(messages) : messages'[j] = messages[j]
        <4> DEFINE U == MessageType \cup {asked, answer}
                   pair == <<asked, answer>>
        <4>1. messages \in Seq(U) /\ Len(messages) \in Nat
          BY <1>0, SeqMonotonic, LenProperties DEF RoundType
        <4>2. pair \in Seq(U) /\ Len(pair) = 2 /\ pair[1] = asked /\ pair[2] = answer
          OBVIOUS
        <4> HIDE DEF U, pair
        <4>3. /\ Len(messages \o pair) = Len(messages) + Len(pair)
              /\ \A j \in 1 .. Len(messages) + Len(pair) :
                   (messages \o pair)[j] = IF j <= Len(messages) THEN messages[j]
                                           ELSE pair[j - Len(messages)]
          BY ZenonT(60), <4>1, <4>2, ConcatProperties
        <4> DEFINE whole == messages \o pair
        <4>4. messages' = whole
          BY <3>1 DEF pair
        <4> HIDE DEF whole
        <4>5. \A j \in 1 .. Len(messages) : j \in 1 .. Len(messages) + Len(pair) /\ j <= Len(messages)
          BY <4>1, <4>2
        <4>6. \A k \in {1, 2} : /\ Len(messages) + k \in 1 .. Len(messages) + Len(pair)
                                /\ ~(Len(messages) + k <= Len(messages))
                                /\ (Len(messages) + k) - Len(messages) = k
          BY <4>1, <4>2
        <4> QED
          BY <4>2, <4>3, <4>4, <4>5, <4>6 DEF whole
      <3>3. Len(messages) + 1 = 2 * nth - 1 /\ Len(messages) + 2 = 2 * nth
        BY <2>2, <3>1
      <3> QED
        BY <3>2, <3>3 DEF asked, answer
    <2> QED
      BY SMTT(60), <1>0, <2>1, <2>2, <2>3 DEF PairsInOrder, Result, Request
  <1>12. CASE StoreCall
    <2>1. /\ messages' = Append(messages, Request(nth)) /\ nth' = nth /\ roundAt = "call"
          /\ roundAt' \in Serial \ {"call"} /\ nth \in CallsOf
          /\ \A i \in CallsOf : i # nth => told'[i] = told[i]
      BY <1>12 DEF StoreCall
    <2>2. Len(messages) = 2 * nth - 2
      BY <1>0, <2>1 DEF PairsInOrder
    <2>3. /\ Len(messages') = 2 * nth - 1 /\ messages'[2 * nth - 1] = Request(nth)
          /\ \A j \in 1 .. Len(messages) : messages'[j] = messages[j]
      BY <2>1, <2>2
    <2>4. ASSUME NEW i \in CallsOf
          PROVE  /\ 2 * i - 1 <= Len(messages') => messages'[2 * i - 1] = Request(i)
                 /\ 2 * i <= Len(messages') => messages'[2 * i] = Result(i)' /\ told'[i] # NotYet
      <3>1. CASE i = nth
        BY <2>3, <3>1
      <3>2. CASE i # nth
        <4>1. 2 * i - 1 <= Len(messages') => 2 * i - 1 <= Len(messages)
          BY <2>1, <2>2, <2>3, <3>2
        <4>2. 2 * i <= Len(messages') => 2 * i <= Len(messages)
          BY <2>1, <2>2, <2>3, <3>2
        <4>3. told'[i] = told[i]
          BY <2>1, <3>2
        <4> QED
          BY SMTT(60), <1>0, <2>3, <4>1, <4>2, <4>3 DEF PairsInOrder, Result
      <3> QED
        BY <3>1, <3>2
    <2>5. Len(messages') = 2 * nth' - 1
      BY <2>1, <2>3
    <2> QED
      BY <2>1, <2>4, <2>5 DEF PairsInOrder, Request
  <1>13. CASE Permit \/ Decision \/ InvokeOne
    <2>1. /\ messages' = messages /\ nth' = nth
          /\ roundAt \in Serial \ {"call"} /\ roundAt' \in Serial \ {"call"}
          /\ \A i \in CallsOf : i # nth => told'[i] = told[i]
      BY <1>13 DEF Permit, Decision, InvokeOne, Finish
    <2>2. Len(messages) = 2 * nth - 1
      BY <1>0, <2>1 DEF PairsInOrder
    <2> QED
      BY <1>6, <2>1, <2>2
  <1>14. CASE Skip \/ StoreResult
    <2>1. /\ messages' = Append(messages, Result(nth)) /\ told' = told /\ nth' = nth + 1
          /\ roundAt \in {"skip", "invoked"} /\ roundAt' \in {"over", "call"} /\ nth \in CallsOf
      BY <1>14 DEF Skip, StoreResult
    <2>2. Len(messages) = 2 * nth - 1 /\ told[nth] # NotYet
      BY <1>0, <2>1 DEF PairsInOrder, RunsInTurn
    <2>3. /\ Len(messages') = 2 * nth /\ messages'[2 * nth] = Result(nth)
          /\ \A j \in 1 .. Len(messages) : messages'[j] = messages[j]
      <3> DEFINE e == Result(nth)
      <3>1. messages' = Append(messages, e)
        BY <2>1
      <3>2. Len(messages) \in Nat /\ Len(messages) + 1 = 2 * nth
        BY <2>2
      <3> HIDE DEF e
      <3>3. /\ Len(messages') = Len(messages) + 1 /\ messages'[Len(messages) + 1] = e
            /\ \A j \in 1 .. Len(messages) : messages'[j] = messages[j]
        BY <3>1
      <3> QED
        BY <3>2, <3>3 DEF e
    <2>4. ASSUME NEW i \in CallsOf
          PROVE  /\ 2 * i - 1 <= Len(messages') => messages'[2 * i - 1] = Request(i)
                 /\ 2 * i <= Len(messages') => messages'[2 * i] = Result(i) /\ told[i] # NotYet
      <3>1. 2 * i - 1 <= Len(messages') => 2 * i - 1 <= Len(messages)
        BY <2>1, <2>2, <2>3
      <3>2. 2 * i <= Len(messages') => 2 * i <= Len(messages) \/ i = nth
        BY <2>1, <2>2, <2>3
      <3>3. /\ 2 * i - 1 <= Len(messages') => messages[2 * i - 1] = Request(i)
            /\ i # nth /\ 2 * i <= Len(messages') => messages[2 * i] = Result(i) /\ told[i] # NotYet
        BY <1>0, <3>1, <3>2 DEF PairsInOrder
      <3>4. i \in Nat /\ 2 * i - 1 \in Nat \ {0} /\ 2 * i \in Nat \ {0}
        OBVIOUS
      <3>5. ASSUME 2 * i - 1 <= Len(messages')
            PROVE  messages'[2 * i - 1] = Request(i)
        <4>1. 2 * i - 1 \in 1 .. Len(messages)
          BY <2>1, <2>2, <3>1, <3>4, <3>5
        <4> QED
          BY <2>3, <3>3, <3>5, <4>1
      <3>6. ASSUME 2 * i <= Len(messages')
            PROVE  messages'[2 * i] = Result(i) /\ told[i] # NotYet
        <4>1. CASE i = nth
          BY <2>2, <2>3, <4>1
        <4>2. CASE i # nth
          <5>1. 2 * i \in 1 .. Len(messages)
            BY <2>1, <2>2, <3>2, <3>4, <3>6, <4>2
          <5> QED
            BY <2>3, <3>3, <3>6, <4>2, <5>1
        <4> QED
          BY <4>1, <4>2
      <3> QED
        BY <3>5, <3>6
    <2>5. Len(messages') = 2 * nth' - 2
      BY <2>1, <2>3
    <2> QED
      BY <2>1, <2>4, <2>5 DEF PairsInOrder, Request, Result
  <1> QED
    BY <1>7, <1>8, <1>9, <1>10, <1>11, <1>12, <1>13, <1>14 DEF RoundNext

\* Steps of the ledger keep telling the truth while later calls are invoked.
LEMMA StepsTellKept ==
  ASSUME RoundInv, [RoundNext]_roundVars
  PROVE  StepsTell'
  <1>0. RoundType /\ RunsInTurn /\ Permitted /\ StepsTell
    BY DEF RoundInv
  <1>1. round' = round /\ Calls' = Calls /\ CallsOf' = CallsOf
    BY RoundIsFixed
  <1>2. \A t : Decide(t)' = Decide(t)
    BY <1>1, DecideIsFixed
  <1>3. exemptNow \subseteq exemptNow'
    BY DEF RoundNext, roundVars, Plan, StartChunk, NextChunk, PersistParallel, FinishOne, StoreCall,
           Permit, Decision, Skip, InvokeOne, StoreResult
  <1>4. \A t : (Decide(t) = "allow" \/ Exempt(t)) => (Decide(t)' = "allow" \/ Exempt(t)')
    BY <1>1, <1>2, <1>3 DEF Exempt
  <1>5. /\ nth \in Nat /\ (roundAt # "over" => nth \in CallsOf) /\ CallsOf \subseteq Nat
        /\ steps \in Seq(StepType)
    BY <1>0, RoundsAssumption DEF RoundType, Calls, CallsOf
  <1>rows. \A s \in DOMAIN steps : steps[s] \in StepType /\ steps[s].call \in Nat
    <2>1. \A row \in StepType : row.call \in Nat
      BY DEF StepType
    <2>2. \A s \in DOMAIN steps : steps[s] \in StepType
      BY <1>5
    <2> QED
      BY <2>1, <2>2
  <1> DEFINE Tells(row, run) ==
               LET t == Calls[row.call]
               IN  /\ row.call \in run => \/ row.how = "auto" /\ (Decide(t) = "allow" \/ Exempt(t))
                                          \/ row.how \in {"accept", "edit"}
                   /\ row.call \notin run => row.how \notin {"auto", "accept", "edit"}
  <1>6. RanByPermission <=> \A s \in DOMAIN steps : Tells(steps[s], invoked)
    BY DEF RanByPermission
  <1>7. ASSUME \A s \in DOMAIN steps' : Tells(steps'[s], invoked')
        PROVE  RanByPermission'
    BY <1>1, <1>2, <1>3, <1>4, <1>7 DEF RanByPermission
  <1>8. ASSUME NEW row \in StepType, row.call # nth, Tells(row, invoked)
        PROVE  Tells(row, invoked \cup {nth})
    BY <1>8
  <1> HIDE DEF Tells
  <1> USE <1>1, <1>5 DEF Serial, Side
  \* steps stay, and what is invoked now is of no step yet
  <1>10. ASSUME steps' = steps, invoked' = invoked, nth' = nth \/ steps = <<>>,
                roundAt' \in {"plan", "chunk", "running"} => steps = <<>>
         PROVE  StepsTell'
    BY <1>0, <1>6, <1>7, <1>rows, <1>10 DEF StepsTell, RoundType
  <1>11. ASSUME NEW row \in StepType, steps' = Append(steps, row), row.call = nth, nth' = nth + 1,
                nth \in CallsOf, invoked' = invoked, Tells(row, invoked),
                roundAt' \notin {"plan", "chunk", "running"}
         PROVE  StepsTell'
    <2>1. DOMAIN steps' = DOMAIN steps \cup {Len(steps) + 1} /\ steps'[Len(steps) + 1] = row
          /\ \A s \in DOMAIN steps : steps'[s] = steps[s]
      BY <1>11
    <2>2. \A s \in DOMAIN steps' : Tells(steps'[s], invoked')
      BY <1>0, <1>6, <1>11, <2>1 DEF StepsTell
    <2>3. \A s \in DOMAIN steps' : steps'[s].call \in CallsOf /\ steps'[s].call < nth'
      BY <1>0, <1>rows, <1>11, <2>1 DEF StepsTell
    <2> QED
      BY <1>7, <1>11, <2>2, <2>3 DEF StepsTell
  <1>12. CASE UNCHANGED roundVars \/ Plan \/ NextChunk \/ StoreCall \/ Permit \/ Decision
              \/ \E i \in CallsOf : FinishOne(i)
    <2>1. steps' = steps /\ invoked' = invoked
          /\ (roundAt' \in {"plan", "chunk", "running"} => roundAt \in {"plan", "chunk", "running"})
          /\ (nth' = nth \/ roundAt = "running")
      BY <1>12 DEF roundVars, Plan, NextChunk, StoreCall, Permit, Decision, FinishOne
    <2> QED
      BY <1>0, <1>10, <2>1 DEF StepsTell
  <1>13. CASE StartChunk
    <2>1. steps' = steps /\ roundAt = "chunk"
      BY <1>13 DEF StartChunk
    <2>2. steps' = <<>>
      BY <1>0, <2>1 DEF StepsTell
    <2> QED
      BY <2>2 DEF StepsTell, RanByPermission
  <1>14. CASE InvokeOne
    <2>1. /\ steps' = steps /\ nth' = nth /\ invoked' = invoked \cup {nth}
          /\ roundAt = "invoke" /\ roundAt' = "invoked"
      BY <1>14 DEF InvokeOne
    <2>2. \A s \in DOMAIN steps : nth # steps[s].call
      BY <1>0, <1>rows, <2>1 DEF StepsTell
    <2>3. \A s \in DOMAIN steps' : Tells(steps'[s], invoked')
      BY <1>0, <1>6, <1>8, <1>rows, <2>1, <2>2 DEF StepsTell
    <2> QED
      BY <1>0, <1>7, <2>1, <2>3 DEF StepsTell
  <1>15. CASE PersistParallel
    <2> DEFINE row == StepRow(nth, "auto")
    <2>1. /\ steps' = Append(steps, row) /\ invoked' = invoked /\ nth' = nth + 1
          /\ roundAt = "persist" /\ roundAt' \in {"over", "persist"} /\ nth \in CallsOf
      BY <1>15 DEF PersistParallel
    <2>2. nth \in invoked /\ LetThrough(nth)
      BY <1>0, <2>1 DEF RunsInTurn, Permitted
    <2>3. row \in StepType /\ row.call = nth /\ row.how = "auto"
      BY <1>0, <2>1 DEF StepRow, StepType, RoundType, Hows
    <2>4. Tells(row, invoked)
      BY <2>2, <2>3 DEF Tells, LetThrough
    <2> HIDE DEF row
    <2> QED
      BY <1>11, <2>1, <2>3, <2>4
  <1>16. CASE Skip
    <2> DEFINE how == IF told[nth] = "declined" THEN perm ELSE "nobody"
               row == StepRow(nth, how)
    <2>1. /\ steps' = Append(steps, row) /\ invoked' = invoked /\ nth' = nth + 1
          /\ roundAt = "skip" /\ roundAt' \in {"over", "call"} /\ nth \in CallsOf
      BY <1>16 DEF Skip
    <2>2. nth \notin invoked /\ how \in {"respond", "ignore", "timeout", "nobody"}
      BY <1>0, <2>1 DEF RunsInTurn, Permitted
    <2>3. row \in StepType /\ row.call = nth /\ row.how = how
      BY <1>0, <2>1, <2>2 DEF StepRow, StepType, RoundType, Hows
    <2>4. Tells(row, invoked)
      <3> HIDE DEF row, how
      <3> QED
        BY <2>2, <2>3 DEF Tells
    <2> HIDE DEF row
    <2> QED
      BY <1>11, <2>1, <2>3, <2>4
  <1>17. CASE StoreResult
    <2> DEFINE row == StepRow(nth, perm)
    <2>1. /\ steps' = Append(steps, row) /\ invoked' = invoked /\ nth' = nth + 1
          /\ roundAt = "invoked" /\ roundAt' \in {"over", "call"} /\ nth \in CallsOf
      BY <1>17 DEF StoreResult
    <2>2. /\ nth \in invoked /\ perm \in {"auto", "accept", "edit"}
          /\ perm = "auto" => LetThrough(nth)
      BY <1>0, <2>1 DEF RunsInTurn, Permitted
    <2>3. row \in StepType /\ row.call = nth /\ row.how = perm
      BY <1>0, <2>1, <2>2 DEF StepRow, StepType, RoundType, Hows
    <2>4. Tells(row, invoked)
      <3> HIDE DEF row
      <3> QED
        BY <2>2, <2>3 DEF Tells, LetThrough
    <2> HIDE DEF row
    <2> QED
      BY <1>11, <2>1, <2>3, <2>4
  <1> QED
    BY <1>12, <1>13, <1>14, <1>15, <1>16, <1>17 DEF RoundNext

\* Messages come in pairs: an odd place holds a request, an even one a result.
LEMMA PlacesArePaired ==
  ASSUME NEW n \in Nat \ {0}
  PROVE  LET i == (n + 1) \div 2
         IN  /\ i \in Nat \ {0}
             /\ n % 2 = 1 => n = 2 * i - 1
             /\ n % 2 # 1 => n = 2 * i
  OBVIOUS

\* What the properties say follows from the invariant.
LEMMA PermissionFromInv ==
  RoundInv => CallsByPermission
  <1> SUFFICES ASSUME RoundInv
               PROVE  CallsByPermission
    OBVIOUS
  <1>1. DeniedOnlyOverBudget /\ RanByPermission
    BY DEF RoundInv, Permitted, StepsTell, DeniedOnlyOverBudget, MayRun, NotBarred, ByExemption
  <1>2. ReplyInOrder
    <2> SUFFICES ASSUME NEW n \in DOMAIN messages
                 PROVE  LET i == (n + 1) \div 2
                        IN  IF n % 2 = 1 THEN messages[n] = Request(i)
                            ELSE /\ messages[n].call = i
                                 /\ i \in invoked /\ round.answers[i] # "any"
                                      => messages[n].what = round.answers[i]
      BY DEF ReplyInOrder
    <2> DEFINE i == (n + 1) \div 2
    <2>0. RoundType /\ RunsInTurn /\ PairsInOrder
      BY DEF RoundInv
    <2>1. n \in Nat \ {0} /\ n <= Len(messages) /\ Len(messages) \in Nat
      BY <2>0 DEF RoundType
    <2>2. i \in Nat \ {0} /\ (n % 2 = 1 => n = 2 * i - 1) /\ (n % 2 # 1 => n = 2 * i)
      BY <2>1, PlacesArePaired
    <2>3. Len(Calls) \in Nat /\ CallsOf = 1 .. Len(Calls)
      BY <2>0, RoundsAssumption DEF RoundType, Calls, CallsOf
    <2>4. Len(messages) <= 2 * Len(Calls)
      BY <2>0, <2>3 DEF RoundType, PairsInOrder, Serial, Side
    <2> HIDE DEF i
    <2>5. i \in CallsOf
      BY <2>1, <2>2, <2>3, <2>4
    <2>6. CASE n % 2 = 1
      <3>1. messages[n] = Request(i)
        BY <2>0, <2>1, <2>2, <2>5, <2>6 DEF PairsInOrder
      <3> QED
        BY <2>6, <3>1 DEF i
    <2>7. CASE n % 2 # 1
      <3>1. messages[n] = Result(i) /\ told[i] # NotYet
        BY <2>0, <2>1, <2>2, <2>5, <2>7 DEF PairsInOrder
      <3>2. messages[n].call = i /\ messages[n].what = told[i]
        BY <3>1 DEF Result
      <3>3. i \in invoked /\ round.answers[i] # "any" => told[i] = round.answers[i]
        BY <2>0, <3>1 DEF RunsInTurn
      <3> QED
        BY <2>7, <3>2, <3>3 DEF i
    <2> QED
      BY <2>6, <2>7
  <1> QED
    BY <1>1, <1>2 DEF CallsByPermission

\* CallsByPermission: for any calls, overrides, scopes, servers and answers of the
\* user, for any skills, whose tools share a budget but not a permission, and in
\* whatever order parallel tools come back.
THEOREM CallsArePermitted == RoundSpec => []CallsByPermission
  <1>1. RoundInit => RoundInv
    <2> SUFFICES ASSUME RoundInit
                 PROVE  RoundInv
      OBVIOUS
    <2>1. Len(Calls) \in Nat \ {0} /\ CallsOf = 1 .. Len(Calls)
          /\ round.used \in [DOMAIN SkillTools -> Nat]
      BY RoundsAssumption DEF RoundInit, Calls, CallsOf
    <2>2. RoundType
      BY <2>1 DEF RoundInit, RoundType, Whats, CallsOf, Calls
    <2>3. RunsInTurn /\ Permitted /\ StepsTell
      BY <2>1 DEF RoundInit, RunsInTurn, Permitted, StepsTell, Serial, Side,
                  RanByPermission,
                  CallsOf, Calls
    <2>4. PairsInOrder
      BY <2>1 DEF RoundInit, PairsInOrder, Serial
    <2> QED
      BY <2>2, <2>3, <2>4 DEF RoundInv
  <1>2. RoundInv /\ [RoundNext]_roundVars => RoundInv'
    BY RoundTypeKept, RunsInTurnKept, InOrderKept, PermittedKept, StepsTellKept DEF RoundInv
  <1> QED
    BY <1>1, <1>2, PermissionFromInv, PTL DEF RoundSpec
-----------------------------------------------------------------------------
(***************************************************************************)
(* BoardOrder.  An operation that runs alone finds the board as it has     *)
(* read it, and what it writes puts its card next to the one it was asked  *)
(* to stand next to.  That a column can be put in order at all rests on    *)
(* ranks: a card stands where as many cards of the column come before it.  *)
(***************************************************************************)
CardRow == [col : Columns \cup {"none", "gone"}, idx : Nat]
Hand == [op : {"idle", "create", "update", "write", "reorder", "place"},
         card : Cards \cup {AtEnd}, col : Columns \cup {"none"}, old : CardRow, idx : Nat,
         before : Cards \cup {AtEnd}, line : Seq(Cards), at : Nat, alone : BOOLEAN]
\* A hand at work has a card and a column.
HasWork(h) ==
  h.op # "idle" => /\ h.card \in Cards /\ h.col \in Columns
                   /\ h.op # "place" \/ h.at # 0
CardsType ==
  /\ boardKit \in [actors : SUBSET STRING, edits : Nat]
  /\ card \in [Cards -> CardRow]
  /\ hands \in [boardKit.actors -> Hand]
  /\ \A a \in boardKit.actors : HasWork(hands[a])

\* A line holds the cards of a column once each.
LineOf(line, col) ==
  /\ line \in Seq(Cards)
  /\ \A i \in 1 .. Len(line) : line[i] \in Column(col)
  /\ \A i, j \in 1 .. Len(line) : i # j => line[i] # line[j]
  /\ \A c \in Column(col) : \E i \in 1 .. Len(line) : line[i] = c

\* In it c stands right before b, or last when b is not another card of it.
Stands(line, col, c, b) ==
  \E i \in 1 .. Len(line) :
    /\ line[i] = c
    /\ IF b \in Column(col) \ {c} THEN i < Len(line) /\ line[i + 1] = b ELSE i = Len(line)

\* What an operation that runs alone has read is still so.
Expects(h) ==
  /\ h.op = "create" => /\ card[h.card].col = "none"
                        /\ \A d \in Column(h.col) : card[d].idx < h.idx
  /\ h.op \in {"update", "write"} => h.card \in OnBoard /\ h.old = card[h.card]
  /\ h.op = "write" /\ h.col # h.old.col => \A d \in Column(h.col) : card[d].idx < h.idx
  /\ h.op = "reorder" => h.card \in Column(h.col) /\ h.before \in Column(h.col) \cup {AtEnd}
  /\ h.op = "place" =>
       /\ h.card \in Column(h.col) /\ h.before \in Column(h.col) \cup {AtEnd}
       /\ LineOf(h.line, h.col) /\ Stands(h.line, h.col, h.card, h.before)
       /\ h.at \in 1 .. Len(h.line)
       /\ \A k \in 1 .. h.at - 1 : card[h.line[k]].idx = k - 1

\* The card of p is where it was promised to be.
Placed(p) ==
  /\ p.card \in OnBoard
  /\ IF p.before = AtEnd
     THEN \A d \in Column(card[p.card].col) \ {p.card} : Before(d, p.card)
     ELSE /\ p.before \in Column(card[p.card].col)
          /\ Before(p.card, p.before)
          /\ \A d \in Column(card[p.card].col) : ~(Before(p.card, d) /\ Before(d, p.before))

CardsInv ==
  /\ CardsType
  /\ \A a \in boardKit.actors : hands[a].alone => Expects(hands[a])
  /\ \A p \in ordered : Placed(p)
-----------------------------------------------------------------------------
LEMMA ColumnIsFinite ==
  ASSUME NEW col
  PROVE  /\ Column(col) \subseteq Cards /\ Cards \subseteq Nat \ {0}
         /\ IsFiniteSet(Column(col)) /\ Cardinality(Column(col)) \in Nat
<1>1. Column(col) \in SUBSET Cards /\ IsFiniteSet(Cards) /\ Cards \subseteq Nat \ {0}
  BY BoardAssumption DEF Column
<1>2. IsFiniteSet(Column(col))
  BY <1>1, FS_Subset
<1> QED
  BY <1>1, <1>2, FS_CardinalityType

\* ORDER BY order_idx, id is a strict order that ids make total.
LEMMA BeforeIsTotal ==
  ASSUME CardsType
  PROVE  /\ \A c, d \in Cards : c = d \/ Before(c, d) \/ Before(d, c)
         /\ \A c, d \in Cards : ~(Before(c, d) /\ Before(d, c))
         /\ \A c, d, e \in Cards : Before(c, d) /\ Before(d, e) => Before(c, e)
<1>1. Cards \subseteq Nat /\ \A c \in Cards : card[c].idx \in Nat
  BY BoardAssumption DEF CardsType, CardRow
<1>2. ASSUME NEW c \in Cards, NEW d \in Cards
      PROVE  /\ c = d \/ Before(c, d) \/ Before(d, c)
             /\ ~(Before(c, d) /\ Before(d, c))
  <2>1. c \in Nat /\ d \in Nat /\ card[c].idx \in Nat /\ card[d].idx \in Nat
    BY <1>1
  <2> QED
    BY <2>1 DEF Before
<1>3. ASSUME NEW c \in Cards, NEW d \in Cards, NEW e \in Cards, Before(c, d), Before(d, e)
      PROVE  Before(c, e)
  <2>1. /\ c \in Nat /\ d \in Nat /\ e \in Nat
        /\ card[c].idx \in Nat /\ card[d].idx \in Nat /\ card[e].idx \in Nat
    BY <1>1
  <2> QED
    BY <1>3, <2>1 DEF Before
<1> QED
  BY <1>2, <1>3

\* A column can be put in order: each card to the place that as many cards stand before.
LEMMA OrderExists ==
  ASSUME CardsType, NEW col
  PROVE  \E s \in SetToSeqs(Column(col)) : \A i, j \in 1 .. Len(s) : i < j => Before(s[i], s[j])
<1> DEFINE S == Column(col)
           N == Cardinality(S)
           below(c) == {d \in S : Before(d, c)}
           rank == [c \in S |-> Cardinality(below(c)) + 1]
<1>1. S \subseteq Cards /\ IsFiniteSet(S) /\ N \in Nat
  BY ColumnIsFinite
<1>2. ASSUME NEW c \in S
      PROVE  IsFiniteSet(below(c)) /\ Cardinality(below(c)) \in Nat /\ Cardinality(below(c)) < N
  <2>1. below(c) \in SUBSET S /\ c \notin below(c)
    BY <1>1, <1>2, BeforeIsTotal
  <2> HIDE DEF S, below
  <2>2. IsFiniteSet(below(c)) /\ Cardinality(below(c)) <= N
        /\ (N = Cardinality(below(c)) => S = below(c))
    BY <1>1, <2>1, FS_Subset
  <2>3. Cardinality(below(c)) \in Nat
    BY <2>2, FS_CardinalityType
  <2> QED
    BY <1>1, <1>2, <2>1, <2>2, <2>3
<1>3. ASSUME NEW c \in S, NEW d \in S, Before(c, d)
      PROVE  rank[c] < rank[d]
  <2>1. below(c) \in SUBSET below(d) /\ c \in below(d) /\ c \notin below(c)
    BY <1>1, <1>3, BeforeIsTotal
  <2>2. IsFiniteSet(below(d)) /\ Cardinality(below(c)) \in Nat /\ Cardinality(below(d)) \in Nat
    BY <1>2
  <2>3. rank[c] = Cardinality(below(c)) + 1 /\ rank[d] = Cardinality(below(d)) + 1
    OBVIOUS
  <2> HIDE DEF below, rank, S
  <2>4. Cardinality(below(c)) <= Cardinality(below(d))
        /\ (Cardinality(below(d)) = Cardinality(below(c)) => below(d) = below(c))
    BY <2>1, <2>2, FS_Subset
  <2> QED
    BY <2>1, <2>2, <2>3, <2>4
<1>4. \A c \in S : rank[c] \in 1 .. N
  <2> SUFFICES ASSUME NEW c \in S
               PROVE  rank[c] \in 1 .. N
    OBVIOUS
  <2>1. rank[c] = Cardinality(below(c)) + 1
    OBVIOUS
  <2> HIDE DEF rank, below
  <2> QED
    BY <1>1, <1>2, <2>1
<1>5. \A c, d \in S : rank[c] = rank[d] => c = d
  <2> SUFFICES ASSUME NEW c \in S, NEW d \in S, rank[c] = rank[d], c # d
               PROVE  FALSE
    OBVIOUS
  <2>1. Before(c, d) \/ Before(d, c)
    BY <1>1, BeforeIsTotal
  <2>2. rank[c] \in Nat
    BY <1>4
  <2>3. rank[d] \in Nat
    BY <1>4
  <2> HIDE DEF rank
  <2> QED
    BY <1>3, <2>1, <2>2, <2>3
<1>6. rank \in [S -> 1 .. N]
  BY <1>4
<1> HIDE DEF S, rank
<1>7. rank \in Surjection(S, 1 .. N)
  <2>1. rank \in Injection(S, 1 .. N)
    BY <1>5, <1>6 DEF Injection, IsInjective
  <2>2. IsFiniteSet(1 .. N) /\ Cardinality(1 .. N) = N
    BY <1>1, FS_Interval
  <2> QED
    BY <2>1, <2>2, FS_Injection
<1> DEFINE s == [i \in 1 .. N |-> CHOOSE c \in S : rank[c] = i]
<1>8. \A i \in 1 .. N : s[i] \in S /\ rank[s[i]] = i
  BY <1>7 DEF Surjection
<1>9. s \in SetToSeqs(S)
  BY <1>8 DEF SetToSeqs
<1>10. Len(s) = N
  BY <1>1
<1>11. \A i, j \in 1 .. N : i < j => Before(s[i], s[j])
  <2> SUFFICES ASSUME NEW i \in 1 .. N, NEW j \in 1 .. N, i < j, ~Before(s[i], s[j])
               PROVE  FALSE
    OBVIOUS
  <2>1. s[i] # s[j] /\ s[i] \in Cards /\ s[j] \in Cards
    BY <1>1, <1>8
  <2>2. Before(s[j], s[i])
    BY <2>1, BeforeIsTotal
  <2>3. rank[s[j]] < rank[s[i]]
    BY <1>3, <1>8, <2>2
  <2> QED
    BY <1>8, <2>3
<1> HIDE DEF s
<1> QED
  BY <1>9, <1>10, <1>11 DEF S

\* A column in order is a line of its cards, the earlier before the later.
LEMMA LineIsSorted ==
  ASSUME CardsType, NEW col
  PROVE  /\ LineOf(InOrder(col), col)
         /\ \A i, j \in 1 .. Len(InOrder(col)) : i < j => Before(InOrder(col)[i], InOrder(col)[j])
<1> DEFINE S == Column(col)
           N == Cardinality(S)
           s == InOrder(col)
<1>1. S \subseteq Cards /\ IsFiniteSet(S) /\ N \in Nat
  BY ColumnIsFinite
<1>2. s \in SetToSeqs(S) /\ \A i, j \in 1 .. Len(s) : i < j => Before(s[i], s[j])
  BY OrderExists DEF InOrder
<1> HIDE DEF S, s
<1>3. s \in [1 .. N -> S] /\ \A i, j \in 1 .. N : i # j => s[i] # s[j]
  BY <1>2 DEF SetToSeqs
<1>4. s \in Seq(S) /\ Len(s) = N
  BY <1>1, <1>3, SeqDef
<1>5. s \in Seq(Cards)
  BY <1>1, <1>4, SeqMonotonic
<1>6. s \in Injection(1 .. N, S)
  BY <1>3 DEF Injection, IsInjective
<1>7. IsFiniteSet(1 .. N) /\ Cardinality(1 .. N) = N
  BY <1>1, FS_Interval
<1>8. s \in Surjection(1 .. N, S)
  BY <1>1, <1>6, <1>7, FS_Injection
<1>9. \A c \in S : \E i \in 1 .. N : s[i] = c
  BY <1>8 DEF Surjection
<1> QED
  BY <1>2, <1>3, <1>4, <1>5, <1>9 DEF LineOf, S, s

LEMMA PlaceOf ==
  ASSUME NEW line, NEW col, LineOf(line, col), NEW i \in 1 .. Len(line)
  PROVE  PlaceIn(line, line[i]) = i
<1>1. \A j \in 1 .. Len(line) : line[j] = line[i] => j = i
  BY DEF LineOf
<1> QED
  BY <1>1 DEF PlaceIn

\* Where a card is promised to be is where the column in order has it.
LEMMA PlacedIsShown ==
  ASSUME CardsInv
  PROVE  PlacedWhereAsked
<1> SUFFICES ASSUME NEW p \in ordered
             PROVE  LET line == InOrder(card[p.card].col)
                        i == PlaceIn(line, p.card)
                    IN IF p.before = AtEnd THEN i = Len(line)
                       ELSE i < Len(line) /\ line[i + 1] = p.before
  BY DEF PlacedWhereAsked
<1> DEFINE col == card[p.card].col
           line == InOrder(col)
<1>1. CardsType /\ Placed(p) /\ p.card \in Column(col)
  BY DEF CardsInv, Placed, OnBoard, Column
<1>2. LineOf(line, col) /\ \A i, j \in 1 .. Len(line) : i < j => Before(line[i], line[j])
  BY <1>1, LineIsSorted
<1> HIDE DEF line
<1>3. Len(line) \in Nat /\ \A i \in 1 .. Len(line) : line[i] \in Cards
  BY <1>2, LenProperties, ElementOfSeq DEF LineOf
<1>4. PICK i \in 1 .. Len(line) : line[i] = p.card
  BY <1>1, <1>2 DEF LineOf
<1>5. PlaceIn(line, p.card) = i
  BY <1>2, <1>4, PlaceOf
<1>6. CASE p.before = AtEnd
  <2>1. SUFFICES ASSUME i < Len(line)
                 PROVE  FALSE
    BY <1>3, <1>5, <1>6 DEF line
  <2> DEFINE d == line[Len(line)]
  <2>2. Len(line) \in 1 .. Len(line) /\ d \in Column(col) /\ d # p.card
    BY SMTT(60), <1>2, <1>3, <1>4, <2>1 DEF LineOf
  <2>3. Before(d, p.card)
    BY <1>1, <1>6, <2>2 DEF Placed
  <2>4. Before(p.card, d)
    BY <1>2, <1>4, <2>1, <2>2
  <2>5. d \in Cards /\ p.card \in Cards
    BY <1>3, <1>4, <2>2
  <2> QED
    BY <1>1, <2>3, <2>4, <2>5, BeforeIsTotal
<1>7. CASE p.before # AtEnd
  <2>1. /\ p.before \in Column(col) /\ Before(p.card, p.before)
        /\ \A d \in Column(col) : ~(Before(p.card, d) /\ Before(d, p.before))
    BY <1>1, <1>7 DEF Placed
  <2>2. PICK j \in 1 .. Len(line) : line[j] = p.before
    BY <1>2, <2>1 DEF LineOf
  <2>3. i < j
    <3>1. p.card \in Cards /\ p.before \in Cards
      BY <1>3, <1>4, <2>2
    <3>2. i # j /\ ~(j < i)
      BY <1>1, <1>2, <1>4, <2>1, <2>2, <3>1, BeforeIsTotal
    <3> QED
      BY <3>2
  <2>4. i + 1 \in 1 .. Len(line)
    BY <2>3
  <2>5. ~(i + 1 < j)
    <3>1. SUFFICES ASSUME i + 1 < j
                   PROVE  FALSE
      OBVIOUS
    <3>2. Before(p.card, line[i + 1]) /\ Before(line[i + 1], p.before)
      BY <1>2, <1>4, <2>2, <2>4, <3>1
    <3>3. line[i + 1] \in Column(col)
      BY <1>2, <2>4 DEF LineOf
    <3> QED
      BY <2>1, <3>2, <3>3
  <2>6. j = i + 1
    BY <2>3, <2>4, <2>5
  <2> QED
    BY <1>5, <1>7, <2>2, <2>3, <2>6 DEF line
<1> QED
  BY <1>6, <1>7

\* MAX(order_idx) + 1 is behind every card of the column.
LEMMA NextIsBehind ==
  ASSUME CardsType, NEW col
  PROVE  NextIndex(col) \in Nat /\ \A d \in Column(col) : card[d].idx < NextIndex(col)
<1>1. \A d \in Column(col) : d \in Cards /\ card[d].idx \in Nat
  BY DEF CardsType, CardRow, Column
<1>2. CASE Column(col) = {}
  BY <1>2 DEF NextIndex
<1>3. CASE Column(col) # {}
  <2> DEFINE line == InOrder(col)
             Largest(m) == \A c \in Column(col) : card[c].idx <= m
             idxs == {card[c].idx : c \in Column(col)}
  <2>1. LineOf(line, col) /\ \A i, j \in 1 .. Len(line) : i < j => Before(line[i], line[j])
    BY LineIsSorted
  <2> HIDE DEF line
  <2>2. Len(line) \in Nat
    BY <2>1, LenProperties DEF LineOf
  <2>3. PICK c \in Column(col) : TRUE
    BY <1>3
  <2>4. Len(line) \in 1 .. Len(line)
    BY <2>1, <2>2, <2>3 DEF LineOf
  <2> DEFINE last == line[Len(line)]
  <2>5. last \in Column(col)
    BY <2>1, <2>4 DEF LineOf
  <2>6. Largest(card[last].idx)
    <3>1. SUFFICES ASSUME NEW d \in Column(col)
                   PROVE  card[d].idx <= card[last].idx
      OBVIOUS
    <3>2. PICK i \in 1 .. Len(line) : line[i] = d
      BY <2>1 DEF LineOf
    <3>3. d = last \/ Before(d, last)
      BY <2>1, <2>4, <3>2
    <3> QED
      BY <1>1, <2>5, <3>1, <3>3 DEF Before
  <2>7. \E m \in idxs : Largest(m)
    BY <2>5, <2>6
  <2> DEFINE most == CHOOSE m \in idxs : Largest(m)
  <2>8. most \in idxs /\ Largest(most)
    BY <2>7
  <2>9. NextIndex(col) = 1 + most
    BY <1>3 DEF NextIndex
  <2> HIDE DEF most
  <2>10. most \in Nat
    BY <1>1, <2>8
  <2> QED
    BY <1>1, <2>8, <2>9, <2>10
<1> QED
  BY <1>2, <1>3

\* What remains of a sequence without its i-th element.
LEMMA RemoveAtIs ==
  ASSUME NEW S, NEW s \in Seq(S), NEW i \in 1 .. Len(s)
  PROVE  /\ RemoveAt(s, i) \in Seq(S) /\ Len(RemoveAt(s, i)) = Len(s) - 1
         /\ \A k \in 1 .. Len(s) - 1 : RemoveAt(s, i)[k] = IF k < i THEN s[k] ELSE s[k + 1]
<1> DEFINE front == SubSeq(s, 1, i - 1)
           back == SubSeq(s, i + 1, Len(s))
<1>1. Len(s) \in Nat /\ \A k \in 1 .. Len(s) : s[k] \in S
  BY LenProperties, ElementOfSeq
<1>2. /\ front \in Seq(S) /\ Len(front) = i - 1
      /\ \A k \in 1 .. i - 1 : front[k] = s[k]
  BY <1>1, SubSeqProperties
<1>3. /\ back \in Seq(S) /\ Len(back) = Len(s) - i
      /\ \A k \in 1 .. Len(s) - i : back[k] = s[i + k]
  BY <1>1, SubSeqProperties
<1>4. RemoveAt(s, i) = front \o back
  BY DEF RemoveAt
<1> HIDE DEF front, back
<1> DEFINE whole == RemoveAt(s, i)
<1>5. /\ whole \in Seq(S) /\ Len(whole) = Len(front) + Len(back)
      /\ \A k \in 1 .. Len(front) + Len(back) :
           whole[k] = IF k <= Len(front) THEN front[k] ELSE back[k - Len(front)]
  <2>1. front \in Seq(S) /\ back \in Seq(S)
    BY <1>2, <1>3
  <2> QED
    BY ZenonT(60), <1>4, <2>1, ConcatProperties
<1> HIDE DEF whole
<1>6. ASSUME NEW k \in 1 .. Len(s) - 1
      PROVE  whole[k] = IF k < i THEN s[k] ELSE s[k + 1]
  <2>1. CASE k < i
    <3>1. k \in 1 .. Len(front) + Len(back) /\ k <= Len(front) /\ k \in 1 .. i - 1
      BY <1>1, <1>2, <1>3, <2>1
    <3> QED
      BY <1>2, <1>5, <2>1, <3>1
  <2>2. CASE ~(k < i)
    <3>1. /\ k - Len(front) \in 1 .. Len(s) - i /\ i + (k - Len(front)) = k + 1
          /\ ~(k <= Len(front)) /\ k \in 1 .. Len(front) + Len(back)
      BY <1>1, <1>2, <1>3, <2>2
    <3> QED
      BY <1>3, <1>5, <2>2, <3>1
  <2> QED
    BY <2>1, <2>2
<1>7. Len(whole) = Len(s) - 1
  BY <1>1, <1>2, <1>3, <1>5
<1> QED
  BY <1>5, <1>6, <1>7 DEF whole

\* A sequence with e put before its i-th element.
LEMMA InsertAtIs ==
  ASSUME NEW S, NEW s \in Seq(S), NEW i \in 1 .. Len(s), NEW e \in S
  PROVE  /\ InsertAt(s, i, e) \in Seq(S) /\ Len(InsertAt(s, i, e)) = Len(s) + 1
         /\ \A k \in 1 .. Len(s) + 1 :
              InsertAt(s, i, e)[k] = IF k < i THEN s[k] ELSE IF k = i THEN e ELSE s[k - 1]
<1> DEFINE front == SubSeq(s, 1, i - 1)
           back == SubSeq(s, i, Len(s))
           first == front \o <<e>>
<1>1. Len(s) \in Nat /\ \A k \in 1 .. Len(s) : s[k] \in S
  BY LenProperties, ElementOfSeq
<1>2. /\ front \in Seq(S) /\ Len(front) = i - 1
      /\ \A k \in 1 .. i - 1 : front[k] = s[k]
  BY <1>1, SubSeqProperties
<1>3. /\ back \in Seq(S) /\ Len(back) = Len(s) - i + 1
      /\ \A k \in 1 .. Len(s) - i + 1 : back[k] = s[i + k - 1]
  BY <1>1, SubSeqProperties
<1>4. InsertAt(s, i, e) = first \o back
  BY DEF InsertAt
<1>5. <<e>> \in Seq(S) /\ Len(<<e>>) = 1 /\ <<e>>[1] = e
  OBVIOUS
<1> HIDE DEF front, back
<1>6. /\ first \in Seq(S) /\ Len(first) = i
      /\ \A k \in 1 .. i - 1 : first[k] = s[k]
      /\ first[i] = e
  BY <1>1, <1>2, <1>5, ConcatProperties
<1> HIDE DEF first
<1> DEFINE whole == InsertAt(s, i, e)
<1>7. /\ whole \in Seq(S) /\ Len(whole) = Len(first) + Len(back)
      /\ \A k \in 1 .. Len(first) + Len(back) :
           whole[k] = IF k <= Len(first) THEN first[k] ELSE back[k - Len(first)]
  <2>1. first \in Seq(S) /\ back \in Seq(S)
    BY <1>3, <1>6
  <2> QED
    BY ZenonT(60), <1>4, <2>1, ConcatProperties
<1> HIDE DEF whole
<1>8. ASSUME NEW k \in 1 .. Len(s) + 1
      PROVE  whole[k] = IF k < i THEN s[k] ELSE IF k = i THEN e ELSE s[k - 1]
  <2>1. CASE k <= i
    BY <1>1, <1>3, <1>6, <1>7, <2>1
  <2>2. CASE ~(k <= i)
    <3>1. /\ k - i \in 1 .. Len(s) - i + 1 /\ i + (k - i) - 1 = k - 1
          /\ ~(k < i) /\ k # i /\ ~(k <= Len(first)) /\ k \in 1 .. Len(first) + Len(back)
      BY <1>1, <1>3, <1>6, <2>2
    <3>2. whole[k] = back[k - i] /\ back[k - i] = s[k - 1]
      BY <1>3, <1>6, <1>7, <3>1
    <3> QED
      BY <3>1, <3>2
  <2> QED
    BY <2>1, <2>2
<1>9. Len(whole) = Len(s) + 1
  BY <1>1, <1>3, <1>6, <1>7
<1> QED
  BY <1>7, <1>8, <1>9 DEF whole

\* A card that is dragged leaves a line of the same column, and stands where it was dropped.
LEMMA DroppedIsALine ==
  ASSUME NEW s, NEW col, LineOf(s, col), NEW c \in Column(col), NEW b
  PROVE  LineOf(Dropped(s, c, b), col) /\ Stands(Dropped(s, c, b), col, c, b)
<1> DEFINE p == PlaceIn(s, c)
           rest == RemoveAt(s, p)
           n == Len(rest)
<1>1. PICK i \in 1 .. Len(s) : s[i] = c
  BY DEF LineOf
<1>2. p = i
  BY <1>1, PlaceOf
<1>3. s \in Seq(Cards) /\ Len(s) \in Nat /\ c \in Cards
  BY LenProperties DEF LineOf, Column
<1>4. /\ rest \in Seq(Cards) /\ n = Len(s) - 1 /\ n \in Nat
      /\ \A k \in 1 .. n : rest[k] = IF k < i THEN s[k] ELSE s[k + 1]
  BY <1>2, <1>3, RemoveAtIs
<1> HIDE DEF rest
<1>5. /\ \A k \in 1 .. n : rest[k] \in Column(col) /\ rest[k] # c
      /\ \A k, l \in 1 .. n : k # l => rest[k] # rest[l]
  <2>1. ASSUME NEW k \in 1 .. n
        PROVE  rest[k] \in Column(col) /\ rest[k] # c
    BY SMTT(60), <1>1, <1>3, <1>4, <2>1 DEF LineOf
  <2>2. ASSUME NEW k \in 1 .. n, NEW l \in 1 .. n, k # l
        PROVE  rest[k] # rest[l]
    <3>1. /\ k \in 1 .. Len(s) /\ k + 1 \in 1 .. Len(s)
          /\ l \in 1 .. Len(s) /\ l + 1 \in 1 .. Len(s)
      BY <1>3, <1>4
    <3>2. \A x, y \in 1 .. Len(s) : x # y => s[x] # s[y]
      BY DEF LineOf
    <3>3. /\ rest[k] = IF k < i THEN s[k] ELSE s[k + 1]
          /\ rest[l] = IF l < i THEN s[l] ELSE s[l + 1]
      BY <1>4
    <3> QED
      BY <2>2, <3>1, <3>2, <3>3
  <2> QED
    BY <2>1, <2>2
<1>6. \A d \in Column(col) \ {c} : \E k \in 1 .. n : rest[k] = d
  <2> SUFFICES ASSUME NEW d \in Column(col) \ {c}
               PROVE  \E k \in 1 .. n : rest[k] = d
    OBVIOUS
  <2>1. PICK x \in 1 .. Len(s) : s[x] = d
    BY DEF LineOf
  <2>2. CASE x < i
    <3>1. x \in 1 .. n /\ rest[x] = d
      BY <1>3, <1>4, <2>1, <2>2
    <3> QED
      BY <3>1
  <2>3. CASE x > i
    <3>1. x - 1 \in 1 .. n /\ ~(x - 1 < i) /\ (x - 1) + 1 = x
      BY <1>3, <1>4, <2>3
    <3>2. rest[x - 1] = d
      BY <1>4, <2>1, <3>1
    <3> QED
      BY <3>1, <3>2
  <2>4. x # i
    BY <1>1, <2>1
  <2> QED
    BY <2>2, <2>3, <2>4
<1> DEFINE line == Dropped(s, c, b)
<1>7. CASE \E k \in 1 .. n : rest[k] = b
  <2>1. PICK j \in 1 .. n : rest[j] = b
    BY <1>7
  <2>2. PlaceIn(rest, b) = j
    BY <1>5, <2>1 DEF PlaceIn
  <2>3. line = InsertAt(rest, j, c)
    BY <1>7, <2>2 DEF Dropped, rest
  <2>4. /\ line \in Seq(Cards) /\ Len(line) = n + 1
        /\ \A k \in 1 .. n + 1 :
             line[k] = IF k < j THEN rest[k] ELSE IF k = j THEN c ELSE rest[k - 1]
    <3>1. j \in 1 .. Len(rest) /\ rest \in Seq(Cards) /\ c \in Cards
      BY <1>3, <1>4, <2>1
    <3> DEFINE put == InsertAt(rest, j, c)
    <3>2. /\ put \in Seq(Cards) /\ Len(put) = Len(rest) + 1
          /\ \A k \in 1 .. Len(rest) + 1 :
               put[k] = IF k < j THEN rest[k] ELSE IF k = j THEN c ELSE rest[k - 1]
      BY <3>1, InsertAtIs, SMTT(60)
    <3> HIDE DEF put, line
    <3>3. line = put
      BY <2>3 DEF put
    <3> QED
      BY <3>2, <3>3
  <2> HIDE DEF line
  <2>5. line[j] = c /\ line[j + 1] = b /\ j \in 1 .. Len(line) /\ j < Len(line)
    <3>1. j \in 1 .. n + 1 /\ j + 1 \in 1 .. n + 1 /\ (j + 1) - 1 = j
      BY <1>4
    <3> QED
      BY SMTT(60), <1>4, <2>1, <2>4, <3>1
  <2>6. b \in Column(col) \ {c}
    BY <1>5, <2>1
  <2>7. ASSUME NEW k \in 1 .. n + 1
        PROVE  line[k] \in Column(col)
    <3>1. line[k] = IF k < j THEN rest[k] ELSE IF k = j THEN c ELSE rest[k - 1]
      BY <2>4
    <3>2. (k < j => k \in 1 .. n) /\ (k > j => k - 1 \in 1 .. n)
      BY <1>4
    <3> QED
      BY <1>4, <1>5, <3>1, <3>2
  <2>8. ASSUME NEW k \in 1 .. n + 1, NEW l \in 1 .. n + 1, k # l
        PROVE  line[k] # line[l]
    <3>1. /\ line[k] = IF k < j THEN rest[k] ELSE IF k = j THEN c ELSE rest[k - 1]
          /\ line[l] = IF l < j THEN rest[l] ELSE IF l = j THEN c ELSE rest[l - 1]
      BY <2>4
    <3>2. /\ k < j => k \in 1 .. n
          /\ k > j => k - 1 \in 1 .. n
          /\ l < j => l \in 1 .. n
          /\ l > j => l - 1 \in 1 .. n
      BY <1>4
    <3> QED
      BY SMTT(60), <1>4, <1>5, <2>8, <3>1, <3>2
  <2>9. ASSUME NEW d \in Column(col)
        PROVE  \E k \in 1 .. n + 1 : line[k] = d
    <3>1. CASE d = c
      BY <1>4, <2>5, <3>1
    <3>2. CASE d # c
      <4>1. PICK k \in 1 .. n : rest[k] = d
        BY <1>6, <3>2
      <4>2. CASE k < j
        <5>1. k \in 1 .. n + 1
          BY <1>4
        <5>2. line[k] = d
          BY <2>4, <4>1, <4>2, <5>1
        <5> QED
          BY <5>1, <5>2
      <4>3. CASE ~(k < j)
        <5>1. k + 1 \in 1 .. n + 1 /\ ~(k + 1 < j) /\ k + 1 # j /\ (k + 1) - 1 = k
          BY <1>4, <4>3
        <5>2. line[k + 1] = d
          BY <2>4, <4>1, <5>1
        <5> QED
          BY <5>1, <5>2
      <4> QED
        BY <4>2, <4>3
    <3> QED
      BY <3>1, <3>2
  <2>10. LineOf(line, col)
    BY <2>4, <2>7, <2>8, <2>9 DEF LineOf
  <2>11. Stands(line, col, c, b)
    BY <2>5, <2>6 DEF Stands
  <2> QED
    BY <2>10, <2>11 DEF line
<1>8. CASE ~\E k \in 1 .. n : rest[k] = b
  <2>1. line = Append(rest, c)
    BY <1>8 DEF Dropped, rest
  <2>2. /\ line \in Seq(Cards) /\ Len(line) = n + 1
        /\ \A k \in 1 .. n : line[k] = rest[k]
        /\ line[n + 1] = c
    BY <1>3, <1>4, <2>1, AppendProperties
  <2> HIDE DEF line
  <2>3. b \notin Column(col) \ {c}
    BY <1>6, <1>8
  <2>4. n + 1 \in 1 .. Len(line) /\ \A k \in 1 .. n + 1 : k \in 1 .. n \/ k = n + 1
    BY <1>4, <2>2
  <2>5. \A k \in 1 .. n + 1 : line[k] \in Column(col)
    BY <1>5, <2>2, <2>4
  <2>6. \A k, l \in 1 .. n + 1 : k # l => line[k] # line[l]
    BY <1>5, <2>2, <2>4
  <2>7. \A d \in Column(col) : \E k \in 1 .. n + 1 : line[k] = d
    BY <1>6, <2>2, <2>4
  <2>8. LineOf(line, col)
    BY <2>2, <2>5, <2>6, <2>7 DEF LineOf
  <2>9. Stands(line, col, c, b)
    BY <2>2, <2>3, <2>4 DEF Stands
  <2> QED
    BY <2>8, <2>9 DEF line
<1> QED
  BY <1>7, <1>8

-----------------------------------------------------------------------------
LEMMA IdleIsAHand == Idle \in Hand /\ Idle.op = "idle" /\ ~Idle.alone
<1>1. <<>> \in Seq(Cards) /\ NoCard \in CardRow
  BY DEF NoCard, CardRow
<1> QED
  BY <1>1 DEF Idle, Hand, AtEnd

\* A statement: whoever else has an operation on the way is no longer alone.
LEMMA StatementKeeps ==
  ASSUME CardsInv, NEW a \in boardKit.actors, NEW next \in Hand, NEW table \in [Cards -> CardRow],
         NEW promise, Statement(a, next, table, promise),
         boardKit' \in [actors : SUBSET STRING, edits : Nat], boardKit'.actors = boardKit.actors,
         HasWork(next),
         hands'[a].alone => Expects(hands[a])', \A p \in ordered' : Placed(p)'
  PROVE  CardsInv'
<1>1. /\ card' = table /\ DOMAIN hands' = boardKit.actors /\ hands'[a] = next
      /\ \A x \in boardKit.actors \ {a} :
           hands'[x] = IF hands[x] = Idle THEN Idle ELSE [hands[x] EXCEPT !.alone = FALSE]
      /\ hands' = [x \in boardKit.actors |-> hands'[x]]
  BY DEF Statement
<1>2. ASSUME NEW x \in boardKit.actors \ {a}
      PROVE  hands'[x] \in Hand /\ ~hands'[x].alone /\ HasWork(hands'[x])
  <2> DEFINE h == hands[x]
  <2>1. h \in Hand /\ HasWork(h)
    BY DEF CardsInv, CardsType
  <2>2. hands'[x] = Idle \/ hands'[x] = [h EXCEPT !.alone = FALSE]
    BY <1>1
  <2> HIDE DEF h
  <2>3. CASE hands'[x] = Idle
    BY <2>3, IdleIsAHand DEF HasWork
  <2>4. CASE hands'[x] = [h EXCEPT !.alone = FALSE]
    BY <2>1, <2>4 DEF Hand, HasWork
  <2> QED
    BY <2>2, <2>3, <2>4
<1>3. hands' \in [boardKit.actors -> Hand]
  BY <1>1, <1>2
<1>4. CardsType'
  <2>1. \A x \in boardKit.actors : HasWork(hands'[x])
    BY <1>1, <1>2
  <2> QED
    BY <1>1, <1>3, <2>1 DEF CardsType, HasWork
<1> QED
  BY <1>1, <1>2, <1>4 DEF CardsInv

\* An operation begins with what it has read so far.
LEMMA BegunKeeps ==
  ASSUME CardsInv, NEW a \in boardKit.actors, NEW op \in Hand, BeginOp(a, op),
         op.op \in {"create", "update", "reorder"}, op.card \in Cards, op.col \in Columns,
         Expects(op)
  PROVE  CardsInv'
<1> DEFINE next == [op EXCEPT !.alone = \A x \in boardKit.actors : hands[x] = Idle]
<1>1. /\ Statement(a, next, card, {})
      /\ boardKit.edits > 0 /\ boardKit' = [boardKit EXCEPT !.edits = @ - 1]
      /\ CardsType
  BY DEF BeginOp, CardsInv
<1>2. /\ boardKit' \in [actors : SUBSET STRING, edits : Nat]
      /\ boardKit'.actors = boardKit.actors
  BY <1>1 DEF CardsType
<1>3. /\ next \in Hand /\ next.op = op.op /\ next.card = op.card /\ next.col = op.col
      /\ next.old = op.old /\ next.idx = op.idx /\ next.before = op.before
  BY DEF Hand
<1> HIDE DEF next
<1>4. card' = card /\ hands'[a] = next /\ ordered' = {} /\ card \in [Cards -> CardRow]
  BY <1>1 DEF Statement, CardsType
<1>5. Expects(hands[a])' /\ HasWork(next)
  BY <1>3, <1>4 DEF Expects, OnBoard, Column, HasWork
<1> QED
  BY <1>1, <1>2, <1>3, <1>4, <1>5, StatementKeeps

LEMMA CreateBegins ==
  ASSUME CardsInv, NEW a \in boardKit.actors, BeginCreate(a)
  PROVE  CardsInv'
<1>1. PICK c \in Column("none"), col \in Columns :
        BeginOp(a, [Idle EXCEPT !.op = "create", !.card = c, !.col = col, !.idx = NextIndex(col)])
  BY DEF BeginCreate
<1> DEFINE op == [Idle EXCEPT !.op = "create", !.card = c, !.col = col, !.idx = NextIndex(col)]
<1>2. /\ NextIndex(col) \in Nat /\ \A d \in Column(col) : card[d].idx < NextIndex(col)
      /\ c \in Cards /\ card[c].col = "none"
  BY NextIsBehind DEF CardsInv, Column
<1>3. /\ op \in Hand /\ op.op = "create" /\ op.card = c /\ op.col = col /\ op.idx = NextIndex(col)
  BY <1>2, IdleIsAHand DEF Hand
<1>4. BeginOp(a, op)
  BY <1>1
<1> HIDE DEF op
<1>5. Expects(op)
  BY <1>2, <1>3 DEF Expects
<1> QED
  BY <1>2, <1>3, <1>4, <1>5, BegunKeeps

LEMMA UpdateBegins ==
  ASSUME CardsInv, NEW a \in boardKit.actors, BeginUpdate(a)
  PROVE  CardsInv'
<1>1. PICK c \in OnBoard, col \in Columns :
        BeginOp(a, [Idle EXCEPT !.op = "update", !.card = c, !.col = col, !.old = card[c]])
  BY DEF BeginUpdate
<1> DEFINE op == [Idle EXCEPT !.op = "update", !.card = c, !.col = col, !.old = card[c]]
<1>2. c \in Cards /\ card[c] \in CardRow
  BY DEF CardsInv, CardsType, OnBoard
<1>3. op \in Hand /\ op.op = "update" /\ op.card = c /\ op.col = col /\ op.old = card[c]
  BY <1>2, IdleIsAHand DEF Hand
<1>4. BeginOp(a, op)
  BY <1>1
<1> HIDE DEF op
<1>5. Expects(op)
  BY <1>2, <1>3 DEF Expects
<1> QED
  BY <1>2, <1>3, <1>4, <1>5, BegunKeeps

LEMMA ReorderBegins ==
  ASSUME CardsInv, NEW a \in boardKit.actors, BeginReorder(a)
  PROVE  CardsInv'
<1>1. PICK c \in OnBoard : \E b \in Column(card[c].col) \cup {AtEnd} :
        BeginOp(a, [Idle EXCEPT !.op = "reorder", !.card = c, !.before = b, !.col = card[c].col])
  BY DEF BeginReorder
<1>2. PICK b \in Column(card[c].col) \cup {AtEnd} :
        BeginOp(a, [Idle EXCEPT !.op = "reorder", !.card = c, !.before = b, !.col = card[c].col])
  BY <1>1
<1> DEFINE col == card[c].col
           op == [Idle EXCEPT !.op = "reorder", !.card = c, !.before = b, !.col = col]
<1>3. c \in Column(col) /\ col \in Columns /\ c \in Cards /\ b \in Cards \cup {AtEnd}
  BY DEF OnBoard, Column
<1>4. op \in Hand /\ op.op = "reorder" /\ op.card = c /\ op.col = col /\ op.before = b
  BY <1>3, IdleIsAHand DEF Hand
<1>5. BeginOp(a, op)
  BY <1>2
<1> HIDE DEF op
<1>6. Expects(op)
  BY <1>2, <1>3, <1>4 DEF Expects
<1> QED
  BY <1>3, <1>4, <1>5, <1>6, BegunKeeps

\* A new card goes behind the others of its column.
LEMMA CardInserted ==
  ASSUME CardsInv, NEW a \in boardKit.actors, InsertCard(a)
  PROVE  CardsInv'
<1> DEFINE h == hands[a]
           table == [card EXCEPT ![h.card] = [col |-> h.col, idx |-> h.idx]]
           promise == Promised(a, h.card, AtEnd)
<1>1. /\ h.op = "create" /\ h \in Hand /\ h.card \in Cards /\ h.col \in Columns /\ h.idx \in Nat
      /\ Statement(a, Idle, table, promise)
      /\ boardKit' = boardKit /\ boardKit \in [actors : SUBSET STRING, edits : Nat]
      /\ card \in [Cards -> CardRow] /\ (h.alone => Expects(h))
  BY DEF InsertCard, CardsInv, CardsType, HasWork, Hand
<1>2. table \in [Cards -> CardRow]
  BY <1>1 DEF CardRow
<1>3. card' = table /\ hands'[a] = Idle /\ ordered' = promise
  BY <1>1 DEF Statement
<1>4. ASSUME NEW p \in ordered'
      PROVE  Placed(p)'
  <2>1. h.alone /\ p = [card |-> h.card, before |-> AtEnd]
    BY <1>3, <1>4 DEF Promised
  <2>2. p.card = h.card /\ p.before = AtEnd
    BY <2>1
  <2>3. \A d \in Column(h.col) : card[d].idx < h.idx
    BY <1>1, <2>1 DEF Expects
  <2> HIDE DEF h
  <2>4. /\ card'[h.card].col = h.col /\ card'[h.card].idx = h.idx
        /\ \A d \in Cards \ {h.card} : card'[d] = card[d]
    BY <1>1, <1>3
  <2> QED
    BY <1>1, <2>2, <2>3, <2>4 DEF Placed, OnBoard, Column, Before
<1> HIDE DEF table, promise
<1>5. HasWork(Idle)
  BY IdleIsAHand DEF HasWork
<1> QED
  BY <1>1, <1>2, <1>3, <1>4, <1>5, IdleIsAHand, StatementKeeps

\* SetColumn and DeleteCard are one statement and promise nothing.
LEMMA AtOnceKeeps ==
  ASSUME CardsInv, NEW a \in boardKit.actors, SetColumn(a) \/ DeleteCard(a)
  PROVE  CardsInv'
<1>1. /\ boardKit.edits > 0 /\ boardKit' = [boardKit EXCEPT !.edits = @ - 1]
      /\ card \in [Cards -> CardRow]
  BY DEF SetColumn, DeleteCard, CardsInv, CardsType
<1>2. /\ boardKit' \in [actors : SUBSET STRING, edits : Nat]
      /\ boardKit'.actors = boardKit.actors
  BY <1>1 DEF CardsInv, CardsType
<1>3. PICK table \in [Cards -> CardRow] : Statement(a, Idle, table, {})
  <2>1. ASSUME NEW c \in OnBoard, NEW col \in Columns
        PROVE  [card EXCEPT ![c].col = col] \in [Cards -> CardRow]
    BY <1>1 DEF OnBoard, CardRow
  <2>2. ASSUME NEW c \in OnBoard
        PROVE  [card EXCEPT ![c] = GoneCard] \in [Cards -> CardRow]
    BY <1>1 DEF OnBoard, CardRow, GoneCard
  <2> QED
    BY <2>1, <2>2 DEF SetColumn, DeleteCard
<1>4. hands'[a] = Idle /\ ordered' = {} /\ HasWork(Idle)
  BY <1>3, IdleIsAHand DEF Statement, HasWork
<1> QED
  BY <1>2, <1>3, <1>4, IdleIsAHand, StatementKeeps

LEMMA EndIsRead ==
  ASSUME CardsInv, NEW a \in boardKit.actors, ReadEnd(a)
  PROVE  CardsInv'
<1> DEFINE h == hands[a]
           end == IF h.col # h.old.col THEN NextIndex(h.col) ELSE h.old.idx
           next == [h EXCEPT !.op = "write", !.idx = end]
<1>1. /\ h.op = "update" /\ h \in Hand /\ h.card \in Cards /\ h.col \in Columns
      /\ boardKit' = boardKit /\ boardKit \in [actors : SUBSET STRING, edits : Nat]
      /\ card \in [Cards -> CardRow] /\ (h.alone => Expects(h))
      /\ Statement(a, next, card, {})
  BY DEF ReadEnd, CardsInv, CardsType, HasWork
<1>2. /\ end \in Nat
      /\ h.col # h.old.col => \A d \in Column(h.col) : card[d].idx < end
  BY <1>1, NextIsBehind DEF CardsInv, Hand, CardRow
<1> HIDE DEF h, end
<1>3. /\ next \in Hand /\ next.op = "write" /\ next.card = h.card /\ next.col = h.col
      /\ next.old = h.old /\ next.idx = end /\ next.alone = h.alone
  BY <1>1, <1>2 DEF Hand
<1> HIDE DEF next
<1>4. card' = card /\ hands'[a] = next /\ ordered' = {} /\ HasWork(next)
  BY <1>1, <1>3 DEF Statement, HasWork
<1>5. hands'[a].alone => Expects(hands[a])'
  BY <1>1, <1>2, <1>3, <1>4 DEF Expects, OnBoard, Column
<1> QED
  BY <1>1, <1>3, <1>4, <1>5, StatementKeeps

\* A card that was moved to another column goes behind the others there.
LEMMA IdxIsWritten ==
  ASSUME CardsInv, NEW a \in boardKit.actors, WriteIdx(a)
  PROVE  CardsInv'
<1> DEFINE h == hands[a]
           table == IF h.card \in OnBoard
                   THEN [card EXCEPT ![h.card] = [col |-> h.col, idx |-> h.idx]] ELSE card
           promise == IF h.col # h.old.col THEN Promised(a, h.card, AtEnd) ELSE {}
<1>1. /\ h.op = "write" /\ h \in Hand /\ h.card \in Cards /\ h.col \in Columns /\ h.idx \in Nat
      /\ Statement(a, Idle, table, promise)
      /\ boardKit' = boardKit /\ boardKit \in [actors : SUBSET STRING, edits : Nat]
      /\ card \in [Cards -> CardRow] /\ (h.alone => Expects(h))
  BY DEF WriteIdx, CardsInv, CardsType, HasWork, Hand
<1>2. table \in [Cards -> CardRow]
  BY <1>1 DEF CardRow
<1>3. card' = table /\ hands'[a] = Idle /\ ordered' = promise
  BY <1>1 DEF Statement
<1>4. ASSUME NEW p \in ordered'
      PROVE  Placed(p)'
  <2>1. h.alone /\ h.col # h.old.col /\ p = [card |-> h.card, before |-> AtEnd]
    BY <1>3, <1>4 DEF Promised
  <2>2. p.card = h.card /\ p.before = AtEnd
    BY <2>1
  <2>3. h.card \in OnBoard /\ \A d \in Column(h.col) : card[d].idx < h.idx
    BY <1>1, <2>1 DEF Expects
  <2>4. card' = [card EXCEPT ![h.card] = [col |-> h.col, idx |-> h.idx]]
    BY <1>3, <2>3
  <2> HIDE DEF h, table
  <2>5. /\ card'[h.card].col = h.col /\ card'[h.card].idx = h.idx
        /\ \A d \in Cards \ {h.card} : card'[d] = card[d]
    BY <1>1, <2>4
  <2> QED
    BY <1>1, <2>2, <2>3, <2>5 DEF Placed, OnBoard, Column, Before
<1> HIDE DEF table, promise
<1>5. HasWork(Idle)
  BY IdleIsAHand DEF HasWork
<1> QED
  BY <1>1, <1>2, <1>3, <1>4, <1>5, IdleIsAHand, StatementKeeps

LEMMA ColumnIsRead ==
  ASSUME CardsInv, NEW a \in boardKit.actors, ReadColumn(a)
  PROVE  CardsInv'
<1> DEFINE h == hands[a]
           dropped == Dropped(InOrder(h.col), h.card, h.before)
           next == [h EXCEPT !.op = "place", !.at = 1, !.line = dropped]
<1>1. /\ h.op = "reorder" /\ h \in Hand /\ h.card \in Cards /\ h.col \in Columns
      /\ boardKit' = boardKit /\ boardKit \in [actors : SUBSET STRING, edits : Nat]
      /\ card \in [Cards -> CardRow] /\ (h.alone => Expects(h))
      /\ IF h.card \in Column(h.col) THEN Statement(a, next, card, {})
         ELSE Statement(a, Idle, card, {})
  BY DEF ReadColumn, CardsInv, CardsType, HasWork
<1>2. CASE h.card \notin Column(h.col)
  <2>1. hands'[a] = Idle /\ ordered' = {} /\ HasWork(Idle)
    BY <1>1, <1>2, IdleIsAHand DEF Statement, HasWork
  <2> QED
    BY <1>1, <1>2, <2>1, IdleIsAHand, StatementKeeps
<1>3. CASE h.card \in Column(h.col)
  <2>1. LineOf(dropped, h.col) /\ Stands(dropped, h.col, h.card, h.before)
    BY <1>3, LineIsSorted, DroppedIsALine DEF CardsInv
  <2>2. dropped \in Seq(Cards) /\ Len(dropped) \in Nat /\ 1 \in 1 .. Len(dropped)
    <3>1. dropped \in Seq(Cards) /\ \E i \in 1 .. Len(dropped) : TRUE
      BY <2>1 DEF LineOf, Stands
    <3>2. Len(dropped) \in Nat
      BY <3>1, LenProperties
    <3> QED
      BY <3>1, <3>2
  <2>3. Statement(a, next, card, {})
    BY <1>1, <1>3
  <2> HIDE DEF h, dropped
  <2>4. /\ next \in Hand /\ next.op = "place" /\ next.card = h.card /\ next.col = h.col
        /\ next.before = h.before /\ next.line = dropped /\ next.at = 1 /\ next.alone = h.alone
    BY <1>1, <2>2 DEF Hand
  <2> HIDE DEF next
  <2>5. card' = card /\ hands'[a] = next /\ ordered' = {} /\ HasWork(next)
    BY <1>1, <2>3, <2>4 DEF Statement, HasWork
  <2>6. hands'[a].alone => Expects(hands[a])'
    <3>1. SUFFICES ASSUME h.alone
                   PROVE  Expects(hands[a])'
      BY <2>4, <2>5
    <3>2. h.before \in Column(h.col) \cup {AtEnd}
      BY <1>1, <3>1 DEF Expects
    <3>3. /\ LineOf(next.line, next.col)
          /\ Stands(next.line, next.col, next.card, next.before)
          /\ next.card \in Column(next.col) /\ next.before \in Column(next.col) \cup {AtEnd}
      BY <1>3, <2>1, <2>4, <3>2
    <3> QED
      BY SMTT(60), <2>2, <2>4, <2>5, <3>3 DEF Expects, LineOf, Stands, Column
  <2> QED
    BY <1>1, <2>3, <2>4, <2>5, <2>6, StatementKeeps
<1> QED
  BY <1>2, <1>3

\* The cards of the line get their places one after another; the last one done, the
\* column is in the order of the line.
LEMMA NextIsPlaced ==
  ASSUME CardsInv, NEW a \in boardKit.actors, PlaceNext(a)
  PROVE  CardsInv'
<1>0. PICK h \in Hand : h = hands[a]
  BY DEF CardsInv, CardsType
<1> DEFINE c == h.line[h.at]
           table == IF c \in OnBoard THEN [card EXCEPT ![c].idx = h.at - 1] ELSE card
           next == [h EXCEPT !.at = @ + 1]
           before == IF h.before = h.card THEN AtEnd ELSE h.before
           promise == IF h.alone THEN {[card |-> h.card, before |-> before]} ELSE {}
<1>1. /\ h.op = "place" /\ h \in Hand /\ h.card \in Cards /\ h.col \in Columns
      /\ h.at \in Nat \ {0} /\ h.line \in Seq(Cards)
      /\ boardKit' = boardKit /\ boardKit \in [actors : SUBSET STRING, edits : Nat]
      /\ card \in [Cards -> CardRow] /\ (h.alone => Expects(h))
      /\ IF h.at < Len(h.line) THEN Statement(a, next, table, {})
         ELSE Statement(a, Idle, table, promise)
  BY <1>0 DEF PlaceNext, Promised, CardsInv, CardsType, HasWork, Hand
<1>2. table \in [Cards -> CardRow]
  <2> DEFINE n == h.at - 1
  <2>1. n \in Nat
    BY <1>1
  <2>2. c \in OnBoard => [card EXCEPT ![c].idx = n] \in [Cards -> CardRow]
    <3> HIDE DEF n, c
    <3> QED
      BY <1>1, <2>1 DEF CardRow, OnBoard
  <2> QED
    BY <1>1, <2>2
<1>3. card' = table
  BY <1>1 DEF Statement
\* alone: the columns keep their cards, and this one has its place
<1>4. ASSUME h.alone
      PROVE  /\ \A d \in Cards : card'[d].col = card[d].col
             /\ \A k \in 1 .. h.at : card'[h.line[k]].idx = k - 1
             /\ LineOf(h.line, h.col) /\ Stands(h.line, h.col, h.card, h.before)
             /\ h.card \in Column(h.col) /\ h.before \in Column(h.col) \cup {AtEnd}
             /\ h.at \in 1 .. Len(h.line) /\ Len(h.line) \in Nat
  <2>1. /\ LineOf(h.line, h.col) /\ Stands(h.line, h.col, h.card, h.before)
        /\ h.card \in Column(h.col) /\ h.before \in Column(h.col) \cup {AtEnd}
        /\ h.at \in 1 .. Len(h.line)
        /\ \A k \in 1 .. h.at - 1 : card[h.line[k]].idx = k - 1
    BY <1>1, <1>4 DEF Expects
  <2>2. Len(h.line) \in Nat
    BY <1>1, LenProperties
  <2>3. c \in Column(h.col)
    BY <2>1 DEF LineOf
  <2>4. c \in OnBoard /\ c \in Cards
    BY SMTT(60), <1>1, <2>3 DEF Column, OnBoard
  <2>5. card' = [card EXCEPT ![c].idx = h.at - 1]
    BY <1>3, <2>4
  <2>6. /\ \A d \in Cards : card'[d].col = card[d].col
        /\ card'[c].idx = h.at - 1
        /\ \A d \in Cards \ {c} : card'[d] = card[d]
    BY <1>1, <2>4, <2>5 DEF CardRow
  <2>7. ASSUME NEW k \in 1 .. h.at
        PROVE  card'[h.line[k]].idx = k - 1
    <3>1. CASE k = h.at
      BY <2>6, <3>1
    <3>2. CASE k # h.at
      <4>1. k \in 1 .. h.at - 1 /\ k \in 1 .. Len(h.line)
        BY <2>1, <2>2, <3>2
      <4>2. h.line[k] # c /\ h.line[k] \in Cards
        BY <2>1, <3>2, <4>1 DEF LineOf, Column
      <4> QED
        BY <2>1, <2>6, <4>1, <4>2
    <3> QED
      BY <3>1, <3>2
  <2> QED
    BY <2>1, <2>2, <2>6, <2>7
<1>5. CASE h.at < Len(h.line)
  <2>1. Statement(a, next, table, {})
    BY <1>1, <1>5
  <2> HIDE DEF table
  <2>2. /\ next \in Hand /\ next.op = "place" /\ next.card = h.card /\ next.col = h.col
        /\ next.before = h.before /\ next.line = h.line /\ next.at = h.at + 1
        /\ next.alone = h.alone
    BY SMTT(60), <1>1 DEF Hand
  <2> HIDE DEF next
  <2>3. hands'[a] = next /\ ordered' = {} /\ HasWork(next)
    BY <1>1, <2>1, <2>2 DEF Statement, HasWork
  <2>4. hands'[a].alone => Expects(hands[a])'
    <3>1. SUFFICES ASSUME h.alone
                   PROVE  Expects(hands[a])'
      BY <2>2, <2>3
    <3>2. next.at \in 1 .. Len(next.line) /\ \A k \in 1 .. next.at - 1 : k \in 1 .. h.at
      BY <1>4, <1>5, <2>2, <3>1
    <3>3. /\ Column(h.col)' = Column(h.col) /\ hands'[a] = next
          /\ \A k \in 1 .. next.at - 1 : card'[next.line[k]].idx = k - 1
      BY <1>4, <2>2, <2>3, <3>1, <3>2 DEF Column
    <3>4. LineOf(h.line, h.col)' /\ Stands(h.line, h.col, h.card, h.before)'
      BY ZenonT(60), <1>4, <3>1, <3>3 DEF LineOf, Stands
    <3>5. h.card \in Column(h.col)' /\ h.before \in Column(h.col)' \cup {AtEnd}
      BY <1>4, <3>1, <3>3
    <3> QED
      BY <2>2, <3>2, <3>3, <3>4, <3>5 DEF Expects
  <2> QED
    BY <1>1, <1>2, <2>1, <2>2, <2>3, <2>4, StatementKeeps
<1>6. CASE ~(h.at < Len(h.line))
  <2>1. Statement(a, Idle, table, promise)
    BY <1>1, <1>6
  <2>2. hands'[a] = Idle /\ ordered' = promise /\ HasWork(Idle)
    BY <2>1, IdleIsAHand DEF Statement, HasWork
  <2>3. ASSUME NEW p \in ordered'
        PROVE  Placed(p)'
    <3>1. h.alone /\ p = [card |-> h.card, before |-> before]
      BY <2>2, <2>3
    <3>2. p.card = h.card /\ p.before = before
      BY <3>1
    <3> DEFINE line == h.line
    <3>3. /\ \A d \in Cards : card'[d].col = card[d].col
          /\ LineOf(line, h.col) /\ Len(line) \in Nat
          /\ \A k \in 1 .. Len(line) : card'[line[k]].idx = k - 1
      BY <1>1, <1>4, <1>6, <3>1
    <3>4. PICK i \in 1 .. Len(line) :
            /\ line[i] = h.card
            /\ IF h.before \in Column(h.col) \ {h.card} THEN i < Len(line) /\ line[i + 1] = h.before
               ELSE i = Len(line)
      BY <1>4, <3>1 DEF Stands
    <3>5. h.card \in Column(h.col) /\ h.before \in Column(h.col) \cup {AtEnd} /\ AtEnd \notin Cards
      BY <1>4, <3>1, BoardAssumption DEF AtEnd
    <3> HIDE DEF line
    <3>6. card'[h.card].col = h.col /\ Column(h.col)' = Column(h.col) /\ h.card \in OnBoard'
      BY <1>1, <3>3, <3>5 DEF Column, OnBoard
    <3>7. \A k, l \in 1 .. Len(line) : Before(line[k], line[l])' => k < l
      <4> SUFFICES ASSUME NEW k \in 1 .. Len(line), NEW l \in 1 .. Len(line),
                          card'[line[k]].idx < card'[line[l]].idx
                          \/ (card'[line[k]].idx = card'[line[l]].idx /\ line[k] < line[l])
                   PROVE  k < l
        BY DEF Before
      <4>1. line[k] \in Nat /\ line[l] \in Nat
        BY <3>3, BoardAssumption DEF LineOf, Column
      <4>2. card'[line[k]].idx = k - 1 /\ card'[line[l]].idx = l - 1
        BY <3>3
      <4> QED
        BY <4>1, <4>2
    <3>8. \A k, l \in 1 .. Len(line) : k < l => Before(line[k], line[l])'
      BY <3>3 DEF Before
    <3>9. CASE h.before \in Column(h.col) \ {h.card}
      <4>1. p.before = h.before /\ p.before # AtEnd
        BY <3>2, <3>5, <3>9 DEF Column
      <4>2. i + 1 \in 1 .. Len(line) /\ line[i + 1] = p.before /\ i < i + 1
        BY <3>3, <3>4, <3>9, <4>1
      <4>3. Before(p.card, p.before)'
        BY <3>2, <3>4, <3>8, <4>2
      <4>4. ASSUME NEW d \in Column(h.col), Before(p.card, d)', Before(d, p.before)'
            PROVE  FALSE
        <5>1. PICK k \in 1 .. Len(line) : line[k] = d
          BY <3>3 DEF LineOf
        <5>2. i < k /\ k < i + 1
          BY <3>2, <3>4, <3>7, <4>2, <4>4, <5>1
        <5> QED
          BY <5>2
      <4> QED
        BY <3>2, <3>6, <3>9, <4>1, <4>3, <4>4 DEF Placed
    <3>10. CASE h.before \notin Column(h.col) \ {h.card}
      <4>1. p.before = AtEnd /\ i = Len(line)
        BY <3>2, <3>4, <3>5, <3>10
      <4>2. ASSUME NEW d \in Column(h.col) \ {h.card}
            PROVE  Before(d, p.card)'
        <5>1. PICK k \in 1 .. Len(line) : line[k] = d
          BY <3>3 DEF LineOf
        <5>2. k < i
          BY <3>3, <3>4, <4>1, <5>1
        <5> QED
          BY <3>2, <3>4, <3>8, <5>1, <5>2
      <4> QED
        BY <3>2, <3>6, <4>1, <4>2 DEF Placed
    <3> QED
      BY <3>9, <3>10
  <2> HIDE DEF table, promise
  <2> QED
    BY <1>1, <1>2, <2>1, <2>2, <2>3, IdleIsAHand, StatementKeeps
<1> QED
  BY <1>5, <1>6
-----------------------------------------------------------------------------
LEMMA CardsStart ==
  ASSUME BoardInit
  PROVE  CardsInv
<1>1. boardKit \in [actors : SUBSET STRING, edits : Nat]
  BY BoardAssumption DEF BoardInit
<1>2. /\ card \in [Cards -> CardRow] /\ hands \in [boardKit.actors -> Hand] /\ ordered = {}
      /\ \A a \in boardKit.actors : HasWork(hands[a]) /\ ~hands[a].alone
  BY IdleIsAHand DEF BoardInit, NoCard, CardRow, HasWork
<1> QED
  BY <1>1, <1>2 DEF CardsInv, CardsType

LEMMA CardsStay ==
  ASSUME CardsInv, [BoardNext]_boardVars
  PROVE  CardsInv'
<1>1. CASE UNCHANGED boardVars
  BY <1>1 DEF boardVars, CardsInv, CardsType, Expects, Placed, LineOf, Stands, OnBoard, Column,
              Before
<1>2. ASSUME NEW a \in boardKit.actors,
             \/ BeginCreate(a) \/ InsertCard(a) \/ BeginUpdate(a) \/ ReadEnd(a) \/ WriteIdx(a)
             \/ BeginReorder(a) \/ ReadColumn(a) \/ PlaceNext(a) \/ SetColumn(a) \/ DeleteCard(a)
      PROVE  CardsInv'
  BY <1>2, CreateBegins, CardInserted, UpdateBegins, EndIsRead, IdxIsWritten, ReorderBegins,
     ColumnIsRead, NextIsPlaced, AtOnceKeeps
<1> QED
  BY <1>1, <1>2 DEF BoardNext

\* The board (task_board_repo.rs, agent/tools/kanban.rs): for any number of cards, actors and
\* operations, one that nobody interrupted leaves its card where it was asked to go.
THEOREM CardsArePlaced == BoardSpec => []PlacedWhereAsked
<1>1. BoardInit => CardsInv
  BY CardsStart
<1>2. CardsInv /\ [BoardNext]_boardVars => CardsInv'
  BY CardsStay
<1>3. CardsInv => PlacedWhereAsked
  BY PlacedIsShown
<1> QED
  BY <1>1, <1>2, <1>3, PTL DEF BoardSpec
=============================================================================
