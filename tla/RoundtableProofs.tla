-------------------------- MODULE RoundtableProofs --------------------------
(***************************************************************************)
(* Theorems about the chat's turns, for any number of members, turns and   *)
(* messages and any policy: the turn lock makes a member's turns exclude   *)
(* one another, although a lock is taken inside another turn's tool call,  *)
(* given back by a time limit, and asked for after the status was written; *)
(* only an engine that a time limit set loose is outside the lock.         *)
(* ChatInv is the lock, the sessions and the conversation; Order, which    *)
(* rests on it, is what a turn answers, has heard and owes its member.     *)
(***************************************************************************)
EXTENDS Roundtable, FiniteSetTheorems, SequenceTheorems, WellFoundedInduction, TLAPS

Early == {"new", "lock"}
Holding == {"fill", "run", "wait", "say", "leave", "idle"}
EntryType == [kind : {"owner", "worker", "direct", "system"}, by : Members \cup {Owner},
              turn : Nat, to : SUBSET Members]
Rest ==
  /\ present \subseteq Members /\ cutOff \subseteq Members
  /\ mstat \in [Members -> {"Idle", "Busy", "Offline"}]
  /\ sess \in [Members -> SUBSET (Nat \X Nat)]
  /\ asking \in [w : Members \cup {Owner}, to : {"Idle", "Offline"}]
  /\ kit \in [cmds : SUBSET ChatCommands, posts : Nat, turns : Nat, chunks : Nat]
\* A reply that summons somebody has been said when its followers are started.
Answered ==
  \A i \in DOMAIN turns : turns[i].at = "say" =>
    \/ turns[i].first /\ (turns[i].say = 0 => turns[i].ment = {})
    \/ \E s \in DOMAIN log : log[s].turn = i /\ log[s].to = turns[i].ment

\* a turn whose future is there
Attached(t) == t.at \notin Over \cup Stray
\* a turn that a time limit cut off
Cut == Stray \cup {"dropped"}
\* a turn past the lock is the one that holds it
Exclusive(ts, lk) == \A i \in DOMAIN ts : ts[i].at \in Holding => lk[ts[i].w] = i
\* a turn inside a tool call is the only one there, and its caller, if only as an
\* engine set loose, waits
Nested(ts) ==
  \A i \in DOMAIN ts : Attached(ts[i]) /\ ts[i].parent # 0 =>
    /\ ts[i].parent \in DOMAIN ts \ {i} /\ ts[ts[i].parent].at \in Waiting
    /\ \A j \in DOMAIN ts : Attached(ts[j]) /\ ts[j].parent = ts[i].parent => j = i
\* what an engine set loose writes beside the turn of its member
Intrudes(ts, m, w) ==
  m[2] = 0 /\ m[1] \in DOMAIN ts /\ ts[m[1]].at \in Cut /\ ts[m[1]].w = w
OwnSession(ts, ss) ==
  \A i \in DOMAIN ts : ts[i].at \in Seated =>
    \A m \in ss[ts[i].w] : m[1] = i \/ Intrudes(ts, m, ts[i].w)
Apart(ts, lk, ss) ==
  /\ ts \in Seq(TurnType) /\ lk \in [Members -> 0 .. Len(ts)]
  /\ Exclusive(ts, lk) /\ Nested(ts) /\ OwnSession(ts, ss)
\* what a step may do to the turns there are, and how new ones begin
Advance(ts, us) ==
  /\ Len(ts) <= Len(us)
  /\ \A i \in DOMAIN ts :
       /\ us[i].w = ts[i].w
       /\ us[i].at \in Early => ts[i].at \in Early
       /\ us[i].at \in Holding => ts[i].at \in Holding \cup {"lock"}
  /\ \A i \in DOMAIN us \ DOMAIN ts : us[i].at = "new"
\* no reply begins or ends
SameReplies(ts, us) ==
  \A i \in DOMAIN us : us[i].at = "say" => i \in DOMAIN ts /\ us[i] = ts[i]

\* bubbles and direct messages are by the member whose turn wrote them, after it
\* had the lock
Authored(ts, l) ==
  \A s \in DOMAIN l : l[s].kind = "worker" =>
    /\ l[s].turn \in DOMAIN ts /\ l[s].by = ts[l[s].turn].w
    /\ ts[l[s].turn].at \notin Early
SameAuthor(x, y) == x.kind = "worker" /\ y.kind = "worker" /\ x.by = y.by
\* once another turn of the member has written, a turn has given back the lock
Alone(ts, l) ==
  \A a, b \in DOMAIN l : a < b /\ SameAuthor(l[a], l[b]) /\ l[a].turn # l[b].turn =>
    ts[l[a].turn].at \notin Holding
Whole(l) ==
  \A a, c \in DOMAIN l :
    (/\ a < c /\ l[a].turn = l[c].turn /\ l[a].turn # 0
     /\ l[a].kind = "worker" /\ l[c].kind = "worker")
      => \A b \in a .. c : l[b].kind = "worker" /\ l[b].by = l[a].by
                            => l[b].turn = l[a].turn
Recorded(ts, l) == l \in Seq(EntryType) /\ Authored(ts, l) /\ Alone(ts, l) /\ Whole(l)
\* a step writes at most one entry, as a member only through a turn with the lock
Writes(ts, l, m) ==
  m = l \/ \E e \in EntryType :
             /\ m = Append(l, e)
             /\ e.kind = "worker" => /\ e.turn \in DOMAIN ts /\ e.by = ts[e.turn].w
                                     /\ ts[e.turn].at \in Holding
-----------------------------------------------------------------------------
\* The last element of a bounded set of positions is one of them: of the sets of
\* what is not before one of its elements, the smallest has only that element.
LEMMA LastIsIn ==
  ASSUME NEW n \in Nat, NEW S \in SUBSET (1 .. n), S # {}
  PROVE  (CHOOSE s \in S : \A x \in S : x <= s) \in S
  <1> DEFINE From(s) == {x \in S : s <= x}
             T == {From(s) : s \in S}
             R == StrictSubsetOrdering(S)
  <1>1. IsFiniteSet(S)
    <2>1. IsFiniteSet(1 .. n)
      BY FS_Interval
    <2> QED
      BY <2>1, FS_Subset
  <1>2. IsWellFoundedOn(R, SUBSET S)
    BY <1>1, FS_FiniteSubsetsOfFinite, FS_StrictSubsetOrderingWellFounded
  <1>3. T \subseteq SUBSET S /\ T # {}
    OBVIOUS
  <1>4. PICK Y \in T : \A Z \in T : ~ (<<Z, Y>> \in R)
    <2> HIDE DEF T, R
    <2> QED
      BY <1>2, <1>3, WFMin
  <1>5. PICK s \in S : Y = From(s)
    OBVIOUS
  <1>6. ASSUME NEW x \in S, ~ (x <= s)
        PROVE  FALSE
    <2>1. From(x) \in T /\ From(x) \in SUBSET S /\ From(s) \in SUBSET S
      OBVIOUS
    <2>2. From(x) \subseteq From(s) /\ s \in From(s) /\ s \notin From(x)
      <3>1. s \in Nat /\ x \in Nat /\ s < x
        BY <1>6
      <3>2. \A y \in S : y \in Nat /\ (x <= y => s <= y)
        BY <3>1
      <3>3. s <= s /\ ~ (x <= s)
        BY <3>1
      <3>4. From(x) \subseteq From(s)
        BY <3>2
      <3>5. s \in From(s) /\ s \notin From(x)
        BY <3>3
      <3> QED
        BY <3>4, <3>5
    <2>3. <<From(x), From(s)>> \in R
      BY <2>1, <2>2 DEF StrictSubsetOrdering
    <2> QED
      BY <1>4, <1>5, <2>1, <2>3
  <1> QED
    BY <1>6

\* The first element of a bounded set of positions.
LEMMA FirstOf ==
  ASSUME NEW n \in Nat, NEW S \in SUBSET (0 .. n), S # {}
  PROVE  \E s \in S : \A x \in S : s <= x
  <1> DEFINE To(s) == {x \in S : x <= s}
             T == {To(s) : s \in S}
             R == StrictSubsetOrdering(S)
  <1>1. IsFiniteSet(S)
    <2>1. IsFiniteSet(0 .. n)
      BY FS_Interval
    <2> QED
      BY <2>1, FS_Subset
  <1>2. IsWellFoundedOn(R, SUBSET S)
    BY <1>1, FS_FiniteSubsetsOfFinite, FS_StrictSubsetOrderingWellFounded
  <1>3. T \subseteq SUBSET S /\ T # {}
    OBVIOUS
  <1>4. PICK Y \in T : \A Z \in T : ~ (<<Z, Y>> \in R)
    <2> HIDE DEF T, R
    <2> QED
      BY <1>2, <1>3, WFMin
  <1>5. PICK s \in S : Y = To(s)
    OBVIOUS
  <1>6. ASSUME NEW x \in S, ~ (s <= x)
        PROVE  FALSE
    <2>1. To(x) \in T /\ To(x) \in SUBSET S /\ To(s) \in SUBSET S
      OBVIOUS
    <2>2. To(x) \subseteq To(s) /\ s \in To(s) /\ s \notin To(x)
      <3>1. s \in Nat /\ x \in Nat /\ x < s
        BY <1>6
      <3>2. \A y \in S : y \in Nat /\ (y <= x => y <= s)
        BY <3>1
      <3>3. s <= s /\ ~ (s <= x)
        BY <3>1
      <3>4. To(x) \subseteq To(s)
        BY <3>2
      <3>5. s \in To(s) /\ s \notin To(x)
        BY <3>3
      <3> QED
        BY <3>4, <3>5
    <2>3. <<To(x), To(s)>> \in R
      BY <2>1, <2>2 DEF StrictSubsetOrdering
    <2> QED
      BY <1>4, <1>5, <2>1, <2>3
  <1> QED
    BY <1>6

\* The turns started together are a sequence of fresh turns.
LEMMA BatchIsFresh ==
  ASSUME NEW ws \in SUBSET Members, NEW base \in Nat, NEW depth \in Nat, NEW why \in Nat
  PROVE  /\ Batch(ws, base, depth, why) \in Seq(TurnType)
         /\ \A k \in DOMAIN Batch(ws, base, depth, why) :
              /\ Batch(ws, base, depth, why)[k].at = "new"
              /\ Batch(ws, base, depth, why)[k].parent = 0
              /\ Batch(ws, base, depth, why)[k].base = base
              /\ Batch(ws, base, depth, why)[k].depth = depth
              /\ Batch(ws, base, depth, why)[k].why = why
         /\ ws = {} => DOMAIN Batch(ws, base, depth, why) = {}
  <1> DEFINE n == Cardinality(ws)
             f == SetToSeq(ws)
             q == Batch(ws, base, depth, why)
  <1>1. IsFiniteSet(ws)
    BY ChatConstants, FS_Subset
  <1>2. n \in Nat /\ \E g : g \in Bijection(1 .. n, ws)
    BY <1>1, FS_CardinalityType DEF ExistsBijection
  <1>3. f \in [1 .. n -> ws]
    BY <1>2 DEF SetToSeq, Bijection, Injection, IsInjective
  <1>4. q = [k \in 1 .. n |-> Turn(f[k], base, depth, 0, why)]
    BY <1>3 DEF Batch
  <1>5. \A w \in Members : Turn(w, base, depth, 0, why) \in TurnType
    BY DEF Turn, TurnType
  <1>6. q \in [1 .. n -> TurnType]
    BY <1>3, <1>4, <1>5
  <1>7. q \in Seq(TurnType)
    BY <1>2, <1>6
  <1>8. \A k \in DOMAIN q : /\ q[k].at = "new" /\ q[k].parent = 0 /\ q[k].base = base
                            /\ q[k].depth = depth /\ q[k].why = why
    BY <1>4 DEF Turn
  <1>9. ws = {} => DOMAIN q = {}
    <2>1. ws = {} => n = 0
      BY FS_EmptySet
    <2> QED
      BY <1>4, <2>1
  <1> QED
    BY <1>7, <1>8, <1>9

\* The turns of a message of the owner.
LEMMA OwnersBatch ==
  ASSUME NEW ws \in SUBSET Members, NEW base \in Nat
  PROVE  /\ Batch(ws, base, 0, 0) \in Seq(TurnType)
         /\ \A k \in DOMAIN Batch(ws, base, 0, 0) :
              /\ Batch(ws, base, 0, 0)[k].at = "new"
              /\ Batch(ws, base, 0, 0)[k].parent = 0
              /\ Batch(ws, base, 0, 0)[k].base = base
              /\ Batch(ws, base, 0, 0)[k].why = 0
  <1> DEFINE zero == 0
  <1>1. zero \in Nat
    OBVIOUS
  <1> HIDE DEF zero
  <1>2. Batch(ws, base, zero, zero) \in Seq(TurnType)
    BY <1>1, BatchIsFresh
  <1>3. \A k \in DOMAIN Batch(ws, base, zero, zero) :
              /\ Batch(ws, base, zero, zero)[k].at = "new"
              /\ Batch(ws, base, zero, zero)[k].parent = 0
              /\ Batch(ws, base, zero, zero)[k].base = base
              /\ Batch(ws, base, zero, zero)[k].why = zero
    BY <1>1, BatchIsFresh
  <1> QED
    BY <1>2, <1>3 DEF zero

Phases == Early \cup Holding \cup Over \cup Stray
LEMMA AtIsTurn ==
  ASSUME NEW t \in TurnType, NEW a \in Phases
  PROVE  LET u == [t EXCEPT !.at = a]
         IN  u \in TurnType /\ u.at = a /\ u.w = t.w /\ u.parent = t.parent
  BY DEF TurnType, Phases, Early, Holding, Over, Stray
LEMMA TurnFields ==
  ASSUME NEW t \in TurnType
  PROVE  t.w \in Members /\ t.parent \in Nat /\ t.at \in Phases
  BY DEF TurnType, Phases, Early, Holding, Over, Stray
LEMMA SpentIsTurn ==
  ASSUME NEW t \in TurnType, NEW a \in Phases
  PROVE  LET u == Spent(t, a)
         IN  u \in TurnType /\ u.at = a /\ u.w = t.w /\ u.parent = t.parent
  BY DEF Spent, Turn, TurnType, Phases, Early, Holding, Over, Stray

\* A caller that waits goes on as what it was, a turn or an engine set loose.
LEMMA ResumedAt ==
  ASSUME NEW a \in Waiting
  PROVE  /\ \/ a = "wait" /\ Resumed(a) = "run"
            \/ a = "stray_wait" /\ Resumed(a) = "stray"
         /\ Resumed(a) \in Phases
  BY DEF Waiting, Resumed, Phases, Holding, Stray
LEMMA CallingAt ==
  ASSUME NEW a \in Running
  PROVE  /\ \/ a = "run" /\ Calling(a) = "wait"
            \/ a = "stray" /\ Calling(a) = "stray_wait"
         /\ Calling(a) \in Phases
  BY DEF Running, Calling, Phases, Holding, Stray
\* What a time limit leaves of a turn that lies still.
LEMMA LeftIsCut ==
  ASSUME NEW t \in TurnType, Pausing(t)
  PROVE  /\ Attached(t) /\ LeftOf(t) \in Cut /\ LeftOf(t) \in Phases
         /\ t.at \in Waiting => LeftOf(t) \in Waiting
  BY DEF Pausing, LeftOf, Attached, Cut, Over, Stray, Waiting, Phases
-----------------------------------------------------------------------------
(***************************************************************************)
(* What the steps do to the turns, the locks and the sessions.             *)
(***************************************************************************)
\* What a step that lets nobody sit down makes of a turn.
Keeps(t, u) ==
  /\ u.w = t.w /\ u.parent = t.parent
  /\ Attached(u) => Attached(t)
  /\ u.at \in Seated => t.at \in Seated
  /\ t.at \in Cut => u.at \in Cut
  /\ u.at \in Early => t.at \in Early
  /\ u.at \in Holding => t.at \in Holding \cup {"lock"}

\* The turns stay apart when the lock does its work and whoever stops waiting has
\* nobody left to wait for.
LEMMA StepIsApart ==
  ASSUME NEW ts, NEW lk, NEW ss, Apart(ts, lk, ss),
         NEW us \in Seq(TurnType), Len(us) = Len(ts),
         NEW mk \in [Members -> 0 .. Len(ts)], Exclusive(us, mk),
         \A j \in DOMAIN ts : Keeps(ts[j], us[j]),
         \A j \in DOMAIN ts : ts[j].at \in Waiting =>
           us[j].at \in Waiting \/ \A k \in DOMAIN ts : Attached(us[k]) => ts[k].parent # j
  PROVE  Apart(us, mk, ss) /\ Advance(ts, us)
  <1>1. DOMAIN us = DOMAIN ts /\ Len(ts) <= Len(us)
    BY DEF Apart
  <1>2. Nested(us)
    <2> SUFFICES ASSUME NEW j \in DOMAIN ts, Attached(us[j]), us[j].parent # 0
                 PROVE  /\ us[j].parent \in DOMAIN ts \ {j} /\ us[us[j].parent].at \in Waiting
                        /\ \A k \in DOMAIN ts :
                             Attached(us[k]) /\ us[k].parent = us[j].parent => k = j
      BY <1>1 DEF Nested
    <2> DEFINE p == ts[j].parent
    <2>1. us[j].parent = p /\ Attached(ts[j])
      BY DEF Keeps
    <2>2. /\ p \in DOMAIN ts \ {j} /\ ts[p].at \in Waiting
          /\ \A k \in DOMAIN ts : Attached(ts[k]) /\ ts[k].parent = p => k = j
      BY <2>1 DEF Apart, Nested
    <2>3. us[p].at \in Waiting
      BY <2>2
    <2> QED
      BY <2>1, <2>2, <2>3 DEF Keeps
  <1>3. OwnSession(us, ss)
    <2> SUFFICES ASSUME NEW j \in DOMAIN ts, us[j].at \in Seated, NEW m \in ss[us[j].w]
                 PROVE  m[1] = j \/ Intrudes(us, m, us[j].w)
      BY <1>1 DEF OwnSession
    <2>1. ts[j].at \in Seated /\ us[j].w = ts[j].w
      BY DEF Keeps
    <2>2. m[1] = j \/ Intrudes(ts, m, ts[j].w)
      BY <2>1 DEF Apart, OwnSession
    <2> QED
      BY <1>1, <2>1, <2>2 DEF Intrudes, Keeps
  <1>4. Advance(ts, us)
    BY <1>1 DEF Advance, Keeps
  <1> QED
    BY <1>2, <1>3, <1>4 DEF Apart

\* One turn goes on within what it holds.
LEMMA MoveIsApart ==
  ASSUME NEW ts, NEW lk, NEW ss, Apart(ts, lk, ss),
         NEW i \in DOMAIN ts, NEW t \in TurnType, Keeps(ts[i], t), ts[i].at \notin Waiting,
         t.at \in Holding => ts[i].at \in Holding,
         NEW us, us = [ts EXCEPT ![i] = t]
  PROVE  Apart(us, lk, ss) /\ Advance(ts, us)
  <1>1. /\ us \in Seq(TurnType) /\ Len(us) = Len(ts) /\ DOMAIN us = DOMAIN ts
        /\ us[i] = t /\ \A j \in DOMAIN ts \ {i} : us[j] = ts[j]
        /\ lk \in [Members -> 0 .. Len(ts)]
    BY DEF Apart
  <1>2. Exclusive(us, lk)
    BY <1>1 DEF Apart, Exclusive, Keeps
  <1>3. \A j \in DOMAIN ts : Keeps(ts[j], us[j])
    BY <1>1 DEF Keeps
  <1> QED
    BY <1>1, <1>2, <1>3, StepIsApart

\* A turn takes the free lock of its member.
LEMMA LockIsApart ==
  ASSUME NEW ts, NEW lk, NEW ss, Apart(ts, lk, ss), NEW i \in DOMAIN ts,
         ts[i].at = "lock", lk[ts[i].w] = 0,
         NEW us, us = [ts EXCEPT ![i].at = "fill"],
         NEW mk, mk = [lk EXCEPT ![ts[i].w] = i]
  PROVE  Apart(us, mk, ss) /\ Advance(ts, us) /\ SameReplies(ts, us)
  <1> DEFINE t == [ts[i] EXCEPT !.at = "fill"]
  <1>a. ts \in Seq(TurnType) /\ ts[i] \in TurnType
    BY DEF Apart
  <1>b. /\ t \in TurnType /\ t.at = "fill" /\ t.w = ts[i].w /\ t.parent = ts[i].parent
        /\ ts[i].w \in Members
    BY <1>a, AtIsTurn, TurnFields DEF Phases, Holding
  <1>c. us = [ts EXCEPT ![i] = t]
    OBVIOUS
  <1> HIDE DEF t
  <1>1. /\ us \in Seq(TurnType) /\ Len(us) = Len(ts) /\ DOMAIN us = DOMAIN ts
        /\ us[i] = t /\ \A j \in DOMAIN ts \ {i} : us[j] = ts[j]
        /\ i \in 1 .. Len(ts) /\ Len(ts) \in Nat
    BY <1>a, <1>b, <1>c
  <1>2. mk \in [Members -> 0 .. Len(ts)]
    BY <1>1, <1>b DEF Apart
  <1>3. Exclusive(us, mk)
    <2> SUFFICES ASSUME NEW j \in DOMAIN us, us[j].at \in Holding
                 PROVE  mk[us[j].w] = j
      BY DEF Exclusive
    <2>1. CASE j = i
      BY <1>1, <1>b, <2>1 DEF Apart
    <2>2. CASE j # i
      <3>1. us[j] = ts[j] /\ j \in DOMAIN ts /\ j # 0 /\ ts[j] \in TurnType
        BY <1>1, <1>a, <2>2
      <3>2. lk[ts[j].w] = j /\ ts[j].w \in Members
        BY <3>1, TurnFields DEF Apart, Exclusive
      <3> QED
        BY <1>b, <3>1, <3>2 DEF Apart
    <2> QED
      BY <2>1, <2>2
  <1>4. \A j \in DOMAIN ts : Keeps(ts[j], us[j])
    <2>1. Keeps(ts[i], t)
      BY <1>b DEF Keeps, Attached, Seated, Cut, Early, Holding, Over, Stray
    <2> QED
      BY <1>1, <2>1 DEF Keeps
  <1>5. \A j \in DOMAIN ts : ts[j].at \in Waiting => us[j].at \in Waiting
    BY <1>1 DEF Waiting
  <1>6. Apart(us, mk, ss) /\ Advance(ts, us)
    BY <1>1, <1>2, <1>3, <1>4, <1>5, StepIsApart
  <1>7. SameReplies(ts, us)
    BY <1>1, <1>b DEF SameReplies
  <1> QED
    BY <1>6, <1>7

\* A turn writes its member's session anew.
LEMMA FillIsApart ==
  ASSUME Apart(turns, turnLock, sess), sess \in [Members -> SUBSET (Nat \X Nat)],
         NEW i \in DOMAIN turns, turns[i].at = "fill", NEW t \in TurnType, t.at = "run",
         t.w = turns[i].w, t.parent = turns[i].parent,
         turns' = [turns EXCEPT ![i] = t],
         NEW X \in SUBSET (Nat \X Nat), \A m \in X : m[1] = i,
         sess' = [sess EXCEPT ![turns[i].w] = X]
  PROVE  Apart(turns', turnLock, sess') /\ Advance(turns, turns') /\ SameReplies(turns, turns')
  <1>1. /\ turns' \in Seq(TurnType) /\ Len(turns') = Len(turns) /\ DOMAIN turns' = DOMAIN turns
        /\ turns'[i] = t /\ \A j \in DOMAIN turns \ {i} : turns'[j] = turns[j]
        /\ turns[i].w \in Members
    BY TurnFields DEF Apart
  <1>2. Exclusive(turns', turnLock)
    BY <1>1 DEF Apart, Exclusive, Holding
  <1>3. Nested(turns')
    BY <1>1 DEF Apart, Nested, Attached, Over, Stray, Waiting
  <1>4. OwnSession(turns', sess')
    <2> SUFFICES ASSUME NEW j \in DOMAIN turns', turns'[j].at \in Seated,
                        NEW m \in sess'[turns'[j].w]
                 PROVE  m[1] = j \/ Intrudes(turns', m, turns'[j].w)
      BY DEF OwnSession
    <2>1. CASE j = i
      BY <1>1, <2>1
    <2>2. CASE j # i
      <3>1. turns'[j] = turns[j] /\ turns[j].at \in Holding /\ turns[i].at \in Holding
        BY <1>1, <2>2 DEF Seated, Holding
      <3>2. turns[j].w # turns[i].w
        BY <1>1, <2>2, <3>1 DEF Apart, Exclusive
      <3>3. m[1] = j \/ Intrudes(turns, m, turns[j].w)
        BY <1>1, <3>1, <3>2 DEF Apart, OwnSession
      <3>4. \A k \in DOMAIN turns : turns[k].at \in Cut => k # i
        BY DEF Cut, Stray
      <3> QED
        BY <1>1, <3>1, <3>3, <3>4 DEF Intrudes
    <2> QED
      BY <2>1, <2>2
  <1>5. Advance(turns, turns') /\ SameReplies(turns, turns')
    BY <1>1 DEF Advance, SameReplies, Early, Holding, Apart
  <1> QED
    BY <1>1, <1>2, <1>3, <1>4, <1>5 DEF Apart

\* An engine writes: the turn's own, or one that was set loose.
LEMMA SpeakIsApart ==
  ASSUME Apart(turns, turnLock, sess), sess \in [Members -> SUBSET (Nat \X Nat)],
         NEW i \in DOMAIN turns, turns[i].at \in Running,
         sess' = [sess EXCEPT ![turns[i].w] = @ \cup {<<i, 0>>}]
  PROVE  Apart(turns, turnLock, sess')
  <1>1. turns[i] \in TurnType /\ turns[i].w \in Members
    BY TurnFields DEF Apart
  <1>2. \A w \in Members : sess'[w] = IF w = turns[i].w THEN sess[w] \cup {<<i, 0>>} ELSE sess[w]
    BY <1>1
  <1>3. OwnSession(turns, sess')
    <2> SUFFICES ASSUME NEW j \in DOMAIN turns, turns[j].at \in Seated,
                        NEW m \in sess'[turns[j].w]
                 PROVE  m[1] = j \/ Intrudes(turns, m, turns[j].w)
      BY DEF OwnSession
    <2>1. turns[j].w \in Members
      BY TurnFields DEF Apart
    <2>2. CASE m \in sess[turns[j].w]
      BY <2>2 DEF Apart, OwnSession
    <2>3. CASE m \notin sess[turns[j].w]
      <3>1. m = <<i, 0>> /\ turns[j].w = turns[i].w
        BY <1>2, <2>1, <2>3
      <3>2. CASE turns[i].at = "run"
        <4>1. turns[i].at \in Holding /\ turns[j].at \in Holding
          BY <3>2 DEF Holding, Seated
        <4> QED
          BY <3>1, <4>1 DEF Apart, Exclusive
      <3>3. CASE turns[i].at = "stray"
        BY <3>1, <3>3 DEF Intrudes, Cut, Stray
      <3> QED
        BY <3>2, <3>3 DEF Running
    <2> QED
      BY <2>2, <2>3
  <1> QED
    BY <1>3 DEF Apart

\* A turn ends: its lock is free and its caller goes on.
LEMMA EndIsApart ==
  ASSUME NEW ts, NEW lk, NEW ss, Apart(ts, lk, ss),
         NEW i \in DOMAIN ts, Attached(ts[i]), ts[i].at \notin Waiting,
         NEW us, us = [j \in DOMAIN ts |->
                         IF j = i THEN Spent(ts[j], "end")
                         ELSE IF j = ts[i].parent THEN [ts[j] EXCEPT !.at = Resumed(@)]
                         ELSE ts[j]],
         NEW mk, mk = [w \in Members |-> IF lk[w] = i THEN 0 ELSE lk[w]]
  PROVE  Apart(us, mk, ss) /\ Advance(ts, us) /\ SameReplies(ts, us)
  <1>a. /\ ts \in Seq(TurnType) /\ ts \in [1 .. Len(ts) -> TurnType] /\ Len(ts) \in Nat
        /\ DOMAIN ts = 1 .. Len(ts) /\ lk \in [Members -> 0 .. Len(ts)]
        /\ Exclusive(ts, lk) /\ Nested(ts)
    BY DEF Apart
  <1>b. \A j \in DOMAIN ts : ts[j] \in TurnType /\ j # 0
    BY <1>a
  <1>c. /\ us[i] \in TurnType /\ us[i].at = "end"
        /\ us[i].w = ts[i].w /\ us[i].parent = ts[i].parent
    <2>1. us[i] = Spent(ts[i], "end")
      OBVIOUS
    <2>2. "end" \in Phases
      BY DEF Phases, Over
    <2> QED
      BY <1>b, <2>1, <2>2, SpentIsTurn
  <1>d. ASSUME NEW j \in DOMAIN ts, j # i, j = ts[i].parent
        PROVE  /\ us[j] \in TurnType /\ us[j].w = ts[j].w /\ us[j].parent = ts[j].parent
               /\ \/ ts[j].at = "wait" /\ us[j].at = "run"
                  \/ ts[j].at = "stray_wait" /\ us[j].at = "stray"
    <2>1. us[j] = [ts[j] EXCEPT !.at = Resumed(ts[j].at)] /\ j # 0
      BY <1>b, <1>d
    <2>2. ts[j].at \in Waiting
      BY <1>a, <1>d, <2>1 DEF Nested
    <2>3. ts[j] \in TurnType
      BY <1>b
    <2> DEFINE a == Resumed(ts[j].at)
    <2>4. /\ a \in Phases
          /\ \/ ts[j].at = "wait" /\ a = "run"
             \/ ts[j].at = "stray_wait" /\ a = "stray"
      BY <2>2, ResumedAt
    <2> DEFINE u == [ts[j] EXCEPT !.at = a]
    <2>5. us[j] = u
      BY <2>1
    <2> HIDE DEF a
    <2>6. u \in TurnType /\ u.at = a /\ u.w = ts[j].w /\ u.parent = ts[j].parent
      BY <2>3, <2>4, AtIsTurn
    <2> HIDE DEF u
    <2> QED
      BY <2>4, <2>5, <2>6
  <1>e. \A j \in DOMAIN ts : j # i /\ j # ts[i].parent => us[j] = ts[j]
    OBVIOUS
  <1>f. \A j \in DOMAIN ts : us[j].w = ts[j].w /\ us[j] \in TurnType
    BY <1>b, <1>c, <1>d, <1>e
  <1>g. DOMAIN us = DOMAIN ts /\ us \in Seq(TurnType) /\ Len(us) = Len(ts)
    <2>1. us \in [1 .. Len(ts) -> TurnType]
      BY <1>a, <1>f
    <2> QED
      BY <1>a, <2>1
  <1>h. mk \in [Members -> 0 .. Len(ts)]
    BY <1>a
  <1>1. \A j \in DOMAIN ts : Keeps(ts[j], us[j])
    <2> SUFFICES ASSUME NEW j \in DOMAIN ts
                 PROVE  Keeps(ts[j], us[j])
      OBVIOUS
    <2>1. CASE j = i
      BY <1>c, <2>1 DEF Keeps, Attached, Seated, Cut, Early, Holding, Over, Stray
    <2>2. CASE j # i /\ j = ts[i].parent
      BY <1>d, <2>2 DEF Keeps, Attached, Seated, Cut, Early, Holding, Over, Stray
    <2>3. CASE j # i /\ j # ts[i].parent
      BY <1>e, <2>3 DEF Keeps
    <2> QED
      BY <2>1, <2>2, <2>3
  <1>2. Exclusive(us, mk)
    <2> SUFFICES ASSUME NEW j \in DOMAIN ts, us[j].at \in Holding
                 PROVE  mk[us[j].w] = j
      BY <1>g DEF Exclusive
    <2>1. j # i
      BY <1>c DEF Holding
    <2>2. ts[j].at \in Holding
      BY <1>d, <1>e, <2>1 DEF Holding
    <2>3. lk[ts[j].w] = j /\ ts[j].w \in Members
      BY <1>a, <1>b, <2>2, TurnFields DEF Exclusive
    <2> QED
      BY <1>f, <2>1, <2>3
  <1>3. ASSUME NEW j \in DOMAIN ts, ts[j].at \in Waiting, us[j].at \notin Waiting,
               NEW k \in DOMAIN ts, Attached(us[k]), ts[k].parent = j
        PROVE  FALSE
    <2>1. j # i /\ j = ts[i].parent
      BY <1>3, <1>e
    <2>2. k # i /\ Attached(ts[k])
      BY <1>1, <1>3, <1>c DEF Keeps, Attached, Over
    <2> QED
      BY <1>a, <1>b, <1>3, <2>1, <2>2 DEF Nested
  <1>4. Apart(us, mk, ss) /\ Advance(ts, us)
    BY <1>1, <1>2, <1>3, <1>g, <1>h, StepIsApart
  <1>5. SameReplies(ts, us)
    BY <1>c, <1>d, <1>e, <1>g DEF SameReplies
  <1> QED
    BY <1>4, <1>5

\* The time limit of turn i's tool call: the turn inside it is dropped, of which an
\* engine may be left, and i goes on.
LEMMA DropIsApart ==
  ASSUME Apart(turns, turnLock, sess), sess' = sess,
         NEW i \in DOMAIN turns, NEW j \in DOMAIN turns, Timeout(i, j)
  PROVE  /\ Apart(turns', turnLock', sess) /\ Advance(turns, turns') /\ SameReplies(turns, turns')
         /\ i # j /\ DOMAIN turns' = DOMAIN turns
         /\ turns'[i] = [turns[i] EXCEPT !.at = Resumed(turns[i].at)]
         /\ turns'[j] = Spent(turns[j], LeftOf(turns[j])) /\ turns'[j].at \in Cut
         /\ \A k \in DOMAIN turns \ {i, j} : turns'[k] = turns[k]
  <1>0. /\ turns[i].at \in Waiting /\ turns[j].parent = i /\ Pausing(turns[j])
        /\ turns' = [turns EXCEPT ![i].at = Resumed(@), ![j] = Spent(@, LeftOf(@))]
        /\ turnLock' = [w \in Members |-> IF turnLock[w] = j THEN 0 ELSE turnLock[w]]
    BY DEF Timeout, Freed
  <1>a. /\ turns \in Seq(TurnType) /\ Len(turns) \in Nat
        /\ DOMAIN turns = 1 .. Len(turns) /\ turnLock \in [Members -> 0 .. Len(turns)]
        /\ Exclusive(turns, turnLock) /\ Nested(turns)
    BY DEF Apart
  <1>b. \A k \in DOMAIN turns : turns[k] \in TurnType /\ k # 0
    BY <1>a
  <1>c. /\ Attached(turns[j]) /\ LeftOf(turns[j]) \in Cut /\ LeftOf(turns[j]) \in Phases
        /\ turns[j].at \in Waiting => LeftOf(turns[j]) \in Waiting
    BY <1>0, <1>b, LeftIsCut
  <1>d. /\ i # j
        /\ \A k \in DOMAIN turns : Attached(turns[k]) /\ turns[k].parent = i => k = j
    BY <1>0, <1>a, <1>b, <1>c DEF Nested
  <1> DEFINE u == [turns[i] EXCEPT !.at = Resumed(turns[i].at)]
             v == Spent(turns[j], LeftOf(turns[j]))
  <1>e. /\ u \in TurnType /\ u.w = turns[i].w /\ u.parent = turns[i].parent
        /\ \/ turns[i].at = "wait" /\ u.at = "run"
           \/ turns[i].at = "stray_wait" /\ u.at = "stray"
    BY <1>0, <1>b, AtIsTurn, ResumedAt
  <1>f. /\ v \in TurnType /\ v.w = turns[j].w /\ v.parent = turns[j].parent /\ v.at = LeftOf(turns[j])
    BY <1>b, <1>c, SpentIsTurn
  <1>g. turns' = [[turns EXCEPT ![i] = u] EXCEPT ![j] = v]
    BY <1>0, <1>d
  <1> HIDE DEF u, v
  <1>h. /\ turns' \in Seq(TurnType) /\ Len(turns') = Len(turns) /\ DOMAIN turns' = DOMAIN turns
        /\ turns'[i] = u /\ turns'[j] = v /\ \A k \in DOMAIN turns \ {i, j} : turns'[k] = turns[k]
    <2> DEFINE mid == [turns EXCEPT ![i] = u]
    <2>1. u \in TurnType /\ v \in TurnType /\ i # j
      BY <1>d, <1>e, <1>f
    <2>2. /\ mid \in Seq(TurnType) /\ Len(mid) = Len(turns) /\ DOMAIN mid = DOMAIN turns
          /\ mid[i] = u /\ \A k \in DOMAIN turns \ {i} : mid[k] = turns[k]
      BY <1>a, <2>1
    <2>3. turns' = [mid EXCEPT ![j] = v]
      BY <1>g
    <2> HIDE DEF mid
    <2>4. /\ turns' \in Seq(TurnType) /\ Len(turns') = Len(mid) /\ DOMAIN turns' = DOMAIN mid
          /\ turns'[j] = v /\ \A k \in DOMAIN mid \ {j} : turns'[k] = mid[k]
      BY <2>1, <2>2, <2>3
    <2> QED
      BY <2>1, <2>2, <2>4
  <1>i. turnLock' \in [Members -> 0 .. Len(turns)]
    BY <1>0, <1>a
  <1>1. \A k \in DOMAIN turns : Keeps(turns[k], turns'[k])
    <2> SUFFICES ASSUME NEW k \in DOMAIN turns
                 PROVE  Keeps(turns[k], turns'[k])
      OBVIOUS
    <2>1. CASE k = i
      BY <1>e, <1>h, <2>1 DEF Keeps, Attached, Seated, Cut, Early, Holding, Over, Stray
    <2>2. CASE k = j
      BY <1>c, <1>f, <1>h, <2>2 DEF Keeps, Attached, Seated, Cut, Early, Holding, Over, Stray
    <2>3. CASE k \notin {i, j}
      BY <1>h, <2>3 DEF Keeps
    <2> QED
      BY <2>1, <2>2, <2>3
  <1>2. Exclusive(turns', turnLock')
    <2> SUFFICES ASSUME NEW k \in DOMAIN turns, turns'[k].at \in Holding
                 PROVE  turnLock'[turns'[k].w] = k
      BY <1>h DEF Exclusive
    <2>1. k # j
      BY <1>c, <1>f, <1>h DEF Holding, Cut, Stray
    <2>2. turns[k].at \in Holding
      BY <1>e, <1>h, <2>1 DEF Holding
    <2>3. turnLock[turns[k].w] = k /\ turns[k].w \in Members
      BY <1>a, <1>b, <2>2, TurnFields DEF Exclusive
    <2>4. turns'[k].w = turns[k].w
      BY <1>1 DEF Keeps
    <2> QED
      BY <1>0, <2>1, <2>3, <2>4
  <1>3. ASSUME NEW k \in DOMAIN turns, turns[k].at \in Waiting, turns'[k].at \notin Waiting,
               NEW c \in DOMAIN turns, Attached(turns'[c]), turns[c].parent = k
        PROVE  FALSE
    <2>1. k = i
      BY <1>3, <1>c, <1>f, <1>h
    <2>2. Attached(turns[c])
      BY <1>1, <1>3 DEF Keeps
    <2>3. c = j
      BY <1>3, <1>d, <2>1, <2>2
    <2> QED
      BY <1>3, <1>c, <1>f, <1>h, <2>3 DEF Attached, Cut, Over
  <1>4. Apart(turns', turnLock', sess) /\ Advance(turns, turns')
    BY <1>1, <1>2, <1>3, <1>h, <1>i, StepIsApart
  <1>5. SameReplies(turns, turns')
    BY <1>c, <1>e, <1>f, <1>h DEF SameReplies, Cut, Stray
  <1> QED
    BY <1>4, <1>5, <1>c, <1>d, <1>f, <1>h DEF u, v

\* Fresh turns that run in nobody's tool call begin.
LEMMA StartIsApart ==
  ASSUME NEW ts, NEW lk, NEW ss, Apart(ts, lk, ss),
         NEW q \in Seq(TurnType), \A k \in DOMAIN q : q[k].at = "new" /\ q[k].parent = 0,
         NEW us, us = ts \o q
  PROVE  Apart(us, lk, ss) /\ Advance(ts, us) /\ SameReplies(ts, us)
  <1>a. /\ ts \in Seq(TurnType) /\ Len(ts) \in Nat
        /\ DOMAIN ts = 1 .. Len(ts) /\ lk \in [Members -> 0 .. Len(ts)]
        /\ Exclusive(ts, lk) /\ Nested(ts) /\ OwnSession(ts, ss)
    BY DEF Apart
  <1>b. /\ us \in Seq(TurnType) /\ Len(us) = Len(ts) + Len(q) /\ DOMAIN us = 1 .. Len(us)
        /\ Len(q) \in Nat /\ DOMAIN q = 1 .. Len(q)
    BY <1>a
  <1>c. \A j \in DOMAIN ts : us[j] = ts[j] /\ j \in DOMAIN us
    BY <1>a, <1>b
  <1>d. \A j \in DOMAIN us \ DOMAIN ts : us[j].at = "new" /\ us[j].parent = 0
    <2> SUFFICES ASSUME NEW j \in DOMAIN us \ DOMAIN ts
                 PROVE  us[j].at = "new" /\ us[j].parent = 0
      OBVIOUS
    <2>1. us[j] = q[j - Len(ts)] /\ j - Len(ts) \in DOMAIN q
      BY <1>a, <1>b
    <2> QED
      BY <2>1
  <1>e. lk \in [Members -> 0 .. Len(us)]
    BY <1>a, <1>b
  <1>1. Exclusive(us, lk)
    BY <1>a, <1>c, <1>d DEF Exclusive, Holding
  <1>2. Nested(us)
    <2> SUFFICES ASSUME NEW j \in DOMAIN us, Attached(us[j]), us[j].parent # 0
                 PROVE  /\ us[j].parent \in DOMAIN us \ {j} /\ us[us[j].parent].at \in Waiting
                        /\ \A k \in DOMAIN us :
                             Attached(us[k]) /\ us[k].parent = us[j].parent => k = j
      BY DEF Nested
    <2>1. j \in DOMAIN ts /\ \A k \in DOMAIN us : us[k].parent = us[j].parent => k \in DOMAIN ts
      BY <1>d
    <2> QED
      BY <1>a, <1>c, <2>1 DEF Nested
  <1>3. OwnSession(us, ss)
    BY <1>a, <1>c, <1>d DEF OwnSession, Seated, Intrudes
  <1>4. Advance(ts, us)
    BY <1>a, <1>b, <1>c, <1>d DEF Advance
  <1>5. SameReplies(ts, us)
    BY <1>c, <1>d DEF SameReplies
  <1> QED
    BY <1>1, <1>2, <1>3, <1>4, <1>5, <1>b, <1>e DEF Apart

\* turn i calls another member, whose turn is t
Calls(ts, us, i, t) == us = Append([ts EXCEPT ![i].at = Calling(@)], t)
\* A turn calls another one and waits for it.
LEMMA CallIsApart ==
  ASSUME NEW ts, NEW lk, NEW ss, Apart(ts, lk, ss),
         NEW i \in DOMAIN ts, ts[i].at \in Running,
         NEW t \in TurnType, t.at = "new", t.parent = i,
         NEW us, Calls(ts, us, i, t)
  PROVE  Apart(us, lk, ss) /\ Advance(ts, us) /\ SameReplies(ts, us)
  <1> DEFINE v == [ts[i] EXCEPT !.at = Calling(ts[i].at)]
             n == Len(ts) + 1
  <1>a. /\ ts \in Seq(TurnType) /\ Len(ts) \in Nat
        /\ DOMAIN ts = 1 .. Len(ts) /\ lk \in [Members -> 0 .. Len(ts)]
        /\ Exclusive(ts, lk) /\ Nested(ts) /\ OwnSession(ts, ss)
    BY DEF Apart
  <1>b. ts[i] \in TurnType
    BY <1>a
  <1>c. /\ v \in TurnType /\ v.w = ts[i].w /\ v.parent = ts[i].parent
        /\ \/ ts[i].at = "run" /\ v.at = "wait"
           \/ ts[i].at = "stray" /\ v.at = "stray_wait"
    BY <1>b, AtIsTurn, CallingAt
  <1>d. us = Append([ts EXCEPT ![i] = v], t)
    BY DEF Calls
  <1> HIDE DEF v
  <1>e. /\ us \in Seq(TurnType) /\ Len(us) = n /\ DOMAIN us = 1 .. n
        /\ us[i] = v /\ us[n] = t /\ i # n /\ n \notin DOMAIN ts
        /\ \A j \in DOMAIN ts \ {i} : us[j] = ts[j]
        /\ \A j \in DOMAIN us : j = n \/ j \in DOMAIN ts
        /\ \A j \in DOMAIN ts : j \in DOMAIN us /\ j # n
    <2>1. v \in TurnType /\ t \in TurnType
      BY <1>c
    <2> DEFINE mid == [ts EXCEPT ![i] = v]
    <2>2. /\ mid \in Seq(TurnType) /\ Len(mid) = Len(ts) /\ DOMAIN mid = DOMAIN ts
          /\ mid[i] = v /\ \A j \in DOMAIN ts \ {i} : mid[j] = ts[j]
      BY <1>a, <2>1
    <2>3. us = Append(mid, t)
      BY <1>d
    <2> HIDE DEF mid
    <2>4. /\ us \in Seq(TurnType) /\ Len(us) = Len(mid) + 1 /\ DOMAIN us = 1 .. Len(mid) + 1
          /\ us[Len(mid) + 1] = t /\ \A j \in DOMAIN mid : us[j] = mid[j]
      BY <2>1, <2>2, <2>3
    <2> QED
      BY <1>a, <2>2, <2>4
  <1>f. lk \in [Members -> 0 .. Len(us)]
    BY <1>a, <1>e
  <1>g. i # 0
    BY <1>a
  <1>1. Exclusive(us, lk)
    BY <1>a, <1>c, <1>e DEF Exclusive, Holding
  <1>2. Nested(us)
    <2> SUFFICES ASSUME NEW j \in DOMAIN us, Attached(us[j]), us[j].parent # 0
                 PROVE  /\ us[j].parent \in DOMAIN us \ {j} /\ us[us[j].parent].at \in Waiting
                        /\ \A k \in DOMAIN us :
                             Attached(us[k]) /\ us[k].parent = us[j].parent => k = j
      BY DEF Nested
    <2>1. \A k \in DOMAIN ts : /\ us[k].parent = ts[k].parent
                               /\ Attached(us[k]) => Attached(ts[k])
                               /\ ts[k].at \in Waiting => us[k].at \in Waiting
      BY <1>c, <1>e DEF Attached, Over, Stray, Waiting
    <2>2. \A k \in DOMAIN ts : Attached(us[k]) => us[k].parent # i
      <3> SUFFICES ASSUME NEW k \in DOMAIN ts, Attached(us[k]), us[k].parent = i
                   PROVE  FALSE
        OBVIOUS
      <3>1. Attached(ts[k]) /\ ts[k].parent = i
        BY <2>1
      <3>2. ts[i].at \in Waiting
        BY <1>a, <1>g, <3>1 DEF Nested
      <3> QED
        BY <1>c, <3>2 DEF Waiting
    <2>3. CASE j = n
      BY <1>c, <1>e, <2>2, <2>3 DEF Waiting
    <2>4. CASE j \in DOMAIN ts
      <3>1. us[j].parent # i
        BY <2>2, <2>4
      <3> DEFINE p == ts[j].parent
      <3>2. us[j].parent = p /\ p # 0 /\ Attached(ts[j])
        BY <2>1, <2>4
      <3>3. /\ p \in DOMAIN ts \ {j} /\ ts[p].at \in Waiting
            /\ \A k \in DOMAIN ts : Attached(ts[k]) /\ ts[k].parent = p => k = j
        BY <1>a, <2>4, <3>2 DEF Nested
      <3>4. us[p].at \in Waiting /\ p \in DOMAIN us
        BY <1>e, <2>1, <3>3
      <3>5. us[n].parent # p
        BY <1>e, <3>1, <3>2
      <3>6. ASSUME NEW k \in DOMAIN us, Attached(us[k]), us[k].parent = p
            PROVE  k = j
        <4>1. k \in DOMAIN ts
          BY <1>e, <3>5, <3>6
        <4> QED
          BY <2>1, <3>3, <3>6, <4>1
      <3> QED
        BY <3>2, <3>3, <3>4, <3>6
    <2> QED
      BY <1>e, <2>3, <2>4
  <1>3. OwnSession(us, ss)
    BY <1>a, <1>c, <1>e DEF OwnSession, Seated, Intrudes, Cut, Stray
  <1>4. Advance(ts, us)
    BY <1>a, <1>c, <1>e DEF Advance, Early, Holding
  <1>5. SameReplies(ts, us)
    BY <1>c, <1>e DEF SameReplies
  <1> QED
    BY <1>1, <1>2, <1>3, <1>4, <1>5, <1>e, <1>f DEF Apart
-----------------------------------------------------------------------------
(***************************************************************************)
(* What the steps write to the conversation.                               *)
(***************************************************************************)
LEMMA WritesAreRecorded ==
  ASSUME NEW ts, NEW lk, NEW ss, Apart(ts, lk, ss), NEW l, Recorded(ts, l),
         NEW us, Advance(ts, us), us \in Seq(TurnType), NEW m, Writes(ts, l, m)
  PROVE  /\ Recorded(us, m)
         /\ \A s \in DOMAIN l : s \in DOMAIN m /\ m[s] = l[s]
  <1>a. /\ ts \in Seq(TurnType) /\ Len(ts) \in Nat /\ DOMAIN ts = 1 .. Len(ts)
        /\ Exclusive(ts, lk) /\ DOMAIN us = 1 .. Len(us)
    BY DEF Apart
  <1>b. \A i \in DOMAIN ts : i \in DOMAIN us /\ i # 0
    BY <1>a DEF Advance
  <1>c. l \in Seq(EntryType) /\ Len(l) \in Nat /\ DOMAIN l = 1 .. Len(l)
    BY DEF Recorded
  <1>1. /\ \A s \in DOMAIN l : l[s].kind = "worker" =>
             /\ l[s].turn \in DOMAIN ts /\ l[s].by = ts[l[s].turn].w
             /\ ts[l[s].turn].at \notin Early
    BY DEF Recorded, Authored
  <1>2. Authored(us, l)
    BY <1>1, <1>b DEF Authored, Advance
  <1>3. Alone(us, l)
    <2> SUFFICES ASSUME NEW a \in DOMAIN l, NEW b \in DOMAIN l,
                        a < b, SameAuthor(l[a], l[b]), l[a].turn # l[b].turn,
                        us[l[a].turn].at \in Holding
                 PROVE  FALSE
      BY DEF Alone
    <2>1. ts[l[a].turn].at \notin Holding \cup {"lock"} /\ l[a].turn \in DOMAIN ts
      BY <1>1 DEF Recorded, Alone, SameAuthor, Early
    <2> QED
      BY <2>1 DEF Advance
  <1>4. CASE m = l
    BY <1>2, <1>3, <1>4 DEF Recorded
  <1>5. ASSUME NEW e \in EntryType, m = Append(l, e),
               e.kind = "worker" => /\ e.turn \in DOMAIN ts /\ e.by = ts[e.turn].w
                                    /\ ts[e.turn].at \in Holding
        PROVE  /\ Recorded(us, m)
               /\ \A s \in DOMAIN l : s \in DOMAIN m /\ m[s] = l[s]
    <2> DEFINE n == Len(l) + 1
    <2>1. /\ m \in Seq(EntryType) /\ DOMAIN m = 1 .. n /\ m[n] = e
          /\ \A s \in DOMAIN l : s \in DOMAIN m /\ m[s] = l[s] /\ s < n
          /\ \A s \in DOMAIN m : s = n \/ s \in DOMAIN l
      BY <1>5, <1>c
    <2>2. Authored(us, m)
      BY SMTT(60), <1>2, <1>5, <1>b, <2>1 DEF Authored, Advance, Early, Holding
    <2>3. ASSUME NEW a \in DOMAIN l, SameAuthor(l[a], e), l[a].turn # e.turn
          PROVE  ts[l[a].turn].at \notin Holding \cup {"lock"}
      <3>1. /\ l[a].turn \in DOMAIN ts /\ ts[l[a].turn].w = ts[e.turn].w
            /\ e.turn \in DOMAIN ts /\ ts[e.turn].at \in Holding
            /\ ts[l[a].turn].at # "lock"
        BY <1>1, <1>5, <2>3 DEF SameAuthor, Early
      <3> QED
        BY <1>a, <2>3, <3>1 DEF Exclusive
    <2>4. Alone(us, m)
      <3> SUFFICES ASSUME NEW a \in DOMAIN m, NEW b \in DOMAIN m,
                          a < b, SameAuthor(m[a], m[b]), m[a].turn # m[b].turn,
                          us[m[a].turn].at \in Holding
                   PROVE  FALSE
        BY DEF Alone
      <3>1. a \in DOMAIN l /\ m[a] = l[a]
        BY <1>c, <2>1
      <3>2. l[a].turn \in DOMAIN ts
        BY <1>1, <3>1 DEF SameAuthor
      <3>3. CASE b = n
        BY <2>1, <2>3, <3>1, <3>2, <3>3 DEF Advance
      <3>4. CASE b # n
        BY <1>3, <2>1, <3>1, <3>4 DEF Alone
      <3> QED
        BY <3>3, <3>4
    <2>5. Whole(m)
      <3> SUFFICES ASSUME NEW a \in DOMAIN m, NEW c \in DOMAIN m,
                          a < c, m[a].turn = m[c].turn, m[a].turn # 0,
                          m[a].kind = "worker", m[c].kind = "worker",
                          NEW b \in a .. c, m[b].kind = "worker", m[b].by = m[a].by,
                          m[b].turn # m[a].turn
                   PROVE  FALSE
        BY DEF Whole
      <3>1. a \in DOMAIN l /\ m[a] = l[a] /\ b \in DOMAIN m
        BY <1>c, <2>1
      <3>2. b # a /\ b # c /\ b \in DOMAIN l /\ m[b] = l[b] /\ a < b
        BY <1>c, <2>1, <3>1
      <3>3. CASE c \in DOMAIN l
        BY SMTT(60), <2>1, <3>1, <3>2, <3>3 DEF Recorded, Whole
      <3>4. CASE c = n
        <4>1. ts[l[a].turn].at \notin Holding
          BY <3>1, <3>2 DEF Recorded, Alone, SameAuthor
        <4> QED
          BY <1>5, <2>1, <3>1, <3>4, <4>1
      <3> QED
        BY <2>1, <3>3, <3>4
    <2> QED
      BY <2>1, <2>2, <2>4, <2>5 DEF Recorded
  <1> QED
    BY <1>4, <1>5 DEF Writes
-----------------------------------------------------------------------------
(***************************************************************************)
(* The inductive invariant, and each action.                               *)
(***************************************************************************)
ChatInv == Rest /\ Answered /\ Apart(turns, turnLock, sess) /\ Recorded(turns, log)
\* every reply under way is an old one, one that has said nothing, or in the log
Replies ==
  \A j \in DOMAIN turns' : turns'[j].at = "say" =>
    \/ j \in DOMAIN turns /\ turns'[j] = turns[j]
    \/ turns'[j].first /\ (turns'[j].say = 0 => turns'[j].ment = {})
    \/ \E s \in DOMAIN log' : log'[s].turn = j /\ log'[s].to = turns'[j].ment

LEMMA StepKeeps ==
  ASSUME ChatInv, Rest', Apart(turns', turnLock', sess'), Advance(turns, turns'),
         Writes(turns, log, log'), SameReplies(turns, turns') \/ Replies
  PROVE  ChatInv'
  <1>1. /\ Recorded(turns', log')
        /\ \A s \in DOMAIN log : s \in DOMAIN log' /\ log'[s] = log[s]
    BY WritesAreRecorded DEF ChatInv, Apart
  <1>2. Replies
    BY DEF SameReplies, Replies
  <1>3. Answered'
    <2> SUFFICES ASSUME NEW j \in DOMAIN turns', turns'[j].at = "say"
                 PROVE  \/ turns'[j].first /\ (turns'[j].say = 0 => turns'[j].ment = {})
                        \/ \E s \in DOMAIN log' : /\ log'[s].turn = j
                                                  /\ log'[s].to = turns'[j].ment
      BY DEF Answered
    <2> QED
      BY <1>1, <1>2 DEF Replies, ChatInv, Answered
  <1> QED
    BY <1>1, <1>3 DEF ChatInv

\* The message a reply is taken to answer is a position of the conversation.
LEMMA TriggerIsNat ==
  ASSUME log \in Seq(EntryType), NEW seq \in DOMAIN log
  PROVE  TriggerOf(seq) \in Nat /\ TriggerOf(seq) <= Len(log)
  <1> DEFINE before == {s \in 1 .. seq - 1 : ~ByWorker(log[s])}
  <1>1. seq - 1 \in Nat /\ seq \in Nat /\ Len(log) \in Nat /\ seq <= Len(log)
    OBVIOUS
  <1>2. CASE before = {}
    BY <1>1, <1>2 DEF TriggerOf
  <1>3. CASE before # {}
    <2>1. (CHOOSE s \in before : \A x \in before : x <= s) \in before
      <3> HIDE DEF before
      <3>1. before \in SUBSET (1 .. seq - 1)
        BY DEF before
      <3> QED
        BY <1>1, <1>3, <3>1, LastIsIn
    <2> QED
      BY <1>1, <1>3, <2>1 DEF TriggerOf
  <1> QED
    BY <1>2, <1>3

LEMMA WhatIsKnown ==
  ASSUME ChatInv
  PROVE  /\ turns \in Seq(TurnType) /\ log \in Seq(EntryType)
         /\ \A i \in DOMAIN turns : /\ turns[i] \in TurnType /\ turns[i].w \in Members
                                    /\ i \in Nat
         /\ turnLock \in [Members -> 0 .. Len(turns)] /\ Len(log) \in Nat
  BY TurnFields DEF ChatInv, Apart, Recorded

LEMMA CommandKeepsKit ==
  ASSUME ChatInv, NEW c, Command(c)
  PROVE  kit' \in [cmds : SUBSET ChatCommands, posts : Nat, turns : Nat, chunks : Nat]
  <1>1. kit \in [cmds : SUBSET ChatCommands, posts : Nat, turns : Nat, chunks : Nat]
    BY DEF ChatInv, Rest
  <1>2. kit.posts - 1 \in Nat
    BY <1>1 DEF Command
  <1>3. kit' = [kit EXCEPT !.posts = kit.posts - 1]
    BY DEF Command
  <1> QED
    BY <1>1, <1>2, <1>3

\* What the owner's commands have in common.
LEMMA BatchKeeps ==
  ASSUME ChatInv, NEW c, Command(c), NEW ws \in SUBSET Members,
         NEW base \in Nat, turns' = turns \o Batch(ws, base, 0, 0),
         NEW e \in EntryType, e.kind # "worker", log' = Append(log, e),
         UNCHANGED <<present, mstat, turnLock, sess, asking, cutOff>>
  PROVE  ChatInv'
  <1> DEFINE q == Batch(ws, base, 0, 0)
  <1>1. q \in Seq(TurnType) /\ \A k \in DOMAIN q : q[k].at = "new" /\ q[k].parent = 0
    BY OwnersBatch
  <1>2. Apart(turns', turnLock, sess) /\ Advance(turns, turns') /\ SameReplies(turns, turns')
    BY <1>1, StartIsApart DEF ChatInv
  <1>3. Rest'
    BY CommandKeepsKit DEF ChatInv, Rest
  <1>4. Writes(turns, log, log')
    BY DEF Writes
  <1> QED
    BY <1>2, <1>3, <1>4, StepKeeps

LEMMA PostKeeps ==
  ASSUME ChatInv, NEW ment \in SUBSET Members, Post(ment)
  PROVE  ChatInv'
  <1> DEFINE ws == {w \in ment : MayMention(Policy, present, Owner, w) /\ w \in present}
  <1>1. OwnerMessage(ment) \in EntryType /\ OwnerMessage(ment).kind # "worker"
    BY DEF OwnerMessage, Entry, EntryType
  <1>2. ws \in SUBSET Members /\ Len(log) + 1 \in Nat
    BY WhatIsKnown
  <1> QED
    BY <1>1, <1>2, BatchKeeps DEF Post

LEMMA BroadcastKeeps ==
  ASSUME ChatInv, Broadcast
  PROVE  ChatInv'
  <1>1. OwnerMessage(Members) \in EntryType /\ OwnerMessage(Members).kind # "worker"
    BY DEF OwnerMessage, Entry, EntryType
  <1>2. present \in SUBSET Members /\ Len(log) + 1 \in Nat
    BY WhatIsKnown DEF ChatInv, Rest
  <1> QED
    BY <1>1, <1>2, BatchKeeps DEF Broadcast

LEMMA RerunKeeps ==
  ASSUME ChatInv, NEW seq \in DOMAIN log, NEW pick \in Members \cup {Owner}, NEW c,
         Rerun(seq, PlanRerun(seq, pick), c) \/ Rerun(seq, PlanFork(seq, pick), c)
  PROVE  ChatInv'
  <1>1. Entry("system", Owner, 0, {}) \in EntryType /\ Entry("system", Owner, 0, {}).kind # "worker"
    BY DEF Entry, EntryType
  <1>2. PlanRerun(seq, pick).anchor \in Nat /\ PlanFork(seq, pick).anchor \in Nat
    BY TriggerIsNat, WhatIsKnown DEF PlanRerun, PlanFork
  <1>3. \E plan \in {PlanRerun(seq, pick), PlanFork(seq, pick)} : Rerun(seq, plan, c)
    OBVIOUS
  <1>5. PICK plan \in {PlanRerun(seq, pick), PlanFork(seq, pick)} : Rerun(seq, plan, c)
    BY <1>3
  <1>6. plan.anchor \in Nat
    BY <1>2
  <1>4. (IF plan.who = {} THEN present ELSE plan.who \cap present) \in SUBSET Members
    BY DEF ChatInv, Rest
  <1> QED
    BY <1>1, <1>4, <1>5, <1>6, BatchKeeps DEF Rerun

\* What leaves turns, locks and sessions alone.
LEMMA StillKeeps ==
  ASSUME ChatInv, Rest', UNCHANGED <<turns, turnLock, sess>>, Writes(turns, log, log')
  PROVE  ChatInv'
  <1>1. Apart(turns', turnLock', sess') /\ turns' = turns
    BY DEF ChatInv
  <1>2. Advance(turns, turns') /\ SameReplies(turns, turns')
    <2>1. Len(turns) <= Len(turns)
      BY WhatIsKnown
    <2> QED
      BY <1>1, <2>1 DEF Advance, SameReplies
  <1> QED
    BY <1>1, <1>2, StepKeeps

LEMMA MembersKeep ==
  ASSUME ChatInv,
         \/ \E w \in Members : RemoveMember(w)
         \/ \E w \in Members, s \in {"Idle", "Offline"} : CheckStatus(w, s)
         \/ WriteStatus
  PROVE  ChatInv'
  <1>1. UNCHANGED <<log, turns, turnLock, sess>>
    BY DEF RemoveMember, CheckStatus, WriteStatus
  <1>2. Rest'
    <2>1. CASE \E w \in Members : RemoveMember(w)
      BY <2>1 DEF ChatInv, Rest, RemoveMember, Command
    <2>2. CASE \E w \in Members, s \in {"Idle", "Offline"} : CheckStatus(w, s)
      BY <2>2 DEF ChatInv, Rest, CheckStatus, Command
    <2>3. CASE WriteStatus
      BY <2>3 DEF ChatInv, Rest, WriteStatus, SetStatusOf, NoSetting
    <2> QED
      BY <2>1, <2>2, <2>3
  <1> QED
    BY <1>1, <1>2, StillKeeps DEF Writes

\* A turn comes to its end.
LEMMA FinishKeeps ==
  ASSUME ChatInv, NEW i \in DOMAIN turns, Attached(turns[i]), turns[i].at \notin Waiting,
         FinishTurn(i, turns), sess' = sess, Rest', Writes(turns, log, log')
  PROVE  ChatInv'
  <1>1. Apart(turns', turnLock', sess) /\ Advance(turns, turns') /\ SameReplies(turns, turns')
    BY EndIsApart DEF ChatInv, FinishTurn, Freed
  <1> QED
    BY <1>1, StepKeeps

LEMMA NoticeIsWritten ==
  ASSUME ChatInv, NEW i \in DOMAIN turns, log' \in {log, Append(log, WorkerNotice(i))}
  PROVE  Writes(turns, log, log')
  <1>1. WorkerNotice(i) \in EntryType /\ WorkerNotice(i).kind # "worker"
    BY WhatIsKnown DEF WorkerNotice, Entry, EntryType
  <1> QED
    BY <1>1 DEF Writes

LEMMA MissingKeeps ==
  ASSUME ChatInv, NEW i \in DOMAIN turns, Missing(i)
  PROVE  ChatInv'
  <1>1. Rest' /\ Attached(turns[i]) /\ turns[i].at \notin Waiting
    BY DEF Missing, ChatInv, Rest, Attached, Over, Stray, Waiting
  <1>2. Writes(turns, log, log')
    BY NoticeIsWritten DEF Missing
  <1> QED
    BY <1>1, <1>2, FinishKeeps DEF Missing

\* A turn moves from one place to the next.
LEMMA AtKeeps ==
  ASSUME ChatInv, NEW i \in DOMAIN turns, NEW a \in Phases, At(i, a),
         <<turns[i].at, a>> \in {<<"new", "lock">>, <<"leave", "idle">>},
         UNCHANGED <<turnLock, sess, log>>, Rest'
  PROVE  ChatInv'
  <1> DEFINE t == [turns[i] EXCEPT !.at = a]
  <1>1. turns[i] \in TurnType
    BY WhatIsKnown
  <1>2. t \in TurnType /\ t.at = a /\ t.w = turns[i].w /\ t.parent = turns[i].parent
    BY <1>1, AtIsTurn
  <1>3. turns' = [turns EXCEPT ![i] = t]
    BY DEF At
  <1> HIDE DEF t
  <1>4. /\ Keeps(turns[i], t) /\ turns[i].at \notin Waiting
        /\ t.at \in Holding => turns[i].at \in Holding
    BY <1>2 DEF Keeps, Attached, Cut, Over, Stray, Waiting, Holding, Seated, Early
  <1>5. Apart(turns', turnLock, sess) /\ Advance(turns, turns')
    BY <1>2, <1>3, <1>4, MoveIsApart DEF ChatInv
  <1>6. SameReplies(turns, turns')
    BY <1>2, <1>3, WhatIsKnown DEF SameReplies
  <1> QED
    BY <1>5, <1>6, StepKeeps DEF Writes

LEMMA MarkBusyKeeps ==
  ASSUME ChatInv, NEW i \in DOMAIN turns, MarkBusy(i)
  PROVE  ChatInv'
  <1>1. Rest'
    BY WhatIsKnown DEF MarkBusy, SetStatusOf, ChatInv, Rest
  <1> QED
    BY <1>1, AtKeeps DEF MarkBusy, Phases, Early

LEMMA LockKeeps ==
  ASSUME ChatInv, NEW i \in DOMAIN turns, Lock(i)
  PROVE  ChatInv'
  <1>1. Apart(turns', turnLock', sess) /\ Advance(turns, turns') /\ SameReplies(turns, turns')
    BY LockIsApart DEF ChatInv, Lock, At
  <1>2. Rest'
    BY DEF Lock, ChatInv, Rest
  <1> QED
    BY <1>1, <1>2, StepKeeps DEF Lock, Writes

LEMMA FillKeeps ==
  ASSUME ChatInv, NEW i \in DOMAIN turns, Fill(i)
  PROVE  ChatInv'
  <1> DEFINE t == [turns[i] EXCEPT !.at = "run", !.names = present]
             X == {<<i, s>> : s \in Seed(i) \cup {0}}
  <1>1. turns[i] \in TurnType /\ i \in Nat /\ DOMAIN log \subseteq Nat
    BY WhatIsKnown
  <1>2. t \in TurnType /\ t.at = "run" /\ t.w = turns[i].w /\ t.parent = turns[i].parent
    BY <1>1 DEF TurnType, ChatInv, Rest
  <1>3. turns' = [turns EXCEPT ![i] = t] /\ sess' = [sess EXCEPT ![turns[i].w] = X]
    BY DEF Fill
  <1>4. X \in SUBSET (Nat \X Nat) /\ \A m \in X : m[1] = i
    BY <1>1 DEF Seed
  <1>5. /\ sess \in [Members -> SUBSET (Nat \X Nat)] /\ turns[i].at = "fill"
        /\ Apart(turns, turnLock, sess)
    BY DEF ChatInv, Rest, Fill
  <1> HIDE DEF t, X
  <1>6. Apart(turns', turnLock, sess') /\ Advance(turns, turns') /\ SameReplies(turns, turns')
    BY <1>2, <1>3, <1>4, <1>5, FillIsApart
  <1>7. Rest'
    BY <1>3, <1>4 DEF Fill, ChatInv, Rest
  <1> QED
    BY <1>6, <1>7, StepKeeps DEF Fill, Writes

LEMMA SpeakKeeps ==
  ASSUME ChatInv, NEW i \in DOMAIN turns, Speak(i)
  PROVE  ChatInv'
  <1>1. /\ turns[i].at \in Running /\ sess' = [sess EXCEPT ![turns[i].w] = @ \cup {<<i, 0>>}]
        /\ UNCHANGED <<present, mstat, log, turns, turnLock, asking, cutOff, kit>>
    BY DEF Speak
  <1>2. Apart(turns', turnLock', sess')
    BY <1>1, SpeakIsApart DEF ChatInv, Rest
  <1>3. Rest'
    BY <1>1, WhatIsKnown DEF ChatInv, Rest
  <1>4. Advance(turns, turns') /\ SameReplies(turns, turns') /\ Writes(turns, log, log')
    BY <1>1, WhatIsKnown DEF Advance, SameReplies, Writes
  <1> QED
    BY <1>2, <1>3, <1>4, StepKeeps

LEMMA DirectKeeps ==
  ASSUME ChatInv, NEW i \in DOMAIN turns, NEW to \in Members, Direct(i, to)
  PROVE  ChatInv'
  <1> DEFINE seq == Len(log) + 1
             t == Turn(to, seq + 1, 0, i, seq)
             e == DirectMessage(i, to)
  <1>1. /\ turns[i].at \in Running /\ log' = Append(log, e)
        /\ UNCHANGED <<present, mstat, turnLock, sess, asking, cutOff, kit>>
    BY DEF Direct
  <1>2. Rest'
    BY <1>1 DEF ChatInv, Rest
  <1>3. Writes(turns, log, log')
    <2>1. e \in EntryType /\ e.kind # "worker"
      BY WhatIsKnown DEF DirectMessage, Entry, EntryType
    <2> QED
      BY <1>1, <2>1 DEF Writes
  <1>4. CASE to \in present
    <2>1. Calls(turns, turns', i, t)
      BY <1>4 DEF Direct, Calls
    <2>0. i \in Nat /\ seq \in Nat /\ seq + 1 \in Nat
      BY WhatIsKnown
    <2>2. t \in TurnType /\ t.at = "new" /\ t.parent = i
      BY <2>0 DEF Turn, TurnType
    <2> HIDE DEF t
    <2>3. /\ Apart(turns', turnLock, sess) /\ Advance(turns, turns')
          /\ SameReplies(turns, turns')
      BY <1>1, <2>1, <2>2, CallIsApart DEF ChatInv
    <2> QED
      BY <1>1, <1>2, <1>3, <2>3, StepKeeps
  <1>5. CASE to \notin present
    BY <1>1, <1>2, <1>3, <1>5, StillKeeps DEF Direct
  <1> QED
    BY <1>4, <1>5

LEMMA TimeoutKeeps ==
  ASSUME ChatInv, NEW i \in DOMAIN turns, NEW j \in DOMAIN turns, Timeout(i, j)
  PROVE  ChatInv'
  <1>1. /\ cutOff' = cutOff \cup {turns[j].w}
        /\ UNCHANGED <<present, mstat, log, sess, asking, kit>>
    BY DEF Timeout
  <1>2. Rest'
    BY <1>1, WhatIsKnown DEF ChatInv, Rest
  <1>3. Apart(turns', turnLock', sess) /\ Advance(turns, turns') /\ SameReplies(turns, turns')
    BY <1>1, DropIsApart DEF ChatInv
  <1> QED
    BY <1>1, <1>2, <1>3, StepKeeps DEF Writes

LEMMA StrayEndsKeeps ==
  ASSUME ChatInv, NEW i \in DOMAIN turns, StrayEnds(i)
  PROVE  ChatInv'
  <1> DEFINE t == Spent(turns[i], "dropped")
  <1>1. /\ turns[i].at = "stray" /\ turns' = [turns EXCEPT ![i] = t]
        /\ UNCHANGED <<present, mstat, log, turnLock, sess, asking, cutOff, kit>>
    BY DEF StrayEnds
  <1>2. turns[i] \in TurnType
    BY WhatIsKnown
  <1>3. t \in TurnType /\ t.at = "dropped" /\ t.w = turns[i].w /\ t.parent = turns[i].parent
    BY <1>2, SpentIsTurn DEF Phases, Over
  <1> HIDE DEF t
  <1>4. /\ Keeps(turns[i], t) /\ turns[i].at \notin Waiting
        /\ t.at \in Holding => turns[i].at \in Holding
    BY <1>1, <1>3 DEF Keeps, Attached, Cut, Over, Stray, Waiting, Holding, Seated, Early
  <1>5. Apart(turns', turnLock, sess) /\ Advance(turns, turns')
    BY <1>1, <1>3, <1>4, MoveIsApart DEF ChatInv
  <1>6. SameReplies(turns, turns')
    BY <1>1, <1>3, WhatIsKnown DEF SameReplies
  <1>7. Rest' /\ Writes(turns, log, log')
    BY <1>1 DEF ChatInv, Rest, Writes
  <1> QED
    BY <1>1, <1>5, <1>6, <1>7, StepKeeps

\* A turn prepares, gives or has given its reply.
LEMMA ReplyKeeps ==
  ASSUME ChatInv, NEW i \in DOMAIN turns, turns[i].at \in {"run", "say"},
         NEW t \in TurnType, t.at = "say", t.w = turns[i].w, t.parent = turns[i].parent,
         turns' = [turns EXCEPT ![i] = t], Writes(turns, log, log'),
         \/ t.first /\ (t.say = 0 => t.ment = {})
         \/ \E s \in DOMAIN log' : log'[s].turn = i /\ log'[s].to = t.ment,
         UNCHANGED <<present, mstat, turnLock, sess, asking, cutOff, kit>>
  PROVE  ChatInv'
  <1>1. /\ Keeps(turns[i], t) /\ turns[i].at \notin Waiting
        /\ t.at \in Holding => turns[i].at \in Holding
    BY DEF Keeps, Attached, Cut, Over, Stray, Waiting, Holding, Seated, Early
  <1>2. Apart(turns', turnLock, sess) /\ Advance(turns, turns')
    BY <1>1, MoveIsApart DEF ChatInv
  <1>3. Replies
    BY WhatIsKnown DEF Replies
  <1>4. Rest'
    BY DEF ChatInv, Rest
  <1> QED
    BY <1>2, <1>3, <1>4, StepKeeps

LEMMA ReturnKeeps ==
  ASSUME ChatInv, NEW i \in DOMAIN turns, NEW n \in 0 .. kit.chunks,
         NEW ment \in SUBSET Members, NEW stop, Return(i, n, ment, stop)
  PROVE  ChatInv'
  <1> DEFINE t == [turns[i] EXCEPT !.at = "say", !.say = n, !.first = TRUE,
                                   !.ment = ment, !.notice = Abnormal(stop, n = 0)]
  <1>1. turns[i] \in TurnType /\ n \in Nat /\ Abnormal(stop, n = 0) \in BOOLEAN
    BY WhatIsKnown DEF Abnormal, ChatInv, Rest
  <1>2. /\ t \in TurnType /\ t.at = "say" /\ t.w = turns[i].w /\ t.parent = turns[i].parent
        /\ t.first = TRUE /\ t.say = n /\ t.ment = ment
    BY <1>1 DEF TurnType
  <1>3. turns' = [turns EXCEPT ![i] = t]
    BY DEF Return
  <1>4. /\ turns[i].at \in {"run", "say"} /\ (n = 0 => ment = {})
        /\ UNCHANGED <<present, mstat, log, turnLock, sess, asking, cutOff, kit>>
    BY DEF Return
  <1> HIDE DEF t
  <1> QED
    BY <1>2, <1>3, <1>4, ReplyKeeps DEF Writes

LEMMA SayKeeps ==
  ASSUME ChatInv, NEW i \in DOMAIN turns, Say(i)
  PROVE  ChatInv'
  <1> DEFINE t == [turns[i] EXCEPT !.say = turns[i].say - 1, !.first = FALSE,
                                   !.posted = Len(log) + 1]
             e == Entry("worker", turns[i].w, i, IF turns[i].first THEN turns[i].ment ELSE {})
  <1>1. /\ turns[i] \in TurnType /\ turns[i].say \in Nat /\ turns[i].say > 0
        /\ turns[i].at = "say" /\ Len(log) + 1 \in Nat /\ i \in Nat
        /\ log \in Seq(EntryType) /\ turns[i].first \in BOOLEAN
        /\ turns[i].ment \in SUBSET Members /\ turns[i].w \in Members
    <2>1. turns[i] \in TurnType /\ log \in Seq(EntryType) /\ Len(log) + 1 \in Nat /\ i \in Nat
      BY WhatIsKnown
    <2>2. turns[i].say > 0 /\ turns[i].at = "say"
      BY DEF Say
    <2> QED
      BY <2>1, <2>2 DEF TurnType
  <1>2. /\ t \in TurnType /\ t.at = "say" /\ t.w = turns[i].w /\ t.parent = turns[i].parent
        /\ t.ment = turns[i].ment
    <2>1. turns[i].say - 1 \in Nat
      BY <1>1
    <2> QED
      BY <1>1, <2>1 DEF TurnType
  <1>3. turns' = [turns EXCEPT ![i] = t] /\ log' = Append(log, e)
    BY DEF Say
  <1>4. UNCHANGED <<present, mstat, turnLock, sess, asking, cutOff, kit>>
    BY DEF Say
  <1>5. /\ e \in EntryType /\ e.turn = i /\ e.by = turns[i].w
        /\ turns[i].first => e.to = turns[i].ment
    BY <1>1 DEF Entry, EntryType
  <1> HIDE DEF t, e
  <1>6. Writes(turns, log, log')
    BY <1>1, <1>3, <1>5 DEF Writes, Holding
  <1>7. \E s \in DOMAIN log' : log'[s].turn = i /\ log'[s].to = t.ment
    <2>1. /\ Len(log) + 1 \in DOMAIN log' /\ log'[Len(log) + 1] = e
          /\ \A s \in DOMAIN log : s \in DOMAIN log' /\ log'[s] = log[s]
      BY <1>1, <1>3, <1>5
    <2>2. CASE turns[i].first
      BY <1>2, <1>5, <2>1, <2>2
    <2>3. CASE ~ turns[i].first
      <3>1. \E s \in DOMAIN log : log[s].turn = i /\ log[s].to = turns[i].ment
        BY <1>1, <2>3 DEF ChatInv, Answered
      <3> QED
        BY <1>2, <2>1, <3>1
    <2> QED
      BY <2>2, <2>3
  <1> QED
    BY <1>1, <1>2, <1>3, <1>4, <1>6, <1>7, ReplyKeeps

LEMMA SummonKeeps ==
  ASSUME ChatInv, NEW i \in DOMAIN turns, Summon(i)
  PROVE  ChatInv'
  <1> DEFINE next == Followers(turns[i])
             said == {s \in DOMAIN log : log[s].turn = i /\ log[s].to = turns[i].ment}
             why == CHOOSE s \in said : \A x \in said : x <= s
             cause == IF next = {} THEN 0 ELSE why
             q == Batch(next, FollowBase(i), NextDepth(i), cause)
             t == [turns[i] EXCEPT !.at = "leave"]
             mid == [turns EXCEPT ![i] = t]
  <1>1. /\ turns[i] \in TurnType /\ turns[i].at = "say" /\ turns[i].say = 0
        /\ log \in Seq(EntryType) /\ Len(log) \in Nat
    BY WhatIsKnown DEF Summon
  <1>2. next \in SUBSET Members /\ next \subseteq turns[i].ment
    BY <1>1 DEF Followers, TurnType
  <1>3. cause \in Nat
    <2>1. CASE next = {}
      BY <2>1
    <2>2. CASE next # {}
      <3>1. said # {} /\ said \in SUBSET (1 .. Len(log))
        BY <1>1, <1>2, <2>2 DEF ChatInv, Answered
      <3> HIDE DEF said
      <3>2. why \in said
        BY <1>1, <3>1, LastIsIn
      <3> HIDE DEF why
      <3>3. why \in Nat
        BY <1>1, <3>1, <3>2
      <3> QED
        BY <2>2, <3>3
    <2> QED
      BY <2>1, <2>2
  <1>4. FollowBase(i) \in Nat /\ NextDepth(i) \in Nat
    BY <1>1 DEF FollowBase, NextDepth, TurnType
  <1>5. /\ turns' = mid \o q /\ log' \in {log, Append(log, WorkerNotice(i))}
        /\ UNCHANGED <<present, mstat, turnLock, sess, asking, cutOff, kit>>
    BY DEF Summon
  <1>6. /\ t \in TurnType /\ t.at = "leave" /\ t.w = turns[i].w /\ t.parent = turns[i].parent
    BY <1>1, AtIsTurn DEF Phases, Holding
  <1> HIDE DEF next, cause
  <1>7. q \in Seq(TurnType) /\ \A k \in DOMAIN q : q[k].at = "new" /\ q[k].parent = 0
    BY SMTT(60), <1>2, <1>3, <1>4, BatchIsFresh
  <1> HIDE DEF t, q
  <1>8. Apart(mid, turnLock, sess) /\ Advance(turns, mid)
    <2>1. /\ Keeps(turns[i], t) /\ turns[i].at \notin Waiting
          /\ t.at \in Holding => turns[i].at \in Holding
      BY <1>1, <1>6
         DEF Keeps, Attached, Cut, Over, Stray, Waiting, Holding, Seated, Early
    <2> QED
      BY <1>6, <2>1, MoveIsApart DEF ChatInv
  <1>9. SameReplies(turns, mid) /\ DOMAIN mid = DOMAIN turns
    BY <1>6, WhatIsKnown DEF SameReplies
  <1>10. \A j \in DOMAIN turns : mid[j].at = "lock" => turns[j].at = "lock"
    BY <1>6, WhatIsKnown
  <1> HIDE DEF mid
  <1>11. /\ Apart(turns', turnLock, sess) /\ Advance(mid, turns')
         /\ SameReplies(mid, turns')
    BY <1>5, <1>7, <1>8, StartIsApart
  <1>12. Advance(turns, turns') /\ SameReplies(turns, turns')
    <2>1. Len(turns) \in Nat /\ Len(mid) \in Nat /\ Len(turns') \in Nat
      BY <1>8, <1>11 DEF ChatInv, Apart
    <2>2. Advance(turns, turns')
      <3>1. Len(turns) <= Len(turns')
        BY <1>8, <1>11, <2>1 DEF Advance
      <3>2. ASSUME NEW j \in DOMAIN turns
            PROVE  /\ turns'[j].w = turns[j].w
                   /\ turns'[j].at \in Early => turns[j].at \in Early
                   /\ turns'[j].at \in Holding => turns[j].at \in Holding \cup {"lock"}
        <4>1. /\ j \in DOMAIN mid
              /\ mid[j].at \in Holding \cup {"lock"} =>
                   turns[j].at \in Holding \cup {"lock"}
          BY <1>8, <1>9, <1>10 DEF Advance, Holding
        <4> QED
          BY <1>8, <1>11, <4>1 DEF Advance
      <3>3. \A j \in DOMAIN turns' \ DOMAIN turns : turns'[j].at = "new"
        BY <1>9, <1>11 DEF Advance
      <3> QED
        BY <3>1, <3>2, <3>3 DEF Advance
    <2>3. SameReplies(turns, turns')
      BY <1>9, <1>11 DEF SameReplies
    <2> QED
      BY <2>2, <2>3
  <1>13. Rest' /\ Writes(turns, log, log')
    BY <1>5, NoticeIsWritten DEF ChatInv, Rest
  <1> QED
    BY <1>5, <1>11, <1>12, <1>13, StepKeeps

LEMMA LeaveKeeps ==
  ASSUME ChatInv, NEW i \in DOMAIN turns, ReadStatus(i) \/ SetIdle(i)
  PROVE  ChatInv'
  <1>1. CASE ReadStatus(i) /\ FinishTurn(i, turns)
    <2>1. Rest' /\ Attached(turns[i]) /\ turns[i].at \notin Waiting
      BY <1>1 DEF ReadStatus, ChatInv, Rest, Attached, Over, Stray, Waiting
    <2> QED
      BY <1>1, <2>1, FinishKeeps DEF ReadStatus, Writes
  <1>2. CASE ReadStatus(i) /\ At(i, "idle") /\ UNCHANGED turnLock
    <2>1. Rest' /\ turns[i].at = "leave"
      BY <1>2 DEF ReadStatus, ChatInv, Rest
    <2> QED
      BY <1>2, <2>1, AtKeeps DEF ReadStatus, Phases, Holding
  <1>3. CASE SetIdle(i)
    <2>1. Rest' /\ Attached(turns[i]) /\ turns[i].at \notin Waiting
      BY <1>3, WhatIsKnown DEF SetIdle, SetStatusOf, ChatInv, Rest, Attached, Over, Stray, Waiting
    <2> QED
      BY <1>3, <2>1, FinishKeeps DEF SetIdle, Writes
  <1> QED
    BY <1>1, <1>2, <1>3 DEF ReadStatus
-----------------------------------------------------------------------------
LEMMA InitHolds ==
  ASSUME ChatInit
  PROVE  ChatInv
  <1>1. Rest
    BY ChatConstants DEF ChatInit, Rest, NoSetting
  <1>2. turns = <<>> /\ log = <<>> /\ turns \in Seq(TurnType) /\ log \in Seq(EntryType)
    BY DEF ChatInit
  <1>3. DOMAIN turns = {} /\ DOMAIN log = {} /\ Len(turns) = 0
    BY <1>2
  <1>4. Apart(turns, turnLock, sess)
    BY <1>2, <1>3 DEF ChatInit, Apart, Exclusive, Nested, OwnSession
  <1>5. Recorded(turns, log) /\ Answered
    BY <1>2, <1>3 DEF Recorded, Authored, Alone, Whole, Answered
  <1> QED
    BY <1>1, <1>4, <1>5 DEF ChatInv

LEMMA NextKeeps ==
  ASSUME ChatInv, [ChatNext]_chatVars
  PROVE  ChatInv'
  <1>1. CASE UserStep
    BY <1>1, PostKeeps, BroadcastKeeps, RerunKeeps, MembersKeep DEF UserStep
  <1>2. ASSUME NEW i \in DOMAIN turns, Prepare(i)
        PROVE  ChatInv'
    BY <1>2, MissingKeeps, MarkBusyKeeps, LockKeeps, FillKeeps DEF Prepare
  <1>3. ASSUME NEW i \in DOMAIN turns, Converse(i)
        PROVE  ChatInv'
    BY <1>3, SpeakKeeps, StrayEndsKeeps, DirectKeeps, TimeoutKeeps, ReturnKeeps DEF Converse
  <1>4. ASSUME NEW i \in DOMAIN turns, AnswerStep(i)
        PROVE  ChatInv'
    BY <1>4, SayKeeps, SummonKeeps, LeaveKeeps DEF AnswerStep
  <1>5. CASE UNCHANGED chatVars
    <2>1. Rest' /\ UNCHANGED <<turns, turnLock, sess, log>>
      BY <1>5 DEF chatVars, ChatInv, Rest
    <2> QED
      BY <2>1, StillKeeps DEF Writes
  <1> QED
    BY <1>1, <1>2, <1>3, <1>4, <1>5 DEF ChatNext, TurnStep

LEMMA InvImplies ==
  ASSUME ChatInv
  PROVE  ChatTypeOK /\ OnlyStraysIntrude /\ RepliesWhole
  <1>1. ChatTypeOK
    <2>1. \A s \in DOMAIN log : log[s] \in EntryType
      BY WhatIsKnown
    <2>2. \A i \in DOMAIN turns : turns[i] \in TurnType
      BY WhatIsKnown
    <2>3. turnLock \in [Members -> 0 .. Len(turns)]
      BY WhatIsKnown
    <2> QED
      BY <2>1, <2>2, <2>3 DEF ChatInv, Rest, ChatTypeOK, EntryType
  <1>2. OnlyStraysIntrude
    BY DEF ChatInv, Apart, OwnSession, Intrudes, OnlyStraysIntrude, CutShort, Cut, Live
  <1>3. RepliesWhole
    BY DEF ChatInv, Recorded, Whole, RepliesWhole
  <1> QED
    BY <1>1, <1>2, <1>3

LEMMA InvHolds == ChatSpec => []ChatInv
  BY InitHolds, NextKeeps, PTL DEF ChatSpec

-----------------------------------------------------------------------------
(***************************************************************************)
(* The rounds: what a turn answers, what it has heard, who is held.        *)
(***************************************************************************)
\* A turn is anchored in the conversation, and what it writes comes after.
Based ==
  /\ \A i \in DOMAIN turns : turns[i].base <= Len(log) + 1
  /\ \A s \in DOMAIN log : log[s].turn # 0 =>
       log[s].turn \in DOMAIN turns /\ turns[log[s].turn].base <= s
\* The message that summoned a turn is before its anchor; when a reply did, it is
\* one link further from the owner.
Cause(i) ==
  /\ turns[i].why \in DOMAIN log /\ turns[i].why < turns[i].base
  /\ turns[i].parent = 0 =>
       /\ turns[i].depth = turns[log[turns[i].why].turn].depth + 1
       /\ log[turns[i].why].turn \in DOMAIN turns
       /\ turns[i].depth <= MaxMentionDepth
Caused == \A i \in DOMAIN turns : turns[i].why # 0 => Cause(i)
\* What a session holds of the conversation is before the anchor of the turn that
\* sits in it.
Heard ==
  \A i \in DOMAIN turns : turns[i].at \in Seated =>
    /\ \A m \in sess[turns[i].w] : m[2] # 0 => m[2] \in DOMAIN log /\ m[2] < turns[i].base
    /\ turns[i].why # 0 => <<i, turns[i].why>> \in sess[turns[i].w]
\* The last bubble of a reply is the last thing its turn has written.
Posted ==
  \A i \in DOMAIN turns : turns[i].at = "say" =>
    IF turns[i].first
      THEN turns[i].say = 0 => turns[i].ment = {}
      ELSE /\ turns[i].posted <= Len(log)
           /\ \A s \in DOMAIN log : log[s].turn = i => s <= turns[i].posted
\* a turn that has marked its member; an engine set loose marks nobody
Astir(t) == Attached(t) /\ t.at # "new"
Occupies(i, w) == i \in DOMAIN turns /\ Astir(turns[i]) /\ turns[i].w = w
\* A member is Busy with a turn that has marked it.
BusyIsTaken ==
  \A w \in present \ cutOff : mstat[w] = "Busy" => \E i \in DOMAIN turns : Occupies(i, w)
Order == Based /\ Caused /\ Heard /\ Posted /\ BusyIsTaken

\* What no step changes in a turn.
SameTask(t, u) ==
  /\ u.w = t.w /\ u.base = t.base /\ u.depth = t.depth
  /\ u.parent = t.parent /\ u.why = t.why
TasksStay ==
  \A i \in DOMAIN turns : i \in DOMAIN turns' /\ SameTask(turns[i], turns'[i])
\* What a step adds to the conversation, and how turns begin.
OneMore ==
  /\ Len(log) <= Len(log')
  /\ \A s \in DOMAIN log : s \in DOMAIN log' /\ log'[s] = log[s]
  /\ \A s \in DOMAIN log' \ DOMAIN log :
       s = Len(log) + 1 /\ (log'[s].turn # 0 => log'[s].turn \in DOMAIN turns)
Begin ==
  \A i \in DOMAIN turns' \ DOMAIN turns :
    /\ turns'[i].at = "new" /\ turns'[i].base <= Len(log') + 1
    /\ turns'[i].why # 0 => Cause(i)'
\* Nobody sits down, and sessions only grow by what engines write.
Sit ==
  /\ \A w \in Members : /\ sess[w] \subseteq sess'[w]
                        /\ \A m \in sess'[w] : m \in sess[w] \/ m[2] = 0
  /\ \A i \in DOMAIN turns : turns'[i].at \in Seated => turns[i].at \in Seated
\* No reply begins or goes on, and none of those under way writes.
NoReply ==
  /\ SameReplies(turns, turns')
  /\ \A s \in DOMAIN log' \ DOMAIN log : log'[s].turn # 0 => turns'[log'[s].turn].at # "say"

LEMMA TurnNumbers ==
  ASSUME NEW t \in TurnType
  PROVE  /\ t.w \in Members /\ t.base \in Nat /\ t.depth \in Nat /\ t.parent \in Nat
         /\ t.why \in Nat /\ t.say \in Nat /\ t.posted \in Nat /\ t.first \in BOOLEAN
         /\ t.ment \in SUBSET Members
  BY DEF TurnType
LEMMA LogIsTyped ==
  ASSUME ChatInv
  PROVE  /\ log \in Seq(EntryType) /\ Len(log) \in Nat /\ DOMAIN log = 1 .. Len(log)
         /\ \A i \in DOMAIN turns : /\ i \in Nat /\ i # 0 /\ turns[i].base \in Nat
                                    /\ turns[i].posted \in Nat /\ turns[i].w \in Members
                                    /\ turns[i].depth \in Nat
  <1>1. turns \in Seq(TurnType) /\ log \in Seq(EntryType)
    BY DEF ChatInv, Apart, Recorded
  <1>2. \A i \in DOMAIN turns : turns[i] \in TurnType /\ i \in Nat /\ i # 0
    BY <1>1
  <1> QED
    BY <1>1, <1>2, TurnNumbers
LEMMA NextIsTyped ==
  ASSUME ChatInv'
  PROVE  /\ log' \in Seq(EntryType) /\ Len(log') \in Nat /\ DOMAIN log' = 1 .. Len(log')
         /\ \A i \in DOMAIN turns' : i \in Nat /\ turns'[i].base \in Nat
  <1>1. turns' \in Seq(TurnType) /\ log' \in Seq(EntryType)
    BY DEF ChatInv, Apart, Recorded
  <1>2. \A i \in DOMAIN turns' : turns'[i] \in TurnType /\ i \in Nat
    BY <1>1
  <1> QED
    BY <1>1, <1>2, TurnNumbers

\* One entry at the end of the conversation, or none.
LEMMA EntryIsLast ==
  ASSUME ChatInv, NEW e \in EntryType, log' \in {log, Append(log, e)},
         e.turn # 0 => e.turn \in DOMAIN turns
  PROVE  /\ OneMore
         /\ \A s \in DOMAIN log' \ DOMAIN log : log'[s] = e
  <1>1. log \in Seq(EntryType) /\ Len(log) \in Nat /\ DOMAIN log = 1 .. Len(log)
    BY LogIsTyped
  <1>2. CASE log' = log
    BY <1>1, <1>2 DEF OneMore
  <1>3. CASE log' = Append(log, e)
    <2>1. /\ Len(log') = Len(log) + 1 /\ DOMAIN log' = 1 .. Len(log) + 1
          /\ log'[Len(log) + 1] = e /\ \A s \in DOMAIN log : log'[s] = log[s]
      BY <1>1, <1>3
    <2> QED
      BY <1>1, <2>1 DEF OneMore
  <1> QED
    BY <1>2, <1>3

LEMMA BasesKeep ==
  ASSUME ChatInv, ChatInv', Order, TasksStay, OneMore, Begin
  PROVE  Based' /\ Caused'
  <1>1. /\ Len(log) \in Nat /\ Len(log') \in Nat /\ DOMAIN log = 1 .. Len(log)
        /\ DOMAIN log' = 1 .. Len(log')
        /\ \A i \in DOMAIN turns : turns[i].base \in Nat
        /\ \A i \in DOMAIN turns' : turns'[i].base \in Nat
    BY LogIsTyped, NextIsTyped
  <1>2. ASSUME NEW i \in DOMAIN turns'
        PROVE  turns'[i].base <= Len(log') + 1
    <2>1. CASE i \in DOMAIN turns
      <3>1. turns'[i].base = turns[i].base /\ turns[i].base <= Len(log) + 1
        BY <2>1 DEF TasksStay, SameTask, Order, Based
      <3>2. Len(log) <= Len(log')
        BY DEF OneMore
      <3> QED
        BY <1>1, <2>1, <3>1, <3>2
    <2>2. CASE i \notin DOMAIN turns
      BY <2>2 DEF Begin
    <2> QED
      BY <2>1, <2>2
  <1>3. ASSUME NEW s \in DOMAIN log', log'[s].turn # 0
        PROVE  log'[s].turn \in DOMAIN turns' /\ turns'[log'[s].turn].base <= s
    <2>1. CASE s \in DOMAIN log
      BY <1>3, <2>1 DEF OneMore, Order, Based, TasksStay, SameTask
    <2>2. CASE s \notin DOMAIN log
      <3>1. s = Len(log) + 1 /\ log'[s].turn \in DOMAIN turns
        BY <1>3, <2>2 DEF OneMore
      <3> QED
        BY <3>1 DEF Order, Based, TasksStay, SameTask
    <2> QED
      BY <2>1, <2>2
  <1>4. ASSUME NEW i \in DOMAIN turns', turns'[i].why # 0
        PROVE  Cause(i)'
    <2>1. CASE i \in DOMAIN turns
      <3>1. SameTask(turns[i], turns'[i]) /\ Cause(i)
        BY <1>4, <2>1 DEF TasksStay, SameTask, Order, Caused
      <3>2. turns[i].why \in DOMAIN log' /\ log'[turns[i].why] = log[turns[i].why]
        BY <3>1 DEF Cause, OneMore
      <3>3. turns[i].parent = 0 => SameTask(turns[log[turns[i].why].turn],
                                            turns'[log[turns[i].why].turn])
        BY <3>1 DEF Cause, TasksStay
      <3>4. turns[i].parent = 0 => log[turns[i].why].turn \in DOMAIN turns'
        BY <3>1 DEF Cause, TasksStay
      <3> QED
        BY <3>1, <3>2, <3>3, <3>4 DEF Cause, SameTask
    <2>2. CASE i \notin DOMAIN turns
      BY <1>4, <2>2 DEF Begin
    <2> QED
      BY <2>1, <2>2
  <1> QED
    BY <1>2, <1>3, <1>4 DEF Based, Caused

LEMMA SeatsKeep ==
  ASSUME ChatInv, Order, TasksStay, OneMore, Begin, Sit
  PROVE  Heard'
  <1> SUFFICES ASSUME NEW i \in DOMAIN turns', turns'[i].at \in Seated
               PROVE  /\ \A m \in sess'[turns'[i].w] :
                           m[2] # 0 => m[2] \in DOMAIN log' /\ m[2] < turns'[i].base
                      /\ turns'[i].why # 0 => <<i, turns'[i].why>> \in sess'[turns'[i].w]
    BY DEF Heard
  <1>1. i \in DOMAIN turns
    BY DEF Begin, Seated
  <1>2. turns[i].at \in Seated /\ SameTask(turns[i], turns'[i]) /\ turns[i].w \in Members
    BY <1>1, LogIsTyped DEF Sit, TasksStay
  <1>3. /\ \A m \in sess[turns[i].w] :
             m[2] # 0 => m[2] \in DOMAIN log' /\ m[2] < turns[i].base
        /\ turns[i].why # 0 => <<i, turns[i].why>> \in sess[turns[i].w]
    BY <1>1, <1>2 DEF Order, Heard, OneMore
  <1> QED
    BY <1>2, <1>3 DEF SameTask, Sit

LEMMA RepliesKeep ==
  ASSUME ChatInv, ChatInv', Order, OneMore, NoReply
  PROVE  Posted'
  <1> SUFFICES ASSUME NEW i \in DOMAIN turns', turns'[i].at = "say"
               PROVE  IF turns'[i].first
                        THEN turns'[i].say = 0 => turns'[i].ment = {}
                        ELSE /\ turns'[i].posted <= Len(log')
                             /\ \A s \in DOMAIN log' : log'[s].turn = i =>
                                  s <= turns'[i].posted
    BY DEF Posted
  <1>1. i \in DOMAIN turns /\ turns'[i] = turns[i] /\ i # 0
    BY LogIsTyped DEF NoReply, SameReplies
  <1>2. CASE turns[i].first
    BY <1>1, <1>2 DEF Order, Posted
  <1>3. CASE ~ turns[i].first
    <2>1. /\ turns[i].posted <= Len(log) /\ turns[i].posted \in Nat /\ Len(log) \in Nat
          /\ \A s \in DOMAIN log : log[s].turn = i => s <= turns[i].posted
      BY <1>1, <1>3, LogIsTyped DEF Order, Posted
    <2>2. Len(log) <= Len(log')
      BY DEF OneMore
    <2>3. \A s \in DOMAIN log' : log'[s].turn = i => s \in DOMAIN log /\ log'[s] = log[s]
      BY <1>1 DEF NoReply, OneMore
    <2>4. turns[i].posted <= Len(log')
      <3>1. Len(log') \in Nat
        BY NextIsTyped
      <3> QED
        BY <2>1, <2>2, <3>1
    <2> QED
      BY <1>1, <1>3, <2>1, <2>3, <2>4
  <1> QED
    BY <1>2, <1>3

LEMMA OrderKeeps ==
  ASSUME ChatInv, ChatInv', Order, TasksStay, OneMore, Begin, Sit, NoReply, BusyIsTaken'
  PROVE  Order'
  BY BasesKeep, SeatsKeep, RepliesKeep DEF Order

\* Nobody becomes Busy, and a turn gives a member up only if it is not Busy, gone,
\* or one whose turn was cut off.
LEMMA BusyStays ==
  ASSUME Order, TasksStay, present' \subseteq present, cutOff \subseteq cutOff',
         \A w \in present' \ cutOff' : mstat'[w] = "Busy" => mstat[w] = "Busy",
         \A i \in DOMAIN turns : Astir(turns[i]) =>
           \/ Astir(turns'[i])
           \/ turns[i].w \notin present' \ cutOff' \/ mstat'[turns[i].w] # "Busy"
  PROVE  BusyIsTaken'
  <1> SUFFICES ASSUME NEW w \in present' \ cutOff', mstat'[w] = "Busy"
               PROVE  \E i \in DOMAIN turns' : Occupies(i, w)'
    BY DEF BusyIsTaken
  <1>1. PICK i \in DOMAIN turns : Occupies(i, w)
    BY DEF Order, BusyIsTaken
  <1>2. Astir(turns[i]) /\ turns[i].w = w
    BY <1>1 DEF Occupies
  <1>3. i \in DOMAIN turns' /\ turns'[i].w = w /\ Astir(turns'[i])
    BY <1>2 DEF TasksStay, SameTask
  <1> QED
    BY <1>3 DEF Occupies

\* The rows and the sessions of an unchanged chat.
LEMMA NothingMoves ==
  ASSUME ChatInv, UNCHANGED <<log, turns, sess>>
  PROVE  TasksStay /\ OneMore /\ Begin /\ Sit /\ NoReply
  <1>1. Len(log) <= Len(log)
    BY LogIsTyped
  <1> QED
    BY <1>1 DEF TasksStay, SameTask, OneMore, Begin, Sit, NoReply, SameReplies

LEMMA MembersInOrder ==
  ASSUME ChatInv, ChatInv', Order,
         \/ \E w \in Members : RemoveMember(w)
         \/ \E w \in Members, s \in {"Idle", "Offline"} : CheckStatus(w, s)
         \/ WriteStatus
         \/ UNCHANGED chatVars
  PROVE  Order'
  <1>1. UNCHANGED <<log, turns, sess, cutOff>> /\ present' \subseteq present
    BY DEF RemoveMember, CheckStatus, WriteStatus, chatVars
  <1>2. \A w \in present' : mstat'[w] = "Busy" => mstat[w] = "Busy"
    <2>1. CASE WriteStatus
      <3>1. asking.to \in {"Idle", "Offline"} /\ present \subseteq Members
            /\ mstat \in [Members -> {"Idle", "Busy", "Offline"}]
        BY DEF ChatInv, Rest
      <3> QED
        BY <2>1, <3>1 DEF WriteStatus, SetStatusOf
    <2> QED
      BY <2>1 DEF RemoveMember, CheckStatus, chatVars
  <1>3. TasksStay /\ OneMore /\ Begin /\ Sit /\ NoReply
    BY <1>1, NothingMoves
  <1>4. BusyIsTaken'
    BY <1>1, <1>2, <1>3, BusyStays
  <1> QED
    BY <1>3, <1>4, OrderKeeps

\* Fresh turns join those there are.
LEMMA TurnsJoin ==
  ASSUME ChatInv, NEW ts \in Seq(TurnType), DOMAIN ts = DOMAIN turns,
         NEW q \in Seq(TurnType), turns' = ts \o q
  PROVE  /\ \A i \in DOMAIN turns : i \in DOMAIN turns' /\ turns'[i] = ts[i]
         /\ \A i \in DOMAIN turns' \ DOMAIN turns : \E k \in DOMAIN q : turns'[i] = q[k]
  <1>1. /\ Len(ts) \in Nat /\ Len(q) \in Nat /\ DOMAIN ts = 1 .. Len(ts)
        /\ DOMAIN turns' = 1 .. Len(ts) + Len(q) /\ DOMAIN q = 1 .. Len(q)
        /\ \A i \in DOMAIN turns' :
             turns'[i] = IF i <= Len(ts) THEN ts[i] ELSE q[i - Len(ts)]
    OBVIOUS
  <1>2. \A i \in DOMAIN turns' \ DOMAIN turns :
          i - Len(ts) \in DOMAIN q /\ turns'[i] = q[i - Len(ts)]
    BY <1>1
  <1> QED
    BY <1>1, <1>2

LEMMA BatchInOrder ==
  ASSUME ChatInv, ChatInv', Order, NEW ws \in SUBSET Members,
         NEW base \in Nat, base <= Len(log) + 1, turns' = turns \o Batch(ws, base, 0, 0),
         NEW e \in EntryType, e.turn = 0, log' = Append(log, e),
         UNCHANGED <<present, mstat, sess, cutOff>>
  PROVE  Order'
  <1> DEFINE q == Batch(ws, base, 0, 0)
  <1>1. /\ q \in Seq(TurnType)
        /\ \A k \in DOMAIN q : q[k].at = "new" /\ q[k].base = base /\ q[k].why = 0
    BY ZenonT(60), OwnersBatch
  <1>2. turns \in Seq(TurnType)
    BY WhatIsKnown
  <1> HIDE DEF q
  <1>3. /\ \A i \in DOMAIN turns : i \in DOMAIN turns' /\ turns'[i] = turns[i]
        /\ \A i \in DOMAIN turns' \ DOMAIN turns : \E k \in DOMAIN q : turns'[i] = q[k]
    BY ZenonT(60), <1>1, <1>2, TurnsJoin DEF q
  <1>4. \A i \in DOMAIN turns' \ DOMAIN turns :
          turns'[i].at = "new" /\ turns'[i].base = base /\ turns'[i].why = 0
    BY <1>1, <1>3
  <1>5. OneMore /\ \A s \in DOMAIN log' \ DOMAIN log : log'[s] = e
    BY EntryIsLast
  <1>6. base <= Len(log') + 1
    BY <1>5, LogIsTyped, NextIsTyped DEF OneMore
  <1>7. TasksStay /\ Begin /\ Sit
    BY <1>3, <1>4, <1>6 DEF TasksStay, SameTask, Begin, Sit
  <1>8. NoReply
    BY <1>3, <1>4, <1>5 DEF NoReply, SameReplies
  <1>9. BusyIsTaken'
    BY <1>3, <1>7, BusyStays
  <1> QED
    BY <1>5, <1>7, <1>8, <1>9, OrderKeeps

LEMMA OwnerInOrder ==
  ASSUME ChatInv, ChatInv', Order,
         \/ \E ment \in SUBSET Members : Post(ment)
         \/ Broadcast
  PROVE  Order'
  <1>1. /\ \A to \in SUBSET Members : /\ OwnerMessage(to) \in EntryType
                                      /\ OwnerMessage(to).turn = 0
        /\ Len(log) + 1 \in Nat /\ Len(log) + 1 <= Len(log) + 1 /\ present \in SUBSET Members
    BY LogIsTyped DEF OwnerMessage, Entry, EntryType, ChatInv, Rest
  <1>2. ASSUME NEW ment \in SUBSET Members, Post(ment)
        PROVE  Order'
    <2> DEFINE ws == {w \in ment : MayMention(Policy, present, Owner, w) /\ w \in present}
    <2>1. ws \in SUBSET Members
      OBVIOUS
    <2> QED
      BY <1>1, <1>2, <2>1, BatchInOrder DEF Post
  <1>3. CASE Broadcast
    <2>1. Members \in SUBSET Members
      OBVIOUS
    <2> QED
      BY <1>1, <1>3, <2>1, BatchInOrder DEF Broadcast
  <1> QED
    BY <1>2, <1>3

LEMMA RerunInOrder ==
  ASSUME ChatInv, ChatInv', Order,
         NEW seq \in DOMAIN log, NEW pick \in Members \cup {Owner}, NEW c,
         Rerun(seq, PlanRerun(seq, pick), c) \/ Rerun(seq, PlanFork(seq, pick), c)
  PROVE  Order'
  <1>1. /\ Entry("system", Owner, 0, {}) \in EntryType
        /\ Entry("system", Owner, 0, {}).turn = 0
    BY DEF Entry, EntryType
  <1>2. ASSUME NEW plan \in {PlanRerun(seq, pick), PlanFork(seq, pick)}
        PROVE  plan.anchor \in Nat /\ plan.anchor <= Len(log) + 1
    <2>1. seq \in Nat /\ seq <= Len(log) /\ Len(log) \in Nat
      BY LogIsTyped
    <2>2. TriggerOf(seq) \in Nat /\ TriggerOf(seq) <= Len(log)
      BY LogIsTyped, TriggerIsNat
    <2>3. plan.anchor \in {seq, TriggerOf(seq)}
      BY DEF PlanRerun, PlanFork
    <2> QED
      BY <2>1, <2>2, <2>3
  <1>3. PICK plan \in {PlanRerun(seq, pick), PlanFork(seq, pick)} : Rerun(seq, plan, c)
    OBVIOUS
  <1>4. (IF plan.who = {} THEN present ELSE plan.who \cap present) \in SUBSET Members
    BY DEF ChatInv, Rest
  <1>5. plan.anchor \in Nat /\ plan.anchor <= Len(log) + 1
    BY <1>2
  <1> QED
    BY <1>1, <1>3, <1>4, <1>5, BatchInOrder DEF Rerun
-----------------------------------------------------------------------------
\* One turn changes, and stays what it is for.
LEMMA OneTurn ==
  ASSUME ChatInv, NEW i \in DOMAIN turns, NEW t, SameTask(turns[i], t),
         turns' = [turns EXCEPT ![i] = t]
  PROVE  /\ TasksStay /\ Begin /\ DOMAIN turns' = DOMAIN turns /\ turns'[i] = t
         /\ \A j \in DOMAIN turns \ {i} : turns'[j] = turns[j]
  <1>1. turns \in Seq(TurnType)
    BY WhatIsKnown
  <1>2. /\ DOMAIN turns' = DOMAIN turns /\ turns'[i] = t
        /\ \A j \in DOMAIN turns \ {i} : turns'[j] = turns[j]
    BY <1>1
  <1> QED
    BY <1>2 DEF TasksStay, SameTask, Begin

\* A turn marks its member, takes the lock or is about to give the member back.
LEMMA AtInOrder ==
  ASSUME ChatInv, ChatInv', Order, NEW i \in DOMAIN turns,
         MarkBusy(i) \/ Lock(i) \/ (ReadStatus(i) /\ At(i, "idle"))
  PROVE  Order'
  <1>1. PICK a \in {"lock", "fill", "idle"} :
          /\ turns' = [turns EXCEPT ![i].at = a]
          /\ <<turns[i].at, a>> \in {<<"new", "lock">>, <<"lock", "fill">>, <<"leave", "idle">>}
          /\ UNCHANGED <<present, log, sess, cutOff>>
          /\ mstat' = mstat \/ (a = "lock" /\ SetStatusOf(turns[i].w, "Busy"))
    <2>1. CASE MarkBusy(i)
      BY <2>1 DEF MarkBusy, At
    <2>2. CASE Lock(i)
      BY <2>2 DEF Lock, At
    <2>3. CASE ReadStatus(i) /\ At(i, "idle")
      BY <2>3 DEF ReadStatus, At
    <2> QED
      BY <2>1, <2>2, <2>3
  <1> DEFINE t == [turns[i] EXCEPT !.at = a]
  <1>2. turns[i] \in TurnType /\ a \in Phases
    BY WhatIsKnown DEF Phases, Early, Holding
  <1>3. SameTask(turns[i], t) /\ t.at = a
    BY <1>2 DEF SameTask, TurnType
  <1>4. turns' = [turns EXCEPT ![i] = t]
    BY <1>1
  <1> HIDE DEF t
  <1>5. /\ TasksStay /\ Begin /\ DOMAIN turns' = DOMAIN turns /\ turns'[i] = t
        /\ \A j \in DOMAIN turns \ {i} : turns'[j] = turns[j]
    BY <1>3, <1>4, OneTurn
  <1>6. OneMore /\ Sit /\ NoReply
    <2>1. OneMore
      BY <1>1, LogIsTyped DEF OneMore
    <2>2. Sit
      BY <1>1, <1>3, <1>5 DEF Sit, Seated
    <2>3. NoReply
      BY <1>1, <1>3, <1>5 DEF NoReply, SameReplies
    <2> QED
      BY <2>1, <2>2, <2>3
  <1>7. BusyIsTaken'
    <2>1. Astir(turns'[i])
      BY <1>3, <1>5 DEF Astir, Attached, Over, Stray
    <2>2. \A j \in DOMAIN turns : Astir(turns[j]) => Astir(turns'[j])
      BY <1>5, <2>1
    <2>3. CASE mstat' = mstat
      BY <1>1, <1>5, <2>2, <2>3, BusyStays
    <2>4. CASE SetStatusOf(turns[i].w, "Busy")
      <3> SUFFICES ASSUME NEW w \in present' \ cutOff', mstat'[w] = "Busy"
                   PROVE  \E j \in DOMAIN turns' : Occupies(j, w)'
        BY DEF BusyIsTaken
      <3>1. CASE w = turns[i].w
        BY <1>5, <2>1, <3>1 DEF Occupies, TasksStay, SameTask
      <3>2. CASE w # turns[i].w
        <4>1. mstat[w] = "Busy" /\ w \in present \ cutOff
          <5>1. mstat \in [Members -> {"Idle", "Busy", "Offline"}] /\ present \subseteq Members
            BY DEF ChatInv, Rest
          <5> QED
            BY <1>1, <2>4, <3>2, <5>1 DEF SetStatusOf
        <4>2. PICK j \in DOMAIN turns : Occupies(j, w)
          BY <4>1 DEF Order, BusyIsTaken
        <4>3. Astir(turns[j]) /\ turns[j].w = w
          BY <4>2 DEF Occupies
        <4>4. j \in DOMAIN turns' /\ turns'[j].w = w /\ Astir(turns'[j])
          BY <1>5, <2>2, <4>3 DEF TasksStay, SameTask
        <4> QED
          BY <4>4 DEF Occupies
      <3> QED
        BY <3>1, <3>2
    <2> QED
      BY <1>1, <2>3, <2>4
  <1> QED
    BY <1>5, <1>6, <1>7, OrderKeeps

LEMMA SpentIsOver ==
  ASSUME NEW t \in TurnType, NEW a
  PROVE  SameTask(t, Spent(t, a)) /\ Spent(t, a).at = a
  BY DEF SameTask, Spent, Turn

LEMMA AtIsSame ==
  ASSUME NEW t \in TurnType, NEW a
  PROVE  SameTask(t, [t EXCEPT !.at = a]) /\ [t EXCEPT !.at = a].at = a
  BY DEF SameTask, TurnType

\* A turn comes to its end, and gives its member back or has told that it is gone.
LEMMA FinishInOrder ==
  ASSUME ChatInv, ChatInv', Order, NEW i \in DOMAIN turns, FinishTurn(i, turns),
         turns[i].at \notin Waiting, Attached(turns[i]), log' \in {log, Append(log, WorkerNotice(i))},
         UNCHANGED <<present, sess, cutOff>>,
         \A w \in present : mstat'[w] = "Busy" => mstat[w] = "Busy",
         \/ turns[i].at = "new" \/ turns[i].w \notin present
         \/ mstat'[turns[i].w] # "Busy"
  PROVE  Order'
  <1>1. /\ turns \in Seq(TurnType) /\ \A j \in DOMAIN turns : turns[j] \in TurnType
        /\ DOMAIN turns' = DOMAIN turns
        /\ \A j \in DOMAIN turns :
             turns'[j] = IF j = i THEN Spent(turns[j], "end")
                         ELSE IF j = turns[i].parent THEN [turns[j] EXCEPT !.at = Resumed(@)]
                         ELSE turns[j]
    BY WhatIsKnown DEF FinishTurn
  <1>2. ASSUME NEW j \in DOMAIN turns \ {i}, j = turns[i].parent
        PROVE  /\ \/ turns[j].at = "wait" /\ turns'[j].at = "run"
                  \/ turns[j].at = "stray_wait" /\ turns'[j].at = "stray"
               /\ SameTask(turns[j], turns'[j])
    <2>1. turns[j].at \in Waiting
      BY <1>2, LogIsTyped DEF ChatInv, Apart, Nested
    <2>2. turns'[j] = [turns[j] EXCEPT !.at = Resumed(turns[j].at)] /\ turns[j] \in TurnType
      BY <1>1, <1>2
    <2> DEFINE a == Resumed(turns[j].at)
    <2>3. \/ turns[j].at = "wait" /\ a = "run"
          \/ turns[j].at = "stray_wait" /\ a = "stray"
      BY <2>1, ResumedAt
    <2> DEFINE u == [turns[j] EXCEPT !.at = a]
    <2>4. turns'[j] = u
      BY <2>2
    <2> HIDE DEF a
    <2>5. SameTask(turns[j], u) /\ u.at = a
      BY <2>2, AtIsSame
    <2> HIDE DEF u
    <2> QED
      BY <2>3, <2>4, <2>5
  <1>3. /\ turns'[i].at = "end" /\ SameTask(turns[i], turns'[i])
        /\ \A j \in DOMAIN turns \ {i} : j # turns[i].parent => turns'[j] = turns[j]
    BY <1>1, SpentIsOver
  <1>4. TasksStay /\ Begin
    <2>1. \A j \in DOMAIN turns : SameTask(turns[j], turns'[j])
      BY <1>2, <1>3 DEF SameTask
    <2> QED
      BY <1>1, <2>1 DEF TasksStay, Begin
  <1>5. OneMore /\ \A s \in DOMAIN log' \ DOMAIN log : log'[s] = WorkerNotice(i)
    <2>1. WorkerNotice(i) \in EntryType /\ WorkerNotice(i).turn = i
      BY WhatIsKnown DEF WorkerNotice, Entry, EntryType
    <2> QED
      BY <2>1, EntryIsLast
  <1>6. Sit
    <2>1. \A j \in DOMAIN turns : turns'[j].at \in Seated => turns[j].at \in Seated
      BY <1>2, <1>3 DEF Seated
    <2> QED
      BY <2>1 DEF Sit
  <1>7. NoReply
    <2>1. SameReplies(turns, turns')
      BY <1>1, <1>2, <1>3 DEF SameReplies
    <2>2. WorkerNotice(i).turn = i
      BY DEF WorkerNotice, Entry
    <2> QED
      BY <1>3, <1>5, <2>1, <2>2 DEF NoReply
  <1>8. BusyIsTaken'
    <2>1. ASSUME NEW j \in DOMAIN turns, Astir(turns[j])
          PROVE  \/ Astir(turns'[j])
                 \/ turns[j].w \notin present' \ cutOff' \/ mstat'[turns[j].w] # "Busy"
      <3>1. CASE j = i
        BY <2>1, <3>1 DEF Astir
      <3>2. CASE j # i
        BY <1>2, <1>3, <2>1, <3>2 DEF Astir, Attached, Over, Stray
      <3> QED
        BY <3>1, <3>2
    <2> QED
      BY <1>4, <2>1, BusyStays
  <1> QED
    BY <1>4, <1>5, <1>6, <1>7, <1>8, OrderKeeps

LEMMA LeaveInOrder ==
  ASSUME ChatInv, ChatInv', Order, NEW i \in DOMAIN turns,
         Missing(i) \/ ReadStatus(i) \/ SetIdle(i)
  PROVE  Order'
  <1>1. CASE Missing(i)
    <2>1. turns[i].at = "new" /\ Attached(turns[i]) /\ turns[i].at \notin Waiting
      BY <1>1 DEF Missing, Attached, Over, Stray, Waiting
    <2> QED
      BY <1>1, <2>1, FinishInOrder DEF Missing
  <1>2. CASE ReadStatus(i) /\ At(i, "idle")
    BY <1>2, AtInOrder
  <1>3. CASE ReadStatus(i) /\ ~ At(i, "idle")
    <2>1. /\ turns[i].at = "leave" /\ Attached(turns[i]) /\ turns[i].at \notin Waiting
          /\ mstat[turns[i].w] = "Offline"
          /\ FinishTurn(i, turns) /\ UNCHANGED <<present, mstat, log, sess, asking, cutOff, kit>>
      BY <1>3 DEF ReadStatus, Attached, Over, Stray, Waiting
    <2> QED
      BY <2>1, FinishInOrder
  <1>4. CASE SetIdle(i)
    <2>1. /\ turns[i].at = "idle" /\ Attached(turns[i]) /\ turns[i].at \notin Waiting
          /\ FinishTurn(i, turns) /\ UNCHANGED <<present, log, sess, asking, cutOff, kit>>
          /\ mstat' = IF turns[i].w \in present THEN [mstat EXCEPT ![turns[i].w] = "Idle"]
                      ELSE mstat
      BY <1>4 DEF SetIdle, SetStatusOf, Attached, Over, Stray, Waiting
    <2>2. mstat \in [Members -> {"Idle", "Busy", "Offline"}] /\ present \subseteq Members
      BY DEF ChatInv, Rest
    <2>3. /\ \A w \in present : mstat'[w] = "Busy" => mstat[w] = "Busy"
          /\ turns[i].w \notin present \/ mstat'[turns[i].w] # "Busy"
      BY <2>1, <2>2
    <2> QED
      BY <2>1, <2>3, FinishInOrder
  <1> QED
    BY <1>1, <1>2, <1>3, <1>4

\* The session is filled with what came before the anchor, the message that
\* summoned the turn among it.
LEMMA FillInOrder ==
  ASSUME ChatInv, ChatInv', Order, NEW i \in DOMAIN turns, Fill(i)
  PROVE  Order'
  <1> DEFINE t == [turns[i] EXCEPT !.at = "run", !.names = present]
             X == {<<i, s>> : s \in Seed(i) \cup {0}}
  <1>1. turns[i] \in TurnType /\ turns[i].w \in Members /\ i \in Nat
    BY WhatIsKnown
  <1>2. SameTask(turns[i], t) /\ t.at = "run"
    BY <1>1 DEF SameTask, TurnType
  <1>3. /\ turns' = [turns EXCEPT ![i] = t] /\ sess' = [sess EXCEPT ![turns[i].w] = X]
        /\ turns[i].at = "fill" /\ UNCHANGED <<present, mstat, log, cutOff>>
    BY DEF Fill
  <1>4. \A m \in X : m[2] # 0 => m[2] \in DOMAIN log /\ m[2] < turns[i].base
    BY DEF Seed
  <1>5. turns[i].why # 0 => <<i, turns[i].why>> \in X
    BY DEF Order, Caused, Cause, Seed
  <1> HIDE DEF t, X
  <1>6. /\ TasksStay /\ Begin /\ DOMAIN turns' = DOMAIN turns /\ turns'[i] = t
        /\ \A j \in DOMAIN turns \ {i} : turns'[j] = turns[j]
    BY <1>2, <1>3, OneTurn
  <1>7. OneMore /\ NoReply
    <2>1. OneMore
      BY <1>3, LogIsTyped DEF OneMore
    <2> QED
      BY <1>2, <1>3, <1>6, <2>1 DEF NoReply, SameReplies
  <1>8. BusyIsTaken'
    BY <1>2, <1>3, <1>6, BusyStays DEF Astir, Attached, Over, Stray
  <1>9. Heard'
    <2> SUFFICES ASSUME NEW j \in DOMAIN turns', turns'[j].at \in Seated
                 PROVE  /\ \A m \in sess'[turns'[j].w] :
                             m[2] # 0 => m[2] \in DOMAIN log' /\ m[2] < turns'[j].base
                        /\ turns'[j].why # 0 => <<j, turns'[j].why>> \in sess'[turns'[j].w]
      BY DEF Heard
    <2>1. sess \in [Members -> SUBSET (Nat \X Nat)]
      BY DEF ChatInv, Rest
    <2>2. CASE j = i
      BY <1>1, <1>2, <1>3, <1>4, <1>5, <1>6, <2>1, <2>2 DEF SameTask
    <2>3. CASE j # i
      <3>1. turns'[j] = turns[j] /\ j \in DOMAIN turns
        BY <1>6, <2>3
      <3>2. turns[j].w # turns[i].w
        <4>1. turns[j].at \in Holding /\ turns[i].at \in Holding
          BY <1>3, <3>1 DEF Seated, Holding
        <4> QED
          BY <2>3, <3>1, <4>1 DEF ChatInv, Apart, Exclusive
      <3>3. sess'[turns[j].w] = sess[turns[j].w]
        BY <1>3, <3>1, <3>2, <2>1, LogIsTyped
      <3> QED
        BY <1>3, <3>1, <3>3 DEF Order, Heard
    <2> QED
      BY <2>2, <2>3
  <1> QED
    BY <1>6, <1>7, <1>8, <1>9, BasesKeep, RepliesKeep DEF Order

\* An engine writes into the session it was given.
LEMMA SpeakInOrder ==
  ASSUME ChatInv, ChatInv', Order, NEW i \in DOMAIN turns, Speak(i)
  PROVE  Order'
  <1>1. /\ sess' = [sess EXCEPT ![turns[i].w] = @ \cup {<<i, 0>>}]
        /\ UNCHANGED <<present, mstat, log, turns, cutOff>>
    BY DEF Speak
  <1>2. sess \in [Members -> SUBSET (Nat \X Nat)] /\ turns[i].w \in Members
    BY LogIsTyped DEF ChatInv, Rest
  <1>3. \A w \in Members : /\ sess[w] \subseteq sess'[w]
                           /\ \A m \in sess'[w] : m \in sess[w] \/ m = <<i, 0>>
    BY <1>1, <1>2
  <1>4. Sit
    BY <1>1, <1>3 DEF Sit
  <1>5. TasksStay /\ OneMore /\ Begin /\ NoReply
    BY <1>1, LogIsTyped DEF TasksStay, SameTask, OneMore, Begin, NoReply, SameReplies
  <1>6. BusyIsTaken'
    BY <1>1, <1>5, BusyStays
  <1> QED
    BY <1>4, <1>5, <1>6, OrderKeeps

\* The turn inside a tool call is dropped, and its member is cut off.
LEMMA TimeoutInOrder ==
  ASSUME ChatInv, ChatInv', Order,
         NEW i \in DOMAIN turns, NEW j \in DOMAIN turns, Timeout(i, j)
  PROVE  Order'
  <1>1. /\ turns[i].at \in Waiting
        /\ cutOff' = cutOff \cup {turns[j].w}
        /\ UNCHANGED <<present, mstat, log, sess>>
    BY DEF Timeout
  <1>2. /\ SameReplies(turns, turns')
        /\ i # j /\ DOMAIN turns' = DOMAIN turns
        /\ turns'[i] = [turns[i] EXCEPT !.at = Resumed(turns[i].at)]
        /\ turns'[j] = Spent(turns[j], LeftOf(turns[j])) /\ turns'[j].at \in Cut
        /\ \A k \in DOMAIN turns \ {i, j} : turns'[k] = turns[k]
    BY <1>1, DropIsApart DEF ChatInv
  <1>3. \A k \in DOMAIN turns : turns[k] \in TurnType
    BY WhatIsKnown
  <1>4. /\ \/ turns[i].at = "wait" /\ turns'[i].at = "run"
           \/ turns[i].at = "stray_wait" /\ turns'[i].at = "stray"
        /\ SameTask(turns[i], turns'[i])
    <2> DEFINE a == Resumed(turns[i].at)
    <2>1. \/ turns[i].at = "wait" /\ a = "run"
          \/ turns[i].at = "stray_wait" /\ a = "stray"
      BY <1>1, ResumedAt
    <2> DEFINE u == [turns[i] EXCEPT !.at = a]
    <2>2. turns'[i] = u
      BY <1>2
    <2> HIDE DEF a
    <2>3. SameTask(turns[i], u) /\ u.at = a
      BY <1>3, AtIsSame
    <2> HIDE DEF u
    <2> QED
      BY <2>1, <2>2, <2>3
  <1>5. SameTask(turns[j], turns'[j])
    BY <1>2, <1>3, SpentIsOver
  <1>6. TasksStay /\ Begin
    BY <1>2, <1>4, <1>5 DEF TasksStay, SameTask, Begin
  <1>7. OneMore
    BY <1>1, LogIsTyped DEF OneMore
  <1>8. Sit
    <2>1. \A k \in DOMAIN turns : turns'[k].at \in Seated => turns[k].at \in Seated
      BY <1>2, <1>4 DEF Seated, Cut, Stray
    <2> QED
      BY <1>1, <2>1 DEF Sit
  <1>9. NoReply
    BY <1>1, <1>2 DEF NoReply
  <1>10. BusyIsTaken'
    <2>1. ASSUME NEW k \in DOMAIN turns, Astir(turns[k])
          PROVE  Astir(turns'[k]) \/ turns[k].w \notin present' \ cutOff'
      <3>1. CASE k = i
        BY <1>4, <2>1, <3>1 DEF Astir, Attached, Over, Stray
      <3>2. CASE k = j
        BY <1>1, <3>2
      <3>3. CASE k \notin {i, j}
        BY <1>2, <2>1, <3>3
      <3> QED
        BY <3>1, <3>2, <3>3
    <2> QED
      BY <1>1, <1>6, <2>1, BusyStays
  <1> QED
    BY <1>6, <1>7, <1>8, <1>9, <1>10, OrderKeeps

\* An engine set loose returns.
LEMMA StrayInOrder ==
  ASSUME ChatInv, ChatInv', Order, NEW i \in DOMAIN turns, StrayEnds(i)
  PROVE  Order'
  <1> DEFINE t == Spent(turns[i], "dropped")
  <1>1. /\ turns[i].at = "stray" /\ turns' = [turns EXCEPT ![i] = t]
        /\ UNCHANGED <<present, mstat, log, sess, cutOff>>
    BY DEF StrayEnds
  <1>2. SameTask(turns[i], t) /\ t.at = "dropped"
    BY WhatIsKnown, SpentIsOver
  <1> HIDE DEF t
  <1>3. /\ TasksStay /\ Begin /\ DOMAIN turns' = DOMAIN turns /\ turns'[i] = t
        /\ \A j \in DOMAIN turns \ {i} : turns'[j] = turns[j]
    BY <1>1, <1>2, OneTurn
  <1>4. OneMore
    BY <1>1, LogIsTyped DEF OneMore
  <1>5. Sit
    BY <1>1, <1>2, <1>3 DEF Sit, Seated
  <1>6. NoReply
    BY <1>1, <1>2, <1>3 DEF NoReply, SameReplies
  <1>7. BusyIsTaken'
    <2>1. \A j \in DOMAIN turns : Astir(turns[j]) => Astir(turns'[j])
      BY <1>1, <1>3 DEF Astir, Attached, Stray
    <2> QED
      BY <1>1, <1>3, <2>1, BusyStays
  <1> QED
    BY <1>3, <1>4, <1>5, <1>6, <1>7, OrderKeeps

\* A direct message, and the turn that answers it inside the tool call.
LEMMA DirectInOrder ==
  ASSUME ChatInv, ChatInv', Order, NEW i \in DOMAIN turns, NEW to \in Members, Direct(i, to)
  PROVE  Order'
  <1> DEFINE n == Len(log) + 1
             t == Turn(to, n + 1, 0, i, n)
             e == DirectMessage(i, to)
             v == [turns[i] EXCEPT !.at = Calling(turns[i].at)]
  <1>1. /\ turns[i].at \in Running /\ log' = Append(log, e)
        /\ UNCHANGED <<present, mstat, sess, cutOff>>
        /\ turns' = IF to \in present THEN Append([turns EXCEPT ![i] = v], t) ELSE turns
    BY DEF Direct
  <1>2. /\ turns \in Seq(TurnType) /\ turns[i] \in TurnType /\ i \in Nat /\ i # 0
        /\ n \in Nat /\ log \in Seq(EntryType)
    BY WhatIsKnown, LogIsTyped
  <1>3. e \in EntryType /\ e.turn = i
    BY <1>2, TurnNumbers DEF DirectMessage, Entry, EntryType
  <1>4. /\ SameTask(turns[i], v)
        /\ \/ turns[i].at = "run" /\ v.at = "wait"
           \/ turns[i].at = "stray" /\ v.at = "stray_wait"
    BY <1>1, <1>2, AtIsSame, CallingAt
  <1>5. /\ t.at = "new" /\ t.base = n + 1 /\ t.parent = i /\ t.why = n
    BY DEF Turn
  <1> HIDE DEF v, t, e
  <1>6. /\ OneMore /\ \A s \in DOMAIN log' \ DOMAIN log : log'[s] = e
        /\ n \in DOMAIN log' /\ Len(log') = n
    <2>1. OneMore /\ \A s \in DOMAIN log' \ DOMAIN log : log'[s] = e
      BY <1>1, <1>3, EntryIsLast
    <2> QED
      BY <1>1, <1>2, <2>1
  <1>7. CASE to \notin present
    <2>1. TasksStay /\ Begin /\ Sit /\ turns' = turns
      BY <1>1, <1>7 DEF TasksStay, SameTask, Begin, Sit
    <2>2. NoReply
      BY <1>1, <1>3, <1>6, <2>1 DEF NoReply, SameReplies, Running
    <2>3. BusyIsTaken'
      BY <1>1, <2>1, BusyStays
    <2> QED
      BY <1>6, <2>1, <2>2, <2>3, OrderKeeps
  <1>8. CASE to \in present
    <2> DEFINE k == Len(turns) + 1
    <2>1. /\ DOMAIN turns' = 1 .. k /\ DOMAIN turns = 1 .. Len(turns) /\ Len(turns) \in Nat
          /\ turns'[i] = v /\ turns'[k] = t
          /\ \A j \in DOMAIN turns \ {i} : turns'[j] = turns[j]
      BY <1>1, <1>2, <1>8
    <2>2. TasksStay
      BY <1>4, <2>1 DEF TasksStay, SameTask
    <2>3. /\ \A j \in DOMAIN turns' \ DOMAIN turns : j = k
          /\ \A j \in DOMAIN turns : turns'[j] = turns[j] \/ (j = i /\ turns'[j] = v)
      BY <2>1
    <2>4. Begin
      <3> SUFFICES ASSUME NEW j \in DOMAIN turns' \ DOMAIN turns
                   PROVE  /\ turns'[j].at = "new" /\ turns'[j].base <= Len(log') + 1
                          /\ Cause(j)'
        BY DEF Begin
      <3>1. turns'[j] = t
        BY <2>1, <2>3
      <3>2. /\ turns'[j].why = n /\ turns'[j].base = n + 1 /\ turns'[j].parent # 0
            /\ turns'[j].at = "new"
        BY <1>2, <1>5, <3>1
      <3>3. n < n + 1 /\ n + 1 <= Len(log') + 1
        BY <1>2, <1>6
      <3> HIDE DEF n
      <3> QED
        BY <1>6, <3>2, <3>3 DEF Cause
    <2>5. Sit
      BY <1>1, <1>4, <2>3 DEF Sit, Seated
    <2>6. NoReply
      BY <1>3, <1>4, <1>5, <1>6, <2>1, <2>3 DEF NoReply, SameReplies
    <2>7. BusyIsTaken'
      <3>1. \A j \in DOMAIN turns : Astir(turns[j]) => Astir(turns'[j])
        BY <1>4, <2>3 DEF Astir, Attached, Over, Stray
      <3> QED
        BY <1>1, <2>2, <3>1, BusyStays
    <2> QED
      BY <1>6, <2>2, <2>4, <2>5, <2>6, <2>7, OrderKeeps
  <1> QED
    BY <1>7, <1>8

\* A reply begins or goes on: the frame of both.
LEMMA ReplyInOrder ==
  ASSUME ChatInv, ChatInv', Order, NEW i \in DOMAIN turns, turns[i].at \in {"run", "say"},
         NEW t, SameTask(turns[i], t), t.at = "say", turns' = [turns EXCEPT ![i] = t],
         OneMore, \A s \in DOMAIN log' \ DOMAIN log : log'[s].turn = i,
         IF t.first THEN t.say = 0 => t.ment = {}
         ELSE /\ t.posted <= Len(log')
              /\ \A s \in DOMAIN log' : log'[s].turn = i => s <= t.posted,
         UNCHANGED <<present, mstat, sess, cutOff>>
  PROVE  Order'
  <1>1. /\ TasksStay /\ Begin /\ DOMAIN turns' = DOMAIN turns /\ turns'[i] = t
        /\ \A j \in DOMAIN turns \ {i} : turns'[j] = turns[j]
    BY OneTurn
  <1>2. Sit
    BY <1>1 DEF Sit, Seated
  <1>3. BusyIsTaken'
    <2>1. \A j \in DOMAIN turns : Astir(turns[j]) => Astir(turns'[j])
      BY <1>1 DEF Astir, Attached, Over, Stray
    <2> QED
      BY <1>1, <2>1, BusyStays
  <1>4. Posted'
    <2> SUFFICES ASSUME NEW j \in DOMAIN turns', turns'[j].at = "say"
                 PROVE  IF turns'[j].first
                          THEN turns'[j].say = 0 => turns'[j].ment = {}
                          ELSE /\ turns'[j].posted <= Len(log')
                               /\ \A s \in DOMAIN log' : log'[s].turn = j =>
                                    s <= turns'[j].posted
      BY DEF Posted
    <2>1. CASE j = i
      BY <1>1, <2>1
    <2>2. CASE j # i
      <3>1. turns'[j] = turns[j] /\ j \in DOMAIN turns
        BY <1>1, <2>2
      <3>2. CASE turns[j].first
        BY <3>1, <3>2 DEF Order, Posted
      <3>3. CASE ~ turns[j].first
        <4>1. /\ turns[j].posted <= Len(log) /\ turns[j].posted \in Nat
              /\ Len(log) \in Nat /\ Len(log') \in Nat /\ Len(log) <= Len(log')
              /\ \A s \in DOMAIN log : log[s].turn = j => s <= turns[j].posted
          BY <3>1, <3>3, LogIsTyped, NextIsTyped DEF Order, Posted, OneMore
        <4>2. \A s \in DOMAIN log' : log'[s].turn = j => s \in DOMAIN log /\ log'[s] = log[s]
          BY <2>2 DEF OneMore
        <4>3. turns[j].posted <= Len(log')
          BY <4>1
        <4> QED
          BY <3>1, <3>3, <4>1, <4>2, <4>3
      <3> QED
        BY <3>2, <3>3
    <2> QED
      BY <2>1, <2>2
  <1> QED
    BY <1>1, <1>2, <1>3, <1>4, BasesKeep, SeatsKeep DEF Order

LEMMA ReturnInOrder ==
  ASSUME ChatInv, ChatInv', Order, NEW i \in DOMAIN turns, NEW n \in 0 .. kit.chunks,
         NEW ment \in SUBSET Members, NEW stop, Return(i, n, ment, stop)
  PROVE  Order'
  <1> DEFINE t == [turns[i] EXCEPT !.at = "say", !.say = n, !.first = TRUE,
                                   !.ment = ment, !.notice = Abnormal(stop, n = 0)]
  <1>1. turns[i] \in TurnType
    BY WhatIsKnown
  <1>2. /\ SameTask(turns[i], t) /\ t.at = "say" /\ t.first = TRUE /\ t.say = n
        /\ t.ment = ment
    BY <1>1 DEF TurnType, SameTask
  <1>3. /\ turns' = [turns EXCEPT ![i] = t] /\ turns[i].at = "run" /\ (n = 0 => ment = {})
        /\ UNCHANGED <<present, mstat, log, sess, cutOff>>
    BY DEF Return
  <1> HIDE DEF t
  <1>4. OneMore
    BY <1>3, LogIsTyped DEF OneMore
  <1> QED
    BY <1>2, <1>3, <1>4, ReplyInOrder

LEMMA SayInOrder ==
  ASSUME ChatInv, ChatInv', Order, NEW i \in DOMAIN turns, Say(i)
  PROVE  Order'
  <1> DEFINE t == [turns[i] EXCEPT !.say = turns[i].say - 1, !.first = FALSE,
                                   !.posted = Len(log) + 1]
             e == Entry("worker", turns[i].w, i, IF turns[i].first THEN turns[i].ment ELSE {})
  <1>1. /\ turns[i] \in TurnType /\ log \in Seq(EntryType) /\ Len(log) \in Nat /\ i \in Nat
    BY WhatIsKnown
  <1>2. SameTask(turns[i], t) /\ t.at = turns[i].at /\ t.first = FALSE
        /\ t.posted = Len(log) + 1
    BY <1>1 DEF TurnType, SameTask
  <1>3. /\ turns' = [turns EXCEPT ![i] = t] /\ log' = Append(log, e)
        /\ turns[i].at = "say" /\ UNCHANGED <<present, mstat, sess, cutOff>>
    BY DEF Say
  <1>4. e \in EntryType /\ e.turn = i
    BY <1>1, TurnNumbers DEF Entry, EntryType
  <1> HIDE DEF t, e
  <1>5. /\ OneMore /\ \A s \in DOMAIN log' \ DOMAIN log : log'[s] = e
    BY <1>3, <1>4, EntryIsLast
  <1>6. Len(log') = Len(log) + 1 /\ DOMAIN log' = 1 .. Len(log) + 1
    BY <1>1, <1>3
  <1>7. t.posted <= Len(log') /\ \A s \in DOMAIN log' : s <= t.posted
    BY <1>1, <1>2, <1>6
  <1> QED
    BY <1>2, <1>3, <1>4, <1>5, <1>7, ReplyInOrder

\* The followers of a reply are anchored behind its last bubble.
LEMMA SummonInOrder ==
  ASSUME ChatInv, ChatInv', Order, NEW i \in DOMAIN turns, Summon(i)
  PROVE  Order'
  <1> DEFINE next == Followers(turns[i])
             said == {s \in DOMAIN log : log[s].turn = i /\ log[s].to = turns[i].ment}
             why == CHOOSE s \in said : \A x \in said : x <= s
             cause == IF next = {} THEN 0 ELSE why
             q == Batch(next, FollowBase(i), NextDepth(i), cause)
             t == [turns[i] EXCEPT !.at = "leave"]
             mid == [turns EXCEPT ![i] = t]
  <1>1. /\ turns[i] \in TurnType /\ turns[i].at = "say" /\ turns[i].say = 0
        /\ log \in Seq(EntryType) /\ Len(log) \in Nat /\ turns \in Seq(TurnType)
        /\ turns[i].depth \in Nat /\ turns[i].posted \in Nat /\ i \in Nat /\ i # 0
        /\ DOMAIN log = 1 .. Len(log)
    BY WhatIsKnown, LogIsTyped DEF Summon
  <1>2. next \in SUBSET Members /\ next \subseteq turns[i].ment
        /\ (next # {} => turns[i].depth < MaxMentionDepth)
    BY <1>1 DEF Followers, TurnType
  <1>3. next # {} => /\ why \in said /\ why <= turns[i].posted /\ turns[i].posted <= Len(log)
    <2> SUFFICES ASSUME next # {}
                 PROVE  why \in said /\ why <= turns[i].posted /\ turns[i].posted <= Len(log)
      OBVIOUS
    <2>0. ~ turns[i].first
      BY <1>1, <1>2 DEF Order, Posted
    <2>1. said # {} /\ said \in SUBSET (1 .. Len(log))
      BY <1>1, <2>0 DEF ChatInv, Answered
    <2>2. /\ \A s \in DOMAIN log : log[s].turn = i => s <= turns[i].posted
          /\ turns[i].posted <= Len(log)
      BY <1>1, <2>0 DEF Order, Posted
    <2>3. why \in said
      <3> HIDE DEF said
      <3> QED
        BY <1>1, <2>1, LastIsIn
    <2> QED
      BY <2>2, <2>3
  <1>4. /\ cause \in Nat /\ (next = {} => cause = 0)
        /\ next # {} => /\ cause \in DOMAIN log /\ log[cause].turn = i
                        /\ cause <= turns[i].posted
    <2> HIDE DEF why
    <2> QED
      BY <1>1, <1>3
  <1>5. /\ FollowBase(i) \in Nat /\ NextDepth(i) \in Nat
        /\ FollowBase(i) = turns[i].posted + 1 /\ NextDepth(i) = turns[i].depth + 1
    BY <1>1 DEF FollowBase, NextDepth
  <1>6. /\ turns' = mid \o q /\ log' \in {log, Append(log, WorkerNotice(i))}
        /\ UNCHANGED <<present, mstat, turnLock, sess, asking, cutOff, kit>>
    BY DEF Summon
  <1>7. t \in TurnType /\ SameTask(turns[i], t) /\ t.at = "leave"
    BY <1>1, AtIsTurn DEF Phases, Holding, SameTask, TurnType
  <1> HIDE DEF next, cause
  <1>8. /\ q \in Seq(TurnType)
        /\ \A k \in DOMAIN q : /\ q[k].at = "new" /\ q[k].parent = 0
                               /\ q[k].base = FollowBase(i) /\ q[k].depth = NextDepth(i)
                               /\ q[k].why = cause
        /\ next = {} => DOMAIN q = {}
    <2>1. next \in SUBSET Members /\ FollowBase(i) \in Nat /\ NextDepth(i) \in Nat /\ cause \in Nat
      BY <1>2, <1>4, <1>5
    <2> QED
      BY SMTT(60), <2>1, BatchIsFresh
  <1>9. next = {} => DOMAIN q = {}
    BY <1>8
  <1> HIDE DEF t, q
  <1>10. /\ mid \in Seq(TurnType) /\ DOMAIN mid = DOMAIN turns /\ mid[i] = t
         /\ \A j \in DOMAIN turns \ {i} : mid[j] = turns[j]
    BY <1>1, <1>7
  <1> HIDE DEF mid
  <1>11. /\ \A j \in DOMAIN turns : j \in DOMAIN turns' /\ turns'[j] = mid[j]
         /\ \A j \in DOMAIN turns' \ DOMAIN turns : \E k \in DOMAIN q : turns'[j] = q[k]
    BY <1>6, <1>8, <1>10, TurnsJoin
  <1>12. /\ turns'[i] = t /\ \A j \in DOMAIN turns \ {i} : turns'[j] = turns[j]
    BY <1>10, <1>11
  <1>13. TasksStay
    BY <1>7, <1>11, <1>12 DEF TasksStay, SameTask
  <1>14. /\ OneMore /\ \A s \in DOMAIN log' \ DOMAIN log : log'[s].turn = i
    <2>1. WorkerNotice(i) \in EntryType /\ WorkerNotice(i).turn = i
      BY <1>1, TurnNumbers DEF WorkerNotice, Entry, EntryType
    <2>2. OneMore /\ \A s \in DOMAIN log' \ DOMAIN log : log'[s] = WorkerNotice(i)
      BY <1>6, <2>1, EntryIsLast
    <2> QED
      BY <2>1, <2>2
  <1>15. Begin
    <2> SUFFICES ASSUME NEW j \in DOMAIN turns' \ DOMAIN turns
                 PROVE  /\ turns'[j].at = "new" /\ turns'[j].base <= Len(log') + 1
                        /\ Cause(j)'
      BY DEF Begin
    <2>1. /\ turns'[j].at = "new" /\ turns'[j].parent = 0 /\ next # {}
          /\ turns'[j].base = turns[i].posted + 1 /\ turns'[j].depth = turns[i].depth + 1
          /\ turns'[j].why = cause
      BY <1>5, <1>8, <1>9, <1>11
    <2>2. Len(log) <= Len(log') /\ Len(log') \in Nat
      BY <1>14, NextIsTyped DEF OneMore
    <2>3. turns[i].posted + 1 <= Len(log') + 1
      BY <1>1, <1>3, <2>1, <2>2
    <2>4. cause < turns[i].posted + 1
      BY <1>1, <1>4, <2>1
    <2>5. cause \in DOMAIN log' /\ log'[cause].turn = i
      BY <1>4, <1>14, <2>1 DEF OneMore
    <2>6. turns[i].depth + 1 <= MaxMentionDepth
      BY <1>1, <1>2, <2>1, ChatConstants
    <2>7. i \in DOMAIN turns' /\ turns'[i].depth = turns[i].depth
      BY <1>13 DEF TasksStay, SameTask
    <2>8. Cause(j)'
      BY <2>1, <2>4, <2>5, <2>6, <2>7 DEF Cause
    <2> QED
      BY <2>1, <2>3, <2>8
  <1>16. Sit
    BY <1>1, <1>6, <1>7, <1>12 DEF Sit, Seated
  <1>17. NoReply
    <2>1. \A j \in DOMAIN turns' \ DOMAIN turns : turns'[j].at # "say"
      BY <1>15 DEF Begin
    <2> QED
      BY <1>7, <1>12, <1>14, <2>1 DEF NoReply, SameReplies
  <1>18. BusyIsTaken'
    <2>1. \A j \in DOMAIN turns : Astir(turns[j]) => Astir(turns'[j])
      BY <1>7, <1>12 DEF Astir, Attached, Over, Stray
    <2> QED
      BY <1>6, <1>13, <2>1, BusyStays
  <1> QED
    BY <1>13, <1>14, <1>15, <1>16, <1>17, <1>18, OrderKeeps
-----------------------------------------------------------------------------
LEMMA OrderBegins ==
  ASSUME ChatInit
  PROVE  Order
  <1>1. turns = <<>> /\ log = <<>> /\ mstat = [w \in Members |-> "Idle"] /\ present = Members
    BY DEF ChatInit
  <1>2. DOMAIN turns = {} /\ DOMAIN log = {}
    BY <1>1
  <1> QED
    BY <1>1, <1>2 DEF Order, Based, Caused, Heard, Posted, BusyIsTaken

LEMMA StepsInOrder ==
  ASSUME ChatInv, ChatInv', Order, [ChatNext]_chatVars
  PROVE  Order'
  <1>1. CASE UserStep
    BY <1>1, OwnerInOrder, RerunInOrder, MembersInOrder DEF UserStep
  <1>2. ASSUME NEW i \in DOMAIN turns, Prepare(i)
        PROVE  Order'
    BY <1>2, LeaveInOrder, AtInOrder, FillInOrder DEF Prepare
  <1>3. ASSUME NEW i \in DOMAIN turns, Converse(i)
        PROVE  Order'
    BY <1>3, SpeakInOrder, StrayInOrder, DirectInOrder, TimeoutInOrder, ReturnInOrder
       DEF Converse
  <1>4. ASSUME NEW i \in DOMAIN turns, AnswerStep(i)
        PROVE  Order'
    BY <1>4, SayInOrder, SummonInOrder, LeaveInOrder DEF AnswerStep
  <1>5. CASE UNCHANGED chatVars
    BY <1>5, MembersInOrder
  <1> QED
    BY <1>1, <1>2, <1>3, <1>4, <1>5 DEF ChatNext, TurnStep

LEMMA OrderHolds == ChatSpec => []Order
  <1>1. ChatInv /\ Order /\ [ChatNext]_chatVars => ChatInv' /\ Order'
    BY NextKeeps, StepsInOrder
  <1> QED
    BY <1>1, InitHolds, OrderBegins, PTL DEF ChatSpec

\* Along a chain the depth is at least the place, since the first place where it
\* was not would be one behind a place where it was.
LEMMA ChainsAreShort ==
  ASSUME ChatInv, Order
  PROVE  ChainsBounded
  <1> DEFINE n == MaxMentionDepth + 1
  <1>0. n \in Nat /\ MaxMentionDepth \in Nat
    BY ChatConstants
  <1> SUFFICES ASSUME NEW c \in [0 .. n -> DOMAIN turns],
                      \A k \in 0 .. MaxMentionDepth : Summoned(c[k], c[k + 1])
               PROVE  FALSE
    BY DEF ChainsBounded
  <1>1. \A k \in 0 .. n : c[k] \in DOMAIN turns /\ turns[c[k]].depth \in Nat
    BY LogIsTyped
  <1>2. ASSUME NEW k \in 0 .. MaxMentionDepth
        PROVE  /\ k + 1 \in 0 .. n /\ turns[c[k + 1]].depth = turns[c[k]].depth + 1
               /\ turns[c[k + 1]].depth <= MaxMentionDepth
    <2>1. k + 1 \in 0 .. n
      BY <1>0
    <2>2. Cause(c[k + 1]) /\ Summoned(c[k], c[k + 1])
      BY <1>1, <2>1 DEF Order, Caused, Summoned
    <2> QED
      BY <2>1, <2>2 DEF Cause, Summoned
  <1> DEFINE K == {k \in 0 .. n : turns[c[k]].depth < k}
  <1>3. CASE K = {}
    <2>1. MaxMentionDepth \in 0 .. MaxMentionDepth /\ n \in 0 .. n
      BY <1>0
    <2>2. turns[c[n]].depth <= MaxMentionDepth /\ ~ (turns[c[n]].depth < n)
      BY <1>2, <1>3, <2>1
    <2> QED
      BY <1>0, <1>1, <2>1, <2>2
  <1>4. CASE K # {}
    <2>1. PICK k \in K : \A x \in K : k <= x
      <3> HIDE DEF K
      <3>1. K \in SUBSET (0 .. n)
        BY DEF K
      <3> QED
        BY <1>0, <1>4, <3>1, FirstOf
    <2>2. k \in 0 .. n /\ turns[c[k]].depth < k /\ k # 0
      BY <1>1
    <2>3. k - 1 \in 0 .. MaxMentionDepth /\ k - 1 \in 0 .. n /\ (k - 1) + 1 = k
      BY <1>0, <2>2
    <2>4. turns[c[k]].depth = turns[c[k - 1]].depth + 1
      BY <1>2, <2>3
    <2>5. turns[c[k - 1]].depth < k - 1
      BY <1>1, <2>2, <2>3, <2>4
    <2> QED
      BY <2>1, <2>3, <2>5
  <1> QED
    BY <1>3, <1>4

LEMMA OrderImplies ==
  ASSUME ChatInv, Order
  PROVE  RoundsKeepOrder
  <1>1. RoundIsBlind
    <2> SUFFICES ASSUME NEW i \in Live, turns[i].at \in {"run", "wait"},
                        NEW m \in sess[turns[i].w], m[2] # 0
                 PROVE  /\ m[2] # turns[i].base
                        /\ log[m[2]].turn # 0 => turns[log[m[2]].turn].base # turns[i].base
      BY DEF RoundIsBlind
    <2>1. i \in DOMAIN turns /\ turns[i].at \in Seated
      BY DEF Live, Seated
    <2>0. m[2] \in DOMAIN log /\ m[2] < turns[i].base
      BY <2>1 DEF Order, Heard
    <2>2. m[2] \in DOMAIN log /\ m[2] < turns[i].base /\ m[2] \in Nat /\ turns[i].base \in Nat
      BY <2>0, <2>1, LogIsTyped
    <2>3. log[m[2]].turn # 0 => /\ turns[log[m[2]].turn].base <= m[2]
                                /\ turns[log[m[2]].turn].base \in Nat
      BY <2>2, LogIsTyped DEF Order, Based
    <2> QED
      BY <2>2, <2>3
  <1>2. SummonedKnowsWhy
    BY DEF SummonedKnowsWhy, Live, Seated, Order, Heard
  <1>3. QuietMeansIdle
    BY DEF QuietMeansIdle, Order, BusyIsTaken, Occupies, Astir, Attached, Live
  <1> QED
    BY <1>1, <1>2, <1>3, ChainsAreShort DEF RoundsKeepOrder
-----------------------------------------------------------------------------
\* The chat's state keeps its type: the message a follower answers and the
\* instruction a rerun goes back to are positions of the conversation.
THEOREM ChatIsTyped == ChatSpec => []ChatTypeOK
  BY InvHolds, InvImplies, PTL

\* Whatever members send one another, whoever is removed and whichever tool call
\* runs out of time: what a turn finds in its session it has put there itself, or
\* an engine of the same member has whose turn a time limit cut off; no turn that
\* ends in order leaves anything to the next, and of the engines set loose nothing
\* but what they write while the turn is there (run_worker_turn empties and refills
\* the member's one session, run_guarded's spawned engine outlives it).
THEOREM OnlyStraysAreHeard == ChatSpec => []OnlyStraysIntrude
  BY InvHolds, InvImplies, PTL

\* The bubbles of one reply are not interrupted by a bubble of another turn of the
\* same member, also when a time limit dropped the turn between two of them: an
\* engine set loose posts no reply, it only sends direct messages.
THEOREM RepliesAreWhole == ChatSpec => []RepliesWhole
  BY InvHolds, InvImplies, PTL

\* Both together: the lock of a member keeps its turns apart, in what they say, and
\* in what they hear but for the engines that time limits set loose.
THEOREM TurnsAreApart == ChatSpec => []TurnsKeepApart
  BY OnlyStraysAreHeard, RepliesAreWhole, PTL DEF TurnsKeepApart

\* Whoever summons whom, and whatever is rerun, timed out or removed meanwhile: the
\* members addressed together answer blind, those a reply summons have heard it,
\* replies that summon one another end at MAX_WORKER_MENTION_DEPTH, and a quiet
\* group, in which no engine set loose is left either, has nobody left Busy but who
\* was cut off (roundtable.rs).
THEOREM RoundsAreInOrder == ChatSpec => []RoundsKeepOrder
  BY InvHolds, OrderHolds, OrderImplies, PTL
=============================================================================
