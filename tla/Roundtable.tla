----------------------------- MODULE Roundtable -----------------------------
(***************************************************************************)
(* The group chat (group/roundtable.rs): the owner posts, broadcasts or    *)
(* reruns, and every addressed member takes a turn in an activity of its   *)
(* own.  A turn can send a direct message, whose turn runs inside the tool *)
(* call, and its reply can mention members, whose turns follow it.  The    *)
(* engine of a turn is a task of its own: a call that runs out of time     *)
(* drops the turn it waits for, but not the engine, which goes on unseen.  *)
(* Every action is one statement of the store or one step between awaits.  *)
(***************************************************************************)
EXTENDS Topology, FiniteSets, SequencesExt

CONSTANTS
  Members,     \* workers registered in the group at the start
  Owner,       \* author of what no worker wrote
  Policy,      \* the group's topology policy
  MaxMentionDepth,    \* MAX_WORKER_MENTION_DEPTH
  Kits         \* what a behaviour is bounded to: the user's commands and how
               \* many of them, the turns, and the bubbles of one reply

ChatCommands == {"post", "broadcast", "rerun", "fork", "remove", "status"}
ASSUME ChatConstants ==
  /\ Owner \notin Members /\ IsFiniteSet(Members)
  /\ MaxMentionDepth \in Nat
  /\ Kits \subseteq [cmds : SUBSET ChatCommands, posts : Nat, turns : Nat, chunks : Nat]

VARIABLES
  present,     \* rows of the workers table
  mstat,       \* workers.status
  log,         \* roundtable_messages in seq order
  turns,       \* every run_worker_turn started, in order
  turnLock,    \* RT_TURN_LOCKS: the turn holding a member's lock, 0 if free
  sess,        \* messages of a member's session: <<turn that wrote, seq>>, with
               \* seq 0 for what its engine wrote, no copy of a log entry
  asking,     \* group_set_worker_status between its check and its write
  cutOff,      \* members one of whose turns was dropped half-way
  kit          \* what is left of the bounds

chatVars == <<present, mstat, log, turns, turnLock, sess, asking, cutOff, kit>>

NoSetting == [w |-> Owner, to |-> "Idle"]
Entry(kind, by, turn, to) == [kind |-> kind, by |-> by, turn |-> turn, to |-> to]
Turn(w, base, depth, parent, why) ==
  [w |-> w, base |-> base, depth |-> depth, parent |-> parent, why |-> why,
   at |-> "new", names |-> {}, say |-> 0, first |-> FALSE, ment |-> {},
   notice |-> FALSE, posted |-> base]
\* a turn whose future is gone keeps only what it was for
Spent(t, at) == [Turn(t.w, t.base, t.depth, t.parent, t.why) EXCEPT !.at = at]
OwnerMessage(to) == Entry("owner", Owner, 0, to)
\* a member's entry too; told from the bubbles of its replies, which are "worker"
DirectMessage(i, to) == Entry("direct", turns[i].w, i, {to})
ByWorker(e) == e.kind \in {"worker", "direct"}
WorkerNotice(i) == Entry("system", turns[i].w, i, {})
Over == {"end", "dropped"}
\* engines whose turn was dropped, and what either kind does
Stray == {"stray", "stray_wait"}
Running == {"run", "stray"}
Waiting == {"wait", "stray_wait"}
Calling(at) == IF at = "run" THEN "wait" ELSE "stray_wait"
Resumed(at) == IF at = "wait" THEN "run" ELSE "stray"
Live == {i \in DOMAIN turns : turns[i].at \notin Over}
\* one turn for each member of ws
Batch(ws, base, depth, why) ==
  LET q == SetToSeq(ws) IN [k \in DOMAIN q |-> Turn(q[k], base, depth, 0, why)]
Owed == UNION {{<<i, w>> : w \in turns[i].ment} :
                 i \in {j \in DOMAIN turns : turns[j].at = "say"}}
Room == kit.turns - Len(turns) - Cardinality(Owed)
At(i, l) == turns' = [turns EXCEPT ![i].at = l]
SetStatusOf(w, s) == mstat' = IF w \in present THEN [mstat EXCEPT ![w] = s] ELSE mstat

ChatInit ==
  /\ present = Members
  /\ mstat = [w \in Members |-> "Idle"]
  /\ log = <<>> /\ turns = <<>>
  /\ turnLock = [w \in Members |-> 0]
  /\ sess = [w \in Members |-> {}]
  /\ asking = NoSetting /\ cutOff = {}
  /\ kit \in Kits

(***************************************************************************)
(* Commands of the owner.                                                  *)
(***************************************************************************)
Command(c) ==
  kit.posts > 0 /\ c \in kit.cmds /\ kit' = [kit EXCEPT !.posts = @ - 1]

\* group_post_message: the mentioned members the policy lets through and the
\* table still holds take a turn; the message itself is not in their seed
Post(ment) ==
  LET seq == Len(log) + 1
      summoned == {w \in ment : MayMention(Policy, present, Owner, w) /\ w \in present}
  IN  /\ Command("post")
      /\ Cardinality(summoned) <= Room
      /\ log' = Append(log, OwnerMessage(ment))
      /\ turns' = turns \o Batch(summoned, seq, 0, 0)
      /\ UNCHANGED <<present, mstat, turnLock, sess, asking, cutOff>>

\* group_roundtable_broadcast: everyone in the table takes a turn
Broadcast ==
  LET seq == Len(log) + 1
  IN  /\ Command("broadcast")
      /\ Cardinality(present) <= Room
      /\ log' = Append(log, OwnerMessage(Members))
      /\ turns' = turns \o Batch(present, seq, 0, 0)
      /\ UNCHANGED <<present, mstat, turnLock, sess, asking, cutOff>>

\* plan_rerun: what the turns are anchored at, and for whom; the instruction a
\* reply is taken to answer is the last entry before it that no worker wrote
TriggerOf(seq) ==
  LET before == {s \in 1 .. seq - 1 : ~ByWorker(log[s])}
  IN  IF before = {} THEN 0 ELSE CHOOSE s \in before : \A x \in before : x <= s
PlanRerun(seq, pick) ==
  [ok |-> ByWorker(log[seq]) /\ TriggerOf(seq) # 0
            /\ (pick # Owner \/ log[seq].by # Owner),
   anchor |-> TriggerOf(seq),
   who |-> {IF pick # Owner THEN pick ELSE log[seq].by}]
PlanFork(seq, pick) ==
  [ok |-> TRUE, anchor |-> seq, who |-> IF pick # Owner THEN {pick} ELSE {}]

\* group_rerun_from_message: nothing is written when the plan is refused or
\* no member is left to run it
Rerun(seq, plan, c) ==
  LET targets == IF plan.who = {} THEN present ELSE plan.who \cap present
  IN  /\ plan.ok /\ targets # {}
      /\ Command(c)
      /\ Cardinality(targets) <= Room
      /\ log' = Append(log, Entry("system", Owner, 0, {}))
      /\ turns' = turns \o Batch(targets, plan.anchor, 0, 0)
      /\ UNCHANGED <<present, mstat, turnLock, sess, asking, cutOff>>

\* group_remove_worker of a member that is in the chat
RemoveMember(w) ==
  /\ Command("remove") /\ w \in present
  /\ present' = present \ {w}
  /\ UNCHANGED <<mstat, log, turns, turnLock, sess, asking, cutOff>>

\* group_set_worker_status reads the row and writes it in a second statement
CheckStatus(w, s) ==
  /\ Command("status") /\ asking = NoSetting /\ w \in present
  /\ {mstat[w], s} = {"Idle", "Offline"}
  /\ asking' = [w |-> w, to |-> s]
  /\ UNCHANGED <<present, mstat, log, turns, turnLock, sess, cutOff>>
WriteStatus ==
  /\ asking # NoSetting
  /\ SetStatusOf(asking.w, asking.to)
  /\ asking' = NoSetting
  /\ UNCHANGED <<present, log, turns, turnLock, sess, cutOff, kit>>
-----------------------------------------------------------------------------
(***************************************************************************)
(* One turn.                                                               *)
(***************************************************************************)
Freed(i) == [w \in Members |-> IF turnLock[w] = i THEN 0 ELSE turnLock[w]]
\* the end of the turn's future: its lock is released and a tool call that
\* was waiting for it goes on
FinishTurn(i, rows) ==
  /\ turns' = [j \in DOMAIN rows |->
                 IF j = i THEN Spent(rows[j], "end")
                 ELSE IF j = rows[i].parent THEN [rows[j] EXCEPT !.at = Resumed(@)]
                 ELSE rows[j]]
  /\ turnLock' = Freed(i)

\* the worker or its agent is gone: the owner is told and the turn is over
Missing(i) ==
  /\ turns[i].at = "new" /\ turns[i].w \notin present
  /\ log' = Append(log, WorkerNotice(i))
  /\ FinishTurn(i, turns)
  /\ UNCHANGED <<present, mstat, sess, asking, cutOff, kit>>
\* Busy is written before the lock is taken, and without reading the status
MarkBusy(i) ==
  /\ turns[i].at = "new" /\ turns[i].w \in present
  /\ SetStatusOf(turns[i].w, "Busy")
  /\ At(i, "lock")
  /\ UNCHANGED <<present, log, turnLock, sess, asking, cutOff, kit>>
\* (mutant) the turns of a member do not exclude one another
LockIgnored(i) ==
  /\ turns[i].at = "lock"
  /\ turnLock' = [turnLock EXCEPT ![turns[i].w] = i]
  /\ At(i, "fill")
  /\ UNCHANGED <<present, mstat, log, sess, asking, cutOff, kit>>
Lock(i) ==
  /\ turns[i].at = "lock" /\ turnLock[turns[i].w] = 0
  /\ turnLock' = [turnLock EXCEPT ![turns[i].w] = i]
  /\ At(i, "fill")
  /\ UNCHANGED <<present, mstat, log, sess, asking, cutOff, kit>>
\* (mutant) the whole conversation, the trigger and its answers included
SeedOfAll(i) == DOMAIN log
\* build_worker_seed: what came before the message the turn answers
Seed(i) == {s \in DOMAIN log : s < turns[i].base}
\* (mutant) the member's session is not emptied
FillOnTop(i) ==
  /\ turns[i].at = "fill"
  /\ sess' = [sess EXCEPT ![turns[i].w] = @ \cup {<<i, s>> : s \in Seed(i) \cup {0}}]
  /\ turns' = [turns EXCEPT ![i].at = "run", ![i].names = present]
  /\ UNCHANGED <<present, mstat, log, turnLock, asking, cutOff, kit>>
\* the session is created when missing, emptied, and filled again; the engine begins
\* by adding the prompt
Fill(i) ==
  /\ turns[i].at = "fill"
  /\ sess' = [sess EXCEPT ![turns[i].w] = {<<i, s>> : s \in Seed(i) \cup {0}}]
  /\ turns' = [turns EXCEPT ![i].at = "run", ![i].names = present]
  /\ UNCHANGED <<present, mstat, log, turnLock, asking, cutOff, kit>>

\* the engine writes its calls, their results and its answer into the member's
\* session as it goes, whoever else is using that by now
Speak(i) ==
  /\ turns[i].at \in Running /\ <<i, 0>> \notin sess[turns[i].w]
  /\ sess' = [sess EXCEPT ![turns[i].w] = @ \cup {<<i, 0>>}]
  /\ UNCHANGED <<present, mstat, log, turns, turnLock, asking, cutOff, kit>>
\* the run calls send_to_worker: the message is recorded before the target is
\* looked up, and the target's turn runs inside the call
Direct(i, to) ==
  LET seq == Len(log) + 1
      t == turns[i]
  IN  /\ t.at \in Running /\ Room > 0
      /\ MayReach(Policy, TRUE, t.w, to, "Message")
      /\ log' = Append(log, DirectMessage(i, to))
      /\ turns' = IF to \in present
                    THEN Append([turns EXCEPT ![i].at = Calling(@)],
                                Turn(to, seq + 1, 0, i, seq))
                    ELSE turns
      /\ to \in present \/ Len(log) < kit.turns
      /\ UNCHANGED <<present, mstat, turnLock, sess, asking, cutOff, kit>>

\* a turn lies still where it awaits: its lock, its engine, the pause between bubbles
Pausing(t) == t.at \in {"lock", "run", "wait"} \/ (t.at = "say" /\ t.say > 0 /\ ~t.first)
\* run_guarded spawned the engine: dropping its JoinHandle does not stop it
LeftOf(t) ==
  CASE t.at = "run" -> "stray" [] t.at = "wait" -> "stray_wait" [] OTHER -> "dropped"
\* (mutant) a tool call has no time limit
TimeoutNever(i, j) == FALSE /\ UNCHANGED chatVars
\* the time limit of a tool call passes: the turn j it waits for is dropped with its
\* lock, without the statements that would have followed
Timeout(i, j) ==
  /\ turns[i].at \in Waiting /\ turns[j].parent = i /\ Pausing(turns[j])
  /\ turns' = [turns EXCEPT ![i].at = Resumed(@), ![j] = Spent(@, LeftOf(@))]
  /\ turnLock' = Freed(j)
  /\ cutOff' = cutOff \cup {turns[j].w}
  /\ UNCHANGED <<present, mstat, log, sess, asking, kit>>
\* an engine nobody waits for returns: its answer is not posted
StrayEnds(i) ==
  /\ turns[i].at = "stray"
  /\ turns' = [turns EXCEPT ![i] = Spent(@, "dropped")]
  /\ UNCHANGED <<present, mstat, log, turnLock, sess, asking, cutOff, kit>>

\* parse_worker_mentions knows the members the turn began with, but not itself
Mentionable(t) == t.names \ {t.w}
\* worker_failure_notice: silent for a cancelled run and for a reply
Abnormal(stop, mute) == stop = "failed" \/ (stop = "completed" /\ mute)
\* the engine returns: a reply of n bubbles mentioning ment, or none; the
\* mentions are read off the reply with the names known when the turn began
Return(i, n, ment, stop) ==
  /\ turns[i].at = "run"
  /\ ment \subseteq Mentionable(turns[i])
  /\ n = 0 => ment = {}
  /\ Cardinality(ment) <= Room
  /\ turns' = [turns EXCEPT ![i].at = "say", ![i].say = n, ![i].first = TRUE,
                            ![i].ment = ment,
                            ![i].notice = Abnormal(stop, n = 0)]
  /\ UNCHANGED <<present, mstat, log, turnLock, sess, asking, cutOff, kit>>
\* one bubble; the turn sleeps between two of them
Say(i) ==
  /\ turns[i].at = "say" /\ turns[i].say > 0
  /\ log' = Append(log, Entry("worker", turns[i].w, i,
                              IF turns[i].first THEN turns[i].ment ELSE {}))
  /\ turns' = [turns EXCEPT ![i].say = @ - 1, ![i].first = FALSE,
                            ![i].posted = Len(log) + 1]
  /\ UNCHANGED <<present, mstat, turnLock, sess, asking, cutOff, kit>>
\* (mutant) the followers' history ends before the reply that summons them
FollowBaseEarly(i) == turns[i].posted
FollowBase(i) == turns[i].posted + 1
\* (mutant) the chain of mentions is not counted
NextDepthSame(i) == turns[i].depth
NextDepth(i) == turns[i].depth + 1
\* continue_to_mentioned_workers: whom the reply sets to work
Followers(t) ==
  {w \in t.ment : t.depth < MaxMentionDepth /\ MayReach(Policy, TRUE, t.w, w, "Message")}
\* the notice to the owner, then the turns of the followers
Summon(i) ==
  LET t == turns[i]
      next == Followers(t)
      said == {s \in DOMAIN log : log[s].turn = i /\ log[s].to = t.ment}
      why == CHOOSE s \in said : \A x \in said : x <= s
  IN  /\ t.at = "say" /\ t.say = 0
      /\ log' = IF t.notice THEN Append(log, WorkerNotice(i)) ELSE log
      /\ turns' = [turns EXCEPT ![i].at = "leave"]
                    \o Batch(next, FollowBase(i), NextDepth(i), IF next = {} THEN 0 ELSE why)
      /\ UNCHANGED <<present, mstat, turnLock, sess, asking, cutOff, kit>>
\* release_worker_status: a read, then a write unless the member is Offline
ReadStatus(i) ==
  /\ turns[i].at = "leave"
  /\ IF turns[i].w \in present /\ mstat[turns[i].w] = "Offline"
       THEN FinishTurn(i, turns)
       ELSE At(i, "idle") /\ UNCHANGED turnLock
  /\ UNCHANGED <<present, mstat, log, sess, asking, cutOff, kit>>
\* (mutant) the turn ends without giving the member back
StayBusy(i) ==
  /\ turns[i].at = "idle"
  /\ FinishTurn(i, turns)
  /\ UNCHANGED <<present, mstat, log, sess, asking, cutOff, kit>>
SetIdle(i) ==
  /\ turns[i].at = "idle"
  /\ SetStatusOf(turns[i].w, "Idle")
  /\ FinishTurn(i, turns)
  /\ UNCHANGED <<present, log, sess, asking, cutOff, kit>>
-----------------------------------------------------------------------------
UserStep ==
  \/ \E ment \in SUBSET Members : ment # Members /\ Post(ment)
  \/ Broadcast
  \/ \E seq \in DOMAIN log, pick \in Members \cup {Owner} :
       \/ Rerun(seq, PlanRerun(seq, pick), "rerun")
       \/ Rerun(seq, PlanFork(seq, pick), "fork")
  \/ \E w \in Members : RemoveMember(w)
  \/ \E w \in Members, s \in {"Idle", "Offline"} : CheckStatus(w, s)
  \/ WriteStatus
Prepare(i) == Missing(i) \/ MarkBusy(i) \/ Lock(i) \/ Fill(i)
Converse(i) ==
  \/ Speak(i) \/ StrayEnds(i)
  \/ \E to \in Members : Direct(i, to)
  \/ \E j \in DOMAIN turns : Timeout(i, j)
  \/ \E n \in 0 .. kit.chunks, ment \in SUBSET Members,
       stop \in {"completed", "cancelled"} : Return(i, n, ment, stop)
AnswerStep(i) ==
  Say(i) \/ Summon(i) \/ ReadStatus(i) \/ SetIdle(i)
TurnStep(i) == Prepare(i) \/ Converse(i) \/ AnswerStep(i)
ChatNext == UserStep \/ \E i \in DOMAIN turns : TurnStep(i)

\* every activity is scheduled, a waiter is granted a lock that stays free; a run
\* is bounded by its iterations and a tool call by its time limit
MaxTurns == CHOOSE n \in {k.turns : k \in Kits} : \A k \in Kits : k.turns <= n
ChatFairness ==
  \A i \in 1 .. MaxTurns :
    /\ WF_chatVars(i \in DOMAIN turns /\ (Prepare(i) \/ AnswerStep(i)))
    /\ WF_chatVars(i \in DOMAIN turns /\ Lock(i))
    /\ WF_chatVars(i \in DOMAIN turns /\ Converse(i))
ChatSpec == ChatInit /\ [][ChatNext]_chatVars /\ ChatFairness
-----------------------------------------------------------------------------
(***************************************************************************)
(* Properties.                                                             *)
(***************************************************************************)
TurnType ==
  [w : Members, base : Nat, depth : Nat, parent : Nat, why : Nat,
   at : {"new", "lock", "fill", "run", "wait", "say", "leave", "idle", "end",
         "dropped", "stray", "stray_wait"},
   names : SUBSET Members, say : Nat, first : BOOLEAN, ment : SUBSET Members,
   notice : BOOLEAN, posted : Nat]
ChatTypeOK ==
  /\ present \subseteq Members /\ cutOff \subseteq Members
  /\ mstat \in [Members -> {"Idle", "Busy", "Offline"}]
  /\ \A s \in DOMAIN log :
       log[s] \in [kind : {"owner", "worker", "direct", "system"}, by : Members \cup {Owner},
                  turn : Nat, to : SUBSET Members]
  /\ \A i \in DOMAIN turns : turns[i] \in TurnType
  /\ turnLock \in [Members -> 0 .. Len(turns)]
  /\ sess \in [Members -> SUBSET (Nat \X Nat)]

Seated == {"run", "wait", "say", "leave", "idle"}

\* The session a turn runs in holds what this turn put there and nothing of another
\* turn of the same member: the turns of a member are serial and each begins with an
\* emptied session, so that nothing is written there concurrently
\* (docs/architecture-adjustment-plan.md).
SessionIsOwn ==
  \A i \in Live : turns[i].at \in Seated =>
    \A m \in sess[turns[i].w] : m[1] = i

\* What else a turn's session holds was written by an engine of the member whose turn
\* a time limit cut off (run_worker_turn clears and refills the one session).
CutShort(k) == turns[k].at \in Stray \cup {"dropped"}
OnlyStraysIntrude ==
  \A i \in Live : turns[i].at \in Seated =>
    \A m \in sess[turns[i].w] :
      m[1] = i \/ (m[2] = 0 /\ CutShort(m[1]) /\ turns[m[1]].w = turns[i].w)

\* Members addressed by the same message answer without seeing it among the
\* history nor one another's answers, also when the message is rerun later
\* (build_worker_seed and its test).
RoundIsBlind ==
  \A i \in Live : turns[i].at \in {"run", "wait"} /\ turns[i].why = 0 =>
    \A m \in sess[turns[i].w] : m[2] # 0 =>
      LET e == log[m[2]] IN
      /\ m[2] # turns[i].base
      /\ e.turn = 0 \/ turns[e.turn].base # turns[i].base \/ turns[e.turn].why # 0

\* A member summoned by a mention or a direct message has that message in the
\* history it answers from.
SummonedKnowsWhy ==
  \A i \in Live : turns[i].at \in {"run", "wait"} /\ turns[i].why # 0 =>
    <<i, turns[i].why>> \in sess[turns[i].w]

\* No bubble of another turn of the same member falls between two bubbles of
\* one reply.
RepliesWhole ==
  \A a, c \in DOMAIN log :
    (/\ a < c /\ log[a].turn = log[c].turn /\ log[a].turn # 0
     /\ log[a].kind = "worker" /\ log[c].kind = "worker")
      => \A b \in a .. c : log[b].kind = "worker" /\ log[b].by = log[a].by
                            => log[b].turn = log[a].turn

\* When no turn and no engine is under way no member is left Busy, except one whose
\* turn was cut off inside a tool call that ran out of time.
QuietMeansIdle ==
  Live = {} => \A w \in present \ cutOff : mstat[w] # "Busy"

\* The replies that summon one another form chains of at most MaxMentionDepth links
\* since a message of the owner or a direct message.
Summoned(i, j) ==
  turns[j].why # 0 /\ turns[j].parent = 0 /\ log[turns[j].why].turn = i
ChainsBounded ==
  \A c \in [0 .. MaxMentionDepth + 1 -> DOMAIN turns] :
    \E k \in 0 .. MaxMentionDepth : ~Summoned(c[k], c[k + 1])

\* The turns of a member keep apart although it has one session for all of them: a
\* turn hears no other one, save an engine that a time limit set loose, and none
\* posts between two bubbles of its reply.
TurnsKeepApart == OnlyStraysIntrude /\ RepliesWhole

\* A round of the chat is one: those who are addressed together answer blind, those
\* a reply summons know why, their chains end, and they are free when all is quiet.
RoundsKeepOrder == RoundIsBlind /\ SummonedKnowsWhy /\ ChainsBounded /\ QuietMeansIdle

\* The chat comes to rest, the engines that were set loose included: members that
\* send one another direct messages and wait for each other's turn locks are freed by
\* the time limit.
Settles == <>[](Live = {})
=============================================================================
