------------------------------ MODULE Upgrades ------------------------------
(***************************************************************************)
(* A chat becomes a group and a chat again (commands/upgrade.rs): the      *)
(* session is read, a group is made, the end of the talk is put on its     *)
(* board, its tasks are submitted and the session is pointed at it, one    *)
(* statement after the other, while the talk goes on, another window       *)
(* confirms the same, or the session is folded back or deleted.            *)
(***************************************************************************)
EXTENDS Integers, FiniteSets, SequencesExt

CONSTANTS
  Windows,         \* the user's windows, each confirms once (bound)
  MaxLines,        \* 40: messages of a transcript
  MaxSize,         \* 8,000: their size together
  TalkSizes        \* bound: the sizes of the messages of the talk
ASSUME UpgradeConstants == /\ MaxLines \in Nat /\ MaxSize \in Nat
                           /\ TalkSizes \in Seq(Nat) /\ "none" \notin Windows

VARIABLES
  talk,            \* the session's messages: their sizes
  session,         \* whether the row is there, its mode and group
  teams,           \* groups by the window that made them: transcript, posts, batches, steps tried, and
                   \* what had been said by then
  confirm,         \* window -> where it is
  folds
upgradeVars == <<talk, session, teams, confirm, folds>>

NoGroup == "none"
UpgradesInit ==
  /\ talk = <<>>
  /\ session = [there |-> TRUE, mode |-> "chat", team |-> NoGroup]
  /\ teams = <<>>
  /\ confirm = [w \in Windows |-> "idle"]
  /\ folds = 0
-----------------------------------------------------------------------------
\* (mutant) the oldest message first
TranscriptForward(ms) ==
  LET n == CHOOSE k \in 0 .. Len(ms) : k <= MaxLines /\ (k = Len(ms) \/ k = MaxLines)
  IN  SubSeq(ms, 1, n)
SizeOf(ms) == FoldLeft(LAMBDA n, m : n + m, 0, ms)
\* build_transcript: from the newest back, until there are MaxLines or one would be too much
BuildTranscript(ms) ==
  LET fit == {k \in 0 .. Len(ms) :
                k <= MaxLines /\ SizeOf(SubSeq(ms, Len(ms) + 1 - k, Len(ms))) <= MaxSize}
  IN  SubSeq(ms, Len(ms) + 1 - (CHOOSE k \in fit : \A j \in fit : j <= k), Len(ms))

\* the engine and the user go on
SayMore ==
  /\ session.there /\ Len(talk) < Len(TalkSizes)
  /\ talk' = Append(talk, TalkSizes[Len(talk) + 1])
  /\ UNCHANGED <<session, teams, confirm, folds>>
Move(w, from, to) == confirm[w] = from /\ confirm' = [confirm EXCEPT ![w] = to]
\* get_session
BeginConfirm(w) ==
  /\ session.there
  /\ Move(w, "idle", "group")
  /\ UNCHANGED <<talk, session, teams, folds>>
\* create_group; when it fails the command ends
MakeTeam(w) ==
  /\ \/ /\ Move(w, "group", "transcript")
        /\ teams' = [v \in DOMAIN teams \cup {w} |->
                       IF v = w THEN [transcript |-> <<>>, posted |-> 0, batches |-> 0, tried |-> 0,
                                    then |-> talk]
                       ELSE teams[v]]
     \/ Move(w, "group", "over") /\ UNCHANGED teams
  /\ UNCHANGED <<talk, session, folds>>
\* the post on the board; an error is passed over
PostTranscript(w) ==
  /\ Move(w, "transcript", "tasks")
  /\ \/ teams' = [teams EXCEPT ![w].transcript = BuildTranscript(talk), ![w].posted = @ + 1,
                              ![w].tried = @ + 1]
     \/ teams' = [teams EXCEPT ![w].tried = @ + 1]
  /\ UNCHANGED <<talk, session, folds>>
\* (mutant) the session is pointed at the group before the tasks are submitted
ModeFirst == "tasks"
ModeAfter == "mode"
\* submit_batch, if there are tasks; an error is passed over
SubmitTasks(w) ==
  /\ Move(w, "tasks", "mode")
  /\ \/ teams' = [teams EXCEPT ![w].batches = @ + 1, ![w].tried = @ + 1]
     \/ teams' = [teams EXCEPT ![w].tried = @ + 1]
  /\ UNCHANGED <<talk, session, folds>>
\* set_session_mode, which asks nobody whether the session is still there
PointAtTeam(w) ==
  /\ Move(w, ModeAfter, "over")
  /\ session' = IF session.there THEN [session EXCEPT !.mode = "group", !.team = w] ELSE session
  /\ UNCHANGED <<talk, teams, folds>>
\* session_fold_to_chat
FoldToChat ==
  /\ session.there /\ folds < 1    \* bound
  /\ folds' = folds + 1
  /\ session' = [session EXCEPT !.mode = "chat", !.team = NoGroup]
  /\ UNCHANGED <<talk, teams, confirm>>
\* external: the session is deleted
DropSession ==
  /\ session.there
  /\ session' = [session EXCEPT !.there = FALSE]
  /\ talk' = <<>>
  /\ UNCHANGED <<teams, confirm, folds>>
\* the program ends in the middle of a command
UpgradeCrash(w) ==
  /\ confirm[w] \notin {"idle", "over"}
  /\ confirm' = [v \in Windows |-> IF confirm[v] = "idle" THEN "idle" ELSE "over"]
  /\ UNCHANGED <<talk, session, teams, folds>>

UpgradesNext ==
  \/ SayMore \/ FoldToChat \/ DropSession
  \/ \E w \in Windows :
       BeginConfirm(w) \/ MakeTeam(w) \/ PostTranscript(w) \/ SubmitTasks(w) \/ PointAtTeam(w)
         \/ UpgradeCrash(w)
UpgradesSpec == UpgradesInit /\ [][UpgradesNext]_upgradeVars
-----------------------------------------------------------------------------
\* A chat that was made a group keeps what was said (docs/architecture-collab-agent-m2-2026-08-03.md
\* 586-603: nothing is lost and it can be turned back): the group the session points at was made
\* for it and has gone through all of its steps, tasks included, however two windows, a fold, a
\* deletion and a crash fall together; no group is given the talk or the tasks twice; and the
\* transcript is the end of the talk, in order, as it was at some moment after the confirmation,
\* and all of it if nothing was said meanwhile and it is short.
UpgradeKeepsTalk ==
  /\ session.mode = "group" <=> session.team # NoGroup
  /\ session.team # NoGroup => session.team \in DOMAIN teams /\ teams[session.team].tried = 2
  /\ \A w \in DOMAIN teams :
       LET g == teams[w]
       IN  /\ g.posted <= 1 /\ g.batches <= 1
           /\ g.posted = 1 /\ session.there =>
                \E k \in Len(g.then) .. Len(talk) :
                  /\ IsSuffix(g.transcript, SubSeq(talk, 1, k))
                  /\ k = Len(g.then) /\ k <= MaxLines /\ SizeOf(g.then) <= MaxSize => g.transcript = g.then
=============================================================================
