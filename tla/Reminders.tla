----------------------------- MODULE Reminders -----------------------------
(***************************************************************************)
(* Calendar events and the loop that rings them (reminder.rs,              *)
(* agent/tools/calendar.rs, commands/calendar.rs). The agent's tool, the   *)
(* user's commands and the loop write the same rows without a lock: the    *)
(* loop reads what is due, then shows and stamps each by its id, while the *)
(* row may be moved or deleted. Dates and times of day are one clock.      *)
(***************************************************************************)
EXTENDS Integers, FiniteSets, SequencesExt

CONSTANTS
  Events,        \* ids, each given out once
  LastMinute,    \* bound of the clock
  AgendaKits     \* [edits, crashes]: bounds

ASSUME AgendaConstants ==
  /\ IsFiniteSet(Events) /\ LastMinute \in Nat
  /\ AgendaKits \subseteq [edits : Nat, crashes : Nat]

VARIABLES
  clock,   \* minutes
  event,   \* per id [kind, at, notified]; kind "none": never created, "gone": deleted
  due,     \* what the loop has read and not yet dealt with, as [id, at]
  showing, \* TRUE between the notification and the stamp of the first of due
  rung,    \* notifications shown, as [id, at, n]
  budget   \* edits and crashes left

agendaVars == <<clock, event, due, showing, rung, budget>>

NoTime == -1
Row(kind, at) == [kind |-> kind, at |-> at, notified |-> FALSE]
Rings(e) == event[e].kind \in {"reminder", "schedule"}

Timed(e) == event[e].kind = "reminder" /\ event[e].at # NoTime
\* (mutant) only the minute that is now
DueNow(e) == Timed(e) /\ ~event[e].notified /\ event[e].at = clock
\* (mutant) whether or not it was shown before
DueAgain(e) == Timed(e) /\ event[e].at <= clock
Due(e) == Timed(e) /\ ~event[e].notified /\ event[e].at <= clock
-----------------------------------------------------------------------------
AgendaInit ==
  /\ clock = 0 /\ event = [e \in Events |-> Row("none", NoTime)]
  /\ due = <<>> /\ showing = FALSE /\ rung = {} /\ budget \in AgendaKits

Change(e, row) ==
  /\ budget.edits > 0
  /\ event' = [event EXCEPT ![e] = row]
  /\ budget' = [budget EXCEPT !.edits = @ - 1]
  /\ UNCHANGED <<clock, due, showing, rung>>

\* the tool and the command insert the same row; any kind but "reminder" is a schedule
CreateEvent(e) == /\ event[e].kind = "none"
                  /\ \E kind \in {"reminder", "schedule"}, at \in 1..LastMinute \cup {NoTime} :
                       Change(e, Row(kind, at))

\* the agent's tool sets the fields it was given and leaves notified_at alone;
\* it takes only a string for time_start, so it cannot clear the time
ToolUpdate(e) == /\ Rings(e)
                 /\ \E kind \in {"reminder", "schedule"}, at \in 1..LastMinute \cup {event[e].at} :
                      Change(e, [event[e] EXCEPT !.kind = kind, !.at = at])

\* the command's statement numbers one parameter less than it binds: with n fields
\* (time_start brings notified_at along) its highest is n + 1, and n + 2 are given
Highest(n) == n + 1
Given(n) == n + 2
CommandUpdate(e) ==
  /\ Rings(e)
  /\ \E at \in 1..LastMinute \cup {NoTime} :
       Change(e, IF Highest(2) = Given(2)
                 THEN [event[e] EXCEPT !.at = at, !.notified = FALSE] ELSE event[e])

DeleteEvent(e) == Rings(e) /\ Change(e, Row("gone", NoTime))
-----------------------------------------------------------------------------
Waits == due = <<>> /\ ~showing

\* fire_due_reminders: what is due, by date and time
Scan == /\ Waits /\ \E e \in Events : Due(e)
        /\ \E s \in SetToSeqs({[id |-> e, at |-> event[e].at] : e \in {x \in Events : Due(x)}}) :
             /\ \A i \in 1..Len(s)-1 : s[i].at <= s[i + 1].at
             /\ due' = s
        /\ UNCHANGED <<clock, event, showing, rung, budget>>

Notify == /\ due # <<>> /\ ~showing /\ showing' = TRUE
          /\ LET r == Head(due)
                 n == Cardinality({x \in rung : x.id = r.id /\ x.at = r.at})
             IN rung' = rung \cup {[id |-> r.id, at |-> r.at, n |-> n + 1]}
          /\ UNCHANGED <<clock, event, due, budget>>

Stamp == /\ showing /\ showing' = FALSE /\ due' = Tail(due)
         /\ LET e == Head(due).id
            IN event' = IF Rings(e) THEN [event EXCEPT ![e].notified = TRUE] ELSE event
         /\ UNCHANGED <<clock, rung, budget>>

MinutePasses == /\ clock < LastMinute /\ clock' = clock + 1
                /\ UNCHANGED <<event, due, showing, rung, budget>>

\* the application stops and comes up again some minutes later
AgendaCrash == /\ budget.crashes > 0 /\ budget' = [budget EXCEPT !.crashes = @ - 1]
               /\ due' = <<>> /\ showing' = FALSE
               /\ clock' \in clock..LastMinute
               /\ UNCHANGED <<event, rung>>

AgendaNext == \/ \E e \in Events : \/ CreateEvent(e) \/ ToolUpdate(e)
                                   \/ CommandUpdate(e) \/ DeleteEvent(e)
              \/ Scan \/ Notify \/ Stamp \/ MinutePasses \/ AgendaCrash
AgendaSpec == AgendaInit /\ [][AgendaNext]_agendaVars
\* the ticker fires every 30 seconds and the loop has no exit; time passes
AgendaFairness == WF_agendaVars(Scan) /\ WF_agendaVars(MinutePasses)
                  /\ WF_agendaVars(Notify) /\ WF_agendaVars(Stamp)
-----------------------------------------------------------------------------
\* one time of one reminder rings once, and once more per crash that may have fallen
\* between the notification and its stamp
RingsOnce == \A r \in rung : \E k \in AgendaKits : r.n <= 1 + k.crashes - budget.crashes

\* a reminder whose minute has come rings or is taken back, whatever stops of the
\* application or edits fall in between
RemindersRing == \A e \in Events :
  Due(e) ~> ((\E r \in rung : r.id = e) \/ event[e].kind # "reminder")
=============================================================================
