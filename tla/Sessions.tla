------------------------------ MODULE Sessions ------------------------------
(***************************************************************************)
(* One conversation as it is stored (session/manager.rs and the            *)
(* repositories under storage/): its messages, the append-only event log   *)
(* kept beside them, the trace the user interface shows, the running       *)
(* summary, and the runs that read and write all of them.  Runs persist    *)
(* one message at a time and may die between two of them; at the next      *)
(* start the calls they left without a result are answered by a            *)
(* placeholder.                                                            *)
(***************************************************************************)
EXTENDS History, FiniteSets

CONSTANT LogKits  \* what a behaviour is bounded to

Readers == 1 .. 2

VARIABLES
  known,     \* the session's row: "yes", "going" between the two statements
             \* that delete a session, "no"
  msgs,      \* messages, by row id
  events,    \* session_events, by seq
  trace,     \* agent_trace: the messages its rows came from
  digest,    \* session_summaries.msg_count, 0 when there is no row
  run,       \* the run in progress
  req,       \* its request to the model
  reader,    \* the calls of get_trace, between their statements
  healing,   \* calls the start-up repair still has to answer
  lastId,    \* the autoincrement of messages
  mishap,    \* a write failed, or a crash cut a rebuild of the trace
  logKit     \* what is left of the bounds

logVars == <<known, msgs, events, trace, digest, run, req, reader, healing,
             lastId, mishap, logKit>>

NoRun == [at |-> "none", no |-> 0, hist |-> <<>>, win |-> NoWindow, n |-> 0, shown |-> {}]
NoReader == [at |-> "none", hist |-> <<>>]
Use(f) == logKit[f] > 0 /\ logKit' = [logKit EXCEPT ![f] = @ - 1]

LogInit ==
  /\ known = "yes" /\ msgs = <<>> /\ events = <<>> /\ trace = <<>>
  /\ digest = 0 /\ run = NoRun /\ req = <<>>
  /\ reader = [r \in Readers |-> NoReader]
  /\ healing = {} /\ lastId = 0 /\ mishap = {}
  /\ logKit \in LogKits

(***************************************************************************)
(* The store.                                                              *)
(***************************************************************************)
\* derive_event: every role has its kind of event
DeriveEvent(m) ==
  [kind |-> CASE m.role = "user" -> "user_message"
              [] m.role = "call" -> "tool_call"
              [] m.role = "answer" -> "assistant_message"
              [] m.role = "result" -> "tool_result",
   call |-> m.call]
\* (mutant) a log that leaves out the results
AppendEventShort(log, m) == IF m.role = "result" THEN log ELSE Append(log, DeriveEvent(m))

\* append_session_event, in the transaction that inserts the message
AppendEvent(log, m) == Append(log, DeriveEvent(m))

\* message_to_trace_rows, and trace_repo::add_row for each of them
TraceRow(m) == [of |-> m.id, role |-> m.role]

\* MessageRepository::create: message, trace and event are one transaction,
\* refused when the session's row is gone (both tables reference it)
Stored(m) ==
  /\ known # "no"
  /\ msgs' = Append(msgs, m)
  /\ trace' = Append(trace, TraceRow(m))
  /\ events' = AppendEvent(events, m)
  /\ lastId' = m.id
  /\ UNCHANGED mishap
\* add_message as its callers use it: an error is logged and they go on
Persist(role, call, no) ==
  \/ Stored(Message(lastId + 1, role, call, no))
  \/ /\ known = "no" \/ (logKit.lost /\ mishap = {})
     /\ mishap' = mishap \cup {"lost"}
     /\ UNCHANGED <<msgs, trace, events, lastId>>

\* DELETE FROM messages, then DELETE FROM sessions, which takes the events and
\* what was written in between along; trace and summary stay
DeleteMessages ==
  /\ known = "yes" /\ healing = {} /\ Use("delete")
  /\ known' = "going" /\ msgs' = <<>>
  /\ UNCHANGED <<events, trace, digest, run, req, reader, healing, lastId, mishap>>
DeleteRow ==
  /\ known = "going"
  /\ known' = "no" /\ msgs' = <<>> /\ events' = <<>>
  /\ UNCHANGED <<trace, digest, run, req, reader, healing, lastId, mishap, logKit>>
\* create_session_with_id: a member's session has the same id again
CreateAgain ==
  /\ known = "no" /\ run.at = "none"
  /\ known' = "yes"
  /\ UNCHANGED <<msgs, events, trace, digest, run, req, reader, healing, lastId, mishap, logKit>>
\* clear_session_messages, between two turns of a roundtable member
ClearMessages ==
  /\ run.at = "none" /\ healing = {} /\ Use("clear")
  /\ msgs' = <<>>
  /\ UNCHANGED <<known, events, trace, digest, run, req, reader, healing, lastId, mishap>>
-----------------------------------------------------------------------------
(***************************************************************************)
(* A run.                                                                  *)
(***************************************************************************)
\* find_by_id and find_by_session
LoadHistory ==
  /\ known # "no" /\ run.at = "none" /\ healing = {} /\ Use("runs")
  /\ run' = [NoRun EXCEPT !.at = "load", !.no = run.no + 1, !.hist = msgs]
  /\ UNCHANGED <<known, msgs, events, trace, digest, req, reader, healing, lastId, mishap>>

\* fold_history answered, or it failed or was cancelled and nothing is left out
FoldOutcomes(h, cursor) ==
  IF Len(h) <= FoldAt \/ FoldWindow(Len(h), FirstUser(h), cursor) = NoWindow
  THEN {NoWindow}
  ELSE {NoWindow, SkipWindow(Len(h), FirstUser(h), cursor)}
\* save_summary: the cursor is the length of the whole history
SaveSummary(h, win) == digest' = IF win = NoWindow THEN digest ELSE Len(h)

\* build_messages: a resumed run adds a directive instead of the user's message
BuildMessages(resumed, win) ==
  LET r == Replay(run.hist, win)
      task == IF resumed THEN Item("user", NoCall, 0) ELSE Item("user", NoCall, lastId + 1)
  IN  /\ run.at = "load" /\ (resumed => run.no > 1)
      /\ win \in FoldOutcomes(run.hist, digest)
      /\ SaveSummary(run.hist, win)
      /\ req' = Sanitize(<<SystemPrompt>> \o Append(r.out, task))
      /\ run' = [run EXCEPT !.at = "loop", !.n = r.n, !.win = win,
                            !.shown = Shown(Sanitize(r.out))]
      /\ IF resumed THEN UNCHANGED <<msgs, trace, events, lastId, mishap>>
         ELSE Persist("user", NoCall, run.no)
      /\ UNCHANGED <<known, reader, healing, logKit>>

\* the run goes on without the history it started from
On(at, n) == run' = [NoRun EXCEPT !.at = at, !.no = run.no, !.n = n]

\* the head of an iteration: a message of the user is stored and sent along,
\* or dropped when it cannot be stored; a request grown too large is compacted
SteerIn ==
  /\ run.at = "loop" /\ Use("steer")
  /\ Stored(Message(lastId + 1, "user", NoCall, run.no))
  /\ req' = Append(req, Item("user", NoCall, lastId + 1))
  /\ On("loop", run.n)
  /\ UNCHANGED <<known, digest, reader, healing>>
CompactRequest ==
  /\ run.at = "loop" /\ InRunCompact(req) # req /\ Use("compact")
  /\ req' = InRunCompact(req)
  /\ On("loop", run.n)
  /\ UNCHANGED <<known, msgs, events, trace, digest, reader, healing, lastId, mishap>>

\* execute_tool_calls: the call is stored before the tool runs, its result after
ToolCall ==
  /\ run.at = "loop" /\ Use("calls")
  /\ req' = Append(req, Item("call", run.n, 0))
  /\ On("call", run.n)
  /\ Persist("call", run.n, run.no)
  /\ UNCHANGED <<known, digest, reader, healing>>
ToolResult ==
  /\ run.at = "call"
  /\ req' = Append(req, Item("result", run.n, 0))
  /\ On("loop", run.n + 1)
  /\ Persist("result", run.n, run.no)
  /\ UNCHANGED <<known, digest, reader, healing, logKit>>

\* handle_text_response
TextResponse ==
  /\ run.at = "loop"
  /\ Persist("answer", NoCall, run.no)
  /\ On("none", 0) /\ req' = <<>>
  /\ UNCHANGED <<known, digest, reader, healing, logKit>>
\* an error, a cancel or a pause ends the run without an answer
EndWithoutAnswer ==
  /\ run.at = "loop" /\ Use("stop")
  /\ On("none", 0) /\ req' = <<>>
  /\ UNCHANGED <<known, msgs, events, trace, digest, reader, healing, lastId, mishap>>
-----------------------------------------------------------------------------
(***************************************************************************)
(* Crash and start-up.                                                     *)
(***************************************************************************)
\* heal_pending_tool_calls, first statement: calls without a result in the
\* event log, and calls without one among the messages
EventCalls(kind) == {events[i].call : i \in {j \in DOMAIN events : events[j].kind = kind}}
MessageCalls(role) == {msgs[i].call : i \in {j \in DOMAIN msgs : msgs[j].role = role}}
\* (mutant) a repair that trusts the event log alone
PendingCallsOfLog == EventCalls("tool_call") \ EventCalls("tool_result")

PendingCalls ==
  (EventCalls("tool_call") \ EventCalls("tool_result"))
    \cup (MessageCalls("call") \ MessageCalls("result"))

LogCrash ==
  /\ Use("crash")
  /\ run' = [NoRun EXCEPT !.no = run.no] /\ req' = <<>>
  /\ known' = IF known = "going" THEN "yes" ELSE known
  /\ reader' = [r \in Readers |-> NoReader]
  /\ healing' = PendingCalls
  /\ mishap' = mishap \cup (IF reader[1].at # "none" \/ reader[2].at # "none"
                            THEN {"cut"} ELSE {})
  /\ UNCHANGED <<msgs, events, trace, digest, lastId>>
\* one transaction for each of them, before any command is served; one that
\* fails is logged and left
HealOne(c) ==
  /\ c \in healing
  /\ healing' = healing \ {c}
  /\ Persist("result", c, 0)
  /\ UNCHANGED <<known, digest, run, req, reader, logKit>>
-----------------------------------------------------------------------------
(***************************************************************************)
(* get_trace: the rows are rebuilt when there are none, or when they hold  *)
(* results but no call, in statements of their own.                        *)
(***************************************************************************)
Goes(r, at, hist) == reader' = [reader EXCEPT ![r] = [at |-> at, hist |-> hist]]
Dirty(rows) == /\ \E i \in DOMAIN rows : rows[i].role = "result"
               /\ ~\E i \in DOMAIN rows : rows[i].role = "call"
CountTrace(r) ==
  /\ reader[r].at = "none" /\ healing = {} /\ Use("reads")
  /\ \/ trace = <<>> /\ Goes(r, "read", <<>>)
     \/ Dirty(trace) /\ Goes(r, "purge", <<>>)
  /\ UNCHANGED <<known, msgs, events, trace, digest, run, req, healing, lastId, mishap>>
PurgeTrace(r) ==
  /\ reader[r].at = "purge"
  /\ trace' = <<>> /\ Goes(r, "read", <<>>)
  /\ UNCHANGED <<known, msgs, events, digest, run, req, healing, lastId, mishap, logKit>>
ReadMessages(r) ==
  /\ reader[r].at = "read"
  /\ Goes(r, "fill", msgs)
  /\ UNCHANGED <<known, msgs, events, trace, digest, run, req, healing, lastId, mishap, logKit>>
\* (mutant) a rebuild that purges once more when it writes
BackfillTracePurging(r) ==
  /\ reader[r].at = "fill"
  /\ trace' = [i \in DOMAIN reader[r].hist |-> TraceRow(reader[r].hist[i])]
  /\ Goes(r, "none", <<>>)
  /\ UNCHANGED <<known, msgs, events, digest, run, req, healing, lastId, mishap, logKit>>

BackfillTrace(r) ==
  /\ reader[r].at = "fill"
  /\ trace' = trace \o [i \in DOMAIN reader[r].hist |-> TraceRow(reader[r].hist[i])]
  /\ Goes(r, "none", <<>>)
  /\ UNCHANGED <<known, msgs, events, digest, run, req, healing, lastId, mishap, logKit>>

LogNext ==
  \/ DeleteMessages \/ DeleteRow \/ CreateAgain \/ ClearMessages
  \/ LoadHistory \/ SteerIn \/ CompactRequest \/ ToolCall \/ ToolResult
  \/ TextResponse \/ EndWithoutAnswer \/ LogCrash
  \/ \E resumed \in BOOLEAN, win \in FoldOutcomes(run.hist, digest) :
       BuildMessages(resumed, win)
  \/ \E c \in healing : HealOne(c)
  \/ \E r \in Readers : CountTrace(r) \/ PurgeTrace(r) \/ ReadMessages(r) \/ BackfillTrace(r)
-----------------------------------------------------------------------------
(***************************************************************************)
(* Properties.                                                             *)
(***************************************************************************)
\* Between two tool calls the request answers every call once, right behind it,
\* and shows no other result: the model's interface refuses anything else.  Runs
\* that died, rows that were not stored, a fold that cuts a call from its result
\* and a compaction in the middle of a run must not break it
\* (sanitize_tool_messages, find_compact_boundary).
RequestPaired == run.at = "loop" => Paired(req)

\* No message is lost on the way to the model: what build_messages does not show
\* is in the part fold_history summarised, except for a result that lost its
\* call, to a failed write or to the end of the folded part.
NothingForgotten ==
  run.at = "loop" =>
    LET h == run.hist
        summed == IF run.win = NoWindow THEN {}
                  ELSE {i \in DOMAIN h : i > run.win.start /\ i <= Minus(Len(h), KeepRecent)}
        behindCall(i) == i > 1 /\ h[i - 1].role = "call" /\ h[i - 1].call = h[i].call
                           /\ i - 1 \notin summed
    IN  \A i \in DOMAIN h :
          h[i].id \in run.shown \/ i \in summed \/ (h[i].role = "result" /\ ~behindCall(i))

\* The event log ends in exactly the events of the messages the session has,
\* whatever was cleared before: neither has an entry the other misses.
EventLogMirrors ==
  known # "no" =>
    /\ Len(msgs) <= Len(events)
    /\ \A i \in DOMAIN msgs : events[Len(events) - Len(msgs) + i] = DeriveEvent(msgs[i])

\* Once the start-up repair is through, a call whose id the session's messages had
\* not seen before and did not give again has its result right behind it, as long as
\* every write went through; a run that died, a clear or half a deletion in between
\* does not matter.
FreshCall(i) ==
  msgs[i].role = "call" /\ \A j \in DOMAIN msgs \ {i} :
    msgs[j].call = msgs[i].call => msgs[j].role = "result" /\ j > i
ResultBehind(i) ==
  i < Len(msgs) /\ msgs[i + 1].role = "result" /\ msgs[i + 1].call = msgs[i].call
CallsHealed ==
  (healing = {} /\ run.at # "call" /\ "lost" \notin mishap) =>
    \A i \in DOMAIN msgs : FreshCall(i) => ResultBehind(i)

\* Every message has its row in the trace whenever no get_trace is rebuilding it,
\* also when two of them and a run interleave; only a crash between the purge and
\* the refill may leave a gap.
TraceComplete ==
  (mishap \cap {"cut"} = {} /\ \A r \in Readers : reader[r].at = "none") =>
    \A i \in DOMAIN msgs : \E k \in DOMAIN trace : trace[k].of = msgs[i].id

\* The two copies of a conversation, the event log and the trace, agree with its
\* messages, and the repair that reads the log and the messages leaves no call open.
LogsAgree == EventLogMirrors /\ TraceComplete /\ CallsHealed

\* What the model is asked is what was said: every call has its result and nothing is
\* dropped unsummarised.
RequestFaithful == RequestPaired /\ NothingForgotten

LogSpec == LogInit /\ [][LogNext]_logVars

\* What the plan promises of the compaction (docs/architecture-adjustment-plan.md):
\* of a folded history the request keeps the first message of the user, the
\* summary and the latest messages.
HistoryStaysFolded ==
  (run.at = "loop" /\ run.win # NoWindow) => Cardinality(run.shown) <= 1 + KeepRecent
=============================================================================
