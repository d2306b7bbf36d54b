--------------------------- MODULE ProgressProofs ---------------------------
(***************************************************************************)
(* What is kept beside a conversation and a run stays true to it, for any  *)
(* number of runs, calls, readers, events, faults and crashes: the tables  *)
(* beside a session's messages, the ledger of the runs, the processes of   *)
(* the MCP servers and of the command-line agents, and the reminders.      *)
(***************************************************************************)
EXTENDS Sessions, Ledger, Mcp, Executors, Reminders,
        SequenceTheorems, FiniteSetTheorems, TLAPS
-----------------------------------------------------------------------------
(***************************************************************************)
(* Sessions.  The event log: clearing the messages leaves their events, so *)
(* the log ends in the events of the messages there are now; a deleted     *)
(* session has neither. The trace: while get_trace rebuilds it a message   *)
(* may have no row, but then one of the readers has yet to read the        *)
(* messages, or has read it and has yet to write.                          *)
(***************************************************************************)
Sequence(s) == \E S : s \in Seq(S)
Mirrored ==
  /\ Len(msgs) <= Len(events)
  /\ \A i \in DOMAIN msgs : events[Len(events) - Len(msgs) + i] = DeriveEvent(msgs[i])
\* a session that is gone has no messages and nothing in the log
Tables ==
  /\ Sequence(msgs) /\ Sequence(events) /\ Sequence(trace)
  /\ Mirrored /\ (known = "no" => msgs = <<>> /\ events = <<>>)

Shows(rows, m) == \E k \in DOMAIN rows : rows[k].of = m.id
\* one of the readers is going to write a row for m
Awaited(rd, m) ==
  \E r \in Readers :
    \/ rd[r].at = "read"
    \/ rd[r].at = "fill" /\ \E j \in DOMAIN rd[r].hist : rd[r].hist[j] = m
Kept(rows, rd, m) == Shows(rows, m) \/ Awaited(rd, m)
Covered ==
  /\ reader = [r \in Readers |-> reader[r]]
  /\ \A r \in Readers : Sequence(reader[r].hist)
  /\ "cut" \notin mishap => \A i \in DOMAIN msgs : Kept(trace, reader, msgs[i])
LogInv == Tables /\ Covered
-----------------------------------------------------------------------------
\* A message and what is kept beside it.
LEMMA AppendToSequence ==
  ASSUME NEW s, Sequence(s), NEW e
  PROVE  /\ Sequence(Append(s, e)) /\ Len(Append(s, e)) = Len(s) + 1 /\ Len(s) \in Nat
         /\ DOMAIN s = 1 .. Len(s) /\ DOMAIN Append(s, e) = 1 .. Len(s) + 1
         /\ Append(s, e)[Len(s) + 1] = e
         /\ \A i \in DOMAIN s : Append(s, e)[i] = s[i]
  <1>1. PICK S : s \in Seq(S)
    BY DEF Sequence
  <1>2. s \in Seq(S \cup {e})
    BY <1>1
  <1>3. Append(s, e) \in Seq(S \cup {e})
    BY <1>2
  <1> QED
    BY <1>2, <1>3 DEF Sequence

LEMMA EmptySequence == Sequence(<<>>) /\ Len(<<>>) = 0 /\ DOMAIN <<>> = {}
  <1>1. <<>> \in Seq({})
    OBVIOUS
  <1> QED
    BY <1>1 DEF Sequence

\* The transaction of a message keeps all three tables in step.
LEMMA StoredKeeps ==
  ASSUME LogInv, NEW m, Stored(m), reader' = reader, known' = known
  PROVE  LogInv'
  <1>1. /\ msgs' = Append(msgs, m) /\ trace' = Append(trace, TraceRow(m))
        /\ events' = Append(events, DeriveEvent(m)) /\ mishap' = mishap /\ known # "no"
    BY DEF Stored, AppendEvent
  <1>2. Sequence(msgs) /\ Sequence(events) /\ Sequence(trace) /\ Mirrored
    BY DEF LogInv, Tables
  <1>3. /\ Sequence(msgs') /\ Len(msgs') = Len(msgs) + 1 /\ Len(msgs) \in Nat
        /\ DOMAIN msgs = 1 .. Len(msgs) /\ DOMAIN msgs' = 1 .. Len(msgs) + 1
        /\ msgs'[Len(msgs) + 1] = m /\ \A i \in DOMAIN msgs : msgs'[i] = msgs[i]
    BY <1>1, <1>2, AppendToSequence
  <1>4. /\ Sequence(events') /\ Len(events') = Len(events) + 1 /\ Len(events) \in Nat
        /\ DOMAIN events = 1 .. Len(events)
        /\ events'[Len(events) + 1] = DeriveEvent(m)
        /\ \A i \in DOMAIN events : events'[i] = events[i]
    BY <1>1, <1>2, AppendToSequence
  <1>5. /\ Sequence(trace') /\ trace'[Len(trace) + 1] = TraceRow(m)
        /\ Len(trace) + 1 \in DOMAIN trace'
        /\ \A k \in DOMAIN trace : trace'[k] = trace[k] /\ k \in DOMAIN trace'
    <2>1. /\ Sequence(trace') /\ trace'[Len(trace) + 1] = TraceRow(m) /\ Len(trace) \in Nat
          /\ DOMAIN trace = 1 .. Len(trace) /\ DOMAIN trace' = 1 .. Len(trace) + 1
          /\ \A k \in DOMAIN trace : trace'[k] = trace[k]
      BY <1>1, <1>2, AppendToSequence
    <2> QED
      BY <2>1
  <1>6. Mirrored'
    <2>1. Len(msgs') <= Len(events')
      BY <1>2, <1>3, <1>4 DEF Mirrored
    <2>2. ASSUME NEW i \in DOMAIN msgs'
          PROVE  events'[Len(events') - Len(msgs') + i] = DeriveEvent(msgs'[i])
      <3>1. Len(events') - Len(msgs') = Len(events) - Len(msgs)
        BY <1>3, <1>4
      <3>2. CASE i = Len(msgs) + 1
        BY <1>3, <1>4, <3>1, <3>2
      <3>3. CASE i \in DOMAIN msgs
        <4>1. Len(events) - Len(msgs) + i \in DOMAIN events
          BY <1>2, <1>3, <1>4, <3>3 DEF Mirrored
        <4>2. events[Len(events) - Len(msgs) + i] = DeriveEvent(msgs[i])
          BY <1>2, <3>3 DEF Mirrored
        <4> QED
          BY <1>3, <1>4, <3>1, <3>3, <4>1, <4>2
      <3> QED
        BY <1>3, <3>2, <3>3
    <2> QED
      BY <2>1, <2>2 DEF Mirrored
  <1>7. Covered'
    <2>1. ASSUME NEW x, Kept(trace, reader, x)
          PROVE  Kept(trace', reader, x)
      BY <1>5, <2>1 DEF Kept, Shows
    <2>2. Kept(trace', reader, m)
      BY <1>5 DEF Kept, Shows, TraceRow
    <2>3. ASSUME "cut" \notin mishap
          PROVE  \A i \in DOMAIN msgs' : Kept(trace', reader, msgs'[i])
      <3>1. \A i \in DOMAIN msgs : Kept(trace', reader, msgs[i])
        BY <2>1, <2>3 DEF LogInv, Covered
      <3>2. \A i \in DOMAIN msgs' : i \in DOMAIN msgs \/ i = Len(msgs) + 1
        BY <1>3
      <3> QED
        BY <1>3, <2>2, <3>1, <3>2
    <2> QED
      BY <1>1, <2>3 DEF LogInv, Covered
  <1> QED
    BY <1>1, <1>3, <1>4, <1>5, <1>6, <1>7 DEF LogInv, Tables

\* A write of the callers of add_message: it is stored, or nothing changes.
LEMMA PersistKeeps ==
  ASSUME LogInv, NEW role, NEW asked, NEW no, Persist(role, asked, no),
         reader' = reader, known' = known
  PROVE  LogInv'
  <1>1. CASE Stored(Message(lastId + 1, role, asked, no))
    BY <1>1, StoredKeeps
  <1>2. CASE mishap' = mishap \cup {"lost"} /\ UNCHANGED <<msgs, trace, events, lastId>>
    BY <1>2 DEF LogInv, Tables, Mirrored, Covered
  <1> QED
    BY <1>1, <1>2 DEF Persist

\* The messages go, and their rows and events stay.
LEMMA EmptiedKeeps ==
  ASSUME LogInv, msgs' = <<>>, UNCHANGED <<events, trace, reader, mishap>>,
         known' # "no"
  PROVE  LogInv'
  <1>1. Sequence(msgs') /\ Len(msgs') = 0 /\ DOMAIN msgs' = {}
    BY EmptySequence
  <1>2. Sequence(events) /\ Len(events) \in Nat
    BY AppendToSequence DEF LogInv, Tables
  <1>3. Tables'
    BY <1>1, <1>2 DEF LogInv, Tables, Mirrored
  <1>4. Covered'
    BY <1>1 DEF LogInv, Covered
  <1> QED
    BY <1>3, <1>4 DEF LogInv

LEMMA DeleteRowKeeps ==
  ASSUME LogInv, DeleteRow
  PROVE  LogInv'
  <1>1. msgs' = <<>> /\ events' = <<>> /\ UNCHANGED <<trace, reader, mishap>>
    BY DEF DeleteRow
  <1>2. /\ Sequence(msgs') /\ Len(msgs') = 0 /\ DOMAIN msgs' = {}
        /\ Sequence(events') /\ Len(events') = 0
    BY <1>1, EmptySequence
  <1>3. Tables'
    BY <1>1, <1>2 DEF LogInv, Tables, Mirrored
  <1>4. Covered'
    BY <1>1, <1>2 DEF LogInv, Covered
  <1> QED
    BY <1>3, <1>4 DEF LogInv

\* What touches neither the messages nor what is kept beside them.
LEMMA ElsewhereKeeps ==
  ASSUME LogInv, UNCHANGED <<msgs, events, trace, reader, mishap>>, known' = "no" => known = "no"
  PROVE  LogInv'
  BY DEF LogInv, Tables, Mirrored, Covered

\* A crash forgets the readers; one that was rebuilding leaves the mark "cut".
LEMMA CrashKeeps ==
  ASSUME LogInv, LogCrash
  PROVE  LogInv'
  <1>1. /\ UNCHANGED <<msgs, events, trace>> /\ (known' = "no" => known = "no")
        /\ reader' = [r \in Readers |-> NoReader]
        /\ mishap' = mishap \cup (IF reader[1].at # "none" \/ reader[2].at # "none"
                                  THEN {"cut"} ELSE {})
    BY DEF LogCrash
  <1>2. Tables'
    BY <1>1 DEF LogInv, Tables, Mirrored
  <1>3. \A r \in Readers : Sequence(reader'[r].hist)
    BY <1>1, EmptySequence DEF NoReader
  <1>4. ASSUME "cut" \notin mishap'
        PROVE  \A i \in DOMAIN msgs : Kept(trace, reader', msgs[i])
    <2>1. "cut" \notin mishap /\ reader[1].at = "none" /\ reader[2].at = "none"
      BY <1>1, <1>4
    <2>2. \A r \in Readers : reader[r].at = "none"
      BY <2>1 DEF Readers
    <2>3. \A i \in DOMAIN msgs : Shows(trace, msgs[i])
      BY <2>1, <2>2 DEF LogInv, Covered, Kept, Awaited
    <2> QED
      BY <2>3 DEF Kept
  <1>5. Covered'
    BY <1>1, <1>3, <1>4 DEF Covered
  <1> QED
    BY <1>2, <1>5 DEF LogInv

\* get_trace: until a reader writes, what it is going to write is still coming.
LEMMA ReaderKeeps ==
  ASSUME LogInv, NEW r \in Readers, NEW at, NEW hist, Sequence(hist), Goes(r, at, hist),
         UNCHANGED <<known, msgs, events, mishap>>, Sequence(trace'),
         "cut" \notin mishap => \A i \in DOMAIN msgs : Kept(trace', reader', msgs[i])
  PROVE  LogInv'
  <1>1. reader' = [reader EXCEPT ![r] = [at |-> at, hist |-> hist]]
        /\ reader = [x \in Readers |-> reader[x]]
    BY DEF Goes, LogInv, Covered
  <1>2. reader' = [x \in Readers |-> reader'[x]] /\ \A x \in Readers : Sequence(reader'[x].hist)
    BY <1>1 DEF LogInv, Covered
  <1> QED
    BY <1>2 DEF LogInv, Tables, Mirrored, Covered

LEMMA CountKeeps ==
  ASSUME LogInv, NEW r \in Readers, CountTrace(r)
  PROVE  LogInv'
  <1>1. PICK at \in {"read", "purge"} : Goes(r, at, <<>>)
    BY DEF CountTrace
  <1>2. reader[r].at = "none" /\ UNCHANGED <<known, msgs, events, trace, mishap>>
    BY DEF CountTrace
  <1>3. ASSUME NEW m, Kept(trace, reader, m)
        PROVE  Kept(trace, reader', m)
    BY <1>1, <1>2, <1>3 DEF Kept, Awaited, Goes, LogInv, Covered
  <1>4. Sequence(<<>>) /\ Sequence(trace)
    BY EmptySequence DEF LogInv, Tables
  <1> QED
    BY <1>1, <1>2, <1>3, <1>4, ReaderKeeps DEF LogInv, Covered

\* The reader that purges has yet to read, which covers every message.
LEMMA PurgeKeeps ==
  ASSUME LogInv, NEW r \in Readers, PurgeTrace(r)
  PROVE  LogInv'
  <1>1. /\ trace' = <<>> /\ Goes(r, "read", <<>>)
        /\ UNCHANGED <<known, msgs, events, mishap>>
    BY DEF PurgeTrace
  <1>2. \A m : Kept(trace', reader', m)
    BY <1>1 DEF Kept, Awaited, Goes, LogInv, Covered
  <1>3. Sequence(<<>>) /\ Sequence(trace')
    BY <1>1, EmptySequence
  <1> QED
    BY <1>1, <1>2, <1>3, ReaderKeeps

LEMMA ReadKeeps ==
  ASSUME LogInv, NEW r \in Readers, ReadMessages(r)
  PROVE  LogInv'
  <1>1. Goes(r, "fill", msgs) /\ UNCHANGED <<known, msgs, events, trace, mishap>>
    BY DEF ReadMessages
  <1>2. reader'[r].at = "fill" /\ reader'[r].hist = msgs
    BY <1>1 DEF Goes, LogInv, Covered
  <1>3. \A i \in DOMAIN msgs : Kept(trace', reader', msgs[i])
    BY <1>2 DEF Kept, Awaited
  <1>4. Sequence(msgs) /\ Sequence(trace')
    BY <1>1 DEF LogInv, Tables
  <1> QED
    BY <1>1, <1>3, <1>4, ReaderKeeps

\* The rows the reader adds are those of the messages it had read.
LEMMA BackfillKeeps ==
  ASSUME LogInv, NEW r \in Readers, BackfillTrace(r)
  PROVE  LogInv'
  <1> DEFINE h == reader[r].hist
             rows == [i \in DOMAIN h |-> TraceRow(h[i])]
  <1>1. /\ reader[r].at = "fill" /\ trace' = trace \o rows /\ Goes(r, "none", <<>>)
        /\ UNCHANGED <<known, msgs, events, mishap>>
    BY DEF BackfillTrace
  <1>2. PICK T : trace \in Seq(T)
    BY DEF LogInv, Tables, Sequence
  <1>3. PICK S : h \in Seq(S)
    BY DEF LogInv, Covered, Sequence
  <1> DEFINE U == T \cup {TraceRow(m) : m \in S}
  <1>4. rows \in Seq(U) /\ Len(rows) = Len(h) /\ trace \in Seq(U)
    BY <1>2, <1>3
  <1>5. /\ trace' \in Seq(U)
        /\ \A k \in DOMAIN trace : k \in DOMAIN trace' /\ trace'[k] = trace[k]
        /\ \A k \in DOMAIN h :
             Len(trace) + k \in DOMAIN trace' /\ trace'[Len(trace) + k] = TraceRow(h[k])
    <2> HIDE DEF U
    <2>1. DOMAIN rows = DOMAIN h /\ \A k \in DOMAIN h : rows[k] = TraceRow(h[k])
      OBVIOUS
    <2> HIDE DEF rows
    <2>2. /\ DOMAIN trace = 1 .. Len(trace) /\ DOMAIN rows = 1 .. Len(rows)
          /\ Len(trace) \in Nat /\ Len(rows) \in Nat
      BY <1>4
    <2> DEFINE t == trace \o rows
    <2>3. /\ t \in Seq(U) /\ Len(t) = Len(trace) + Len(rows) /\ DOMAIN t = 1 .. Len(t)
          /\ \A k \in 1 .. Len(trace) : t[k] = trace[k]
          /\ \A k \in 1 .. Len(rows) : t[Len(trace) + k] = rows[k]
      BY SMTT(60), <1>4, <2>2
    <2> HIDE DEF t
    <2>4. \A k \in DOMAIN trace : k \in DOMAIN t /\ t[k] = trace[k]
      BY <2>2, <2>3
    <2>5. \A k \in DOMAIN h : Len(trace) + k \in DOMAIN t /\ t[Len(trace) + k] = TraceRow(h[k])
      BY <2>1, <2>2, <2>3
    <2>6. trace' = t
      BY <1>1 DEF t
    <2> QED
      BY <2>3, <2>4, <2>5, <2>6
  <1>6. ASSUME NEW m, Kept(trace, reader, m)
        PROVE  Kept(trace', reader', m)
    <2>1. CASE Shows(trace, m)
      BY <1>5, <2>1 DEF Kept, Shows
    <2>2. ASSUME NEW k \in DOMAIN h, h[k] = m
          PROVE  Shows(trace', m)
      <3> DEFINE n == Len(trace) + k
      <3>1. n \in DOMAIN trace' /\ trace'[n] = TraceRow(m)
        BY <1>5, <2>2
      <3>2. trace'[n].of = m.id
        BY <3>1 DEF TraceRow
      <3> HIDE DEF n
      <3> QED
        BY <3>1, <3>2 DEF Shows
    <2>3. ASSUME NEW x \in Readers \ {r}
          PROVE  reader'[x] = reader[x]
      BY <1>1, <2>3 DEF Goes, LogInv, Covered
    <2>4. CASE Awaited(reader, m)
      <3>1. PICK x \in Readers :
              \/ reader[x].at = "read"
              \/ reader[x].at = "fill" /\ \E j \in DOMAIN reader[x].hist : reader[x].hist[j] = m
        BY <2>4 DEF Awaited
      <3>2. CASE x = r
        BY <1>1, <2>2, <3>1, <3>2 DEF Kept
      <3>3. CASE x # r
        BY <2>3, <3>1, <3>3 DEF Kept, Awaited
      <3> QED
        BY <3>2, <3>3
    <2> QED
      BY <1>6, <2>1, <2>4 DEF Kept
  <1>7. Sequence(<<>>) /\ Sequence(trace')
    BY <1>5, EmptySequence DEF Sequence
  <1> QED
    BY <1>1, <1>6, <1>7, ReaderKeeps DEF LogInv, Covered
-----------------------------------------------------------------------------
LEMMA LogInitHolds ==
  ASSUME LogInit
  PROVE  LogInv
  BY EmptySequence DEF LogInit, LogInv, Tables, Mirrored, Covered, NoReader

LEMMA RunKeeps ==
  ASSUME LogInv,
         \/ LoadHistory \/ SteerIn \/ CompactRequest \/ ToolCall \/ ToolResult
         \/ TextResponse \/ EndWithoutAnswer
         \/ \E resumed \in BOOLEAN, win \in FoldOutcomes(run.hist, digest) :
              BuildMessages(resumed, win)
  PROVE  LogInv'
  <1>1. CASE LoadHistory \/ CompactRequest \/ EndWithoutAnswer
    BY <1>1, ElsewhereKeeps DEF LoadHistory, CompactRequest, EndWithoutAnswer
  <1>2. CASE SteerIn
    BY <1>2, StoredKeeps DEF SteerIn
  <1>3. CASE ToolCall
    BY <1>3, PersistKeeps DEF ToolCall
  <1>4. CASE ToolResult
    BY <1>4, PersistKeeps DEF ToolResult
  <1>5. CASE TextResponse
    BY <1>5, PersistKeeps DEF TextResponse
  <1>6. ASSUME NEW resumed \in BOOLEAN, NEW win, BuildMessages(resumed, win)
        PROVE  LogInv'
    <2>1. reader' = reader /\ known' = known
      BY <1>6 DEF BuildMessages
    <2>2. CASE resumed
      BY <1>6, <2>1, <2>2, ElsewhereKeeps DEF BuildMessages
    <2>3. CASE ~resumed
      BY <1>6, <2>1, <2>3, PersistKeeps DEF BuildMessages
    <2> QED
      BY <2>2, <2>3
  <1> QED
    BY <1>1, <1>2, <1>3, <1>4, <1>5, <1>6

LEMMA StoreKeeps ==
  ASSUME LogInv,
         \/ DeleteMessages \/ DeleteRow \/ CreateAgain \/ ClearMessages \/ LogCrash
         \/ \E c \in healing : HealOne(c)
  PROVE  LogInv'
  <1>1. CASE DeleteMessages
    BY <1>1, EmptiedKeeps DEF DeleteMessages
  <1>2. CASE ClearMessages
    <2>1. CASE known = "no"
      BY <1>2, <2>1, ElsewhereKeeps DEF ClearMessages, LogInv, Tables
    <2>2. CASE known # "no"
      BY <1>2, <2>2, EmptiedKeeps DEF ClearMessages
    <2> QED
      BY <2>1, <2>2
  <1>3. CASE CreateAgain
    BY <1>3, ElsewhereKeeps DEF CreateAgain
  <1>4. CASE \E c \in healing : HealOne(c)
    BY <1>4, PersistKeeps DEF HealOne
  <1> QED
    BY <1>1, <1>2, <1>3, <1>4, DeleteRowKeeps, CrashKeeps

LEMMA LogNextKeeps ==
  ASSUME LogInv, [LogNext]_logVars
  PROVE  LogInv'
  <1>1. CASE UNCHANGED logVars
    BY <1>1, ElsewhereKeeps DEF logVars
  <1>2. CASE \E r \in Readers :
               CountTrace(r) \/ PurgeTrace(r) \/ ReadMessages(r) \/ BackfillTrace(r)
    BY <1>2, CountKeeps, PurgeKeeps, ReadKeeps, BackfillKeeps
  <1> QED
    BY <1>1, <1>2, RunKeeps, StoreKeeps DEF LogNext

LEMMA LogInvImplies ==
  ASSUME LogInv
  PROVE  EventLogMirrors /\ TraceComplete
  <1>1. EventLogMirrors
    BY DEF LogInv, Tables, Mirrored, EventLogMirrors
  <1>2. TraceComplete
    BY DEF LogInv, Covered, Kept, Shows, Awaited, TraceComplete
  <1> QED
    BY <1>1, <1>2

-----------------------------------------------------------------------------
(***************************************************************************)
(* The repair.  Of the calls of a session at most one is open at a time:   *)
(* the one of the run that waits for its tool or, after a crash, the one   *)
(* the repair still has to answer.  Every other has its result in the      *)
(* tables, and a fresh one has it right behind it.                         *)
(***************************************************************************)
OpenCalls == IF run.at = "call" THEN {run.n} ELSE healing
Answered ==
  "lost" \notin mishap =>
    /\ run.at # "none" => healing = {}
    /\ \E c : healing \subseteq {c}
    /\ PendingCalls \subseteq OpenCalls
    /\ \A i \in DOMAIN msgs :
         FreshCall(i) => ResultBehind(i) \/ (i = Len(msgs) /\ msgs[i].call \in OpenCalls)
RunShape == DOMAIN run = DOMAIN NoRun

\* What a message adds to the calls of the two tables.
LEMMA CallsOfMore ==
  ASSUME LogInv, NEW m, Stored(m), m.role \in {"user", "call", "answer", "result"}
  PROVE  /\ MessageCalls("call")' = MessageCalls("call")
                                      \cup (IF m.role = "call" THEN {m.call} ELSE {})
         /\ MessageCalls("result")' = MessageCalls("result")
                                        \cup (IF m.role = "result" THEN {m.call} ELSE {})
         /\ EventCalls("tool_call")' = EventCalls("tool_call")
                                         \cup (IF m.role = "call" THEN {m.call} ELSE {})
         /\ EventCalls("tool_result")' = EventCalls("tool_result")
                                           \cup (IF m.role = "result" THEN {m.call} ELSE {})
  <1> DEFINE e == DeriveEvent(m)
  <1>1. msgs' = Append(msgs, m) /\ events' = Append(events, e)
    BY DEF Stored, AppendEvent
  <1>2. /\ e.call = m.call
        /\ e.kind = "tool_call" <=> m.role = "call"
        /\ e.kind = "tool_result" <=> m.role = "result"
    BY DEF DeriveEvent
  <1> HIDE DEF e
  <1>3. /\ DOMAIN msgs = 1 .. Len(msgs) /\ DOMAIN msgs' = 1 .. Len(msgs) + 1 /\ Len(msgs) \in Nat
        /\ msgs'[Len(msgs) + 1] = m /\ \A i \in DOMAIN msgs : msgs'[i] = msgs[i]
    BY <1>1, AppendToSequence DEF LogInv, Tables
  <1>4. /\ DOMAIN events = 1 .. Len(events) /\ DOMAIN events' = 1 .. Len(events) + 1
        /\ Len(events) \in Nat
        /\ events'[Len(events) + 1] = e /\ \A i \in DOMAIN events : events'[i] = events[i]
    BY <1>1, AppendToSequence DEF LogInv, Tables
  <1>5. DOMAIN msgs' = DOMAIN msgs \cup {Len(msgs) + 1} /\ Len(msgs) + 1 \notin DOMAIN msgs
    BY <1>3
  <1>6. DOMAIN events' = DOMAIN events \cup {Len(events) + 1} /\ Len(events) + 1 \notin DOMAIN events
    BY <1>4
  <1>7. ASSUME NEW role
        PROVE  MessageCalls(role)' = MessageCalls(role)
                                       \cup (IF m.role = role THEN {m.call} ELSE {})
    BY <1>3, <1>5 DEF MessageCalls
  <1>8. ASSUME NEW kind
        PROVE  EventCalls(kind)' = EventCalls(kind) \cup (IF e.kind = kind THEN {e.call} ELSE {})
    BY <1>4, <1>6 DEF EventCalls
  <1> QED
    BY <1>2, <1>7, <1>8

\* A message is stored: a result of the open call, or whatever else when none is open.
LEMMA StoredAnswers ==
  ASSUME LogInv, Answered, "lost" \notin mishap, NEW m, Stored(m),
         m.role \in {"user", "call", "answer", "result"},
         IF m.role = "result" THEN OpenCalls \subseteq {m.call} ELSE OpenCalls = {}
  PROVE  /\ PendingCalls' \subseteq (IF m.role = "call" THEN {m.call} ELSE {})
         /\ \A i \in DOMAIN msgs' : FreshCall(i)' =>
              ResultBehind(i)' \/ (m.role = "call" /\ i = Len(msgs') /\ msgs'[i].call = m.call)
  <1>1. PendingCalls \subseteq OpenCalls
    BY DEF Answered
  <1>2. PendingCalls' \subseteq (IF m.role = "call" THEN {m.call} ELSE {})
    BY <1>1, CallsOfMore DEF PendingCalls
  <1>3. /\ DOMAIN msgs = 1 .. Len(msgs) /\ DOMAIN msgs' = 1 .. Len(msgs) + 1 /\ Len(msgs) \in Nat
        /\ Len(msgs') = Len(msgs) + 1
        /\ msgs'[Len(msgs) + 1] = m /\ \A i \in DOMAIN msgs : msgs'[i] = msgs[i]
    BY AppendToSequence DEF LogInv, Tables, Stored
  <1>4. ASSUME NEW i \in DOMAIN msgs', FreshCall(i)'
        PROVE  ResultBehind(i)' \/ (m.role = "call" /\ i = Len(msgs') /\ msgs'[i].call = m.call)
    <2>1. CASE i = Len(msgs) + 1
      BY <1>3, <1>4, <2>1 DEF FreshCall
    <2>2. CASE i \in DOMAIN msgs
      <3>1. FreshCall(i)
        BY <1>3, <1>4, <2>2 DEF FreshCall
      <3>2. CASE ResultBehind(i)
        BY <1>3, <2>2, <3>2 DEF ResultBehind
      <3>3. CASE i = Len(msgs) /\ msgs[i].call \in OpenCalls
        <4>1. m.role = "result" /\ m.call = msgs[i].call
          BY <3>3
        <4>2. i + 1 = Len(msgs) + 1 /\ i < Len(msgs') /\ msgs'[i] = msgs[i]
          BY <1>3, <2>2, <3>3
        <4> QED
          BY <1>3, <4>1, <4>2 DEF ResultBehind
      <3> QED
        BY <2>2, <3>1, <3>2, <3>3 DEF Answered
    <2> QED
      BY <1>3, <2>1, <2>2
  <1> QED
    BY <1>2, <1>4

\* A write of a run that is past its load, with no call open unless it is the result of it.
LEMMA PersistAnswers ==
  ASSUME LogInv, Answered, NEW role, NEW asked, NEW no, Persist(role, asked, no),
         role \in {"user", "call", "answer", "result"},
         "lost" \notin mishap => IF role = "result" THEN OpenCalls \subseteq {asked} ELSE OpenCalls = {},
         "lost" \notin mishap => OpenCalls' = IF role = "call" THEN {asked} ELSE {},
         "lost" \notin mishap => healing' = {}
  PROVE  Answered'
  <1>1. CASE "lost" \in mishap'
    BY <1>1 DEF Answered
  <1>2. CASE "lost" \notin mishap'
    <2> DEFINE m == Message(lastId + 1, role, asked, no)
    <2>1. Stored(m) /\ "lost" \notin mishap
      BY <1>2 DEF Persist, Stored
    <2>2. m.role = role /\ m.call = asked
      BY DEF Message
    <2> HIDE DEF m
    <2>3. /\ PendingCalls' \subseteq (IF m.role = "call" THEN {m.call} ELSE {})
          /\ \A i \in DOMAIN msgs' : FreshCall(i)' =>
               ResultBehind(i)' \/ (m.role = "call" /\ i = Len(msgs') /\ msgs'[i].call = m.call)
      BY <2>1, <2>2, StoredAnswers
    <2> QED
      BY <2>1, <2>2, <2>3 DEF Answered
  <1> QED
    BY <1>1, <1>2

\* What stores nothing, and neither opens nor closes a call.
LEMMA ElsewhereAnswers ==
  ASSUME Answered, UNCHANGED <<msgs, events, healing>>, mishap \subseteq mishap',
         "lost" \notin mishap => OpenCalls' = OpenCalls /\ (run'.at # "none" => healing = {})
  PROVE  Answered'
  <1>1. SUFFICES ASSUME "lost" \notin mishap' PROVE Answered'
    BY DEF Answered
  <1>2. PendingCalls' = PendingCalls
    BY DEF PendingCalls, EventCalls, MessageCalls
  <1>3. \A i : (FreshCall(i)' <=> FreshCall(i)) /\ (ResultBehind(i)' <=> ResultBehind(i))
    BY DEF FreshCall, ResultBehind
  <1> QED
    BY <1>1, <1>2, <1>3 DEF Answered

LEMMA EmptiedAnswers ==
  ASSUME Answered, msgs' = <<>>, events' = events \/ events' = <<>>,
         UNCHANGED <<run, healing, mishap>>
  PROVE  Answered'
  <1>1. DOMAIN msgs' = {}
    BY EmptySequence
  <1>2. MessageCalls("call")' = {} /\ MessageCalls("result")' = {}
    BY <1>1 DEF MessageCalls
  <1>3. CASE events' = events
    BY <1>1, <1>2, <1>3 DEF Answered, OpenCalls, PendingCalls, EventCalls
  <1>4. CASE events' = <<>>
    <2>1. EventCalls("tool_call")' = {}
      BY <1>4, EmptySequence DEF EventCalls
    <2> QED
      BY <1>1, <1>2, <2>1 DEF Answered, OpenCalls, PendingCalls
  <1> QED
    BY <1>3, <1>4

\* A crash leaves the open call, if there is one, to the repair, and no other.
LEMMA CrashAnswers ==
  ASSUME LogInv, Answered, LogCrash
  PROVE  Answered'
  <1>1. /\ UNCHANGED <<msgs, events>> /\ healing' = PendingCalls /\ run'.at = "none"
        /\ mishap \subseteq mishap'
    BY DEF LogCrash, NoRun
  <1>2. SUFFICES ASSUME "lost" \notin mishap' PROVE Answered'
    BY DEF Answered
  <1>3. "lost" \notin mishap
    BY <1>1, <1>2
  <1>4. OpenCalls' = PendingCalls /\ PendingCalls' = PendingCalls
    BY <1>1 DEF OpenCalls, PendingCalls, EventCalls, MessageCalls
  <1>5. \E c : PendingCalls \subseteq {c}
    BY <1>3 DEF Answered, OpenCalls
  <1>6. ASSUME NEW i \in DOMAIN msgs, FreshCall(i)
        PROVE  ResultBehind(i) \/ (i = Len(msgs) /\ msgs[i].call \in PendingCalls)
    <2>1. CASE ResultBehind(i)
      BY <2>1
    <2>2. CASE i = Len(msgs)
      <3>1. DOMAIN msgs = 1 .. Len(msgs) /\ Len(msgs) \in Nat
        BY AppendToSequence DEF LogInv, Tables
      <3>2. msgs[i].call \in MessageCalls("call")
        BY <1>6 DEF FreshCall, MessageCalls
      <3>3. ASSUME NEW j \in DOMAIN msgs, msgs[j].role = "result", msgs[j].call = msgs[i].call
            PROVE  FALSE
        BY <1>6, <2>2, <3>1, <3>3 DEF FreshCall
      <3>4. msgs[i].call \notin MessageCalls("result")
        BY <3>3 DEF MessageCalls
      <3> QED
        BY <2>2, <3>2, <3>4 DEF PendingCalls
    <2> QED
      BY <1>3, <1>6, <2>1, <2>2 DEF Answered
  <1>7. \A i : (FreshCall(i)' <=> FreshCall(i)) /\ (ResultBehind(i)' <=> ResultBehind(i))
    BY <1>1 DEF FreshCall, ResultBehind
  <1> QED
    BY <1>1, <1>4, <1>5, <1>6, <1>7 DEF Answered

LEMMA HealAnswers ==
  ASSUME LogInv, Answered, NEW c \in healing, HealOne(c)
  PROVE  Answered'
  <1>1. run' = run /\ healing' = healing \ {c} /\ Persist("result", c, 0)
    BY DEF HealOne
  <1>2. ASSUME "lost" \notin mishap
        PROVE  run.at = "none" /\ healing = {c}
    BY <1>2 DEF Answered
  <1>3. "lost" \notin mishap => OpenCalls \subseteq {c} /\ OpenCalls' = {} /\ healing' = {}
    BY <1>1, <1>2 DEF OpenCalls
  <1> QED
    BY <1>1, <1>3, PersistAnswers

LEMMA RunAnswers ==
  ASSUME LogInv, Answered, RunShape,
         \/ LoadHistory \/ SteerIn \/ CompactRequest \/ ToolCall \/ ToolResult
         \/ TextResponse \/ EndWithoutAnswer
         \/ \E resumed \in BOOLEAN, win \in FoldOutcomes(run.hist, digest) :
              BuildMessages(resumed, win)
  PROVE  Answered'
  <1>1. CASE LoadHistory
    <2>1. run.at = "none" /\ run'.at = "load" /\ healing = {} /\ UNCHANGED <<msgs, events, healing, mishap>>
      BY <1>1 DEF LoadHistory, NoRun
    <2> QED
      BY <2>1, ElsewhereAnswers DEF OpenCalls
  <1>2. CASE CompactRequest \/ EndWithoutAnswer
    <2>1. run.at = "loop" /\ run'.at \in {"loop", "none"} /\ UNCHANGED <<msgs, events, healing, mishap>>
      BY <1>2 DEF CompactRequest, EndWithoutAnswer, On, NoRun
    <2> QED
      BY <2>1, ElsewhereAnswers DEF OpenCalls, Answered
  <1>3. ASSUME "lost" \notin mishap, run.at \in {"load", "loop"}
        PROVE  OpenCalls = {} /\ healing = {}
    BY <1>3 DEF OpenCalls, Answered
  <1>4. CASE SteerIn
    <2>1. /\ run.at = "loop" /\ run'.at = "loop" /\ healing' = healing
          /\ Persist("user", NoCall, run.no)
      BY <1>4 DEF SteerIn, On, NoRun, Persist
    <2> QED
      BY <1>3, <2>1, PersistAnswers DEF OpenCalls
  <1>5. CASE ToolCall
    <2>1. /\ run.at = "loop" /\ run'.at = "call" /\ run'.n = run.n /\ healing' = healing
          /\ Persist("call", run.n, run.no)
      BY <1>5 DEF ToolCall, On, NoRun
    <2> QED
      BY <1>3, <2>1, PersistAnswers DEF OpenCalls
  <1>6. CASE ToolResult
    <2>1. /\ run.at = "call" /\ run'.at = "loop" /\ healing' = healing
          /\ Persist("result", run.n, run.no)
      BY <1>6 DEF ToolResult, On, NoRun
    <2>2. "lost" \notin mishap => healing = {}
      BY <2>1 DEF Answered
    <2> QED
      BY <2>1, <2>2, PersistAnswers DEF OpenCalls
  <1>7. CASE TextResponse
    <2>1. /\ run.at = "loop" /\ run'.at = "none" /\ healing' = healing
          /\ Persist("answer", NoCall, run.no)
      BY <1>7 DEF TextResponse, On, NoRun
    <2> QED
      BY <1>3, <2>1, PersistAnswers DEF OpenCalls
  <1>8. ASSUME NEW resumed \in BOOLEAN, NEW win, BuildMessages(resumed, win)
        PROVE  Answered'
    <2>1. run.at = "load" /\ run' = [run EXCEPT !.at = "loop", !.n = Replay(run.hist, win).n,
                                       !.win = win,
                                       !.shown = Shown(Sanitize(Replay(run.hist, win).out))]
          /\ healing' = healing
      BY <1>8 DEF BuildMessages
    <2>4. run'.at = "loop"
      BY <2>1 DEF RunShape, NoRun
    <2>2. CASE resumed
      BY <1>3, <1>8, <2>1, <2>2, <2>4, ElsewhereAnswers DEF BuildMessages, OpenCalls
    <2>3. CASE ~resumed
      BY <1>3, <1>8, <2>1, <2>3, <2>4, PersistAnswers DEF BuildMessages, OpenCalls
    <2> QED
      BY <2>2, <2>3
  <1> QED
    BY <1>1, <1>2, <1>4, <1>5, <1>6, <1>7, <1>8

LEMMA ShapeKeeps ==
  ASSUME RunShape, [LogNext]_logVars
  PROVE  RunShape'
  <1>1. CASE LoadHistory \/ LogCrash
    BY <1>1 DEF LoadHistory, LogCrash, RunShape, NoRun
  <1>2. CASE SteerIn \/ CompactRequest \/ ToolCall \/ ToolResult \/ TextResponse
             \/ EndWithoutAnswer
    BY <1>2 DEF SteerIn, CompactRequest, ToolCall, ToolResult, TextResponse,
                EndWithoutAnswer, On, RunShape, NoRun
  <1>3. ASSUME NEW resumed \in BOOLEAN, NEW win, BuildMessages(resumed, win)
        PROVE  RunShape'
    <2>1. \E n, x : run' = [run EXCEPT !.at = "loop", !.n = n, !.win = win, !.shown = x]
      BY <1>3 DEF BuildMessages
    <2> QED
      BY <2>1 DEF RunShape
  <1>4. CASE run' = run
    BY <1>4 DEF RunShape
  <1> QED
    BY <1>1, <1>2, <1>3, <1>4
       DEF LogNext, logVars, DeleteMessages, DeleteRow, CreateAgain, ClearMessages, HealOne,
           CountTrace, PurgeTrace, ReadMessages, BackfillTrace

LEMMA AnsweredKeeps ==
  ASSUME LogInv, Answered, RunShape, [LogNext]_logVars
  PROVE  Answered'
  <1>1. CASE UNCHANGED logVars
    BY <1>1, ElsewhereAnswers DEF logVars, OpenCalls, Answered
  <1>2. CASE \E r \in Readers :
               CountTrace(r) \/ PurgeTrace(r) \/ ReadMessages(r) \/ BackfillTrace(r)
    <2>1. UNCHANGED <<msgs, events, run, healing, mishap>>
      BY <1>2 DEF CountTrace, PurgeTrace, ReadMessages, BackfillTrace
    <2> QED
      BY <2>1, ElsewhereAnswers DEF OpenCalls, Answered
  <1>3. CASE CreateAgain
    BY <1>3, ElsewhereAnswers DEF CreateAgain, OpenCalls, Answered
  <1>4. CASE DeleteMessages \/ DeleteRow \/ ClearMessages
    BY <1>4, EmptiedAnswers DEF DeleteMessages, DeleteRow, ClearMessages
  <1> QED
    BY <1>1, <1>2, <1>3, <1>4, RunAnswers, CrashAnswers, HealAnswers DEF LogNext

LEMMA AnsweredStarts ==
  ASSUME LogInit
  PROVE  Answered
  BY EmptySequence DEF LogInit, Answered, PendingCalls, EventCalls, MessageCalls, OpenCalls

LEMMA AnsweredImplies ==
  ASSUME Answered
  PROVE  CallsHealed
  BY DEF Answered, CallsHealed, OpenCalls

-----------------------------------------------------------------------------
\* The event log never misses a message the session shows, nor the messages an
\* event of the latest ones: the transaction of MessageRepository::create and the
\* two statements of a deletion keep them in step, also over crashes.
THEOREM EventLogFollows == LogSpec => []EventLogMirrors
  BY LogInitHolds, LogNextKeeps, LogInvImplies, PTL DEF LogSpec

\* get_trace may be called by any of two windows while runs write: when none of
\* them is rebuilding, no message is without its row, unless a crash cut a rebuild.
THEOREM TraceIsComplete == LogSpec => []TraceComplete
  BY LogInitHolds, LogNextKeeps, LogInvImplies, PTL DEF LogSpec

\* A call a crash left hanging is answered by the repair at the next start, right behind
\* it, however often runs die, and the session is cleared or half deleted between.
THEOREM CallsAreHealed == LogSpec => []CallsHealed
  <1>1. LogInit => LogInv /\ Answered /\ RunShape
    BY LogInitHolds, AnsweredStarts DEF LogInit, RunShape
  <1>2. LogInv /\ Answered /\ RunShape /\ [LogNext]_logVars => (LogInv /\ Answered /\ RunShape)'
    BY LogNextKeeps, AnsweredKeeps, ShapeKeeps
  <1>3. Answered => CallsHealed
    BY AnsweredImplies
  <1> QED
    BY <1>1, <1>2, <1>3, PTL DEF LogSpec

\* All three together: neither copy of a conversation parts from its messages, and
\* the repair that reads two of them finds every call a crash left open.
THEOREM LogsFollow == LogSpec => []LogsAgree
  BY EventLogFollows, TraceIsComplete, CallsAreHealed, PTL DEF LogsAgree
-----------------------------------------------------------------------------
(***************************************************************************)
(* Ledger.  What the writer holds is numbered on from the rows, and what   *)
(* waits in the channel from there on to the last step handed in; behind a *)
(* flush nothing of its run follows.  After a crash nothing moves at all.  *)
(***************************************************************************)
Messages == [run : LedgerRuns, n : Nat]
StepRowForms == [run : LedgerRuns, n : Nat, seq : Nat]
LedgerType ==
  /\ runRow \in [LedgerRuns -> {"none", "running", "absent", "ended"}]
  /\ ending \in [LedgerRuns -> {"no", "waiting", "flushed", "done"}]
  /\ sent \in [LedgerRuns -> Nat] /\ nextSeq \in [LedgerRuns -> Nat]
  /\ channel \in Seq(Messages) /\ buf \in Seq(Messages)
  /\ stepRows \in Seq(StepRowForms) /\ faulty \in BOOLEAN
\* a batch goes on from the rows
NumbersOn(batch) ==
  \A i \in 1 .. Len(batch) :
    /\ batch[i].n > 0
    /\ batch[i].n = nextSeq[batch[i].run] + StepsOf(batch[i].run, batch, i)
RowsWithin ==
  \A i \in 1 .. Len(stepRows) : stepRows[i].n <= nextSeq[stepRows[i].run]
RowsWhole == ~faulty => \A r \in LedgerRuns :
                          StepsOf(r, stepRows, Len(stepRows)) = nextSeq[r]
\* the number a run's steps have reached in the batch
Held(r) == nextSeq[r] + StepsOf(r, buf, Len(buf))
ChannelGoesOn ==
  /\ \A r \in LedgerRuns : Held(r) <= sent[r]
  /\ \A r \in LedgerRuns, i \in 1 .. Len(channel) : channel[i].run = r /\ channel[i].n > 0 =>
       Held(r) < channel[i].n /\ channel[i].n <= sent[r]
  /\ \A i, j \in 1 .. Len(channel) :
       i < j /\ channel[i].run = channel[j].run /\ channel[i].n > 0 /\ channel[j].n > 0
         => channel[i].n < channel[j].n
  /\ \A r \in LedgerRuns, n \in Nat : Held(r) < n /\ n <= sent[r] =>
       \E i \in 1 .. Len(channel) : channel[i] = StepMsg(r, n)
FlushesAreLast ==
  \A i \in 1 .. Len(channel) : channel[i].n = 0 =>
    /\ ending[channel[i].run] = "waiting"
    /\ \A j \in i + 1 .. Len(channel) : channel[j].run # channel[i].run
AnsweredAreEmpty ==
  \A r \in LedgerRuns : ending[r] \in {"flushed", "done"} =>
    /\ \A i \in 1 .. Len(channel) : channel[i].run # r
    /\ \A i \in 1 .. Len(buf) : buf[i].run # r
WriterAlive ==
  /\ NumbersOn(buf) /\ RowsWithin /\ RowsWhole
  /\ ChannelGoesOn /\ FlushesAreLast /\ AnsweredAreEmpty
  /\ \A r \in LedgerRuns : runRow[r] = "ended" => ending[r] = "done"
WriterDown ==
  /\ channel = <<>> /\ buf = <<>> /\ faulty
  /\ \A r \in LedgerRuns : ending[r] = "done" /\ runRow[r] # "none"
LedgerInv == LedgerType /\ StepsNumbered /\ (WriterAlive \/ WriterDown)
-----------------------------------------------------------------------------
LEMMA StepsCounted ==
  ASSUME NEW r, NEW s, NEW i \in Nat
  PROVE  /\ IsFiniteSet({j \in 1 .. i : s[j].run = r})
         /\ StepsOf(r, s, i) \in Nat
         /\ StepsOf(r, s, 0) = 0
         /\ (\A j \in 1 .. i : s[j].run # r) => StepsOf(r, s, i) = 0
  <1>1. IsFiniteSet(1 .. i)
    BY FS_Interval
  <1>2. IsFiniteSet({j \in 1 .. i : s[j].run = r})
    BY <1>1, FS_Subset
  <1>3. {j \in 1 .. 0 : s[j].run = r} = {}
    OBVIOUS
  <1>4. (\A j \in 1 .. i : s[j].run # r) => {j \in 1 .. i : s[j].run = r} = {}
    OBVIOUS
  <1> QED
    BY <1>2, <1>3, <1>4, FS_CardinalityType, FS_EmptySet DEF StepsOf

LEMMA NextStepCounted ==
  ASSUME NEW r, NEW s, NEW i \in Nat
  PROVE  StepsOf(r, s, i + 1) = StepsOf(r, s, i) + (IF s[i + 1].run = r THEN 1 ELSE 0)
  <1> DEFINE A == {j \in 1 .. i : s[j].run = r}
             B == {j \in 1 .. i + 1 : s[j].run = r}
  <1>1. IsFiniteSet(A) /\ i + 1 \notin A /\ StepsOf(r, s, i) \in Nat
    BY StepsCounted
  <1>2. B = IF s[i + 1].run = r THEN A \cup {i + 1} ELSE A
    <2>1. 1 .. i + 1 = 1 .. i \cup {i + 1}
      OBVIOUS
    <2> QED
      BY <2>1
  <1>3. StepsOf(r, s, i) = Cardinality(A) /\ StepsOf(r, s, i + 1) = Cardinality(B)
    BY DEF StepsOf
  <1> HIDE DEF A, B
  <1>4. Cardinality(A \cup {i + 1}) = Cardinality(A) + 1
    BY <1>1, FS_AddElement
  <1>5. CASE s[i + 1].run = r
    BY <1>2, <1>3, <1>4, <1>5
  <1>6. CASE s[i + 1].run # r
    BY <1>1, <1>2, <1>3, <1>6
  <1> QED
    BY <1>5, <1>6

LEMMA StepsGrow ==
  ASSUME NEW r, NEW s, NEW i \in Nat, NEW j \in Nat, i <= j
  PROVE  /\ StepsOf(r, s, i) <= StepsOf(r, s, j)
         /\ i < j /\ s[j].run = r => StepsOf(r, s, i) < StepsOf(r, s, j)
  <1>1. \A k \in Nat : i <= k => StepsOf(r, s, i) <= StepsOf(r, s, k)
    <2> SUFFICES ASSUME NEW k \in Nat, i <= k PROVE StepsOf(r, s, i) <= StepsOf(r, s, k)
      OBVIOUS
    <2>1. {l \in 1 .. i : s[l].run = r} \subseteq {l \in 1 .. k : s[l].run = r}
      OBVIOUS
    <2> QED
      BY <2>1, StepsCounted, FS_Subset DEF StepsOf
  <1>2. ASSUME i < j, s[j].run = r PROVE StepsOf(r, s, i) < StepsOf(r, s, j)
    <2>1. j - 1 \in Nat /\ i <= j - 1 /\ (j - 1) + 1 = j
      BY <1>2
    <2>2. StepsOf(r, s, (j - 1) + 1) = StepsOf(r, s, j - 1) + 1
      BY <1>2, <2>1, NextStepCounted
    <2>3. StepsOf(r, s, i) <= StepsOf(r, s, j - 1)
      BY <1>1, <2>1
    <2>4. StepsOf(r, s, i) \in Nat /\ StepsOf(r, s, j - 1) \in Nat
      BY <2>1, StepsCounted
    <2> QED
      BY <2>1, <2>2, <2>3, <2>4
  <1> QED
    BY <1>1, <1>2

LEMMA SameRunsSameSteps ==
  ASSUME NEW r, NEW s, NEW t, NEW i \in Nat, \A j \in 1 .. i : s[j].run = t[j].run
  PROVE  StepsOf(r, s, i) = StepsOf(r, t, i)
  <1>1. {j \in 1 .. i : s[j].run = r} = {j \in 1 .. i : t[j].run = r}
    OBVIOUS
  <1> QED
    BY <1>1 DEF StepsOf

LEMMA StepsOfBoth ==
  ASSUME NEW r, NEW t, NEW u, NEW m \in Nat, NEW n \in Nat,
         \A j \in 1 .. n : u[m + j].run = t[j].run
  PROVE  StepsOf(r, u, m + n) = StepsOf(r, u, m) + StepsOf(r, t, n)
  <1> DEFINE A == {j \in 1 .. m : u[j].run = r}
             B == {j \in 1 .. n : t[j].run = r}
             C == {j \in 1 .. m + n : u[j].run = r}
             D == {j \in m + 1 .. m + n : u[j].run = r}
             f == [j \in B |-> m + j]
  <1>1. IsFiniteSet(A) /\ IsFiniteSet(B)
    BY StepsCounted
  <1>2. f \in Bijection(B, D)
    <2>1. f \in [B -> D]
      OBVIOUS
    <2>2. \A j, k \in B : f[j] = f[k] => j = k
      OBVIOUS
    <2>3. \A d \in D : d - m \in B /\ f[d - m] = d
      OBVIOUS
    <2> QED
      BY <2>1, <2>2, <2>3 DEF Bijection, Injection, IsInjective, Surjection
  <1>3. C = A \cup D /\ A \cap D = {}
    <2>1. \A j \in A : j \in C
      OBVIOUS
    <2>2. \A j \in D : j \in C /\ j \notin A
      OBVIOUS
    <2>3. \A j \in C : j \in A \/ j \in D
      OBVIOUS
    <2> QED
      BY <2>1, <2>2, <2>3
  <1>4. /\ StepsOf(r, u, m) = Cardinality(A) /\ StepsOf(r, t, n) = Cardinality(B)
        /\ StepsOf(r, u, m + n) = Cardinality(C)
    BY DEF StepsOf
  <1> HIDE DEF A, B, C, D, f
  <1>5. IsFiniteSet(D) /\ Cardinality(D) = Cardinality(B)
    BY <1>1, <1>2, FS_Bijection DEF ExistsBijection
  <1>6. Cardinality(C) = Cardinality(A) + Cardinality(D) - Cardinality(A \cap D)
    BY <1>1, <1>3, <1>5, FS_Union
  <1>7. Cardinality(A) \in Nat /\ Cardinality(B) \in Nat /\ Cardinality(A \cap D) = 0
    BY <1>1, <1>3, FS_CardinalityType, FS_EmptySet
  <1> QED
    BY <1>4, <1>5, <1>6, <1>7
-----------------------------------------------------------------------------
\* A batch that goes on from the rows leaves them whole and numbered upwards, or
\* drops out as a whole and is remembered.
LEMMA FlushKeeps ==
  ASSUME LedgerType, StepsNumbered, RowsWithin, RowsWhole,
         NEW batch \in Seq(Messages), NumbersOn(batch), Flush(batch)
  PROVE  /\ buf' = <<>> /\ nextSeq' \in [LedgerRuns -> Nat]
         /\ \A r \in LedgerRuns : nextSeq'[r] = nextSeq[r] + StepsOf(r, batch, Len(batch))
         /\ stepRows' \in Seq(StepRowForms) /\ faulty' \in BOOLEAN
         /\ StepsNumbered' /\ RowsWithin' /\ RowsWhole'
  <1> DEFINE L == Len(batch)
             K == Len(stepRows)
             new == Numbered(batch)
  <1>1. L \in Nat /\ K \in Nat /\ DOMAIN batch = 1 .. L /\ DOMAIN stepRows = 1 .. K
    BY DEF LedgerType
  <1>2. \A i \in 1 .. L : batch[i] \in Messages /\ batch[i].run \in LedgerRuns /\ batch[i].n \in Nat
    <2>1. \A i \in 1 .. L : batch[i] \in Messages
      OBVIOUS
    <2> QED
      BY <2>1 DEF Messages
  <1>3. \A i \in 1 .. K : stepRows[i] \in StepRowForms /\ stepRows[i].run \in LedgerRuns
                          /\ stepRows[i].n \in Nat /\ stepRows[i].seq \in Nat
    <2>1. \A i \in 1 .. K : stepRows[i] \in StepRowForms
      BY DEF LedgerType
    <2> QED
      BY <2>1 DEF StepRowForms
  <1>4. nextSeq \in [LedgerRuns -> Nat]
    BY DEF LedgerType
  <1>5. \A r \in LedgerRuns, i \in Nat : StepsOf(r, batch, i) \in Nat /\ StepsOf(r, batch, 0) = 0
    BY StepsCounted
  <1>6. /\ new \in Seq(StepRowForms) /\ Len(new) = L
        /\ \A i \in 1 .. L : new[i].run = batch[i].run /\ new[i].n = batch[i].n
                             /\ new[i].seq = batch[i].n
    <2>1. \A i \in 1 .. L : [run |-> batch[i].run, n |-> batch[i].n,
             seq |-> nextSeq[batch[i].run] + StepsOf(batch[i].run, batch, i)] \in StepRowForms
      BY <1>2, <1>4, <1>5 DEF StepRowForms
    <2>2. new = [i \in 1 .. L |-> [run |-> batch[i].run, n |-> batch[i].n,
             seq |-> nextSeq[batch[i].run] + StepsOf(batch[i].run, batch, i)]]
      BY <1>1 DEF Numbered
    <2>3. new \in [1 .. L -> StepRowForms]
      BY <2>1, <2>2
    <2>4. \A i \in 1 .. L : new[i].run = batch[i].run /\ new[i].n = batch[i].n
            /\ new[i].seq = nextSeq[batch[i].run] + StepsOf(batch[i].run, batch, i)
      BY <2>2
    <2>5. \A i \in 1 .. L : new[i].seq = batch[i].n
      BY <2>4 DEF NumbersOn
    <2> HIDE DEF new, L
    <2>6. new \in Seq(StepRowForms) /\ Len(new) = L
      BY <1>1, <2>3
    <2> QED
      BY <2>4, <2>5, <2>6
  <1>7. \A i \in 1 .. L :
          /\ nextSeq[batch[i].run] < batch[i].n
          /\ batch[i].n <= nextSeq[batch[i].run] + StepsOf(batch[i].run, batch, L)
    <2> SUFFICES ASSUME NEW i \in 1 .. L
                 PROVE  /\ nextSeq[batch[i].run] < batch[i].n
                        /\ batch[i].n <= nextSeq[batch[i].run] + StepsOf(batch[i].run, batch, L)
      OBVIOUS
    <2> DEFINE r == batch[i].run
    <2>1. r \in LedgerRuns /\ nextSeq[r] \in Nat /\ batch[i].n = nextSeq[r] + StepsOf(r, batch, i)
      BY <1>2, <1>4 DEF NumbersOn
    <2>2. /\ StepsOf(r, batch, 0) < StepsOf(r, batch, i)
          /\ StepsOf(r, batch, i) <= StepsOf(r, batch, L)
      BY <1>1, StepsGrow
    <2>3. StepsOf(r, batch, 0) = 0 /\ StepsOf(r, batch, i) \in Nat /\ StepsOf(r, batch, L) \in Nat
      <3>1. i \in Nat
        BY <1>1
      <3> QED
        BY <1>1, <1>5, <2>1, <3>1
    <2> HIDE DEF r
    <2>4. nextSeq[r] < batch[i].n /\ batch[i].n <= nextSeq[r] + StepsOf(r, batch, L)
      BY <2>1, <2>2, <2>3
    <2> QED
      BY <2>4 DEF r
  <1>8. \A i, j \in 1 .. L : j < i /\ batch[j].run = batch[i].run => batch[j].n < batch[i].n
    <2> SUFFICES ASSUME NEW i \in 1 .. L, NEW j \in 1 .. L, j < i, batch[j].run = batch[i].run
                 PROVE  batch[j].n < batch[i].n
      OBVIOUS
    <2> DEFINE r == batch[i].run
    <2>1. /\ r \in LedgerRuns /\ nextSeq[r] \in Nat
          /\ batch[i].n = nextSeq[r] + StepsOf(r, batch, i)
          /\ batch[j].n = nextSeq[r] + StepsOf(r, batch, j)
      BY <1>2, <1>4 DEF NumbersOn
    <2>2. StepsOf(r, batch, j) < StepsOf(r, batch, i)
      BY <1>1, StepsGrow
    <2>3. StepsOf(r, batch, i) \in Nat /\ StepsOf(r, batch, j) \in Nat
      <3>1. i \in Nat /\ j \in Nat
        BY <1>1
      <3> QED
        BY <1>5, <2>1, <3>1
    <2> HIDE DEF r
    <2> QED
      BY <2>1, <2>2, <2>3
  <1>9. /\ buf' = <<>>
        /\ nextSeq' = [r \in LedgerRuns |-> nextSeq[r] + StepsOf(r, batch, L)]
        /\ \/ stepRows' = stepRows \o new /\ faulty' = faulty
           \/ stepRows' = stepRows /\ faulty' = TRUE
    BY DEF Flush
  <1> HIDE DEF new, L, K
  <1>10. /\ nextSeq' \in [LedgerRuns -> Nat]
         /\ \A r \in LedgerRuns : nextSeq'[r] = nextSeq[r] + StepsOf(r, batch, L)
         /\ \A r \in LedgerRuns : nextSeq[r] <= nextSeq'[r]
    <2>1. \A r \in LedgerRuns : nextSeq[r] \in Nat /\ StepsOf(r, batch, L) \in Nat
      BY <1>1, <1>4, <1>5
    <2>2. \A r \in LedgerRuns : nextSeq'[r] = nextSeq[r] + StepsOf(r, batch, L)
      BY <1>9
    <2> QED
      BY <1>9, <2>1, <2>2
  <1>11. CASE stepRows' = stepRows /\ faulty' = TRUE
    <2>1. StepsNumbered' /\ RowsWhole'
      BY <1>11 DEF StepsNumbered, RowsWhole
    <2>2. RowsWithin'
      <3> SUFFICES ASSUME NEW i \in 1 .. K PROVE stepRows[i].n <= nextSeq'[stepRows[i].run]
        BY <1>11 DEF RowsWithin, K
      <3>1. stepRows[i].n <= nextSeq[stepRows[i].run]
        BY DEF RowsWithin, K
      <3> QED
        BY <1>3, <1>4, <1>10, <3>1
    <2>3. stepRows' \in Seq(StepRowForms) /\ faulty' \in BOOLEAN
      BY <1>11 DEF LedgerType
    <2> QED
      BY <1>9, <1>10, <2>1, <2>2, <2>3 DEF L
  <1>12. CASE stepRows' = stepRows \o new /\ faulty' = faulty
    <2>1. stepRows \in Seq(StepRowForms) /\ Len(stepRows) = K
      BY DEF LedgerType, K
    <2>2. PICK rows \in Seq(StepRowForms) : rows = stepRows'
      BY <1>6, <1>12, <2>1, ConcatProperties
    <2>3. /\ Len(rows) = K + L /\ DOMAIN rows = 1 .. K + L
          /\ \A i \in 1 .. K : rows[i] = stepRows[i]
          /\ \A i \in 1 .. L : rows[K + i] = new[i]
      <3>1. Len(rows) = K + L
        BY <1>6, <1>12, <2>1, <2>2, ConcatProperties
      <3>2. \A i \in 1 .. K : i \in 1 .. K + L /\ i <= K
        BY <1>1
      <3>3. \A i \in 1 .. L : K + i \in 1 .. K + L /\ ~(K + i <= K) /\ (K + i) - K = i
        BY <1>1
      <3>4. \A i \in 1 .. K + L : rows[i] = IF i <= K THEN stepRows[i] ELSE new[i - K]
        BY <1>6, <1>12, <2>1, <2>2, ConcatProperties
      <3>5. DOMAIN rows = 1 .. K + L
        BY <2>2, <3>1
      <3>6. \A i \in 1 .. L : rows[K + i] = new[i]
        <4> SUFFICES ASSUME NEW i \in 1 .. L PROVE rows[K + i] = new[i]
          OBVIOUS
        <4>1. rows[K + i] = new[(K + i) - K]
          BY <3>3, <3>4
        <4> QED
          BY <3>3, <4>1
      <3> QED
        BY <3>1, <3>2, <3>4, <3>5, <3>6
    <2>4. \A i \in 1 .. K + L : i \in 1 .. K \/ (i - K \in 1 .. L /\ K + (i - K) = i)
      BY <1>1
    <2>5. \A i \in 1 .. K + L : i - K \in 1 .. L => rows[i] = new[i - K]
      <3> SUFFICES ASSUME NEW i \in 1 .. K + L, i - K \in 1 .. L PROVE rows[i] = new[i - K]
        OBVIOUS
      <3>1. rows[K + (i - K)] = new[i - K] /\ K + (i - K) = i
        BY <1>1, <2>3
      <3> QED
        BY <3>1
    <2>6. StepsNumbered'
      <3> SUFFICES ASSUME NEW i \in 1 .. K + L
                   PROVE  /\ rows[i].seq = rows[i].n
                          /\ \A j \in 1 .. i - 1 : rows[j].run = rows[i].run
                                                     => rows[j].seq < rows[i].seq
        BY <2>2, <2>3 DEF StepsNumbered
      <3>1. CASE i \in 1 .. K
        <4>1. rows[i] = stepRows[i] /\ \A j \in 1 .. i - 1 : rows[j] = stepRows[j]
          BY <1>1, <2>3, <3>1
        <4> QED
          BY <1>1, <3>1, <4>1 DEF StepsNumbered
      <3>2. CASE i - K \in 1 .. L
        <4> DEFINE h == i - K
        <4>1. rows[i] = new[h] /\ h \in 1 .. L /\ K + h = i
          BY <1>1, <2>5, <3>2
        <4>2. rows[i].seq = batch[h].n /\ rows[i].n = batch[h].n /\ rows[i].run = batch[h].run
          BY <1>6, <4>1
        <4>3. ASSUME NEW j \in 1 .. i - 1, rows[j].run = rows[i].run
              PROVE  rows[j].seq < rows[i].seq
          <5>1. j \in 1 .. K + L
            BY <1>1
          <5>2. CASE j \in 1 .. K
            <6>1. rows[j] = stepRows[j] /\ stepRows[j].seq = stepRows[j].n
                  /\ stepRows[j].n <= nextSeq[stepRows[j].run]
              BY <1>1, <2>3, <5>2 DEF StepsNumbered, RowsWithin, K
            <6>2. nextSeq[batch[h].run] < batch[h].n /\ stepRows[j].run = batch[h].run
              BY <1>7, <4>1, <4>2, <4>3, <6>1
            <6>3. nextSeq[batch[h].run] \in Nat /\ stepRows[j].n \in Nat /\ batch[h].n \in Nat
              BY <1>2, <1>3, <1>4, <4>1, <5>2
            <6> QED
              BY <4>2, <6>1, <6>2, <6>3
          <5>3. CASE j - K \in 1 .. L
            <6>1. rows[j] = new[j - K] /\ j - K < h
              BY <1>1, <2>5, <5>3, <5>1
            <6>2. rows[j].seq = batch[j - K].n /\ rows[j].run = batch[j - K].run
              BY <1>6, <5>3, <6>1
            <6>3. batch[j - K].n < batch[h].n
              BY <1>8, <4>1, <4>2, <4>3, <5>3, <6>1, <6>2
            <6> QED
              BY <4>2, <6>2, <6>3
          <5> QED
            BY <2>4, <5>2, <5>3, <5>1
        <4> QED
          BY <4>2, <4>3
      <3> QED
        BY <2>4, <3>1, <3>2
    <2>7. RowsWithin'
      <3> SUFFICES ASSUME NEW i \in 1 .. K + L PROVE rows[i].n <= nextSeq'[rows[i].run]
        BY <2>2, <2>3 DEF RowsWithin
      <3>1. CASE i \in 1 .. K
        <4>1. rows[i] = stepRows[i] /\ stepRows[i].n <= nextSeq[stepRows[i].run]
          BY <2>3, <3>1 DEF RowsWithin, K
        <4> QED
          BY <1>3, <1>4, <1>10, <3>1, <4>1
      <3>2. CASE i - K \in 1 .. L
        <4>1. rows[i] = new[i - K]
          BY <2>5, <3>2
        <4>2. rows[i].n = batch[i - K].n /\ rows[i].run = batch[i - K].run
          BY <1>6, <3>2, <4>1
        <4>3. batch[i - K].n <= nextSeq'[batch[i - K].run]
          BY <1>2, <1>7, <1>10, <3>2
        <4> QED
          BY <4>2, <4>3
      <3> QED
        BY <2>4, <3>1, <3>2
    <2>8. RowsWhole'
      <3> SUFFICES ASSUME ~faulty, NEW r \in LedgerRuns
                   PROVE  StepsOf(r, rows, K + L) = nextSeq'[r]
        BY <1>12, <2>2, <2>3 DEF RowsWhole
      <3>1. StepsOf(r, stepRows, K) = nextSeq[r]
        BY DEF RowsWhole, K
      <3>2. StepsOf(r, rows, K + L) = StepsOf(r, stepRows, K) + StepsOf(r, new, L)
        <4>1. /\ \A j \in 1 .. K : rows[j].run = stepRows[j].run
              /\ \A j \in 1 .. L : rows[K + j].run = new[j].run
          BY <2>3
        <4>2. StepsOf(r, rows, K) = StepsOf(r, stepRows, K)
          BY <1>1, <4>1, SameRunsSameSteps
        <4>3. StepsOf(r, rows, K + L) = StepsOf(r, rows, K) + StepsOf(r, new, L)
          BY <1>1, <4>1, StepsOfBoth
        <4> QED
          BY <4>2, <4>3
      <3>3. StepsOf(r, new, L) = StepsOf(r, batch, L)
        BY <1>1, <1>6, SameRunsSameSteps
      <3> QED
        BY <1>10, <3>1, <3>2, <3>3
    <2>9. stepRows' \in Seq(StepRowForms) /\ faulty' \in BOOLEAN
      BY <1>12, <2>2 DEF LedgerType
    <2> QED
      BY <1>9, <1>10, <2>6, <2>7, <2>8, <2>9 DEF L
  <1> QED
    BY <1>9, <1>11, <1>12
-----------------------------------------------------------------------------
LEMMA HeldIsNumber ==
  ASSUME LedgerType
  PROVE  \A r \in LedgerRuns : Held(r) \in Nat /\ nextSeq[r] \in Nat /\ sent[r] \in Nat
  <1>1. Len(buf) \in Nat
    BY DEF LedgerType
  <1>2. \A r \in LedgerRuns : StepsOf(r, buf, Len(buf)) \in Nat
    BY <1>1, StepsCounted
  <1> QED
    BY <1>2 DEF Held, LedgerType

LEMMA ChannelIsTyped ==
  ASSUME LedgerType
  PROVE  /\ Len(channel) \in Nat
         /\ \A i \in 1 .. Len(channel) :
              channel[i] \in Messages /\ channel[i].run \in LedgerRuns /\ channel[i].n \in Nat
  <1>1. Len(channel) \in Nat /\ \A i \in 1 .. Len(channel) : channel[i] \in Messages
    BY DEF LedgerType
  <1> QED
    BY <1>1 DEF Messages

LEMMA FirstAndRest ==
  ASSUME LedgerType, channel # <<>>, channel' = Tail(channel)
  PROVE  /\ Len(channel) >= 1 /\ Head(channel) = channel[1] /\ 1 \in 1 .. Len(channel)
         /\ channel' \in Seq(Messages) /\ Len(channel') = Len(channel) - 1
         /\ \A i \in 1 .. Len(channel') : i + 1 \in 1 .. Len(channel) /\ i + 1 # 1
                                          /\ channel'[i] = channel[i + 1]
         /\ \A i \in 2 .. Len(channel) : i - 1 \in 1 .. Len(channel')
                                         /\ channel'[i - 1] = channel[i]
  <1>1. channel \in Seq(Messages) /\ Len(channel) \in Nat /\ Len(channel) >= 1
    BY DEF LedgerType
  <1>2. /\ channel' \in Seq(Messages) /\ Len(channel') = Len(channel) - 1
        /\ \A i \in 1 .. Len(channel) - 1 : channel'[i] = channel[i + 1]
    BY <1>1
  <1>3. \A i \in 1 .. Len(channel') : i + 1 \in 1 .. Len(channel) /\ i + 1 # 1
    BY <1>1, <1>2
  <1>4. \A i \in 2 .. Len(channel) : i - 1 \in 1 .. Len(channel') /\ (i - 1) + 1 = i
    BY <1>1, <1>2
  <1>5. \A i \in 2 .. Len(channel) : channel'[i - 1] = channel[i]
    <2> SUFFICES ASSUME NEW i \in 2 .. Len(channel) PROVE channel'[i - 1] = channel[i]
      OBVIOUS
    <2>1. channel'[i - 1] = channel[(i - 1) + 1]
      BY <1>2, <1>4
    <2> QED
      BY <1>4, <2>1
  <1> QED
    BY <1>1, <1>2, <1>3, <1>4, <1>5

\* The first step in the channel is the next one of its run.
LEMMA FirstIsNext ==
  ASSUME LedgerType, ChannelGoesOn, channel # <<>>, channel[1].n > 0
  PROVE  /\ channel[1].n = Held(channel[1].run) + 1
         /\ channel[1].n <= sent[channel[1].run]
  <1>1. Len(channel) \in Nat /\ 1 \in 1 .. Len(channel)
    BY DEF LedgerType
  <1>2. PICK r \in LedgerRuns, n \in Nat : r = channel[1].run /\ n = channel[1].n
    BY <1>1, ChannelIsTyped
  <1>3. PICK h \in Nat, t \in Nat : h = Held(r) /\ t = sent[r]
    BY HeldIsNumber
  <1>4. h < n /\ n <= t
    BY <1>1, <1>2, <1>3 DEF ChannelGoesOn
  <1>5. n = h + 1
    <2> SUFFICES ASSUME h + 1 < n PROVE FALSE
      BY <1>4
    <2>1. h + 1 \in Nat /\ h < h + 1 /\ h + 1 <= t
      BY <1>4
    <2>2. PICK i \in 1 .. Len(channel) : channel[i] = StepMsg(r, h + 1)
      BY <1>3, <2>1 DEF ChannelGoesOn
    <2>3. channel[i].run = r /\ channel[i].n = h + 1
      BY <2>2 DEF StepMsg
    <2>4. i # 1
      BY <1>2, <2>3
    <2>5. 1 < i
      BY <1>1, <2>4
    <2>6. channel[1].n < channel[i].n
      <3>1. channel[1].run = channel[i].run /\ channel[1].n > 0 /\ channel[i].n > 0
        BY <1>2, <2>1, <2>3
      <3>2. \A j, k \in 1 .. Len(channel) :
              j < k /\ channel[j].run = channel[k].run /\ channel[j].n > 0 /\ channel[k].n > 0
                => channel[j].n < channel[k].n
        BY DEF ChannelGoesOn
      <3> QED
        BY <1>1, <2>5, <3>1, <3>2
    <2>7. n < h + 1
      BY <1>2, <2>3, <2>6
    <2> QED
      BY <2>1, <2>7
  <1> QED
    BY <1>2, <1>3, <1>4, <1>5

LEMMA ChannelMovesOn ==
  ASSUME LedgerType, ChannelGoesOn, channel # <<>>, channel' = Tail(channel), sent' = sent,
         \A r \in LedgerRuns :
           Held(r)' = IF channel[1].n > 0 /\ channel[1].run = r THEN Held(r) + 1 ELSE Held(r)
  PROVE  ChannelGoesOn'
  <1> DEFINE m == channel[1]
  <1>1. Len(channel) \in Nat /\ 1 \in 1 .. Len(channel) /\ Len(channel') \in Nat
    BY FirstAndRest, ChannelIsTyped
  <1>2. m.run \in LedgerRuns /\ m.n \in Nat
    BY <1>1, ChannelIsTyped
  <1>3. m.n > 0 => m.n = Held(m.run) + 1 /\ m.n <= sent[m.run]
    BY FirstIsNext
  <1>4. \A i \in 1 .. Len(channel') :
          i + 1 \in 1 .. Len(channel) /\ i + 1 # 1 /\ channel'[i] = channel[i + 1]
    BY FirstAndRest
  <1>5. \A r \in LedgerRuns : Held(r)' = IF m.n > 0 /\ m.run = r THEN Held(r) + 1 ELSE Held(r)
    OBVIOUS
  <1> HIDE DEF m
  <1>6. \A r \in LedgerRuns : Held(r)' <= sent'[r]
    BY <1>2, <1>3, <1>5 DEF ChannelGoesOn
  <1>7. ASSUME NEW r \in LedgerRuns, NEW i \in 1 .. Len(channel'),
               channel'[i].run = r, channel'[i].n > 0
        PROVE  Held(r)' < channel'[i].n /\ channel'[i].n <= sent'[r]
    <2>1. i + 1 \in 1 .. Len(channel) /\ 1 < i + 1 /\ channel'[i] = channel[i + 1]
      BY <1>1, <1>4
    <2>2. PICK n \in Nat : r = channel[i + 1].run /\ n = channel[i + 1].n
      BY <1>7, <2>1, ChannelIsTyped
    <2>3. n > 0 /\ Held(r) < n /\ n <= sent[r]
      BY <1>7, <2>1, <2>2 DEF ChannelGoesOn
    <2>4. m.n > 0 /\ m.run = r => m.n < n
      BY <1>1, <2>1, <2>2, <2>3 DEF ChannelGoesOn, m
    <2>5. Held(r)' < n
      <3>1. Held(r) \in Nat
        BY HeldIsNumber
      <3>2. CASE m.n > 0 /\ m.run = r
        BY <1>3, <1>5, <2>4, <3>2
      <3>3. CASE ~(m.n > 0 /\ m.run = r)
        BY <1>5, <2>3, <3>3
      <3> QED
        BY <3>2, <3>3
    <2> QED
      BY <2>1, <2>2, <2>3, <2>5
  <1>8. ASSUME NEW i \in 1 .. Len(channel'), NEW j \in 1 .. Len(channel'), i < j,
               channel'[i].run = channel'[j].run, channel'[i].n > 0, channel'[j].n > 0
        PROVE  channel'[i].n < channel'[j].n
    <2>1. /\ i + 1 \in 1 .. Len(channel) /\ channel'[i] = channel[i + 1]
          /\ j + 1 \in 1 .. Len(channel) /\ channel'[j] = channel[j + 1] /\ i + 1 < j + 1
      BY <1>4, <1>8
    <2> QED
      BY <1>8, <2>1 DEF ChannelGoesOn
  <1>9. ASSUME NEW r \in LedgerRuns, NEW n \in Nat, Held(r)' < n, n <= sent'[r]
        PROVE  \E i \in 1 .. Len(channel') : channel'[i] = StepMsg(r, n)
    <2>1. Held(r) \in Nat
      BY HeldIsNumber
    <2>2. Held(r) < n /\ n <= sent[r]
      BY <1>5, <1>9, <2>1
    <2>3. PICK i \in 1 .. Len(channel) : channel[i] = StepMsg(r, n)
      BY <2>2 DEF ChannelGoesOn
    <2>4. i # 1
      <3> SUFFICES ASSUME i = 1 PROVE FALSE
        OBVIOUS
      <3>1. m.run = r /\ m.n = n
        BY <2>3 DEF m, StepMsg
      <3>2. n > 0
        BY <2>1, <2>2
      <3>3. Held(r)' = Held(r) + 1 /\ n = Held(r) + 1
        BY <1>3, <1>5, <3>1, <3>2
      <3> QED
        BY <1>9, <3>3, <2>1
    <2>5. i - 1 \in 1 .. Len(channel') /\ channel'[i - 1] = channel[i]
      <3>1. i \in 2 .. Len(channel)
        BY <1>1, <2>4
      <3> QED
        BY <3>1, FirstAndRest
    <2> QED
      BY <2>3, <2>5
  <1> QED
    BY <1>6, <1>7, <1>8, <1>9 DEF ChannelGoesOn

\* The batch takes the next step of a run.
LEMMA BatchGoesOn ==
  ASSUME LedgerType, NumbersOn(buf), NEW m \in Messages, m.n = Held(m.run) + 1
  PROVE  /\ Append(buf, m) \in Seq(Messages) /\ NumbersOn(Append(buf, m))
         /\ Len(Append(buf, m)) = Len(buf) + 1
         /\ \A i \in 1 .. Len(buf) : Append(buf, m)[i] = buf[i]
         /\ Append(buf, m)[Len(buf) + 1] = m
         /\ \A r \in LedgerRuns :
              nextSeq[r] + StepsOf(r, Append(buf, m), Len(Append(buf, m)))
                = IF m.run = r THEN Held(r) + 1 ELSE Held(r)
  <1>1. buf \in Seq(Messages) /\ Len(buf) \in Nat
    BY DEF LedgerType
  <1>2. PICK batch \in Seq(Messages) : batch = Append(buf, m)
    BY <1>1, AppendProperties
  <1>3. PICK L \in Nat : L = Len(buf)
    BY <1>1
  <1>4. /\ Len(batch) = L + 1 /\ batch[L + 1] = m
        /\ \A i \in 1 .. L : batch[i] = buf[i]
    BY <1>1, <1>2, <1>3
  <1>5. \A r \in LedgerRuns, i \in 0 .. L : StepsOf(r, batch, i) = StepsOf(r, buf, i)
    <2> SUFFICES ASSUME NEW r \in LedgerRuns, NEW i \in 0 .. L
                 PROVE  StepsOf(r, batch, i) = StepsOf(r, buf, i)
      OBVIOUS
    <2>1. i \in Nat /\ \A j \in 1 .. i : batch[j].run = buf[j].run
      BY <1>4
    <2> QED
      BY <2>1, SameRunsSameSteps
  <1>6. m.run \in LedgerRuns /\ m.n \in Nat
    BY DEF Messages
  <1>7. \A r \in LedgerRuns : nextSeq[r] \in Nat /\ Held(r) \in Nat
          /\ StepsOf(r, buf, L) \in Nat /\ Held(r) = nextSeq[r] + StepsOf(r, buf, L)
    BY <1>3, HeldIsNumber, StepsCounted DEF Held
  <1>8. \A r \in LedgerRuns : nextSeq[r] + StepsOf(r, batch, L + 1)
                                = IF m.run = r THEN Held(r) + 1 ELSE Held(r)
    <2> SUFFICES ASSUME NEW r \in LedgerRuns
                 PROVE  nextSeq[r] + StepsOf(r, batch, L + 1)
                          = IF m.run = r THEN Held(r) + 1 ELSE Held(r)
      OBVIOUS
    <2>1. StepsOf(r, batch, L + 1)
            = StepsOf(r, batch, L) + (IF batch[L + 1].run = r THEN 1 ELSE 0)
      BY NextStepCounted
    <2>2. L \in 0 .. L
      OBVIOUS
    <2>3. StepsOf(r, batch, L) = StepsOf(r, buf, L)
      BY <1>5, <2>2
    <2> QED
      BY <1>4, <1>7, <2>1, <2>3
  <1>9. NumbersOn(batch)
    <2> SUFFICES ASSUME NEW i \in 1 .. L + 1
                 PROVE  batch[i].n > 0
                        /\ batch[i].n = nextSeq[batch[i].run] + StepsOf(batch[i].run, batch, i)
      BY <1>4 DEF NumbersOn
    <2>1. CASE i \in 1 .. L
      <3>1. /\ batch[i] = buf[i] /\ buf[i].n > 0 /\ buf[i] \in Messages
            /\ buf[i].n = nextSeq[buf[i].run] + StepsOf(buf[i].run, buf, i)
        BY <1>1, <1>3, <1>4, <2>1 DEF NumbersOn
      <3>2. buf[i].run \in LedgerRuns /\ i \in 0 .. L
        BY <2>1, <3>1 DEF Messages
      <3>3. StepsOf(buf[i].run, batch, i) = StepsOf(buf[i].run, buf, i)
        BY <1>5, <3>2
      <3> QED
        BY <3>1, <3>3
    <2>2. CASE i = L + 1
      <3>1. nextSeq[m.run] + StepsOf(m.run, batch, L + 1) = Held(m.run) + 1
        BY <1>6, <1>8
      <3> QED
        BY <1>4, <1>6, <1>7, <2>2, <3>1
    <2> QED
      BY <2>1, <2>2
  <1> QED
    BY <1>2, <1>3, <1>4, <1>8, <1>9
-----------------------------------------------------------------------------
LEMMA FlushedHolds ==
  ASSUME LedgerType, NEW batch \in Seq(Messages), buf' = <<>>,
         nextSeq' \in [LedgerRuns -> Nat],
         \A r \in LedgerRuns : nextSeq'[r] = nextSeq[r] + StepsOf(r, batch, Len(batch))
  PROVE  /\ \A r \in LedgerRuns : Held(r)' = nextSeq[r] + StepsOf(r, batch, Len(batch))
         /\ NumbersOn(buf)' /\ buf' \in Seq(Messages) /\ Len(buf') = 0
  <1>1. Len(buf') = 0
    OBVIOUS
  <1>2. \A r \in LedgerRuns : StepsOf(r, buf', Len(buf')) = 0
    BY <1>1, StepsCounted
  <1>3. \A r \in LedgerRuns : nextSeq'[r] + 0 = nextSeq'[r]
    OBVIOUS
  <1>4. \A r \in LedgerRuns : Held(r)' = nextSeq'[r]
    BY <1>2, <1>3 DEF Held
  <1>5. NumbersOn(buf)'
    BY <1>1 DEF NumbersOn
  <1> QED
    BY <1>1, <1>4, <1>5

LEMMA ReceiveKeeps ==
  ASSUME LedgerInv, WriterAlive, Receive
  PROVE  LedgerInv' /\ WriterAlive'
  <1> DEFINE L == Len(channel)
  <1>1. channel # <<>> /\ channel' = Tail(channel) /\ runRow' = runRow /\ sent' = sent
    BY DEF Receive
  <1>2. /\ LedgerType /\ StepsNumbered /\ NumbersOn(buf) /\ RowsWithin /\ RowsWhole
        /\ ChannelGoesOn /\ FlushesAreLast /\ AnsweredAreEmpty
    BY DEF LedgerInv, WriterAlive
  <1>3. Head(channel) = channel[1] /\ 1 \in 1 .. L /\ L \in Nat
    BY <1>1, <1>2, FirstAndRest, ChannelIsTyped
  <1>4. PICK m \in Messages : m = channel[1]
    BY <1>2, <1>3, ChannelIsTyped
  <1>5. m.run \in LedgerRuns /\ m.n \in Nat
    BY DEF Messages
  <1>6. m.n > 0 => m.n = Held(m.run) + 1
    BY <1>1, <1>2, <1>4, FirstIsNext
  <1>7. \A r \in LedgerRuns : Held(r) \in Nat
    BY <1>2, HeldIsNumber
  <1>8. /\ channel' \in Seq(Messages)
        /\ \A i \in 1 .. Len(channel') : i + 1 \in 1 .. L /\ channel'[i] = channel[i + 1]
    BY <1>1, <1>2, FirstAndRest
  <1>9. Len(channel') = L - 1
    BY <1>1, <1>2, FirstAndRest
  <1>10. \A r \in LedgerRuns : ending[r] \in {"flushed", "done"} =>
           /\ \A i \in 1 .. Len(channel') : channel'[i].run # r
           /\ m.run # r
    BY <1>2, <1>3, <1>4, <1>8 DEF AnsweredAreEmpty
  <1>11. ASSUME NEW i \in 1 .. Len(channel'), channel'[i].n = 0
         PROVE  /\ ending[channel'[i].run] = "waiting"
                /\ \A j \in i + 1 .. Len(channel') : channel'[j].run # channel'[i].run
    <2>1. i + 1 \in 1 .. L /\ channel'[i] = channel[i + 1]
      BY <1>8
    <2>2. /\ ending[channel[i + 1].run] = "waiting"
          /\ \A j \in (i + 1) + 1 .. L : channel[j].run # channel[i + 1].run
      BY <1>2, <1>11, <2>1 DEF FlushesAreLast
    <2>3. ASSUME NEW j \in i + 1 .. Len(channel') PROVE channel'[j].run # channel'[i].run
      <3>1. j \in 1 .. Len(channel') /\ j + 1 \in (i + 1) + 1 .. L
        BY <1>3, <1>9
      <3>2. channel'[j] = channel[j + 1]
        BY <1>8, <3>1
      <3> QED
        BY <2>1, <2>2, <3>1, <3>2
    <2> QED
      BY <2>1, <2>2, <2>3
  <1> DEFINE grown == Append(buf, m)
  <1>12. m.n > 0 =>
           /\ grown \in Seq(Messages) /\ NumbersOn(grown) /\ Len(grown) = Len(buf) + 1
           /\ \A i \in 1 .. Len(buf) : grown[i] = buf[i]
           /\ grown[Len(buf) + 1] = m
           /\ \A r \in LedgerRuns : nextSeq[r] + StepsOf(r, grown, Len(grown))
                                      = IF m.run = r THEN Held(r) + 1 ELSE Held(r)
    BY <1>2, <1>6, BatchGoesOn
  <1> HIDE DEF grown, L
  <1>13. CASE m.n > 0 /\ buf' = grown /\ UNCHANGED <<nextSeq, stepRows, ending, faulty>>
    <2>1. \A r \in LedgerRuns : Held(r)' = IF m.n > 0 /\ m.run = r THEN Held(r) + 1 ELSE Held(r)
      BY <1>12, <1>13 DEF Held
    <2>2. ChannelGoesOn'
      BY <1>1, <1>2, <1>4, <2>1, ChannelMovesOn
    <2>3. LedgerType'
      BY <1>1, <1>2, <1>8, <1>12, <1>13 DEF LedgerType
    <2>4. NumbersOn(buf)'
      BY <1>12, <1>13 DEF NumbersOn
    <2>5. StepsNumbered' /\ RowsWithin' /\ RowsWhole'
      BY <1>2, <1>13 DEF StepsNumbered, RowsWithin, RowsWhole
    <2>6. FlushesAreLast'
      BY <1>11, <1>13 DEF FlushesAreLast
    <2>7. AnsweredAreEmpty'
      <3> SUFFICES ASSUME NEW r \in LedgerRuns, ending[r] \in {"flushed", "done"}
                   PROVE  /\ \A i \in 1 .. Len(channel') : channel'[i].run # r
                          /\ \A i \in 1 .. Len(buf') : buf'[i].run # r
        BY <1>13 DEF AnsweredAreEmpty
      <3>1. Len(buf) \in Nat /\ \A i \in 1 .. Len(buf) : buf[i].run # r
        BY <1>2 DEF AnsweredAreEmpty, LedgerType
      <3>2. \A i \in 1 .. Len(buf) + 1 : i \in 1 .. Len(buf) \/ i = Len(buf) + 1
        BY <3>1
      <3>3. \A i \in 1 .. Len(buf') : buf'[i].run # r
        BY <1>10, <1>12, <1>13, <3>1, <3>2
      <3> QED
        BY <1>10, <3>3
    <2>8. \A r \in LedgerRuns : runRow'[r] = "ended" => ending'[r] = "done"
      BY <1>1, <1>13 DEF WriterAlive
    <2> QED
      BY <2>2, <2>3, <2>4, <2>5, <2>6, <2>7, <2>8 DEF LedgerInv, WriterAlive
  <1>14. CASE m.n > 0 /\ Flush(grown) /\ UNCHANGED ending
    <2>1. /\ buf' = <<>> /\ nextSeq' \in [LedgerRuns -> Nat]
          /\ \A r \in LedgerRuns : nextSeq'[r] = nextSeq[r] + StepsOf(r, grown, Len(grown))
          /\ stepRows' \in Seq(StepRowForms) /\ faulty' \in BOOLEAN
          /\ StepsNumbered' /\ RowsWithin' /\ RowsWhole'
      BY <1>2, <1>12, <1>14, FlushKeeps
    <2>2. /\ \A r \in LedgerRuns : Held(r)' = nextSeq[r] + StepsOf(r, grown, Len(grown))
          /\ NumbersOn(buf)' /\ buf' \in Seq(Messages) /\ Len(buf') = 0
      BY <1>2, <1>12, <1>14, <2>1, FlushedHolds
    <2>3. \A r \in LedgerRuns : Held(r)' = IF m.n > 0 /\ m.run = r THEN Held(r) + 1 ELSE Held(r)
      BY <1>12, <1>14, <2>2
    <2>4. ChannelGoesOn'
      BY <1>1, <1>2, <1>4, <2>3, ChannelMovesOn
    <2>5. LedgerType'
      BY <1>1, <1>2, <1>8, <1>14, <2>1, <2>2 DEF LedgerType
    <2>6. FlushesAreLast'
      BY <1>11, <1>14 DEF FlushesAreLast
    <2>7. AnsweredAreEmpty'
      BY <1>10, <1>14, <2>2 DEF AnsweredAreEmpty
    <2>8. \A r \in LedgerRuns : runRow'[r] = "ended" => ending'[r] = "done"
      BY <1>1, <1>14 DEF WriterAlive
    <2> QED
      BY <2>1, <2>2, <2>4, <2>5, <2>6, <2>7, <2>8 DEF LedgerInv, WriterAlive
  <1>15. CASE m.n = 0 /\ Flush(buf) /\ ending' = [ending EXCEPT ![m.run] = "flushed"]
    <2>1. buf \in Seq(Messages)
      BY <1>2 DEF LedgerType
    <2>2. /\ buf' = <<>> /\ nextSeq' \in [LedgerRuns -> Nat]
          /\ \A r \in LedgerRuns : nextSeq'[r] = nextSeq[r] + StepsOf(r, buf, Len(buf))
          /\ stepRows' \in Seq(StepRowForms) /\ faulty' \in BOOLEAN
          /\ StepsNumbered' /\ RowsWithin' /\ RowsWhole'
      BY <1>2, <1>15, <2>1, FlushKeeps
    <2>3. /\ \A r \in LedgerRuns : Held(r)' = nextSeq[r] + StepsOf(r, buf, Len(buf))
          /\ NumbersOn(buf)' /\ buf' \in Seq(Messages) /\ Len(buf') = 0
      BY <1>2, <2>1, <2>2, FlushedHolds
    <2>4. \A r \in LedgerRuns : Held(r)' = IF m.n > 0 /\ m.run = r THEN Held(r) + 1 ELSE Held(r)
      BY <1>15, <2>3 DEF Held
    <2>5. ChannelGoesOn'
      BY <1>1, <1>2, <1>4, <2>4, ChannelMovesOn
    <2>6. /\ ending' \in [LedgerRuns -> {"no", "waiting", "flushed", "done"}]
          /\ ending'[m.run] = "flushed"
          /\ \A r \in LedgerRuns \ {m.run} : ending'[r] = ending[r]
      BY <1>2, <1>5, <1>15 DEF LedgerType
    <2>7. LedgerType'
      BY <1>1, <1>2, <1>8, <2>2, <2>3, <2>6 DEF LedgerType
    <2>8. ending[m.run] = "waiting" /\ \A j \in 2 .. L : channel[j].run # m.run
      BY <1>2, <1>3, <1>4, <1>15 DEF FlushesAreLast, L
    <2>9. \A i \in 1 .. Len(channel') : channel'[i].run # m.run /\ channel'[i].run \in LedgerRuns
      <3> SUFFICES ASSUME NEW i \in 1 .. Len(channel')
                   PROVE  channel'[i].run # m.run /\ channel'[i].run \in LedgerRuns
        OBVIOUS
      <3>1. i + 1 \in 2 .. L /\ channel'[i] = channel[i + 1] /\ i + 1 \in 1 .. L
        BY <1>8
      <3> QED
        BY <1>2, <2>8, <3>1, ChannelIsTyped DEF L
    <2>10. FlushesAreLast'
      BY <1>11, <2>6, <2>9 DEF FlushesAreLast
    <2>11. AnsweredAreEmpty'
      BY <1>10, <2>3, <2>6, <2>9 DEF AnsweredAreEmpty
    <2>12. \A r \in LedgerRuns : runRow'[r] = "ended" => ending'[r] = "done"
      BY <1>1, <2>6, <2>8 DEF WriterAlive
    <2> QED
      BY <2>2, <2>3, <2>5, <2>7, <2>10, <2>11, <2>12 DEF LedgerInv, WriterAlive
  <1> QED
    <2>1. \/ m.n > 0 /\ buf' = grown /\ UNCHANGED <<nextSeq, stepRows, ending, faulty>>
          \/ m.n > 0 /\ Flush(grown) /\ UNCHANGED ending
          \/ m.n = 0 /\ Flush(buf) /\ ending' = [ending EXCEPT ![m.run] = "flushed"]
      BY <1>3, <1>4 DEF Receive, Acknowledge, grown
    <2> QED
      BY <1>13, <1>14, <1>15, <2>1

LEMMA TimerKeeps ==
  ASSUME LedgerInv, WriterAlive, FlushTimer
  PROVE  LedgerInv' /\ WriterAlive'
  <1>1. Flush(buf) /\ UNCHANGED <<runRow, sent, channel, ending>>
    BY DEF FlushTimer
  <1>2. /\ LedgerType /\ StepsNumbered /\ NumbersOn(buf) /\ RowsWithin /\ RowsWhole
        /\ ChannelGoesOn /\ FlushesAreLast /\ AnsweredAreEmpty /\ buf \in Seq(Messages)
    BY DEF LedgerInv, WriterAlive, LedgerType
  <1>3. /\ buf' = <<>> /\ nextSeq' \in [LedgerRuns -> Nat]
        /\ \A r \in LedgerRuns : nextSeq'[r] = nextSeq[r] + StepsOf(r, buf, Len(buf))
        /\ stepRows' \in Seq(StepRowForms) /\ faulty' \in BOOLEAN
        /\ StepsNumbered' /\ RowsWithin' /\ RowsWhole'
    BY <1>1, <1>2, FlushKeeps
  <1>4. /\ \A r \in LedgerRuns : Held(r)' = nextSeq[r] + StepsOf(r, buf, Len(buf))
        /\ NumbersOn(buf)' /\ buf' \in Seq(Messages) /\ Len(buf') = 0
    BY <1>2, <1>3, FlushedHolds
  <1>5. \A r \in LedgerRuns : Held(r)' = Held(r)
    BY <1>4 DEF Held
  <1>6. LedgerType'
    BY <1>1, <1>2, <1>3, <1>4 DEF LedgerType
  <1>7. ChannelGoesOn'
    BY <1>1, <1>2, <1>5 DEF ChannelGoesOn
  <1>8. FlushesAreLast' /\ AnsweredAreEmpty'
    BY <1>1, <1>2, <1>4 DEF FlushesAreLast, AnsweredAreEmpty
  <1>9. \A r \in LedgerRuns : runRow'[r] = "ended" => ending'[r] = "done"
    BY <1>1 DEF WriterAlive
  <1> QED
    BY <1>3, <1>4, <1>6, <1>7, <1>8, <1>9 DEF LedgerInv, WriterAlive

\* What a caller appends to the channel: the next step of its run, or the flush it
\* waits for.
LEMMA CallerKeeps ==
  ASSUME LedgerInv, WriterAlive, NEW r \in LedgerRuns, Step(r) \/ FinishFlush(r)
  PROVE  LedgerInv' /\ WriterAlive'
  <1> DEFINE L == Len(channel)
             n == IF Step(r) THEN sent[r] + 1 ELSE 0
             m == [run |-> r, n |-> n]
  <1>1. /\ LedgerType /\ StepsNumbered /\ NumbersOn(buf) /\ RowsWithin /\ RowsWhole
        /\ ChannelGoesOn /\ FlushesAreLast /\ AnsweredAreEmpty
    BY DEF LedgerInv, WriterAlive
  <1>2. \A q \in LedgerRuns : Held(q) \in Nat /\ sent[q] \in Nat
    BY <1>1, HeldIsNumber
  <1>3. ending[r] = "no" /\ UNCHANGED <<runRow, buf, nextSeq, stepRows, faulty>>
    BY DEF Step, FinishFlush, Open
  <1>4. PICK k \in Nat : k = n
    BY <1>2
  <1>5. PICK msg \in Messages : msg.run = r /\ msg.n = k /\ channel' = Append(channel, msg)
    BY <1>4 DEF Step, FinishFlush, StepMsg, FlushMsg, Messages
  <1>6. /\ sent' \in [LedgerRuns -> Nat] /\ \A q \in LedgerRuns \ {r} : sent'[q] = sent[q]
        /\ \/ k = sent[r] + 1 /\ sent'[r] = k
           \/ k = 0 /\ sent'[r] = sent[r]
    BY <1>1, <1>2, <1>4 DEF Step, FinishFlush, LedgerType
  <1>7. /\ ending' \in [LedgerRuns -> {"no", "waiting", "flushed", "done"}]
        /\ \A q \in LedgerRuns \ {r} : ending'[q] = ending[q]
        /\ \/ k > 0 /\ ending'[r] = "no"
           \/ k = 0 /\ ending'[r] = "waiting"
    <2>1. CASE Step(r)
      <3>1. k > 0 /\ ending' = ending
        BY <1>2, <1>4, <2>1 DEF Step
      <3> QED
        BY <1>1, <1>3, <3>1 DEF LedgerType
    <2>2. CASE ~Step(r)
      <3>1. k = 0 /\ ending' = [ending EXCEPT ![r] = "waiting"]
        BY <1>4, <2>2 DEF FinishFlush
      <3> QED
        BY <1>1, <3>1 DEF LedgerType
    <2> QED
      BY <2>1, <2>2
  <1> HIDE DEF L, n, m
  <1>8. /\ channel' \in Seq(Messages) /\ Len(channel') = L + 1 /\ L \in Nat
        /\ \A i \in 1 .. L : channel'[i] = channel[i]
        /\ channel'[L + 1] = msg
    BY <1>1, <1>5, AppendProperties DEF LedgerType, L
  <1>9. \A i \in 1 .. L + 1 : i \in 1 .. L \/ i = L + 1
    BY <1>8
  <1>10. \A i \in 1 .. L : channel[i].run \in LedgerRuns /\ channel[i].n \in Nat
    BY <1>1, ChannelIsTyped DEF L
  <1>11. LedgerType'
    BY <1>1, <1>3, <1>6, <1>7, <1>8 DEF LedgerType
  <1>12. \A q \in LedgerRuns : Held(q)' = Held(q)
    BY <1>3 DEF Held
  <1>13. \A q \in LedgerRuns : sent[q] <= sent'[q] /\ sent'[q] \in Nat
    BY <1>2, <1>6
  <1>14. ChannelGoesOn'
    <2>1. \A q \in LedgerRuns : Held(q)' <= sent'[q]
      BY <1>1, <1>2, <1>12, <1>13 DEF ChannelGoesOn
    <2>2. ASSUME NEW q \in LedgerRuns, NEW i \in 1 .. L + 1, channel'[i].run = q, channel'[i].n > 0
          PROVE  Held(q)' < channel'[i].n /\ channel'[i].n <= sent'[q]
      <3>1. CASE i \in 1 .. L
        <4>1. channel'[i] = channel[i] /\ channel[i].n \in Nat
          BY <1>8, <1>10, <3>1
        <4>2. Held(q) < channel[i].n /\ channel[i].n <= sent[q]
          BY <1>1, <2>2, <3>1, <4>1 DEF ChannelGoesOn, L
        <4> QED
          BY <1>2, <1>12, <1>13, <4>1, <4>2
      <3>2. CASE i = L + 1
        <4>1. channel'[i].n = k /\ q = r /\ k = sent[r] + 1 /\ sent'[r] = k
          BY <1>5, <1>6, <1>8, <2>2, <3>2
        <4>2. Held(r) <= sent[r]
          BY <1>1 DEF ChannelGoesOn
        <4> QED
          BY <1>2, <1>12, <4>1, <4>2
      <3> QED
        BY <1>9, <3>1, <3>2
    <2>3. ASSUME NEW i \in 1 .. L + 1, NEW j \in 1 .. L + 1, i < j,
                 channel'[i].run = channel'[j].run, channel'[i].n > 0, channel'[j].n > 0
          PROVE  channel'[i].n < channel'[j].n
      <3>1. i \in 1 .. L /\ channel'[i] = channel[i]
        BY <1>8, <2>3
      <3>2. CASE j \in 1 .. L
        BY <1>1, <1>8, <2>3, <3>1, <3>2 DEF ChannelGoesOn, L
      <3>3. CASE j = L + 1
        <4>1. channel'[j].n = k /\ channel[i].run = r /\ k = sent[r] + 1
          BY <1>5, <1>6, <1>8, <2>3, <3>1, <3>3
        <4>2. channel[i].n <= sent[r] /\ channel[i].n \in Nat
          BY <1>1, <1>10, <2>3, <3>1, <4>1 DEF ChannelGoesOn, L
        <4> QED
          BY <1>2, <3>1, <4>1, <4>2
      <3> QED
        BY <1>9, <3>2, <3>3
    <2>4. ASSUME NEW q \in LedgerRuns, NEW h \in Nat, Held(q)' < h, h <= sent'[q]
          PROVE  \E i \in 1 .. L + 1 : channel'[i] = StepMsg(q, h)
      <3>1. CASE h <= sent[q]
        <4>1. PICK i \in 1 .. L : channel[i] = StepMsg(q, h)
          BY <1>1, <1>12, <2>4, <3>1 DEF ChannelGoesOn, L
        <4> QED
          BY <1>8, <4>1
      <3>2. CASE sent[q] < h
        <4>1. q = r /\ h = k
          BY <1>2, <1>6, <2>4, <3>2
        <4>2. msg = StepMsg(q, h)
          BY <1>5, <4>1 DEF StepMsg, Messages
        <4>3. L + 1 \in 1 .. L + 1
          BY <1>8
        <4> QED
          BY <1>8, <4>2, <4>3
      <3> QED
        BY <1>2, <3>1, <3>2
    <2> QED
      BY <1>8, <2>1, <2>2, <2>3, <2>4 DEF ChannelGoesOn
  <1>15. FlushesAreLast'
    <2> SUFFICES ASSUME NEW i \in 1 .. L + 1, channel'[i].n = 0
                 PROVE  /\ ending'[channel'[i].run] = "waiting"
                        /\ \A j \in i + 1 .. L + 1 : channel'[j].run # channel'[i].run
      BY <1>8 DEF FlushesAreLast
    <2>1. CASE i \in 1 .. L
      <3>1. channel'[i] = channel[i] /\ channel[i].run \in LedgerRuns
        BY <1>8, <1>10, <2>1
      <3>2. /\ ending[channel[i].run] = "waiting"
            /\ \A j \in i + 1 .. L : channel[j].run # channel[i].run
        BY <1>1, <2>1, <3>1 DEF FlushesAreLast, L
      <3>3. channel[i].run # r
        BY <1>3, <3>2
      <3>4. \A j \in i + 1 .. L + 1 : (j \in i + 1 .. L /\ j \in 1 .. L) \/ j = L + 1
        BY <1>8
      <3>5. \A j \in i + 1 .. L + 1 : channel'[j].run # channel[i].run
        BY <1>5, <1>8, <3>2, <3>3, <3>4
      <3> QED
        BY <1>7, <3>1, <3>2, <3>3, <3>5
    <2>2. CASE i = L + 1
      <3>1. channel'[i].run = r /\ k = 0
        BY <1>5, <1>8, <2>2
      <3>2. \A j \in i + 1 .. L + 1 : FALSE
        BY <1>8, <2>2
      <3> QED
        BY <1>7, <3>1, <3>2
    <2> QED
      BY <1>9, <2>1, <2>2
  <1>16. AnsweredAreEmpty'
    <2> SUFFICES ASSUME NEW q \in LedgerRuns, ending'[q] \in {"flushed", "done"}
                 PROVE  /\ \A i \in 1 .. L + 1 : channel'[i].run # q
                        /\ \A i \in 1 .. Len(buf) : buf[i].run # q
      BY <1>3, <1>8 DEF AnsweredAreEmpty
    <2>1. q # r /\ ending[q] \in {"flushed", "done"}
      BY <1>7
    <2>2. /\ \A i \in 1 .. L : channel[i].run # q
          /\ \A i \in 1 .. Len(buf) : buf[i].run # q
      BY <1>1, <2>1 DEF AnsweredAreEmpty, L
    <2> QED
      BY <1>5, <1>8, <1>9, <2>1, <2>2
  <1>17. \A q \in LedgerRuns : runRow'[q] = "ended" => ending'[q] = "done"
    BY <1>3, <1>7 DEF WriterAlive
  <1>18. StepsNumbered' /\ NumbersOn(buf)' /\ RowsWithin' /\ RowsWhole'
    BY <1>1, <1>3 DEF StepsNumbered, NumbersOn, RowsWithin, RowsWhole
  <1> QED
    BY <1>11, <1>14, <1>15, <1>16, <1>17, <1>18 DEF LedgerInv, WriterAlive

LEMMA RowKeeps ==
  ASSUME LedgerInv, WriterAlive, NEW r \in LedgerRuns, BeginRun(r) \/ FinishRow(r)
  PROVE  LedgerInv' /\ WriterAlive'
  <1>1. /\ LedgerType /\ StepsNumbered /\ NumbersOn(buf) /\ RowsWithin /\ RowsWhole
        /\ ChannelGoesOn /\ FlushesAreLast /\ AnsweredAreEmpty
    BY DEF LedgerInv, WriterAlive
  <1>2. UNCHANGED <<sent, channel, buf, nextSeq, stepRows, faulty>>
    BY DEF BeginRun, FinishRow
  <1>3. /\ StepsNumbered' /\ NumbersOn(buf)' /\ RowsWithin' /\ RowsWhole'
        /\ \A q \in LedgerRuns : Held(q)' = Held(q)
    BY <1>1, <1>2 DEF StepsNumbered, NumbersOn, RowsWithin, RowsWhole, Held
  <1>4. ChannelGoesOn'
    BY <1>1, <1>2, <1>3 DEF ChannelGoesOn
  <1>5. \A q \in LedgerRuns : runRow[q] = "ended" => ending[q] = "done"
    BY DEF WriterAlive
  <1>6. CASE BeginRun(r)
    <2>1. /\ runRow' \in [LedgerRuns -> {"none", "running", "absent", "ended"}]
          /\ \A q \in LedgerRuns : runRow'[q] = "ended" => runRow[q] = "ended"
          /\ ending' = ending
      BY <1>1, <1>6 DEF BeginRun, LedgerType
    <2>2. LedgerType'
      BY <1>1, <1>2, <2>1 DEF LedgerType
    <2>3. FlushesAreLast' /\ AnsweredAreEmpty'
      BY <1>1, <1>2, <2>1 DEF FlushesAreLast, AnsweredAreEmpty
    <2> QED
      BY <1>3, <1>4, <1>5, <2>1, <2>2, <2>3 DEF LedgerInv, WriterAlive
  <1>7. CASE FinishRow(r)
    <2>1. /\ runRow' \in [LedgerRuns -> {"none", "running", "absent", "ended"}]
          /\ \A q \in LedgerRuns \ {r} : runRow'[q] = runRow[q]
          /\ ending' \in [LedgerRuns -> {"no", "waiting", "flushed", "done"}]
          /\ \A q \in LedgerRuns \ {r} : ending'[q] = ending[q]
          /\ ending[r] = "flushed" /\ ending'[r] = "done"
      BY <1>1, <1>7 DEF FinishRow, LedgerType
    <2>2. LedgerType'
      BY <1>1, <1>2, <2>1 DEF LedgerType
    <2>3. \A i \in 1 .. Len(channel) : channel[i].run \in LedgerRuns
      BY <1>1, ChannelIsTyped
    <2>4. FlushesAreLast'
      <3>1. \A i \in 1 .. Len(channel) : channel[i].n = 0 => channel[i].run # r
        BY <1>1, <2>1 DEF FlushesAreLast
      <3> QED
        BY <1>1, <1>2, <2>1, <2>3, <3>1 DEF FlushesAreLast
    <2>5. AnsweredAreEmpty'
      <3>1. \A q \in LedgerRuns : ending'[q] \in {"flushed", "done"}
                                    => ending[q] \in {"flushed", "done"}
        BY <2>1
      <3> QED
        BY <1>1, <1>2, <3>1 DEF AnsweredAreEmpty
    <2>6. \A q \in LedgerRuns : runRow'[q] = "ended" => ending'[q] = "done"
      BY <1>5, <2>1
    <2> QED
      BY <1>3, <1>4, <2>2, <2>4, <2>5, <2>6 DEF LedgerInv, WriterAlive
  <1> QED
    BY <1>6, <1>7

LEMMA LedgerCrashKeeps ==
  ASSUME LedgerInv, LedgerCrash
  PROVE  LedgerInv' /\ WriterDown'
  <1>1. /\ channel' = <<>> /\ buf' = <<>> /\ nextSeq' = [r \in LedgerRuns |-> 0]
        /\ ending' = [r \in LedgerRuns |-> "done"] /\ faulty' = TRUE
        /\ runRow' = [r \in LedgerRuns |-> IF runRow[r] = "none" THEN "absent" ELSE runRow[r]]
        /\ UNCHANGED <<sent, stepRows>>
    BY DEF LedgerCrash
  <1>2. LedgerType /\ StepsNumbered
    BY DEF LedgerInv
  <1>3. /\ runRow' \in [LedgerRuns -> {"none", "running", "absent", "ended"}]
        /\ \A r \in LedgerRuns : runRow'[r] # "none"
        /\ ending' \in [LedgerRuns -> {"no", "waiting", "flushed", "done"}]
        /\ nextSeq' \in [LedgerRuns -> Nat]
    BY <1>1, <1>2 DEF LedgerType
  <1>4. <<>> \in Seq(Messages)
    OBVIOUS
  <1>5. LedgerType'
    BY <1>1, <1>2, <1>3, <1>4 DEF LedgerType
  <1>6. StepsNumbered'
    BY <1>1, <1>2 DEF StepsNumbered
  <1>7. WriterDown'
    BY <1>1, <1>3 DEF WriterDown
  <1> QED
    BY <1>5, <1>6, <1>7 DEF LedgerInv

\* The account of a run is whole and in order when its row closes, whatever runs share
\* the writer's batches (agent/ledger_sqlite.rs).
THEOREM AccountsAreKept == LedgerSpec => []LedgerKept
  <1>1. LedgerInit => LedgerInv
    <2> SUFFICES ASSUME LedgerInit PROVE LedgerInv
      OBVIOUS
    <2>1. Len(buf) = 0 /\ Len(channel) = 0 /\ Len(stepRows) = 0 /\ DOMAIN stepRows = {}
          /\ <<>> \in Seq(Messages) /\ <<>> \in Seq(StepRowForms)
      BY DEF LedgerInit
    <2>2. LedgerType
      BY <2>1 DEF LedgerInit, LedgerType
    <2>3. \A r \in LedgerRuns : StepsOf(r, buf, Len(buf)) = 0
                                /\ StepsOf(r, stepRows, Len(stepRows)) = 0
      BY <2>1, StepsCounted
    <2>4. \A r \in LedgerRuns : nextSeq[r] = 0 /\ sent[r] = 0 /\ Held(r) = 0
      BY <2>3 DEF LedgerInit, Held
    <2>5. NumbersOn(buf) /\ RowsWithin /\ StepsNumbered /\ FlushesAreLast /\ AnsweredAreEmpty
      BY <2>1 DEF NumbersOn, RowsWithin, StepsNumbered, FlushesAreLast, AnsweredAreEmpty
    <2>6. RowsWhole /\ ChannelGoesOn
      BY <2>1, <2>3, <2>4 DEF RowsWhole, ChannelGoesOn
    <2>7. \A r \in LedgerRuns : runRow[r] # "ended"
      BY DEF LedgerInit
    <2> QED
      BY <2>2, <2>5, <2>6, <2>7 DEF LedgerInv, WriterAlive
  <1>2. LedgerInv /\ [LedgerNext]_ledgerVars => LedgerInv'
    <2> SUFFICES ASSUME LedgerInv, [LedgerNext]_ledgerVars PROVE LedgerInv'
      OBVIOUS
    <2>1. CASE UNCHANGED ledgerVars
      <3>1. UNCHANGED <<runRow, sent, channel, buf, nextSeq, stepRows, ending, faulty>>
        BY <2>1 DEF ledgerVars
      <3>2. LedgerType' /\ StepsNumbered'
        BY <3>1 DEF LedgerInv, LedgerType, StepsNumbered
      <3>3. WriterDown => WriterDown'
        BY <3>1 DEF WriterDown
      <3>4. /\ ChannelGoesOn => ChannelGoesOn'
            /\ NumbersOn(buf) => NumbersOn(buf)'
            /\ RowsWithin => RowsWithin'
            /\ RowsWhole => RowsWhole'
        BY <3>1 DEF ChannelGoesOn, Held, NumbersOn, RowsWithin, RowsWhole
      <3>5. /\ FlushesAreLast => FlushesAreLast'
            /\ AnsweredAreEmpty => AnsweredAreEmpty'
        BY <3>1 DEF FlushesAreLast, AnsweredAreEmpty
      <3>6. WriterAlive => WriterAlive'
        BY <3>1, <3>4, <3>5 DEF WriterAlive
      <3> QED
        BY <3>2, <3>3, <3>6 DEF LedgerInv
    <2>2. CASE WriterDown /\ LedgerNext
      <3>1. LedgerCrash
        BY <2>2 DEF LedgerNext, WriterDown, BeginRun, Step, FinishFlush, FinishRow, Open,
                    Receive, FlushTimer
      <3> QED
        BY <3>1, LedgerCrashKeeps
    <2>3. CASE WriterAlive /\ LedgerNext
      BY <2>3, ReceiveKeeps, TimerKeeps, CallerKeeps, RowKeeps, LedgerCrashKeeps DEF LedgerNext
    <2> QED
      BY <2>1, <2>2, <2>3 DEF LedgerInv
  <1>3. LedgerInv => ClosedRunsAreComplete
    <2> SUFFICES ASSUME LedgerInv, NEW r \in LedgerRuns, runRow[r] = "ended", ~faulty
                 PROVE  StepsOf(r, stepRows, Len(stepRows)) = sent[r]
      BY DEF ClosedRunsAreComplete
    <2>1. LedgerType /\ WriterAlive
      BY DEF LedgerInv, WriterDown
    <2>2. ending[r] = "done" /\ ChannelGoesOn /\ AnsweredAreEmpty
      BY <2>1 DEF WriterAlive
    <2>3. /\ \A i \in 1 .. Len(channel) : channel[i].run # r
          /\ \A i \in 1 .. Len(buf) : buf[i].run # r
      BY <2>2 DEF AnsweredAreEmpty
    <2>4. Len(buf) \in Nat /\ nextSeq[r] \in Nat /\ sent[r] \in Nat /\ Held(r) \in Nat
      BY <2>1, HeldIsNumber DEF LedgerType
    <2>5. StepsOf(r, buf, Len(buf)) = 0
      BY <2>3, <2>4, StepsCounted
    <2>6. Held(r) = nextSeq[r] /\ Held(r) <= sent[r]
      BY <2>2, <2>4, <2>5 DEF Held, ChannelGoesOn
    <2>7. ~(Held(r) < sent[r])
      <3> SUFFICES ASSUME Held(r) < sent[r] PROVE FALSE
        OBVIOUS
      <3>1. PICK i \in 1 .. Len(channel) : channel[i] = StepMsg(r, sent[r])
        BY <2>2, <2>4 DEF ChannelGoesOn
      <3>2. channel[i].run = r
        BY <3>1 DEF StepMsg
      <3> QED
        BY <2>3, <3>2
    <2>8. StepsOf(r, stepRows, Len(stepRows)) = nextSeq[r]
      BY <2>1 DEF WriterAlive, RowsWhole
    <2> QED
      BY <2>4, <2>6, <2>7, <2>8
  <1>4. LedgerInv => LedgerKept
    BY <1>3 DEF LedgerInv, LedgerKept
  <1> QED
    BY <1>1, <1>2, <1>4, PTL DEF LedgerSpec
-----------------------------------------------------------------------------
(***************************************************************************)
(* Mcp.  Whoever holds the session is the only one to ask: what its        *)
(* process still owes to others has lower numbers, and a process that      *)
(* shakes hands was asked for nothing else.                                *)
(***************************************************************************)
Lines == [id : Nat, to : Calls \cup {NoCaller}]
Processes == [alive : BOOLEAN, stdin : SUBSET Lines, out : Seq(Lines), shook : BOOLEAN]
OutcomesOf(c) == {"nothing", "process down", "network", "server", "timeout", NoCaller, c}
Outcomes == UNION {OutcomesOf(c) : c \in Calls}
CallStates == [at : {"idle", "lock", "ensure", "send", "shake", "wait", "done"},
               id : Nat, child : Nat, got : Outcomes]
McpType ==
  /\ children \in Seq(Processes)
  /\ inner \in 0 .. Len(children) /\ nextId \in Nat /\ mutex \in Calls \cup {NoCaller}
  /\ call \in [Calls -> CallStates]
\* what a process owes or has printed in answer to a call
Said(child) == {l \in child.stdin \cup ToSet(child.out) : l.to # NoCaller}
Holding == {"ensure", "send", "shake", "wait"}
HolderIsOne == \A c \in Calls : call[c].at \in Holding => mutex = c
AnswersAreOld == inner # 0 => \A l \in Said(children[inner]) : l.id < nextId
SenderIsConnected == \A c \in Calls : call[c].at = "send" => inner # 0
ShakesAlone == \A c \in Calls : call[c].at = "shake" =>
  /\ inner = 0 /\ call[c].child \in 1 .. Len(children) /\ call[c].id = 1
  /\ \A l \in Said(children[call[c].child]) : l.id = 1 /\ l.to = c
WaitsForOwn == \A c \in Calls : call[c].at = "wait" =>
  /\ inner # 0 /\ call[c].child = inner /\ call[c].id < nextId
  /\ \A l \in Said(children[inner]) : l.id = call[c].id => l.to = c
SessionInv == /\ McpType /\ HolderIsOne /\ AnswersAreOld /\ SenderIsConnected /\ ShakesAlone
              /\ WaitsForOwn /\ AnswerIsOwn /\ NoStrayServer
ServerRows == [known : BOOLEAN, enabled : BOOLEAN,
               status : {"disabled", "enabled", "connecting", "error"}, error : BOOLEAN]
SwitchInv == server \in ServerRows /\ EnabledIsWanted
-----------------------------------------------------------------------------
LEMMA NobodyHolds ==
  ASSUME SessionInv, mutex = NoCaller
  PROVE  \A c \in Calls : call[c].at \notin Holding
  BY McpConstants DEF SessionInv, HolderIsOne, NoCaller

LEMMA OneHolds ==
  ASSUME SessionInv, NEW c \in Calls, call[c].at \in Holding
  PROVE  mutex = c /\ \A d \in Calls \ {c} : call[d].at \notin Holding
  BY DEF SessionInv, HolderIsOne

\* No process owes or prints more answers than before.
NoLouder ==
  /\ children' \in Seq(Processes) /\ Len(children') = Len(children)
  /\ \A i \in 1 .. Len(children) :
       /\ Said(children'[i]) \subseteq Said(children[i])
       /\ children'[i].shook = children[i].shook
       /\ children'[i].alive => children[i].alive

LEMMA UnheardIsNoLouder == SessionInv /\ UNCHANGED children => NoLouder
  BY DEF NoLouder, SessionInv, McpType

LEMMA QuieterIsNoLouder ==
  ASSUME SessionInv, NEW p \in 1 .. Len(children), NEW q \in Processes,
         children' = [children EXCEPT ![p] = q],
         Said(q) \subseteq Said(children[p]), q.shook = children[p].shook,
         q.alive => children[p].alive
  PROVE  NoLouder
  <1>1. children \in Seq(Processes)
    BY DEF SessionInv, McpType
  <1> QED
    BY <1>1 DEF NoLouder

\* A process that said no more than before, after a step of its own.
LEMMA QuieterKeeps ==
  ASSUME SessionInv, NEW p \in 1 .. Len(children), NEW q \in Processes,
         children' = [children EXCEPT ![p] = q],
         Said(q) \subseteq Said(children[p]), q.shook = children[p].shook,
         q.alive => children[p].alive, UNCHANGED <<inner, nextId, mutex, call>>
  PROVE  SessionInv'
  <1>1. children \in Seq(Processes) /\ Len(children) \in Nat /\ inner \in 0 .. Len(children)
    BY DEF SessionInv, McpType
  <1>2. children' \in Seq(Processes) /\ Len(children') = Len(children)
    BY QuieterIsNoLouder DEF NoLouder
  <1>3. \A i \in 1 .. Len(children) :
          /\ Said(children'[i]) \subseteq Said(children[i])
          /\ children'[i].shook = children[i].shook
          /\ children'[i].alive => children[i].alive
    BY QuieterIsNoLouder DEF NoLouder
  <1>4. McpType'
    BY <1>1, <1>2 DEF SessionInv, McpType
  <1>5. HolderIsOne' /\ SenderIsConnected' /\ AnswerIsOwn'
    BY DEF SessionInv, HolderIsOne, SenderIsConnected, AnswerIsOwn
  <1>6. AnswersAreOld'
    BY <1>1, <1>3 DEF SessionInv, AnswersAreOld
  <1>7. ShakesAlone'
    BY <1>1, <1>2, <1>3 DEF SessionInv, ShakesAlone
  <1>8. WaitsForOwn'
    BY <1>1, <1>2, <1>3 DEF SessionInv, WaitsForOwn
  <1>9. NoStrayServer'
    BY <1>1, <1>2, <1>3 DEF SessionInv, NoStrayServer
  <1> QED
    BY <1>4, <1>5, <1>6, <1>7, <1>8, <1>9 DEF SessionInv

LEMMA SetOfAppend ==
  ASSUME NEW S, NEW s \in Seq(S), NEW x \in S
  PROVE  ToSet(Append(s, x)) = ToSet(s) \cup {x}
  <1> DEFINE t == Append(s, x)
  <1>1. /\ DOMAIN t = (DOMAIN s) \cup {Len(s) + 1} /\ t[Len(s) + 1] = x
        /\ \A i \in DOMAIN s : t[i] = s[i]
    OBVIOUS
  <1> HIDE DEF t
  <1> QED
    BY <1>1 DEF ToSet

LEMMA SaidIsLines == \A q \in Processes : Said(q) \subseteq Lines
  <1> SUFFICES ASSUME NEW q \in Processes PROVE Said(q) \subseteq Lines
    OBVIOUS
  <1>1. q.out \in Seq(Lines) /\ q.stdin \in SUBSET Lines
    BY DEF Processes
  <1>2. ToSet(q.out) \subseteq Lines
    BY <1>1 DEF ToSet
  <1> QED
    BY <1>1, <1>2 DEF Said

\* What a process prints of what it was asked, and what it prints unasked.
LEMMA SaidWhenPrinted ==
  ASSUME NEW q \in Processes, NEW l \in Lines
  PROVE  /\ l \in q.stdin =>
              Said([q EXCEPT !.stdin = @ \ {l}, !.out = Append(@, l)]) = Said(q)
         /\ l.to = NoCaller => Said([q EXCEPT !.out = Append(@, l)]) = Said(q)
         /\ [q EXCEPT !.stdin = @ \ {l}, !.out = Append(@, l)] \in Processes
         /\ [q EXCEPT !.out = Append(@, l)] \in Processes
  <1>1. q.out \in Seq(Lines) /\ q.stdin \in SUBSET Lines
    BY DEF Processes
  <1>2. ToSet(Append(q.out, l)) = ToSet(q.out) \cup {l}
    BY <1>1, SetOfAppend
  <1>3. Append(q.out, l) \in Seq(Lines)
    BY <1>1
  <1>4. /\ [q EXCEPT !.stdin = @ \ {l}, !.out = Append(@, l)] \in Processes
        /\ [q EXCEPT !.out = Append(@, l)] \in Processes
    BY <1>1, <1>3 DEF Processes
  <1>5. /\ [q EXCEPT !.stdin = @ \ {l}, !.out = Append(@, l)].stdin = q.stdin \ {l}
        /\ [q EXCEPT !.stdin = @ \ {l}, !.out = Append(@, l)].out = Append(q.out, l)
        /\ [q EXCEPT !.out = Append(@, l)].stdin = q.stdin
        /\ [q EXCEPT !.out = Append(@, l)].out = Append(q.out, l)
    BY DEF Processes
  <1> QED
    BY <1>2, <1>4, <1>5 DEF Said

LEMMA SaidWhenRead ==
  ASSUME NEW q \in Processes, q.out # <<>>
  PROVE  /\ [q EXCEPT !.out = Tail(@)] \in Processes
         /\ Said([q EXCEPT !.out = Tail(@)]) \subseteq Said(q)
         /\ Head(q.out) \in Lines
         /\ Head(q.out).to # NoCaller => Head(q.out) \in Said(q)
  <1>1. q.out \in Seq(Lines) /\ q.stdin \in SUBSET Lines
    BY DEF Processes
  <1>2. ToSet(Tail(q.out)) \subseteq ToSet(q.out) /\ Tail(q.out) \in Seq(Lines)
    BY <1>1 DEF ToSet
  <1>3. Head(q.out) \in Lines /\ Head(q.out) \in ToSet(q.out)
    BY <1>1 DEF ToSet
  <1>4. [q EXCEPT !.out = Tail(@)] \in Processes
    BY <1>1, <1>2 DEF Processes
  <1>5. /\ [q EXCEPT !.out = Tail(@)].stdin = q.stdin
        /\ [q EXCEPT !.out = Tail(@)].out = Tail(q.out)
    BY DEF Processes
  <1> QED
    BY <1>2, <1>3, <1>4, <1>5 DEF Said

\* A process that was killed says nothing new.
LEMMA KilledIs ==
  ASSUME NEW q \in Processes
  PROVE  LET k == [q EXCEPT !.alive = FALSE, !.stdin = {}]
         IN  k \in Processes /\ ~k.alive /\ k.shook = q.shook /\ Said(k) \subseteq Said(q)
  BY DEF Processes, Said

\* A process is asked one thing more.
LEMMA SaidWhenAsked ==
  ASSUME NEW q \in Processes, NEW id \in Nat, NEW c \in Calls
  PROVE  /\ [q EXCEPT !.stdin = @ \cup {Line(id, c)}] \in Processes
         /\ Said([q EXCEPT !.stdin = @ \cup {Line(id, c)}]) = Said(q) \cup {Line(id, c)}
         /\ [q EXCEPT !.stdin = @ \cup {Line(id, c)}].alive = q.alive
         /\ [q EXCEPT !.stdin = @ \cup {Line(id, c)}].shook = q.shook
  <1>1. Line(id, c) \in Lines /\ Line(id, c).to = c /\ c # NoCaller
    BY McpConstants DEF Line, Lines, NoCaller
  <1>2. [q EXCEPT !.stdin = @ \cup {Line(id, c)}] \in Processes
    BY <1>1 DEF Processes
  <1>3. /\ [q EXCEPT !.stdin = @ \cup {Line(id, c)}].stdin = q.stdin \cup {Line(id, c)}
        /\ [q EXCEPT !.stdin = @ \cup {Line(id, c)}].out = q.out
        /\ [q EXCEPT !.stdin = @ \cup {Line(id, c)}].alive = q.alive
        /\ [q EXCEPT !.stdin = @ \cup {Line(id, c)}].shook = q.shook
    BY DEF Processes
  <1> QED
    BY <1>1, <1>2, <1>3 DEF Said
-----------------------------------------------------------------------------
\* The steps of a server.
LEMMA ServerKeeps ==
  ASSUME SessionInv, NEW p \in DOMAIN children,
         \/ \E line \in children[p].stdin : ServerAnswers(p, line)
         \/ ServerSpeaks(p) \/ ServerDies(p)
  PROVE  SessionInv'
  <1>1. children \in Seq(Processes) /\ p \in 1 .. Len(children) /\ children[p] \in Processes
    BY DEF SessionInv, McpType
  <1> DEFINE q == children[p]
  <1>2. ASSUME NEW line \in children[p].stdin, ServerAnswers(p, line)
        PROVE  SessionInv'
    <2>1. line \in Lines
      BY <1>1 DEF Processes
    <2> DEFINE k == [q EXCEPT !.stdin = @ \ {line}, !.out = Append(@, line)]
    <2>2. /\ k \in Processes /\ Said(k) = Said(q) /\ k.shook = q.shook /\ k.alive = q.alive
      <3>1. k.shook = q.shook /\ k.alive = q.alive
        BY <1>1 DEF Processes
      <3> QED
        BY <1>1, <1>2, <2>1, <3>1, SaidWhenPrinted
    <2>3. children' = [children EXCEPT ![p] = k]
      BY <1>2 DEF ServerAnswers
    <2>4. UNCHANGED <<inner, nextId, mutex, call>>
      BY <1>2 DEF ServerAnswers
    <2> HIDE DEF k
    <2> QED
      BY <1>1, <2>2, <2>3, <2>4, QuieterKeeps
  <1>3. ASSUME ServerSpeaks(p)
        PROVE  SessionInv'
    <2>1. PICK id \in 0 .. 2 : Prints(p, Line(id, NoCaller))
      BY <1>3 DEF ServerSpeaks
    <2> DEFINE l == Line(id, NoCaller)
               k == [q EXCEPT !.out = Append(@, l)]
    <2>2. l \in Lines /\ l.to = NoCaller
      BY DEF Line, Lines
    <2>3. children' = [children EXCEPT ![p] = k]
      BY <2>1 DEF Prints
    <2> HIDE DEF l
    <2>4. /\ k \in Processes /\ Said(k) = Said(q) /\ k.shook = q.shook /\ k.alive = q.alive
      <3>1. k.shook = q.shook /\ k.alive = q.alive
        BY <1>1 DEF Processes
      <3> QED
        BY <1>1, <2>2, <3>1, SaidWhenPrinted
    <2>5. UNCHANGED <<inner, nextId, mutex, call>>
      BY <1>3 DEF ServerSpeaks
    <2> HIDE DEF k
    <2> QED
      BY <1>1, <2>3, <2>4, <2>5, QuieterKeeps
  <1>4. ASSUME ServerDies(p)
        PROVE  SessionInv'
    <2> DEFINE k == [q EXCEPT !.alive = FALSE, !.stdin = {}]
    <2>1. k \in Processes /\ ~k.alive /\ k.shook = q.shook /\ Said(k) \subseteq Said(q)
      BY <1>1, KilledIs
    <2>2. children' = [children EXCEPT ![p] = k]
      BY <1>4 DEF ServerDies, Kill
    <2>3. UNCHANGED <<inner, nextId, mutex, call>>
      BY <1>4 DEF ServerDies
    <2> HIDE DEF k
    <2> QED
      BY <1>1, <2>1, <2>2, <2>3, QuieterKeeps
  <1> QED
    BY <1>2, <1>3, <1>4

\* A process killed, or found dead, is the session's no more.
LEMMA LetGoKeeps ==
  ASSUME SessionInv, inner # 0, inner' = 0, children' = Kill(inner),
         UNCHANGED <<nextId, mutex, call>>,
         \A c \in Calls : call[c].at \notin {"send", "shake", "wait"}
  PROVE  SessionInv'
  <1> DEFINE k == [children[inner] EXCEPT !.alive = FALSE, !.stdin = {}]
  <1>1. children \in Seq(Processes) /\ inner \in 1 .. Len(children) /\ Len(children) \in Nat
    BY DEF SessionInv, McpType
  <1>2. children[inner] \in Processes
    BY <1>1
  <1>3. k \in Processes /\ ~k.alive /\ k.shook = children[inner].shook
    BY <1>2, KilledIs
  <1>4. children' = [children EXCEPT ![inner] = k]
    BY DEF Kill
  <1> HIDE DEF k
  <1>5. children' \in Seq(Processes) /\ Len(children') = Len(children)
    BY <1>1, <1>3, <1>4
  <1>6. McpType'
    BY <1>1, <1>5 DEF SessionInv, McpType
  <1>7. /\ HolderIsOne' /\ SenderIsConnected' /\ AnswerIsOwn' /\ AnswersAreOld'
        /\ ShakesAlone' /\ WaitsForOwn'
    BY DEF SessionInv, HolderIsOne, SenderIsConnected, AnswerIsOwn, AnswersAreOld, ShakesAlone,
           WaitsForOwn
  <1>8. NoStrayServer'
    BY <1>1, <1>3, <1>4, <1>5 DEF SessionInv, NoStrayServer
  <1> QED
    BY <1>6, <1>7, <1>8 DEF SessionInv

\* A call that returns without a foreign answer.
LEMMA ReturnKeeps ==
  ASSUME SessionInv, NEW c \in Calls, mutex = c, NEW got \in OutcomesOf(c), Returns(c, got),
         NoLouder, inner' = inner \/ (inner' = 0 /\ ~children[inner].alive),
         nextId' \in Nat, nextId' >= nextId
  PROVE  SessionInv'
  <1>1. /\ children \in Seq(Processes) /\ inner \in 0 .. Len(children) /\ Len(children) \in Nat
        /\ call \in [Calls -> CallStates] /\ nextId \in Nat
    BY DEF SessionInv, McpType
  <1>0. /\ children' \in Seq(Processes) /\ Len(children') = Len(children)
        /\ \A i \in 1 .. Len(children) :
             /\ Said(children'[i]) \subseteq Said(children[i])
             /\ children'[i].shook = children[i].shook
             /\ children'[i].alive => children[i].alive
    BY DEF NoLouder
  <1>2. call' = [call EXCEPT ![c].at = "done", ![c].got = got] /\ mutex' = NoCaller
    BY DEF Returns
  <1>3. /\ call' \in [Calls -> CallStates]
        /\ call'[c].at = "done" /\ call'[c].got = got
        /\ \A d \in Calls \ {c} : call'[d] = call[d]
    <2>1. got \in Outcomes
      BY DEF Outcomes
    <2> QED
      BY <1>1, <1>2, <2>1 DEF CallStates
  <1>4. \A d \in Calls : call'[d].at \notin Holding
    BY <1>3 DEF SessionInv, HolderIsOne, Holding
  <1>5. McpType'
    BY <1>0, <1>1, <1>2, <1>3 DEF McpType
  <1>6. HolderIsOne' /\ SenderIsConnected' /\ ShakesAlone' /\ WaitsForOwn'
    BY <1>4 DEF HolderIsOne, SenderIsConnected, ShakesAlone, WaitsForOwn, Holding
  <1>7. AnswersAreOld'
    <2> SUFFICES ASSUME inner' # 0, NEW l \in Said(children'[inner'])
                 PROVE  l.id < nextId'
      BY DEF AnswersAreOld
    <2>1. inner' = inner /\ inner \in 1 .. Len(children)
      BY <1>1
    <2>2. l \in Said(children[inner]) /\ children[inner] \in Processes
      <3>1. l \in Said(children'[inner])
        BY <2>1
      <3>2. Said(children'[inner]) \subseteq Said(children[inner])
        BY <1>0, <2>1
      <3> QED
        BY <1>1, <2>1, <3>1, <3>2
    <2>3. l.id \in Nat
      BY <2>2, SaidIsLines DEF Lines
    <2>4. l.id < nextId
      BY <2>1, <2>2 DEF SessionInv, AnswersAreOld
    <2>5. nextId' >= nextId /\ nextId' \in Nat
      OBVIOUS
    <2> QED
      BY <1>1, <2>3, <2>4, <2>5
  <1>8. AnswerIsOwn'
    BY <1>3 DEF SessionInv, AnswerIsOwn, OutcomesOf
  <1>9. NoStrayServer'
    <2> SUFFICES ASSUME NEW p \in 1 .. Len(children), children'[p].alive, children'[p].shook
                 PROVE  p = inner'
      BY <1>0, <1>1 DEF NoStrayServer
    <2>1. children[p].alive /\ children[p].shook
      BY <1>0
    <2>2. p = inner
      BY <1>1, <2>1 DEF SessionInv, NoStrayServer
    <2> QED
      BY <2>1, <2>2
  <1> QED
    BY <1>5, <1>6, <1>7, <1>8, <1>9 DEF SessionInv
\* A call that takes its next step while nothing else of the session changes.
LEMMA StepOf ==
  ASSUME SessionInv, NEW c \in Calls, NEW at, Moves(c, at),
         at \in {"idle", "lock", "ensure", "send", "shake", "wait", "done"}
  PROVE  /\ call' \in [Calls -> CallStates] /\ call'[c].at = at
         /\ call'[c].id = call[c].id /\ call'[c].child = call[c].child
         /\ call'[c].got = call[c].got
         /\ \A d \in Calls \ {c} : call'[d] = call[d]
  BY DEF SessionInv, McpType, Moves, CallStates

LEMMA BeginKeeps ==
  ASSUME SessionInv, NEW c \in Calls, Invoke(c) \/ LockSession(c) \/ FoundAlive(c)
  PROVE  SessionInv'
  <1>1. UNCHANGED <<children, inner, nextId>>
    BY DEF Invoke, LockSession, FoundAlive
  <1>2. CASE Invoke(c)
    <2>1. UNCHANGED mutex /\ Moves(c, "lock")
      BY <1>2 DEF Invoke
    <2>2. /\ call' \in [Calls -> CallStates] /\ call'[c].at = "lock"
          /\ call'[c].got = call[c].got
          /\ \A d \in Calls \ {c} : call'[d] = call[d]
      BY <2>1, StepOf
    <2>3. call[c].at = "idle"
      BY <1>2 DEF Invoke
    <2>4. HolderIsOne' /\ SenderIsConnected' /\ ShakesAlone' /\ WaitsForOwn'
      BY <1>1, <2>1, <2>2
         DEF SessionInv, HolderIsOne, SenderIsConnected, ShakesAlone, WaitsForOwn, Holding
    <2>5. McpType' /\ AnswersAreOld' /\ AnswerIsOwn' /\ NoStrayServer'
      BY <1>1, <2>1, <2>2
         DEF SessionInv, McpType, AnswersAreOld, AnswerIsOwn, NoStrayServer
    <2> QED
      BY <2>4, <2>5 DEF SessionInv
  <1>3. CASE LockSession(c)
    <2>1. mutex = NoCaller /\ mutex' = c /\ Moves(c, "ensure")
      BY <1>3 DEF LockSession
    <2>2. /\ call' \in [Calls -> CallStates] /\ call'[c].at = "ensure"
          /\ call'[c].got = call[c].got
          /\ \A d \in Calls \ {c} : call'[d] = call[d]
      BY <2>1, StepOf
    <2>3. \A d \in Calls \ {c} : call'[d].at \notin Holding
      BY <2>1, <2>2, NobodyHolds
    <2>4. HolderIsOne' /\ SenderIsConnected' /\ ShakesAlone' /\ WaitsForOwn'
      BY <2>1, <2>2, <2>3
         DEF HolderIsOne, SenderIsConnected, ShakesAlone, WaitsForOwn, Holding
    <2>5. McpType' /\ AnswersAreOld' /\ AnswerIsOwn' /\ NoStrayServer'
      BY <1>1, <2>1, <2>2
         DEF SessionInv, McpType, AnswersAreOld, AnswerIsOwn, NoStrayServer
    <2> QED
      BY <2>4, <2>5 DEF SessionInv
  <1>4. CASE FoundAlive(c)
    <2>1. UNCHANGED mutex /\ inner # 0 /\ call[c].at = "ensure" /\ Moves(c, "send")
      BY <1>4 DEF FoundAlive
    <2>2. /\ call' \in [Calls -> CallStates] /\ call'[c].at = "send"
          /\ call'[c].got = call[c].got
          /\ \A d \in Calls \ {c} : call'[d] = call[d]
      BY <2>1, StepOf
    <2> QED
      BY <1>1, <2>1, <2>2 DEF SessionInv, McpType, HolderIsOne, AnswersAreOld,
         SenderIsConnected, ShakesAlone, WaitsForOwn, AnswerIsOwn, NoStrayServer, Holding
  <1> QED
    BY <1>2, <1>3, <1>4

\* The holder at its first step finds the session connected to nothing it may wait for.
LEMMA RecycleKeeps ==
  ASSUME SessionInv, NEW c \in Calls, Recycle(c)
  PROVE  SessionInv'
  <1>1. /\ call[c].at = "ensure" /\ inner # 0 /\ inner' = 0 /\ children' = Kill(inner)
        /\ UNCHANGED <<nextId, mutex, call>>
    BY DEF Recycle
  <1>2. \A d \in Calls : call[d].at \notin {"send", "shake", "wait"}
    BY <1>1, OneHolds DEF Holding
  <1> QED
    BY <1>1, <1>2, LetGoKeeps

LEMMA ShutdownKeeps ==
  ASSUME SessionInv, Shutdown
  PROVE  SessionInv'
  <1>1. /\ mutex = NoCaller /\ inner # 0 /\ inner' = 0 /\ children' = Kill(inner)
        /\ UNCHANGED <<nextId, mutex, call>>
    BY DEF Shutdown
  <1>2. \A d \in Calls : call[d].at \notin {"send", "shake", "wait"}
    BY <1>1, NobodyHolds DEF Holding
  <1> QED
    BY <1>1, <1>2, LetGoKeeps

LEMMA GivesUpKeeps ==
  ASSUME SessionInv, NEW c \in Calls, FoundDead(c) \/ RpcTimeout(c)
  PROVE  SessionInv'
  <1>1. call[c].at \in Holding
    BY DEF FoundDead, RpcTimeout, Holding
  <1>2. mutex = c
    BY <1>1, OneHolds
  <1>3. nextId' = nextId /\ nextId \in Nat
    BY DEF FoundDead, RpcTimeout, SessionInv, McpType
  <1>4. UNCHANGED children /\ (inner' = inner \/ (inner' = 0 /\ ~children[inner].alive))
    BY DEF FoundDead, RpcTimeout
  <1> NoLouder
    BY <1>4, UnheardIsNoLouder
  <1>5. PICK got \in OutcomesOf(c) : Returns(c, got)
    BY DEF FoundDead, RpcTimeout, OutcomesOf
  <1> QED
    BY <1>2, <1>3, <1>4, <1>5, ReturnKeeps
\* A process is started, and asked to shake hands.
LEMMA SpawnKeeps ==
  ASSUME SessionInv, NEW c \in Calls, Spawn(c)
  PROVE  SessionInv'
  <1>1. /\ children \in Seq(Processes) /\ Len(children) \in Nat /\ inner = 0
        /\ call \in [Calls -> CallStates] /\ call[c].at = "ensure"
        /\ UNCHANGED <<inner, nextId>> /\ nextId \in Nat
    BY DEF SessionInv, McpType, Spawn
  <1>2. mutex = c /\ \A d \in Calls \ {c} : call[d].at \notin Holding
    BY <1>1, OneHolds DEF Holding
  <1>3. CASE Returns(c, "network") /\ UNCHANGED children
    <2>1. "network" \in OutcomesOf(c)
      BY DEF OutcomesOf
    <2>2. nextId' \in Nat /\ nextId' >= nextId
      BY <1>1
    <2> QED
      BY <1>1, <1>2, <1>3, <2>1, <2>2, UnheardIsNoLouder, ReturnKeeps
  <1>4. CASE /\ children' = Ask(Append(children, Child), Len(children) + 1, 1, c)
             /\ call' = [call EXCEPT ![c].at = "shake", ![c].id = 1,
                                     ![c].child = Len(children) + 1]
             /\ UNCHANGED mutex
    <2> DEFINE n == Len(children) + 1
               k == [Child EXCEPT !.stdin = @ \cup {Line(1, c)}]
    <2>1. Child \in Processes /\ Child.shook = FALSE /\ Said(Child) = {}
      BY DEF Child, Processes, Said, ToSet
    <2>2. k \in Processes /\ Said(k) = {Line(1, c)} /\ k.shook = FALSE
      BY <2>1, SaidWhenAsked
    <2>3. /\ children' \in Seq(Processes) /\ Len(children') = n /\ children'[n] = k
          /\ \A i \in 1 .. Len(children) : children'[i] = children[i]
      <3>1. children' = [Append(children, Child) EXCEPT ![n] = k]
        <4>1. Append(children, Child)[n] = Child
          BY <1>1
        <4> QED
          BY <1>4, <4>1 DEF Ask
      <3> HIDE DEF k
      <3> DEFINE more == Append(children, Child)
      <3>2. /\ more \in Seq(Processes) /\ Len(more) = n
            /\ \A i \in 1 .. Len(children) : more[i] = children[i]
        BY <1>1, <2>1
      <3> HIDE DEF more
      <3>3. children' = [more EXCEPT ![n] = k]
        BY <3>1 DEF more
      <3> QED
        BY <1>1, <2>2, <3>2, <3>3
    <2>4. /\ call' \in [Calls -> CallStates]
          /\ call'[c].at = "shake" /\ call'[c].id = 1 /\ call'[c].child = n
          /\ call'[c].got = call[c].got
          /\ \A d \in Calls \ {c} : call'[d] = call[d]
      <3> DEFINE r == [call[c] EXCEPT !.at = "shake", !.id = 1, !.child = n]
      <3>1. 1 \in Nat /\ n \in Nat /\ call[c] \in CallStates
        BY <1>1
      <3>2. /\ r \in CallStates /\ r.at = "shake" /\ r.id = 1 /\ r.child = n
            /\ r.got = call[c].got
        BY <3>1 DEF CallStates
      <3>3. call' = [call EXCEPT ![c] = r]
        BY <1>1, <1>4
      <3> HIDE DEF r
      <3> QED
        BY <1>1, <3>2, <3>3
    <2> HIDE DEF k
    <2>5. McpType'
      BY <1>1, <1>4, <2>3, <2>4 DEF SessionInv, McpType
    <2>6. HolderIsOne' /\ SenderIsConnected' /\ WaitsForOwn' /\ AnswersAreOld'
      BY <1>1, <1>2, <1>4, <2>4
         DEF HolderIsOne, SenderIsConnected, WaitsForOwn, AnswersAreOld, Holding
    <2>7. ShakesAlone'
      <3>1. Line(1, c).id = 1 /\ Line(1, c).to = c
        BY DEF Line
      <3>2. \A l \in Said(children'[n]) : l.id = 1 /\ l.to = c
        BY <2>2, <2>3, <3>1
      <3>3. n \in 1 .. Len(children')
        BY <1>1, <2>3
      <3> QED
        BY <1>1, <1>2, <2>4, <3>2, <3>3 DEF ShakesAlone, Holding
    <2>8. AnswerIsOwn'
      BY <2>4 DEF SessionInv, AnswerIsOwn
    <2>9. NoStrayServer'
      <3> SUFFICES ASSUME NEW p \in 1 .. n, children'[p].alive, children'[p].shook
                   PROVE  p = inner'
        BY <2>3 DEF NoStrayServer
      <3>1. p # n
        BY <2>2, <2>3
      <3>2. p \in 1 .. Len(children)
        BY <1>1, <3>1
      <3> QED
        BY <1>1, <2>3, <3>2 DEF SessionInv, NoStrayServer
    <2> QED
      BY <2>5, <2>6, <2>7, <2>8, <2>9 DEF SessionInv
  <1> QED
    BY <1>3, <1>4 DEF Spawn

\* A request gets a number that no answer of its process carries.
LEMMA SendKeeps ==
  ASSUME SessionInv, NEW c \in Calls, Send(c)
  PROVE  SessionInv'
  <1>1. /\ children \in Seq(Processes) /\ Len(children) \in Nat /\ inner \in 1 .. Len(children)
        /\ call \in [Calls -> CallStates] /\ call[c].at = "send"
        /\ inner' = inner /\ nextId' = nextId + 1 /\ nextId \in Nat
    BY DEF SessionInv, McpType, SenderIsConnected, Send
  <1>2. mutex = c /\ \A d \in Calls \ {c} : call[d].at \notin Holding
    BY <1>1, OneHolds DEF Holding
  <1>3. CASE Returns(c, "network") /\ UNCHANGED children
    <2>1. nextId' \in Nat /\ nextId' >= nextId
      BY <1>1
    <2>2. "network" \in OutcomesOf(c)
      BY DEF OutcomesOf
    <2> QED
      BY <1>1, <1>2, <1>3, <2>1, <2>2, UnheardIsNoLouder, ReturnKeeps
  <1>4. CASE /\ children' = Ask(children, inner, nextId, c)
             /\ call' = [call EXCEPT ![c].at = "wait", ![c].id = nextId, ![c].child = inner]
             /\ UNCHANGED mutex
    <2> DEFINE q == children[inner]
               k == [q EXCEPT !.stdin = @ \cup {Line(nextId, c)}]
    <2>1. q \in Processes
      BY <1>1
    <2>2. /\ k \in Processes /\ Said(k) = Said(q) \cup {Line(nextId, c)}
          /\ k.shook = q.shook /\ k.alive = q.alive
      BY <1>1, <2>1, SaidWhenAsked
    <2>3. children' = [children EXCEPT ![inner] = k]
      BY <1>4 DEF Ask
    <2> HIDE DEF k
    <2>4. /\ children' \in Seq(Processes) /\ Len(children') = Len(children)
          /\ children'[inner] = k
          /\ \A i \in 1 .. Len(children) : /\ children'[i].shook = children[i].shook
                                           /\ children'[i].alive = children[i].alive
      BY <1>1, <2>2, <2>3
    <2>5. /\ call' \in [Calls -> CallStates]
          /\ call'[c].at = "wait" /\ call'[c].id = nextId /\ call'[c].child = inner
          /\ call'[c].got = call[c].got
          /\ \A d \in Calls \ {c} : call'[d] = call[d]
      <3> DEFINE r == [call[c] EXCEPT !.at = "wait", !.id = nextId, !.child = inner]
      <3>1. nextId \in Nat /\ inner \in Nat /\ call[c] \in CallStates
        BY <1>1
      <3>2. /\ r \in CallStates /\ r.at = "wait" /\ r.id = nextId /\ r.child = inner
            /\ r.got = call[c].got
        BY <3>1 DEF CallStates
      <3>3. call' = [call EXCEPT ![c] = r]
        BY <1>1, <1>4
      <3> HIDE DEF r
      <3> QED
        BY <1>1, <3>2, <3>3
    <2>6. McpType'
      BY <1>1, <1>4, <2>4, <2>5 DEF SessionInv, McpType
    <2>7. HolderIsOne' /\ SenderIsConnected' /\ ShakesAlone'
      BY <1>1, <1>2, <1>4, <2>5 DEF HolderIsOne, SenderIsConnected, ShakesAlone, Holding
    <2>8. \A l \in Said(q) : l.id \in Nat /\ l.id < nextId
      BY <1>1, <2>1, SaidIsLines DEF SessionInv, AnswersAreOld, Lines
    <2>9. /\ \A l \in Said(k) : l.id < nextId + 1
          /\ \A l \in Said(k) : l.id = nextId => l.to = c
      <3>1. Line(nextId, c).id = nextId /\ Line(nextId, c).to = c
        BY DEF Line
      <3> QED
        BY <1>1, <2>2, <2>8, <3>1
    <2>10. AnswersAreOld'
      BY <1>1, <2>4, <2>9 DEF AnswersAreOld
    <2>11. WaitsForOwn'
      BY <1>1, <1>2, <2>4, <2>5, <2>9 DEF WaitsForOwn, Holding
    <2>12. AnswerIsOwn'
      BY <2>5 DEF SessionInv, AnswerIsOwn
    <2>13. NoStrayServer'
      BY <1>1, <2>4 DEF SessionInv, NoStrayServer
    <2> QED
      BY <2>6, <2>7, <2>10, <2>11, <2>12, <2>13 DEF SessionInv
  <1> QED
    BY <1>3, <1>4 DEF Send
\* A call reads one line: drops it, has shaken hands, or returns.
LEMMA ReadLineKeeps ==
  ASSUME SessionInv, NEW c \in Calls, Read(c)
  PROVE  SessionInv'
  <1> DEFINE p == call[c].child
             q == children[p]
             k == [q EXCEPT !.out = Tail(@)]
             line == Head(q.out)
             rest == [children EXCEPT ![p].out = Tail(@)]
  <1>1. /\ children \in Seq(Processes) /\ Len(children) \in Nat /\ call[c].at \in {"shake", "wait"}
        /\ inner \in 0 .. Len(children) /\ nextId \in Nat /\ q.out # <<>>
    BY DEF SessionInv, McpType, Read
  <1>2. mutex = c /\ \A d \in Calls \ {c} : call[d].at \notin Holding
    BY <1>1, OneHolds DEF Holding
  <1>3. p \in 1 .. Len(children)
    BY <1>1 DEF SessionInv, ShakesAlone, WaitsForOwn
  <1>4. q \in Processes
    BY <1>1, <1>3
  <1>5. /\ k \in Processes /\ Said(k) \subseteq Said(q) /\ line \in Lines
        /\ line.to # NoCaller => line \in Said(q)
    BY <1>1, <1>4, SaidWhenRead
  <1>6. k.shook = q.shook /\ k.alive = q.alive
    BY <1>4 DEF Processes
  <1>7. rest = [children EXCEPT ![p] = k]
    OBVIOUS
  <1>8. line.id = call[c].id => line.to \in {NoCaller, c}
    BY <1>1, <1>5 DEF SessionInv, ShakesAlone, WaitsForOwn
  <1>9. CASE children' = rest /\ UNCHANGED <<inner, nextId, mutex, call>>
    <2>1. q.alive => k.alive
      BY <1>6
    <2> HIDE DEF k
    <2> QED
      BY <1>3, <1>5, <1>6, <1>7, <1>9, QuieterKeeps
  <1>10. ASSUME NEW got \in OutcomesOf(c), children' = rest, Returns(c, got),
                UNCHANGED <<inner, nextId>>
         PROVE  SessionInv'
    <2> HIDE DEF k
    <2>1. NoLouder
      BY <1>3, <1>5, <1>6, <1>7, <1>10, QuieterIsNoLouder
    <2>2. nextId' \in Nat /\ nextId' >= nextId
      BY <1>1, <1>10
    <2> QED
      BY <1>2, <1>10, <2>1, <2>2, ReturnKeeps
  <1>11. CASE /\ call[c].at = "shake" /\ children' = [rest EXCEPT ![p].shook = TRUE]
              /\ inner' = p /\ nextId' = 2 /\ Moves(c, "send") /\ UNCHANGED mutex
    <2> DEFINE j == [k EXCEPT !.shook = TRUE]
    <2>1. j \in Processes /\ Said(j) = Said(k) /\ j.alive = k.alive
      <3>1. j \in Processes /\ j.stdin = k.stdin /\ j.out = k.out /\ j.alive = k.alive
        BY <1>5 DEF Processes
      <3> QED
        BY <3>1 DEF Said
    <2>2. children' = [children EXCEPT ![p] = j]
      <3>1. children' = [[children EXCEPT ![p] = k] EXCEPT ![p].shook = TRUE]
        BY <1>7, <1>11
      <3> HIDE DEF k, p
      <3>2. [children EXCEPT ![p] = k][p] = k
        BY <1>1, <1>3
      <3> QED
        BY <1>1, <1>3, <3>1, <3>2
    <2> HIDE DEF j
    <2>3. /\ children' \in Seq(Processes) /\ Len(children') = Len(children) /\ children'[p] = j
          /\ \A i \in 1 .. Len(children) : i # p => children'[i] = children[i]
      BY <1>1, <1>3, <2>1, <2>2
    <2>4. /\ call' \in [Calls -> CallStates] /\ call'[c].at = "send"
          /\ call'[c].got = call[c].got
          /\ \A d \in Calls \ {c} : call'[d] = call[d]
      BY <1>11, StepOf
    <2>5. inner = 0 /\ \A l \in Said(q) : l.id = 1
      BY <1>11 DEF SessionInv, ShakesAlone
    <2>6. McpType'
      BY <1>3, <1>11, <2>3, <2>4 DEF SessionInv, McpType
    <2>7. HolderIsOne' /\ SenderIsConnected' /\ ShakesAlone' /\ WaitsForOwn'
      <3>1. inner' # 0 /\ mutex' = mutex
        BY <1>3, <1>11
      <3>2. \A d \in Calls \ {c} : call'[d].at \notin Holding
        BY <1>2, <2>4
      <3> HIDE DEF p
      <3> QED
        BY <1>2, <2>4, <3>1, <3>2
           DEF HolderIsOne, SenderIsConnected, ShakesAlone, WaitsForOwn, Holding
    <2>8. AnswersAreOld'
      <3>1. \A l \in Said(j) : l.id < 2
        <4> HIDE DEF q, k
        <4> QED
          BY <1>5, <2>1, <2>5
      <3>2. inner' = p /\ nextId' = 2 /\ children'[p] = j
        BY <1>11, <2>3
      <3> HIDE DEF p
      <3> QED
        BY <3>1, <3>2 DEF AnswersAreOld
    <2>9. AnswerIsOwn'
      BY <2>4 DEF SessionInv, AnswerIsOwn
    <2>10. NoStrayServer'
      BY <1>1, <1>3, <1>11, <2>3, <2>5 DEF SessionInv, NoStrayServer
    <2> QED
      BY <2>6, <2>7, <2>8, <2>9, <2>10 DEF SessionInv
  <1>12. NoCaller \in OutcomesOf(c) /\ c \in OutcomesOf(c) /\ "server" \in OutcomesOf(c)
    BY DEF OutcomesOf
  <1>13. line.id = call[c].id => line.to \in OutcomesOf(c)
    BY <1>8, <1>12
  <1> QED
    BY <1>9, <1>10, <1>11, <1>12, <1>13 DEF Read, Meant

LEMMA SessionStarts == McpInit => SessionInv
  <1> SUFFICES ASSUME McpInit PROVE SessionInv
    OBVIOUS
  <1>1. /\ children = <<>> /\ inner = 0 /\ nextId = 0 /\ mutex = NoCaller
        /\ call = [c \in Calls |-> Idle]
    BY DEF McpInit
  <1>2. \A c \in Calls : Idle \in CallStates
    BY DEF Idle, CallStates, Outcomes, OutcomesOf
  <1>3. McpType
    BY <1>1, <1>2 DEF McpType
  <1>4. \A c \in Calls : call[c].at = "idle" /\ call[c].got = "nothing"
    BY <1>1 DEF Idle
  <1>5. HolderIsOne /\ SenderIsConnected /\ ShakesAlone /\ WaitsForOwn
    BY <1>4 DEF HolderIsOne, SenderIsConnected, ShakesAlone, WaitsForOwn, Holding
  <1>6. AnswersAreOld /\ AnswerIsOwn
    BY <1>1, <1>4 DEF AnswersAreOld, AnswerIsOwn
  <1>7. NoStrayServer
    BY <1>1 DEF NoStrayServer
  <1> QED
    BY <1>3, <1>5, <1>6, <1>7 DEF SessionInv

\* What an MCP client promises: a call that returns has its own answer or none, no
\* process outlives its session, and the outcome of a connection test leaves the user's
\* switch alone (mcp/session.rs, mcp/manager.rs).
THEOREM ServersAreKept == McpSpec => []ServersKept
  <1>1. ASSUME SessionInv, [McpNext]_mcpVars
        PROVE  SessionInv'
    <2>1. CASE UNCHANGED sessionVars
      <3>1. UNCHANGED <<children, inner, nextId, mutex, call>>
        BY <2>1 DEF sessionVars
      <3>2. McpType' /\ HolderIsOne' /\ AnswersAreOld' /\ SenderIsConnected'
        BY <1>1, <3>1 DEF SessionInv, McpType, HolderIsOne, AnswersAreOld, SenderIsConnected
      <3>3. ShakesAlone' /\ WaitsForOwn'
        BY <1>1, <3>1 DEF SessionInv, ShakesAlone, WaitsForOwn
      <3>4. AnswerIsOwn' /\ NoStrayServer'
        BY <1>1, <3>1 DEF SessionInv, AnswerIsOwn, NoStrayServer
      <3> QED
        BY <3>2, <3>3, <3>4 DEF SessionInv
    <2>2. ASSUME NEW c \in Calls, Invoke(c) \/ LockSession(c) \/ CallStep(c)
          PROVE  SessionInv'
      BY <1>1, <2>2, BeginKeeps, RecycleKeeps, GivesUpKeeps, SpawnKeeps, SendKeeps, ReadLineKeeps
         DEF CallStep
    <2>3. ASSUME NEW p \in DOMAIN children,
                 \/ \E line \in children[p].stdin : ServerAnswers(p, line)
                 \/ ServerSpeaks(p) \/ ServerDies(p)
          PROVE  SessionInv'
      BY <1>1, <2>3, ServerKeeps
    <2>4. CASE Shutdown
      BY <1>1, <2>4, ShutdownKeeps
    <2>5. \/ ReplaceScope \/ DeleteServer \/ DeleteScope \/ TestBegins \/ TestEnds \/ McpCrash
          \/ \E enabled \in BOOLEAN : InsertServer(enabled) \/ SetEnabled(enabled)
          => UNCHANGED sessionVars
      BY DEF ReplaceScope, DeleteServer, DeleteScope, TestBegins, TestEnds, McpCrash, InsertServer,
         SetEnabled
    <2>6. UNCHANGED mcpVars => UNCHANGED sessionVars
      BY DEF mcpVars
    <2> QED
      BY <1>1, <2>1, <2>2, <2>3, <2>4, <2>5, <2>6 DEF McpNext
  <1>2. ASSUME SwitchInv, [McpNext]_mcpVars
        PROVE  SwitchInv'
    <2>1. CASE UNCHANGED serverVars
      BY <1>2, <2>1 DEF serverVars, SwitchInv, ServerRows, EnabledIsWanted
    <2>2. ASSUME NEW enabled \in BOOLEAN, InsertServer(enabled) \/ SetEnabled(enabled)
          PROVE  SwitchInv'
      <3>1. wanted' = enabled
        BY <2>2 DEF InsertServer, SetEnabled
      <3>2. CASE InsertServer(enabled)
        <4>1. server' = [known |-> TRUE, enabled |-> enabled, error |-> FALSE,
                         status |-> IF enabled THEN "enabled" ELSE "disabled"]
          BY <3>2 DEF InsertServer
        <4> QED
          BY <3>1, <4>1 DEF SwitchInv, ServerRows, SwitchInv, ServerRows, EnabledIsWanted
      <3>3. CASE SetEnabled(enabled)
        <4>1. server' = [server EXCEPT !.enabled = enabled,
                                       !.status = IF enabled THEN "enabled" ELSE "disabled"]
          BY <3>3 DEF SetEnabled
        <4> QED
          BY <1>2, <3>1, <4>1 DEF SwitchInv, ServerRows, SwitchInv, ServerRows, EnabledIsWanted
      <3> QED
        BY <2>2, <3>2, <3>3
    <2>3. CASE DeleteServer
      BY <2>3 DEF DeleteServer, NoServer, SwitchInv, ServerRows, EnabledIsWanted
    <2>4. CASE TestBegins \/ TestEnds
      BY <1>2, <2>4 DEF TestBegins, TestEnds, RecordSuccess, RecordError, WhenKnown,
         SwitchInv, ServerRows, EnabledIsWanted
    <2>5. ReplaceScope \/ DeleteScope \/ McpCrash => UNCHANGED <<server, wanted>>
      BY DEF ReplaceScope, DeleteScope, McpCrash
    <2>6. ASSUME NEW c \in Calls, Invoke(c) \/ LockSession(c) \/ CallStep(c)
          PROVE  UNCHANGED <<server, wanted>>
      BY <2>6 DEF Invoke, LockSession, CallStep, Recycle, FoundDead, FoundAlive, Spawn, Send, Read,
         RpcTimeout, serverVars
    <2>7. ASSUME NEW p \in DOMAIN children,
                 \/ \E line \in children[p].stdin : ServerAnswers(p, line)
                 \/ ServerSpeaks(p) \/ ServerDies(p)
          PROVE  UNCHANGED <<server, wanted>>
      BY <2>7 DEF ServerAnswers, ServerSpeaks, ServerDies, serverVars
    <2>8. Shutdown => UNCHANGED <<server, wanted>>
      BY DEF Shutdown, serverVars
    <2>9. UNCHANGED mcpVars => UNCHANGED <<server, wanted>>
      BY DEF mcpVars, serverVars
    <2>10. UNCHANGED <<server, wanted>> => SwitchInv'
      BY <1>2 DEF SwitchInv, ServerRows, SwitchInv, ServerRows, EnabledIsWanted
    <2> QED
      BY <1>2, <2>2, <2>3, <2>4, <2>5, <2>6, <2>7, <2>8, <2>9, <2>10 DEF McpNext
  <1>3. SessionInv /\ SwitchInv => ServersKept
    BY DEF SessionInv, SwitchInv, ServersKept
  <1>4. McpInit => SwitchInv
    BY DEF McpInit, NoServer, SwitchInv, ServerRows, EnabledIsWanted
  <1> QED
    BY <1>1, <1>2, <1>3, <1>4, SessionStarts, PTL DEF McpSpec
-----------------------------------------------------------------------------
(***************************************************************************)
(* Executors.  A process runs while the run waits for it, and an entry is  *)
(* there while something can be cancelled. A row that reads InProgress has *)
(* met no cancellation, and the outcome is written on the word of such a   *)
(* row.                                                                    *)
(***************************************************************************)
LeftClean ==
  /\ process \in {"none", "running", "exited", "killed"} /\ entry \in BOOLEAN
  /\ process = "running" => stage = "waiting"
  /\ entry => stage \in {"engine", "waiting"}
CancelStands ==
  /\ cancel = [at |-> cancel.at, met |-> cancel.met]
  /\ taskRow = "InProgress" => cancel.met = "never"
  /\ stage = "write" => cancel.met \in {"never", "write"}
  /\ taskRow = "Completed" => cancel.met \in {"never", "write"}

\* However the executor of a task ends, neither a process nor an entry is left of it,
\* and it overrules a cancellation only between its look at the row and its write
\* (agent/executor.rs, agent/executor/cli.rs, group/scheduler.rs).
THEOREM ExecutorLeavesNothing == ExecSpec => []ExecutorSettles
  <1>1. ExecInit => LeftClean /\ CancelStands
    <2>1. ExecInit => LeftClean
      BY DEF ExecInit, LeftClean
    <2>2. ExecInit => cancel.at = "none" /\ cancel.met = "never" /\ stage = "start"
      BY DEF ExecInit
    <2>3. ExecInit => CancelStands
      BY <2>2 DEF ExecInit, CancelStands
    <2> QED
      BY <2>1, <2>3
  <1>2. ASSUME LeftClean, [ExecNext]_execVars
        PROVE  LeftClean'
    <2>1. CASE EngineBegin
      <3>1. stage = "start" /\ process' = process /\ process # "running" /\ entry = FALSE
        BY <1>2, <2>1 DEF EngineBegin, LeftClean
      <3>2. entry' = FALSE \/ (entry' = TRUE /\ stage' = "engine")
        BY <2>1, <3>1, Zenon DEF EngineBegin
      <3>3. entry' \in BOOLEAN /\ (entry' => stage' \in {"engine", "waiting"})
        BY <3>2
      <3> QED
        BY <1>2, <3>1, <3>3 DEF LeftClean
    <2>2. CASE EngineEnd
      BY <1>2, <2>2 DEF EngineEnd, LeftClean
    <2>3. CASE Probe
      BY <1>2, <2>3 DEF Probe, Come, LeftClean
    <2>4. CASE SpawnCli
      <3>1. stage = "spawn" /\ process # "running" /\ entry = FALSE
        BY <1>2, <2>4 DEF SpawnCli, LeftClean
      <3>2. \/ process' = process /\ entry' = FALSE
            \/ process' = "running" /\ entry' = TRUE /\ stage' = "waiting"
        BY <2>4, <3>1, Zenon DEF SpawnCli
      <3>3. entry' \in BOOLEAN /\ (entry' => stage' \in {"engine", "waiting"})
        BY <3>2
      <3>4. process' = process \/ (process' = "running" /\ stage' = "waiting")
        BY <3>2
      <3> QED
        BY <1>2, <3>1, <3>3, <3>4 DEF LeftClean
    <2>5. CASE ProcessExits
      BY <1>2, <2>5 DEF ProcessExits, LeftClean
    <2>6. CASE ReadOutput
      BY <1>2, <2>6 DEF ReadOutput, Come, LeftClean
    <2>7. CASE CliTimeout
      BY <1>2, <2>7 DEF CliTimeout, Dropped, Come, LeftClean
    <2>8. CASE TellCancel \/ CancelTask
      BY <1>2, <2>8 DEF TellCancel, CancelTask, LeftClean
    <2>9. CASE JudgeTask \/ SettleTask
      <3>1. /\ stage \in {"settle", "write"} /\ process' = process /\ entry' = entry
            /\ process # "running" /\ ~entry
        BY <1>2, <2>9 DEF JudgeTask, SettleTask, LeftClean
      <3> QED
        BY <1>2, <3>1 DEF LeftClean
    <2>10. CASE UNCHANGED execVars
      BY <1>2, <2>10 DEF execVars, LeftClean
    <2> QED
      BY <1>2, <2>1, <2>2, <2>3, <2>4, <2>5, <2>6, <2>7, <2>8, <2>9, <2>10 DEF ExecNext
  <1>3. ASSUME CancelStands, [ExecNext]_execVars
        PROVE  CancelStands'
    <2>1. CASE EngineBegin \/ EngineEnd \/ Probe \/ SpawnCli \/ ProcessExits \/ ReadOutput
               \/ CliTimeout
      <3>1. UNCHANGED <<taskRow, cancel>> /\ (stage' = "write" => stage = "write")
        BY <2>1 DEF EngineBegin, EngineEnd, Probe, SpawnCli, ProcessExits, ReadOutput, CliTimeout,
           Come
      <3> QED
        BY <1>3, <3>1 DEF CancelStands
    <2>2. CASE TellCancel
      <3>1. UNCHANGED <<taskRow, stage>> /\ cancel' = [at |-> "told", met |-> cancel.met]
        BY <1>3, <2>2 DEF TellCancel, CancelStands
      <3> QED
        BY <1>3, <3>1 DEF CancelStands
    <2>3. CASE CancelTask
      BY <1>3, <2>3 DEF CancelTask, CancelStands
    <2>4. CASE JudgeTask
      <3>1. UNCHANGED cancel
        BY <2>4 DEF JudgeTask
      <3>2. \/ stage' = "over" /\ taskRow' = "Failed"
            \/ stage' = "write" /\ taskRow' = taskRow /\ taskRow = "InProgress"
            \/ stage' = "over" /\ taskRow' = taskRow
        BY <2>4 DEF JudgeTask, Settled
      <3> QED
        BY <1>3, <3>1, <3>2 DEF CancelStands
    <2>5. CASE SettleTask
      BY <1>3, <2>5 DEF SettleTask, CancelStands
    <2>6. CASE UNCHANGED execVars
      BY <1>3, <2>6 DEF execVars, CancelStands
    <2> QED
      BY <1>3, <2>1, <2>2, <2>3, <2>4, <2>5, <2>6 DEF ExecNext
  <1>4. LeftClean /\ CancelStands => ExecutorSettles
    BY DEF LeftClean, CancelStands, ExecutorSettles, NothingRunsOn, CancelledNotDone
  <1> QED
    BY <1>1, <1>2, <1>3, <1>4, PTL DEF ExecSpec
-----------------------------------------------------------------------------
(***************************************************************************)
(* Reminders.  An event has rung once more than there were crashes only    *)
(* when it is stamped, gone, or being shown; while it waits among the due  *)
(* it has not.                                                             *)
(***************************************************************************)
RowForms == [kind : {"none", "gone", "reminder", "schedule"}, at : Int, notified : BOOLEAN]
Moments == [id : Events, at : Int]
AgendaType ==
  /\ clock \in Nat /\ showing \in BOOLEAN
  /\ event \in [Events -> RowForms]
  /\ due \in Seq(Moments) /\ (showing => due # <<>>)
  /\ IsFiniteSet(rung) /\ rung \subseteq [id : Events, at : Int, n : Nat]
  /\ budget \in [edits : Nat, crashes : Nat]
DueIsKnown ==
  /\ \A i \in 1 .. Len(due) : event[due[i].id].kind # "none"
  /\ \A i, j \in 1 .. Len(due) : due[i].id = due[j].id => i = j
  /\ \A e \in Events : event[e].kind = "none" => ~event[e].notified
Times(e, at) == {x \in rung : x.id = e /\ x.at = at}
Awaiting(e) == \E i \in 1 .. Len(due) : due[i].id = e /\ ~(showing /\ i = 1)
BeenShown(e) == event[e].notified \/ event[e].kind = "gone" \/ (showing /\ due[1].id = e)
Allowed(e, used) == IF ~Awaiting(e) /\ BeenShown(e) THEN used + 1 ELSE used
RungWithin(k) ==
  /\ budget.crashes <= k.crashes
  /\ \A e \in Events, at \in Int :
       Cardinality(Times(e, at)) <= Allowed(e, k.crashes - budget.crashes)
CountsAreTimes == \A x \in rung : x.n <= Cardinality(Times(x.id, x.at))
AgendaInv == AgendaType /\ DueIsKnown /\ CountsAreTimes /\ \E k \in AgendaKits : RungWithin(k)
-----------------------------------------------------------------------------
LEMMA MomentsAreOfEvents ==
  ASSUME NEW s \in Seq(Moments)
  PROVE  \A i \in 1 .. Len(s) : s[i] \in Moments /\ s[i].id \in Events /\ s[i].at \in Int
  <1>1. \A i \in 1 .. Len(s) : s[i] \in Moments
    OBVIOUS
  <1> QED
    BY <1>1 DEF Moments

LEMMA TimesAreFinite ==
  ASSUME AgendaType, NEW e, NEW at
  PROVE  IsFiniteSet(Times(e, at)) /\ Cardinality(Times(e, at)) \in Nat
  <1>1. Times(e, at) \subseteq rung
    BY DEF Times
  <1> QED
    BY <1>1, FS_Subset, FS_CardinalityType DEF AgendaType

\* A step that neither rings nor spends a crash keeps what is counted, when no event
\* stops being shown and none that was shown comes to wait.
LEMMA QuietKeeps ==
  ASSUME AgendaInv, rung' = rung, budget'.crashes = budget.crashes,
         AgendaType', DueIsKnown',
         \A e \in Events : ~Awaiting(e) /\ BeenShown(e) => ~Awaiting(e)' /\ BeenShown(e)'
  PROVE  AgendaInv'
  <1>1. PICK k \in AgendaKits : RungWithin(k)
    BY DEF AgendaInv
  <1>2. budget'.crashes = budget.crashes /\ rung' = rung
    OBVIOUS
  <1>3. \A e, at : Times(e, at)' = Times(e, at)
    BY <1>2 DEF Times
  <1>4. budget.crashes \in Nat /\ k.crashes \in Nat
    BY AgendaConstants DEF AgendaInv, AgendaType
  <1>5. \A e \in Events : Allowed(e, k.crashes - budget.crashes)
                            <= Allowed(e, k.crashes - budget.crashes)'
    BY <1>2, <1>4 DEF Allowed
  <1>6. \A e \in Events : Allowed(e, k.crashes - budget.crashes) \in Int
                          /\ Allowed(e, k.crashes - budget.crashes)' \in Int
    BY <1>2, <1>4 DEF Allowed
  <1>7. \A e \in Events, at \in Int : Cardinality(Times(e, at)) \in Nat
    BY TimesAreFinite DEF AgendaInv
  <1>8. RungWithin(k)'
    BY <1>1, <1>2, <1>3, <1>5, <1>6, <1>7 DEF RungWithin
  <1>9. CountsAreTimes'
    BY <1>2, <1>3 DEF AgendaInv, CountsAreTimes
  <1> QED
    BY <1>8, <1>9 DEF AgendaInv
\* An edit leaves no event unknown and brings none back.
LEMMA ChangeKeeps ==
  ASSUME AgendaInv, NEW e \in Events, NEW row \in RowForms, Change(e, row),
         row.kind # "none", event[e].notified => row.notified \/ row.kind = "gone",
         event[e].kind = "gone" => row.kind = "gone"
  PROVE  AgendaInv'
  <1>1. /\ event' = [event EXCEPT ![e] = row]
        /\ budget' = [budget EXCEPT !.edits = @ - 1] /\ budget.edits > 0
        /\ UNCHANGED <<clock, due, showing, rung>>
    BY DEF Change
  <1>2. AgendaType /\ DueIsKnown /\ due \in Seq(Moments)
    BY DEF AgendaInv, AgendaType
  <1>3. /\ event' \in [Events -> RowForms] /\ event'[e] = row
        /\ \A x \in Events \ {e} : event'[x] = event[x]
    BY <1>1, <1>2 DEF AgendaType
  <1>4. budget' \in [edits : Nat, crashes : Nat] /\ budget'.crashes = budget.crashes
    BY <1>1, <1>2 DEF AgendaType
  <1>5. AgendaType'
    BY <1>1, <1>2, <1>3, <1>4 DEF AgendaType
  <1>6. \A i \in 1 .. Len(due) : due[i].id \in Events
    BY <1>2, MomentsAreOfEvents
  <1>7. DueIsKnown'
    BY <1>1, <1>2, <1>3, <1>6 DEF DueIsKnown
  <1>8. \A x \in Events : Awaiting(x)' <=> Awaiting(x)
    BY <1>1 DEF Awaiting
  <1>9. \A x \in Events : BeenShown(x) => BeenShown(x)'
    BY <1>1, <1>3 DEF BeenShown
  <1> QED
    BY <1>1, <1>4, <1>5, <1>7, <1>8, <1>9, QuietKeeps

LEMMA EditsKeep ==
  ASSUME AgendaInv, NEW e \in Events,
         CreateEvent(e) \/ ToolUpdate(e) \/ CommandUpdate(e) \/ DeleteEvent(e)
  PROVE  AgendaInv'
  <1>1. event[e] \in RowForms /\ (event[e].kind = "none" => ~event[e].notified)
    BY DEF AgendaInv, AgendaType, DueIsKnown
  <1>2. NoTime \in Int /\ event[e].at \in Int /\ 1 .. LastMinute \subseteq Int
    BY <1>1, AgendaConstants DEF NoTime, RowForms
  <1>3. CASE CreateEvent(e)
    <2>1. PICK kind \in {"reminder", "schedule"}, at \in 1 .. LastMinute \cup {NoTime} :
            Change(e, Row(kind, at))
      BY <1>3 DEF CreateEvent
    <2>2. Row(kind, at) \in RowForms /\ Row(kind, at).kind # "none"
      BY <1>2 DEF Row, RowForms
    <2>3. event[e].kind = "none"
      BY <1>3 DEF CreateEvent
    <2> QED
      BY <1>1, <2>1, <2>2, <2>3, ChangeKeeps
  <1>4. CASE ToolUpdate(e)
    <2>1. PICK kind \in {"reminder", "schedule"}, at \in 1 .. LastMinute \cup {event[e].at} :
            Change(e, [event[e] EXCEPT !.kind = kind, !.at = at])
      BY <1>4 DEF ToolUpdate
    <2> DEFINE row == [event[e] EXCEPT !.kind = kind, !.at = at]
    <2>2. /\ row \in RowForms /\ row.kind # "none" /\ row.notified = event[e].notified
          /\ event[e].kind # "gone"
      BY <1>1, <1>2, <1>4 DEF RowForms, ToolUpdate, Rings
    <2> HIDE DEF row
    <2> QED
      BY <2>1, <2>2, ChangeKeeps DEF row
  <1>5. CASE CommandUpdate(e)
    <2>1. Highest(2) # Given(2)
      BY DEF Highest, Given
    <2>2. Change(e, event[e])
      BY <1>5, <2>1 DEF CommandUpdate
    <2>3. event[e].kind # "none"
      BY <1>5 DEF CommandUpdate, Rings
    <2> QED
      BY <1>1, <2>2, <2>3, ChangeKeeps
  <1>6. CASE DeleteEvent(e)
    <2>1. Change(e, Row("gone", NoTime))
      BY <1>6 DEF DeleteEvent
    <2>2. Row("gone", NoTime) \in RowForms /\ Row("gone", NoTime).kind = "gone"
      BY <1>2 DEF Row, RowForms
    <2> QED
      BY <2>1, <2>2, ChangeKeeps
  <1> QED
    BY <1>3, <1>4, <1>5, <1>6

LEMMA ScanKeeps ==
  ASSUME AgendaInv, Scan
  PROVE  AgendaInv'
  <1> DEFINE dues == {x \in Events : Due(x)}
             moments == {[id |-> e, at |-> event[e].at] : e \in dues}
  <1>1. PICK s \in SetToSeqs(moments) : due' = s
    BY DEF Scan
  <1>2. due = <<>> /\ ~showing /\ UNCHANGED <<clock, event, showing, rung, budget>>
    BY DEF Scan, Waits
  <1>3. AgendaType /\ DueIsKnown /\ event \in [Events -> RowForms]
    BY DEF AgendaInv, AgendaType
  <1>4. IsFiniteSet(moments) /\ moments \subseteq Moments
    <2>1. IsFiniteSet(dues)
      BY AgendaConstants, FS_Subset
    <2> DEFINE f == [e \in dues |-> [id |-> e, at |-> event[e].at]]
    <2>2. f \in Surjection(dues, moments)
      BY DEF Surjection
    <2>3. \A e \in Events : event[e].at \in Int
      BY <1>3 DEF RowForms
    <2>4. moments \subseteq Moments
      BY <2>3 DEF Moments
    <2> HIDE DEF f, dues, moments
    <2>5. IsFiniteSet(moments)
      BY <2>1, <2>2, FS_Surjection
    <2> QED
      BY <2>4, <2>5
  <1>5. \A m \in moments : m.id \in Events /\ Due(m.id) /\ m.at = event[m.id].at
    OBVIOUS
  <1>6. \A m, o \in moments : m.id = o.id => m = o
    OBVIOUS
  <1> HIDE DEF moments
  <1>7. Cardinality(moments) \in Nat
    BY <1>4, FS_CardinalityType
  <1>8. /\ s \in [1 .. Cardinality(moments) -> moments]
        /\ \A i, j \in 1 .. Cardinality(moments) : i # j => s[i] # s[j]
    BY <1>1 DEF SetToSeqs
  <1>9. s \in Seq(Moments) /\ Len(s) = Cardinality(moments)
    BY <1>4, <1>7, <1>8
  <1>10. \A i \in 1 .. Len(s) : s[i] \in moments
    BY <1>8, <1>9
  <1>11. AgendaType'
    BY <1>1, <1>2, <1>3, <1>9 DEF AgendaType
  <1>12. \A e \in Events : Due(e) => event[e].kind = "reminder" /\ ~event[e].notified
    BY DEF Due, Timed
  <1>13. DueIsKnown'
    BY <1>1, <1>2, <1>3, <1>5, <1>6, <1>8, <1>9, <1>10, <1>12 DEF DueIsKnown
  <1>14. \A e \in Events : ~Awaiting(e) /\ BeenShown(e) => ~Awaiting(e)' /\ BeenShown(e)'
    BY <1>1, <1>2, <1>5, <1>9, <1>10, <1>12 DEF Awaiting, BeenShown
  <1> QED
    BY <1>2, <1>11, <1>13, <1>14, QuietKeeps

LEMMA StampKeeps ==
  ASSUME AgendaInv, Stamp
  PROVE  AgendaInv'
  <1> DEFINE h == due[1].id
  <1>1. /\ showing /\ showing' = FALSE /\ due' = Tail(due) /\ UNCHANGED <<clock, rung, budget>>
    BY DEF Stamp
  <1>2. AgendaType /\ DueIsKnown /\ event \in [Events -> RowForms] /\ due \in Seq(Moments)
        /\ due # <<>>
    BY <1>1 DEF AgendaInv, AgendaType
  <1>3. Len(due) \in Nat /\ Len(due) >= 1 /\ h \in Events /\ Head(due).id = h
    <2>1. Len(due) \in Nat /\ Len(due) >= 1 /\ Head(due) = due[1]
      BY <1>2
    <2> QED
      BY <1>2, <2>1, MomentsAreOfEvents
  <1>4. event' = IF Rings(h) THEN [event EXCEPT ![h].notified = TRUE] ELSE event
    BY <1>3 DEF Stamp
  <1>5. /\ due' \in Seq(Moments) /\ Len(due') = Len(due) - 1
        /\ \A i \in 1 .. Len(due) - 1 : due'[i] = due[i + 1]
    BY <1>1, <1>2
  <1>6. /\ event' \in [Events -> RowForms]
        /\ \A x \in Events : event'[x].kind = event[x].kind
        /\ \A x \in Events : event[x].notified => event'[x].notified
        /\ \A x \in Events \ {h} : event'[x] = event[x]
        /\ Rings(h) => event'[h].notified
    BY <1>4, <1>2, <1>3 DEF RowForms
  <1>7. event[h].kind # "none"
    BY <1>2, <1>3 DEF DueIsKnown
  <1> HIDE DEF h
  <1>8. Rings(h) \/ event[h].kind = "gone"
    BY <1>2, <1>3, <1>7 DEF Rings, RowForms
  <1>9. AgendaType'
    BY <1>1, <1>2, <1>5, <1>6 DEF AgendaType
  <1>10. DueIsKnown'
    <2>1. \A i \in 1 .. Len(due') : i + 1 \in 1 .. Len(due) /\ due'[i] = due[i + 1]
      BY <1>3, <1>5
    <2>2. \A i \in 1 .. Len(due') : due'[i].id \in Events
      BY <1>5, MomentsAreOfEvents
    <2>3. \A i \in 1 .. Len(due') : event'[due'[i].id].kind # "none"
      BY <1>2, <1>6, <2>1, <2>2 DEF DueIsKnown
    <2>4. \A i, j \in 1 .. Len(due') : due'[i].id = due'[j].id => i = j
      BY <1>2, <1>3, <1>5, <2>1 DEF DueIsKnown
    <2>5. \A e \in Events : event'[e].kind = "none" => ~event'[e].notified
      BY <1>2, <1>6, <1>7 DEF DueIsKnown
    <2> QED
      BY <2>3, <2>4, <2>5 DEF DueIsKnown
  <1>11. \A e \in Events : ~Awaiting(e) /\ BeenShown(e) => ~Awaiting(e)' /\ BeenShown(e)'
    <2> SUFFICES ASSUME NEW e \in Events, ~Awaiting(e), BeenShown(e)
                 PROVE  ~Awaiting(e)' /\ BeenShown(e)'
      OBVIOUS
    <2>1. \A i \in 1 .. Len(due') : i + 1 \in 1 .. Len(due) /\ due'[i] = due[i + 1] /\ i + 1 # 1
      BY <1>3, <1>5
    <2>2. ~Awaiting(e)'
      BY <2>1 DEF Awaiting
    <2>3. BeenShown(e)'
      BY <1>1, <1>6, <1>8 DEF BeenShown, h
    <2> QED
      BY <2>2, <2>3
  <1> QED
    BY <1>1, <1>9, <1>10, <1>11, QuietKeeps

LEMMA NotifyKeeps ==
  ASSUME AgendaInv, Notify
  PROVE  AgendaInv'
  <1>1. /\ due # <<>> /\ ~showing /\ showing' = TRUE
        /\ UNCHANGED <<clock, event, due, budget>>
    BY DEF Notify
  <1>2. AgendaType /\ DueIsKnown /\ CountsAreTimes /\ due \in Seq(Moments)
    BY DEF AgendaInv, AgendaType
  <1>3. Len(due) \in Nat /\ Len(due) >= 1 /\ Head(due) = due[1] /\ 1 \in 1 .. Len(due)
    BY <1>1, <1>2
  <1>4. PICK h \in Events, t \in Int : h = due[1].id /\ t = due[1].at
    BY <1>2, <1>3, MomentsAreOfEvents
  <1>5. IsFiniteSet(Times(h, t)) /\ \E n \in Nat : n = Cardinality(Times(h, t))
    BY <1>2, TimesAreFinite
  <1>6. PICK n \in Nat : n = Cardinality(Times(h, t))
    BY <1>5
  <1> DEFINE new == [id |-> h, at |-> t, n |-> n + 1]
  <1>7. rung' = rung \cup {new}
    BY <1>3, <1>4, <1>6 DEF Notify, Times
  <1>8. new \notin rung
    <2> SUFFICES ASSUME new \in rung PROVE FALSE
      OBVIOUS
    <2>1. new.n <= Cardinality(Times(new.id, new.at))
      BY <1>2 DEF CountsAreTimes
    <2>2. n + 1 <= n
      BY <1>6, <2>1
    <2> QED
      BY <2>2
  <1>9. Times(h, t)' = Times(h, t) \cup {new} /\ new \notin Times(h, t)
    BY <1>7, <1>8 DEF Times
  <1>10. \A e, at : (e # h \/ at # t) => Times(e, at)' = Times(e, at)
    BY <1>7 DEF Times
  <1> HIDE DEF new
  <1>11. Cardinality(Times(h, t)') = n + 1
    BY <1>5, <1>9, <1>6, FS_AddElement
  <1>12. AgendaType'
    <2>1. IsFiniteSet(rung') /\ new \in [id : Events, at : Int, n : Nat]
      <3>1. n + 1 \in Nat
        OBVIOUS
      <3>2. new \in [id : Events, at : Int, n : Nat]
        BY <3>1 DEF new
      <3>3. IsFiniteSet(rung)
        BY <1>2 DEF AgendaType
      <3> QED
        BY <1>7, <3>2, <3>3, FS_AddElement
    <2> QED
      BY <1>1, <1>2, <1>7, <2>1 DEF AgendaType
  <1>13. DueIsKnown'
    BY <1>1, <1>2 DEF DueIsKnown
  <1>14. CountsAreTimes'
    <2> SUFFICES ASSUME NEW x \in rung' PROVE x.n <= Cardinality(Times(x.id, x.at)')
      BY DEF CountsAreTimes
    <2>1. CASE x = new
      BY <1>5, <1>11, <2>1 DEF new
    <2>2. CASE x \in rung /\ (x.id # h \/ x.at # t)
      BY <1>2, <1>10, <2>2 DEF CountsAreTimes
    <2>3. CASE x \in rung /\ x.id = h /\ x.at = t
      <3>1. x.n <= n /\ x.n \in Nat
        BY <1>2, <1>6, <2>3 DEF CountsAreTimes, AgendaType
      <3> QED
        BY <1>5, <1>11, <2>3, <3>1
    <2> QED
      BY <1>7, <2>1, <2>2, <2>3
  <1>15. PICK k \in AgendaKits : RungWithin(k)
    BY DEF AgendaInv
  <1>16. budget.crashes \in Nat /\ k.crashes \in Nat
    BY <1>2, AgendaConstants DEF AgendaType
  <1>17. Awaiting(h)
    BY <1>1, <1>3, <1>4 DEF Awaiting
  <1>18. ~Awaiting(h)' /\ BeenShown(h)'
    <2>1. \A i \in 1 .. Len(due) : due[i].id = h => i = 1
      BY <1>2, <1>3, <1>4 DEF DueIsKnown
    <2>2. ~Awaiting(h)'
      BY <1>1, <2>1 DEF Awaiting
    <2>3. BeenShown(h)'
      BY <1>1, <1>4 DEF BeenShown
    <2> QED
      BY <2>2, <2>3
  <1>19. \A e \in Events : ~Awaiting(e) /\ BeenShown(e) => ~Awaiting(e)' /\ BeenShown(e)'
    BY <1>1 DEF Awaiting, BeenShown
  <1>20. RungWithin(k)'
    <2>1. PICK used \in Int : used = k.crashes - budget.crashes
      BY <1>16
    <2>2. budget'.crashes <= k.crashes /\ budget' = budget
      BY <1>1, <1>15 DEF RungWithin
    <2>3. SUFFICES ASSUME NEW e \in Events, NEW at \in Int
                   PROVE  Cardinality(Times(e, at)') <= Allowed(e, used)'
      BY <2>1, <2>2 DEF RungWithin
    <2>4. Cardinality(Times(e, at)) <= Allowed(e, used)
      BY <1>15, <2>1 DEF RungWithin
    <2>5. Cardinality(Times(e, at)) \in Nat
      BY <1>2, TimesAreFinite
    <2>6. CASE e = h
      <3>1. Allowed(e, used) = used /\ Allowed(e, used)' = used + 1
        BY <1>17, <1>18, <2>1, <2>6 DEF Allowed
      <3>2. Cardinality(Times(e, at)') = Cardinality(Times(e, at))
            \/ Cardinality(Times(e, at)') = Cardinality(Times(e, at)) + 1
        BY <1>10, <1>11, <1>6, <2>6
      <3> QED
        BY <2>1, <2>4, <2>5, <3>1, <3>2
    <2>7. CASE e # h
      <3>1. Times(e, at)' = Times(e, at)
        BY <1>10, <2>7
      <3>2. Allowed(e, used) <= Allowed(e, used)' /\ Allowed(e, used) \in Int
            /\ Allowed(e, used)' \in Int
        BY <1>19, <2>1 DEF Allowed
      <3> QED
        BY <2>4, <2>5, <3>1, <3>2
    <2> QED
      BY <2>6, <2>7
  <1> QED
    BY <1>12, <1>13, <1>14, <1>15, <1>20 DEF AgendaInv

LEMMA AgendaCrashKeeps ==
  ASSUME AgendaInv, AgendaCrash
  PROVE  AgendaInv'
  <1>1. /\ budget.crashes > 0 /\ budget' = [budget EXCEPT !.crashes = @ - 1]
        /\ due' = <<>> /\ showing' = FALSE /\ clock' \in clock .. LastMinute
        /\ UNCHANGED <<event, rung>>
    BY DEF AgendaCrash
  <1>2. AgendaType /\ DueIsKnown /\ CountsAreTimes
    BY DEF AgendaInv
  <1>3. PICK k \in AgendaKits : RungWithin(k)
    BY DEF AgendaInv
  <1>4. budget.crashes \in Nat /\ k.crashes \in Nat /\ budget'.crashes = budget.crashes - 1
        /\ budget' \in [edits : Nat, crashes : Nat]
    BY <1>1, <1>2, AgendaConstants DEF AgendaType
  <1>5. clock' \in Nat
    BY <1>1, <1>2, AgendaConstants DEF AgendaType
  <1>6. AgendaType'
    <2>1. <<>> \in Seq(Moments)
      OBVIOUS
    <2> QED
      BY <1>1, <1>2, <1>4, <1>5, <2>1, Zenon DEF AgendaType
  <1>7. DueIsKnown'
    <2>1. Len(due') = 0
      BY <1>1
    <2> QED
      BY <1>1, <1>2, <2>1 DEF DueIsKnown
  <1>8. \A e, at : Times(e, at)' = Times(e, at)
    BY <1>1 DEF Times
  <1>9. CountsAreTimes'
    BY <1>1, <1>2, <1>8 DEF CountsAreTimes
  <1>10. RungWithin(k)'
    <2> DEFINE used == k.crashes - budget.crashes
               later == k.crashes - budget'.crashes
    <2>1. used \in Int /\ later = used + 1 /\ budget'.crashes <= k.crashes
      BY <1>3, <1>4 DEF RungWithin
    <2> HIDE DEF used, later
    <2>2. SUFFICES ASSUME NEW e \in Events, NEW at \in Int
                   PROVE  Cardinality(Times(e, at)') <= (Allowed(e, k.crashes - budget.crashes))'
      BY <2>1 DEF RungWithin
    <2>3. Cardinality(Times(e, at)) <= Allowed(e, used) /\ Cardinality(Times(e, at)) \in Nat
      BY <1>2, <1>3, TimesAreFinite DEF RungWithin, used
    <2>4. Allowed(e, used) \in Int /\ Allowed(e, used) <= used + 1
      BY <2>1 DEF Allowed
    <2>5. (Allowed(e, k.crashes - budget.crashes))' \in {later, later + 1}
      BY DEF Allowed, later
    <2> QED
      BY <1>8, <2>1, <2>3, <2>4, <2>5
  <1> QED
    BY <1>3, <1>6, <1>7, <1>9, <1>10 DEF AgendaInv

\* One time of a reminder rings once, and once more for every crash, however the user,
\* the agent and the loop cross (reminder.rs).
THEOREM RemindersRingOnce == AgendaSpec => []RingsOnce
  <1>1. AgendaInit => AgendaInv
    <2> SUFFICES ASSUME AgendaInit PROVE AgendaInv
      OBVIOUS
    <2>1. budget \in AgendaKits /\ budget \in [edits : Nat, crashes : Nat]
      BY AgendaConstants DEF AgendaInit
    <2>2. AgendaType
      <3>1. event \in [Events -> RowForms]
        BY DEF AgendaInit, Row, NoTime, RowForms
      <3>2. IsFiniteSet(rung) /\ rung \subseteq [id : Events, at : Int, n : Nat]
        BY FS_EmptySet DEF AgendaInit
      <3>3. <<>> \in Seq(Moments) /\ 0 \in Nat
        OBVIOUS
      <3> QED
        BY <2>1, <3>1, <3>2, <3>3, Zenon DEF AgendaInit, AgendaType
    <2>3. DueIsKnown
      BY DEF AgendaInit, DueIsKnown, Row
    <2>4. \A e, at : Times(e, at) = {}
      BY DEF AgendaInit, Times
    <2>5. CountsAreTimes
      BY DEF AgendaInit, CountsAreTimes
    <2>6. RungWithin(budget)
      <3>1. \A e \in Events : Allowed(e, budget.crashes - budget.crashes) \in {0, 1}
        BY <2>1 DEF Allowed
      <3> QED
        BY <2>1, <2>4, <3>1, FS_EmptySet DEF RungWithin
    <2> QED
      BY <2>1, <2>2, <2>3, <2>5, <2>6 DEF AgendaInv
  <1>2. AgendaInv /\ [AgendaNext]_agendaVars => AgendaInv'
    <2> SUFFICES ASSUME AgendaInv, [AgendaNext]_agendaVars PROVE AgendaInv'
      OBVIOUS
    <2>1. CASE MinutePasses
      <3>1. UNCHANGED <<event, due, showing, rung, budget>> /\ clock' \in Nat
        BY <2>1 DEF MinutePasses, AgendaInv, AgendaType
      <3>2. AgendaType' /\ DueIsKnown'
        BY <3>1 DEF AgendaInv, AgendaType, DueIsKnown
      <3>3. \A e \in Events : ~Awaiting(e) /\ BeenShown(e) => ~Awaiting(e)' /\ BeenShown(e)'
        BY <3>1 DEF Awaiting, BeenShown
      <3> QED
        BY <3>1, <3>2, <3>3, QuietKeeps
    <2>2. CASE UNCHANGED agendaVars
      <3>1. UNCHANGED <<clock, event, due, showing, rung, budget>>
        BY <2>2 DEF agendaVars
      <3>2. AgendaType' /\ DueIsKnown'
        BY <3>1 DEF AgendaInv, AgendaType, DueIsKnown
      <3>3. \A e \in Events : ~Awaiting(e) /\ BeenShown(e) => ~Awaiting(e)' /\ BeenShown(e)'
        BY <3>1 DEF Awaiting, BeenShown
      <3> QED
        BY <3>1, <3>2, <3>3, QuietKeeps
    <2> QED
      BY <2>1, <2>2, EditsKeep, ScanKeeps, NotifyKeeps, StampKeeps, AgendaCrashKeeps
      DEF AgendaNext
  <1>3. AgendaInv => RingsOnce
    <2> SUFFICES ASSUME AgendaInv, NEW r \in rung
                 PROVE  \E k \in AgendaKits : r.n <= 1 + k.crashes - budget.crashes
      BY DEF RingsOnce
    <2>1. PICK k \in AgendaKits : RungWithin(k)
      BY DEF AgendaInv
    <2>2. budget.crashes \in Nat /\ k.crashes \in Nat
          /\ r.id \in Events /\ r.at \in Int /\ r.n \in Nat
      BY AgendaConstants DEF AgendaInv, AgendaType
    <2>3. r.n <= Cardinality(Times(r.id, r.at)) /\ Cardinality(Times(r.id, r.at)) \in Nat
      BY TimesAreFinite DEF AgendaInv, CountsAreTimes
    <2> DEFINE used == k.crashes - budget.crashes
    <2>4. used \in Int
      BY <2>2
    <2>5. Cardinality(Times(r.id, r.at)) <= Allowed(r.id, used)
      BY <2>1, <2>2 DEF RungWithin
    <2>6. 1 + k.crashes - budget.crashes = used + 1
      BY <2>2
    <2> HIDE DEF used
    <2>7. Allowed(r.id, used) \in Int /\ Allowed(r.id, used) <= used + 1
      BY <2>4 DEF Allowed
    <2>8. r.n <= used + 1
      BY <2>2, <2>3, <2>4, <2>5, <2>7
    <2> QED
      BY <2>6, <2>8
  <1> QED
    BY <1>1, <1>2, <1>3, PTL DEF AgendaSpec
=============================================================================
