----------------------------- MODULE LlmStream -----------------------------
(***************************************************************************)
(* One request to the model (llm/client.rs, llm/providers/openai.rs): it   *)
(* is sent at most twice per attempt, its answer comes as lines cut into   *)
(* chunks anywhere, and an attempt that fails before anything was shown is *)
(* made once more.  The server sends the same lines every time; the        *)
(* network cuts, stalls and closes.                                        *)
(***************************************************************************)
EXTENDS Integers, SequencesExt

CONSTANTS
  StreamKits,   \* the lines of an answer, and what the network does to it
  MaxChunk      \* bound: half lines in a chunk

ASSUME ChunkAssumption == MaxChunk \in Nat \ {0}

VARIABLES
  script,    \* the lines the server sends and how many attempts may fail
  client,    \* where the request is
  attempt,   \* attempts begun
  sending,   \* sends of this attempt that failed
  socket,    \* the stream: what was sent of the script, and what is in flight
  acc,       \* LineAccumulator and what was parsed
  shown,     \* what on_token and on_thinking were given, all attempts together
  cancelled, \* the watch channel
  answer     \* what stream_chat returns

streamVars == <<script, client, attempt, sending, socket, acc, shown, cancelled, answer>>

\* the halves of line n are 2n - 1 and 2n; the line break belongs to the second
Halves == 2 * Len(script.lines)
\* what a line says: text, reasoning, pieces of calls, the end; nothing when it is
\* no JSON
NoLine == [content |-> "", thought |-> "", calls |-> <<>>, finish |-> FALSE]
NoAnswer == [is |-> "none", text |-> <<>>, thought |-> <<>>, calls |-> <<>>, finish |-> FALSE]
Failure(is) == [NoAnswer EXCEPT !.is = is]
NoSocket == [pos |-> 0, flight |-> "nothing", size |-> 0]
\* what is kept of an attempt: whole and half lines not parsed yet, the text, and
\* the calls by index
Fresh == [buf |-> <<>>, text |-> <<>>, thought |-> <<>>, calls |-> <<>>, finish |-> FALSE]

StreamInit ==
  /\ script \in StreamKits
  /\ client = "start" /\ attempt = 0 /\ sending = 0
  /\ socket = NoSocket /\ acc = Fresh
  /\ shown = [text |-> <<>>, thought |-> <<>>] /\ cancelled = FALSE /\ answer = NoAnswer

Conclude(what) == client' = "done" /\ answer' = what
Endure(f) == script[f] > 0 /\ script' = [script EXCEPT ![f] = @ - 1]
-----------------------------------------------------------------------------
\* the user stops the run
CancelStream ==
  /\ ~cancelled /\ client # "done" /\ script.cancels
  /\ cancelled' = TRUE
  /\ UNCHANGED <<script, client, attempt, sending, socket, acc, shown, answer>>
\* a request that is cancelled before it was sent
BeginRequest ==
  /\ client = "start"
  /\ \/ cancelled /\ Conclude(Failure("cancelled"))
     \/ ~cancelled /\ client' = "send" /\ answer' = answer
  /\ attempt' = 1
  /\ UNCHANGED <<script, sending, socket, acc, shown, cancelled>>
\* send: a network error is retried once, 500 ms later; the server may refuse
SendRequest ==
  /\ client = "send"
  /\ \/ /\ client' = "stream" /\ sending' = 0
        /\ socket' = NoSocket /\ acc' = Fresh
        /\ UNCHANGED <<script, answer>>
     \/ /\ Endure("netErrors")
        /\ \/ sending = 0 /\ sending' = 1 /\ UNCHANGED <<client, answer>>
           \/ sending = 1 /\ sending' = sending /\ Conclude(Failure("error"))
        /\ UNCHANGED <<socket, acc>>
     \/ /\ Endure("refusals") /\ Conclude(Failure("error"))
        /\ UNCHANGED <<sending, socket, acc>>
  /\ UNCHANGED <<attempt, shown, cancelled>>
-----------------------------------------------------------------------------
(***************************************************************************)
(* The other end, outside the program.                                     *)
(***************************************************************************)
ServerSends ==
  /\ client = "stream" /\ socket.flight = "nothing"
  /\ \/ \E n \in 1 .. MaxChunk :
          /\ socket.pos + n <= Halves
          /\ socket' = [socket EXCEPT !.flight = "chunk", !.size = n]
          /\ UNCHANGED script
     \/ /\ socket.pos = Halves
        /\ socket' = [socket EXCEPT !.flight = "end"] /\ UNCHANGED script
     \/ /\ socket.pos < Halves /\ Endure("closes")
        /\ socket' = [socket EXCEPT !.flight = "end"]
     \/ /\ Endure("breaks")
        /\ socket' = [socket EXCEPT !.flight = "error"]
     \/ /\ script.chatty \* comments that keep the connection busy
        /\ socket' = [socket EXCEPT !.flight = "chunk", !.size = 0] /\ UNCHANGED script
  /\ UNCHANGED <<client, attempt, sending, acc, shown, cancelled, answer>>
-----------------------------------------------------------------------------
(***************************************************************************)
(* Reading.                                                                *)
(***************************************************************************)
\* feed: everything up to the last line break
Feed(buf) ==
  LET breaks == {i \in DOMAIN buf : buf[i] % 2 = 0}
  IN  IF breaks = {} THEN <<>> ELSE SubSeq(buf, 1, CHOOSE i \in breaks : \A j \in breaks : j <= i)
\* the lines of a decoded piece: a half line is no JSON and is skipped
LinesOf(halves) ==
  LET whole == SelectSeq(halves, LAMBDA h : h % 2 = 0)
  IN  [i \in DOMAIN whole |->
         IF \E j \in DOMAIN halves : halves[j] = whole[i] - 1
         THEN script.lines[whole[i] \div 2] ELSE NoLine]
\* the field a dialect puts its reasoning in (OpenAI has none)
Reasons(dialect) == dialect # "OpenAI"
\* the last of the values that are not empty
LastOf(seq, none) == FoldLeft(LAMBDA x, y : IF y = none THEN x ELSE y, none, seq)
\* parse_delta: of several calls in one delta the last name, the last arguments
\* and the last index are kept
ParseDelta(line, dialect) ==
  [content |-> line.content,
   thought |-> IF Reasons(dialect) THEN line.thought ELSE "",
   name |-> LastOf([i \in DOMAIN line.calls |-> line.calls[i].name], ""),
   args |-> LastOf([i \in DOMAIN line.calls |-> line.calls[i].args], ""),
   index |-> IF line.calls = <<>> THEN 1 ELSE Last(line.calls).index,
   finish |-> line.finish]
\* (mutant) the arguments of a call replace the ones that came before
ArgsReplace(args, more) == <<more>>
ArgsGrow(args, more) == Append(args, more)
\* process_sse_line: a call is told by its index, its name is set and its
\* arguments are appended
CallAt(calls, index) == IF index \in DOMAIN calls THEN calls[index] ELSE [name |-> "", args |-> <<>>]
ApplyDelta(a, d) ==
  LET named == IF d.name = "" THEN CallAt(a.calls, d.index)
               ELSE [CallAt(a.calls, d.index) EXCEPT !.name = d.name]
      call == IF d.args = "" THEN named ELSE [named EXCEPT !.args = ArgsGrow(@, d.args)]
      touched == IF d.name = "" /\ d.args = "" THEN {} ELSE {d.index}
  IN  [a EXCEPT !.text = IF d.content = "" THEN @ ELSE Append(@, d.content),
                !.thought = IF d.thought = "" THEN @ ELSE Append(@, d.thought),
                !.finish = @ \/ d.finish,
                !.calls = [i \in DOMAIN a.calls \cup touched |-> IF i \in touched THEN call ELSE a.calls[i]]]
Process(a, lines) == FoldLeft(LAMBDA b, l : ApplyDelta(b, ParseDelta(l, script.dialect)), a, lines)

\* on_token and on_thinking, once for each piece of text
Show(a) == shown' = [text |-> shown.text \o SubSeq(a.text, Len(acc.text) + 1, Len(a.text)),
                     thought |-> shown.thought \o SubSeq(a.thought, Len(acc.thought) + 1, Len(a.thought))]

Arrived == [i \in 1 .. socket.size |-> socket.pos + i]
\* (mutant) a chunk is read whether or not the user stopped the run
HeedsNot == FALSE
HeedsCancel == cancelled
ReadChunk ==
  LET buf == acc.buf \o Arrived
      lines == LinesOf(Feed(buf))
  IN  /\ client = "stream" /\ socket.flight = "chunk"
      /\ \/ HeedsCancel /\ Conclude(Failure("cancelled")) /\ UNCHANGED <<socket, acc, shown>>
         \/ /\ ~HeedsCancel
            /\ acc' = Process([acc EXCEPT !.buf = SubSeq(buf, Len(Feed(buf)) + 1, Len(buf))], lines)
            /\ Show(acc')
            /\ socket' = [pos |-> socket.pos + socket.size, flight |-> "nothing", size |-> 0]
            /\ UNCHANGED <<client, answer>>
      /\ UNCHANGED <<script, attempt, sending, cancelled>>

\* (mutant) an attempt is repeated whatever was shown
MayRetryAlways(a) == attempt = 1
\* nothing was shown yet
MayRetry(a) == attempt = 1 /\ a.text = <<>> /\ a.thought = <<>>
StreamFails ==
  /\ \/ /\ MayRetry(acc)
        /\ client' = "send" /\ attempt' = attempt + 1 /\ UNCHANGED answer
     \/ /\ ~MayRetry(acc)
        /\ Conclude(Failure("error")) /\ UNCHANGED attempt
  /\ UNCHANGED <<script, sending, socket, acc, shown, cancelled>>
\* the stream breaks
Broken ==
  /\ client = "stream" /\ socket.flight = "error"
  /\ \/ cancelled /\ Conclude(Failure("cancelled"))
        /\ UNCHANGED <<script, attempt, sending, socket, acc, shown, cancelled>>
     \/ ~cancelled /\ StreamFails
\* 120 s without data; nobody looks whether the user stopped the run
IdleTimeout ==
  /\ client = "stream" /\ socket.flight = "nothing" /\ StreamFails

\* the stream ends: what is left is one more piece, and what was parsed is the
\* answer, whether or not the server said that it was finished
Whole(a) ==
  [is |-> IF a.calls # <<>> THEN "calls" ELSE "text",
   text |-> a.text, thought |-> a.thought, calls |-> a.calls, finish |-> a.finish]
StreamEnds ==
  LET lines == LinesOf(acc.buf)
      last == Process([acc EXCEPT !.buf = <<>>], lines)
  IN  /\ client = "stream" /\ socket.flight = "end"
      /\ acc' = last /\ Show(last)
      /\ Conclude(Whole(last))
      /\ UNCHANGED <<script, attempt, sending, socket, cancelled>>

StreamNext ==
  CancelStream \/ BeginRequest \/ SendRequest \/ ServerSends \/ ReadChunk \/ Broken \/ IdleTimeout \/ StreamEnds
\* the task is polled, and the timer fires on a line that stays silent
StreamFairness ==
  WF_streamVars(BeginRequest \/ ReadChunk \/ Broken \/ StreamEnds) /\ WF_streamVars(IdleTimeout)
-----------------------------------------------------------------------------
\* The user reads what the model answered, once: no retry shows a token or a
\* thought again and no cut in the stream loses one.
ShownIsAnswered ==
  answer.is \in {"text", "calls"} => shown = [text |-> answer.text, thought |-> answer.thought]

\* However the lines are cut into chunks, an answer that reached its end is the
\* one the server sent: every call with its name and all its arguments in the
\* order they came in, and the whole text.
SentTo(f, index) ==
  SelectSeq([i \in DOMAIN script.lines |->
               IF script.lines[i].calls # <<>> /\ script.lines[i].calls[1].index = index
               THEN script.lines[i].calls[1][f] ELSE ""], LAMBDA x : x # "")
AnswerIsWhole ==
  answer.is \in {"text", "calls"} /\ answer.finish =>
    /\ \A i \in DOMAIN answer.calls :
         answer.calls[i] = [name |-> SentTo("name", i)[1], args |-> SentTo("args", i)]
    /\ \A n \in DOMAIN script.lines :
         \A c \in ToSet(script.lines[n].calls) : c.index \in DOMAIN answer.calls
    /\ answer.text = SelectSeq([n \in DOMAIN script.lines |-> script.lines[n].content], LAMBDA x : x # "")

\* Stopping a run stops the stream, also one that a chatty server keeps alive.
CancelStops == cancelled /\ client = "stream" ~> client # "stream"
=============================================================================
