--------------------------------- MODULE Mcp ---------------------------------
(***************************************************************************)
(* An MCP server over stdio (mcp/session.rs, mcp/client.rs): one child     *)
(* process kept between calls, a reader thread that queues what it prints, *)
(* and a mutex under which one blocking call at a time writes a request    *)
(* and reads until it meets its answer.  The server answers late or in     *)
(* another order, prints messages nobody asked for, numbers requests of    *)
(* its own, and dies. Below, its row (mcp/manager.rs,                      *)
(* storage/mcp_repo.rs), which connection tests, the user and the secrets  *)
(* table write in statements of their own.                                 *)
(***************************************************************************)
EXTENDS Naturals, SequencesExt

CONSTANTS
  Calls,     \* calls of tools/list and tools/call, each on a thread of its own
  McpKits    \* what a behaviour is bounded to

ASSUME McpConstants == "nobody" \notin Calls

VARIABLES
  children,   \* the processes started, each with its stdin and its channel
  inner,      \* the one the session holds, 0 for none
  nextId,     \* its next request id
  mutex,      \* the call that holds the session, or NoCaller
  call,       \* the calls
  server,     \* the row of mcp_servers
  secrets,    \* the values of its environment in the secrets table
  step,       \* create, delete and test_connection between their statements
  wanted,     \* the user's last word on `enabled`
  mcpKit      \* what is left of the bounds

sessionVars == <<children, inner, nextId, mutex, call>>
serverVars == <<server, secrets, step, wanted>>
mcpVars == <<sessionVars, serverVars, mcpKit>>

NoCaller == "nobody"
NoServer == [known |-> FALSE, enabled |-> FALSE, status |-> "disabled", error |-> FALSE]
Idle == [at |-> "idle", id |-> 0, child |-> 0, got |-> "nothing"]
Child == [alive |-> TRUE, stdin |-> {}, out |-> <<>>, shook |-> FALSE]
\* a line the server prints: an answer, or a request of its own, which carries
\* an id as well; a notification has none
Line(id, to) == [id |-> id, to |-> to]
Owe(f) == mcpKit[f] > 0 /\ mcpKit' = [mcpKit EXCEPT ![f] = @ - 1]

McpInit ==
  /\ children = <<>> /\ inner = 0 /\ nextId = 0 /\ mutex = NoCaller
  /\ call = [c \in Calls |-> Idle]
  /\ server = NoServer /\ secrets = FALSE /\ step = "none" /\ wanted = FALSE
  /\ mcpKit \in McpKits
-----------------------------------------------------------------------------
(***************************************************************************)
(* A call.                                                                 *)
(***************************************************************************)
Moves(c, at) == call' = [call EXCEPT ![c].at = at]
\* the guard is dropped with the error or the value
Returns(c, got) ==
  /\ call' = [call EXCEPT ![c].at = "done", ![c].got = got]
  /\ mutex' = NoCaller

\* invoke and list hand the call to a blocking thread
Invoke(c) ==
  /\ call[c].at = "idle" /\ Owe("calls") /\ Moves(c, "lock")
  /\ UNCHANGED <<children, inner, nextId, mutex, serverVars>>
LockSession(c) ==
  /\ call[c].at = "lock" /\ mutex = NoCaller
  /\ mutex' = c /\ Moves(c, "ensure")
  /\ UNCHANGED <<children, inner, nextId, serverVars, mcpKit>>

\* (mutant) a process that idled too long is only forgotten
KillNot(p) == children
Kill(p) == [children EXCEPT ![p].alive = FALSE, ![p].stdin = {}]
\* ensure_alive: a process unused for IDLE_RECYCLE_MS is replaced, a dead one is
\* reported once, and its successor is left to the next call
Recycle(c) ==
  /\ call[c].at = "ensure" /\ inner # 0 /\ Owe("idle")
  /\ children' = Kill(inner) /\ inner' = 0
  /\ UNCHANGED <<nextId, mutex, call, serverVars>>
FoundDead(c) ==
  /\ call[c].at = "ensure" /\ inner # 0 /\ ~children[inner].alive
  /\ inner' = 0 /\ Returns(c, "process down")
  /\ UNCHANGED <<children, nextId, serverVars, mcpKit>>
FoundAlive(c) ==
  /\ call[c].at = "ensure" /\ inner # 0 /\ children[inner].alive
  /\ Moves(c, "send")
  /\ UNCHANGED <<children, inner, nextId, mutex, serverVars, mcpKit>>

Ask(ps, p, id, c) == [ps EXCEPT ![p].stdin = @ \cup {Line(id, c)}]
\* spawn_and_handshake: the process, its reader and `initialize`, numbered 1;
\* the process is held only when that was answered
Spawn(c) ==
  /\ call[c].at = "ensure" /\ inner = 0
  /\ \/ /\ Owe("spawns")
        /\ children' = Ask(Append(children, Child), Len(children) + 1, 1, c)
        /\ call' = [call EXCEPT ![c].at = "shake", ![c].id = 1,
                                ![c].child = Len(children) + 1]
        /\ UNCHANGED mutex
     \/ Returns(c, "network") /\ UNCHANGED <<children, mcpKit>>
  /\ UNCHANGED <<inner, nextId, serverVars>>
\* rpc_request, the request: a write to a process that is gone fails
Send(c) ==
  /\ call[c].at = "send"
  /\ \/ /\ children[inner].alive
        /\ children' = Ask(children, inner, nextId, c)
        /\ call' = [call EXCEPT ![c].at = "wait", ![c].id = nextId, ![c].child = inner]
        /\ UNCHANGED mutex
     \/ ~children[inner].alive /\ Returns(c, "network") /\ UNCHANGED children
  /\ nextId' = nextId + 1
  /\ UNCHANGED <<inner, serverVars, mcpKit>>

\* (mutant) whatever comes next is the answer
MeantAny(line, c) == line.to # NoCaller
Meant(line, c) == line.id = call[c].id
\* rpc_request, the loop: lines with another id are dropped; one with this id
\* ends it: as an error, as a result, or without one when it was a request of the
\* server with the same number
Read(c) ==
  LET p == call[c].child
      line == Head(children[p].out)
      rest == [children EXCEPT ![p].out = Tail(@)]
  IN  /\ call[c].at \in {"shake", "wait"} /\ children[p].out # <<>>
      /\ \/ /\ ~Meant(line, c)
            /\ children' = rest /\ UNCHANGED <<inner, nextId, mutex, call>>
         \/ /\ Meant(line, c) /\ call[c].at = "shake"
            /\ children' = [rest EXCEPT ![p].shook = TRUE]
            /\ inner' = p /\ nextId' = 2 /\ Moves(c, "send") /\ UNCHANGED mutex
         \/ /\ Meant(line, c) /\ call[c].at = "shake" /\ line.to = c
            /\ children' = rest /\ Returns(c, "server") /\ UNCHANGED <<inner, nextId>>
         \/ /\ Meant(line, c) /\ call[c].at = "wait"
            /\ children' = rest /\ Returns(c, line.to) /\ UNCHANGED <<inner, nextId>>
      /\ UNCHANGED <<serverVars, mcpKit>>
\* (mutant) the wait for a line has no end
RpcTimeoutNever(c) == FALSE /\ UNCHANGED mcpVars
\* recv_timeout: RPC_TIMEOUT passes without a line, or the reader is gone with
\* the process; a process that never shook hands is not killed
RpcTimeout(c) ==
  /\ call[c].at \in {"shake", "wait"} /\ children[call[c].child].out = <<>>
  /\ Returns(c, "timeout")
  /\ UNCHANGED <<children, inner, nextId, serverVars, mcpKit>>
\* shutdown and Drop
Shutdown ==
  /\ mutex = NoCaller /\ inner # 0 /\ Owe("idle")
  /\ children' = Kill(inner) /\ inner' = 0
  /\ UNCHANGED <<nextId, mutex, call, serverVars>>

(***************************************************************************)
(* The server process, outside the program.                                *)
(***************************************************************************)
Prints(p, line) == children' = [children EXCEPT ![p].out = Append(@, line)]
ServerAnswers(p, line) ==
  /\ children[p].alive /\ line \in children[p].stdin
  /\ children' = [children EXCEPT ![p].stdin = @ \ {line}, ![p].out = Append(@, line)]
  /\ UNCHANGED <<inner, nextId, mutex, call, serverVars, mcpKit>>
\* one that chats has a line of its own whenever the last one was read
ServerSpeaks(p) ==
  /\ children[p].alive
  /\ \/ Owe("lines")
     \/ mcpKit.chats /\ children[p].out = <<>> /\ UNCHANGED mcpKit
  /\ \E id \in 0 .. 2 : Prints(p, Line(id, NoCaller))
  /\ UNCHANGED <<inner, nextId, mutex, call, serverVars>>
ServerDies(p) ==
  /\ children[p].alive /\ Owe("deaths")
  /\ children' = Kill(p)
  /\ UNCHANGED <<inner, nextId, mutex, call, serverVars>>
-----------------------------------------------------------------------------
(***************************************************************************)
(* The row.                                                                *)
(***************************************************************************)
\* create: the row, then the part of the environment that is secret
InsertServer(enabled) ==
  /\ step = "none" /\ ~server.known /\ Owe("edits")
  /\ server' = [known |-> TRUE, enabled |-> enabled, error |-> FALSE,
                status |-> IF enabled THEN "enabled" ELSE "disabled"]
  /\ wanted' = enabled /\ step' = "secrets"
  /\ UNCHANGED <<sessionVars, secrets>>
ReplaceScope ==
  /\ step = "secrets" /\ secrets' = TRUE /\ step' = "none"
  /\ UNCHANGED <<sessionVars, server, wanted, mcpKit>>
\* delete: the row, then its secrets
DeleteServer ==
  /\ step = "none" /\ server.known /\ Owe("edits")
  /\ server' = NoServer /\ step' = "scope"
  /\ UNCHANGED <<sessionVars, secrets, wanted>>
DeleteScope ==
  /\ step = "scope" /\ secrets' = FALSE /\ step' = "none"
  /\ UNCHANGED <<sessionVars, server, wanted, mcpKit>>
SetEnabled(enabled) ==
  /\ server.known /\ Owe("edits")
  /\ server' = [server EXCEPT !.enabled = enabled,
                              !.status = IF enabled THEN "enabled" ELSE "disabled"]
  /\ wanted' = enabled
  /\ UNCHANGED <<sessionVars, secrets, step>>

WhenKnown(new) == IF server.known THEN new ELSE server
\* test_connection: the row is read, marked and, 8 seconds and more later,
\* marked again with the outcome, whatever was done to it meanwhile
TestBegins ==
  /\ step = "none" /\ server.known /\ Owe("tests")
  /\ server' = [server EXCEPT !.status = "connecting"] /\ step' = "test"
  /\ UNCHANGED <<sessionVars, secrets, wanted>>
\* (mutant) a server that answers is switched on
RecordSuccessOn == WhenKnown([server EXCEPT !.status = "enabled", !.error = FALSE,
                                            !.enabled = TRUE])
RecordSuccess == WhenKnown([server EXCEPT !.status = "enabled", !.error = FALSE])
\* (mutant) only a server that answers is marked again
RecordErrorOnly == WhenKnown([server EXCEPT !.error = TRUE])
RecordError == WhenKnown([server EXCEPT !.status = "error", !.error = TRUE])
TestEnds ==
  /\ step = "test"
  /\ server' = RecordSuccess \/ server' = RecordError
  /\ step' = "none"
  /\ UNCHANGED <<sessionVars, secrets, wanted, mcpKit>>
\* the program goes down between two statements
McpCrash ==
  /\ step # "none" /\ Owe("crash") /\ step' = "none"
  /\ UNCHANGED <<sessionVars, server, secrets, wanted>>

CallStep(c) ==
  Recycle(c) \/ FoundDead(c) \/ FoundAlive(c) \/ Spawn(c) \/ Send(c) \/ Read(c) \/ RpcTimeout(c)
McpNext ==
  \/ \E c \in Calls : Invoke(c) \/ LockSession(c) \/ CallStep(c)
  \/ \E p \in DOMAIN children :
       \/ \E line \in children[p].stdin : ServerAnswers(p, line)
       \/ ServerSpeaks(p) \/ ServerDies(p)
  \/ Shutdown \/ ReplaceScope \/ DeleteServer \/ DeleteScope \/ TestBegins \/ TestEnds \/ McpCrash
  \/ \E enabled \in BOOLEAN : InsertServer(enabled) \/ SetEnabled(enabled)
McpSpec == McpInit /\ [][McpNext]_mcpVars
\* the threads are scheduled, and a mutex that stays free is granted to a waiter
McpFairness ==
  /\ \A c \in Calls : WF_mcpVars(CallStep(c)) /\ WF_mcpVars(LockSession(c))
  /\ WF_mcpVars(TestEnds)
-----------------------------------------------------------------------------
\* A call that comes back with a result has the answer to its own request, also
\* when an earlier call of the same process timed out and was answered since, or
\* when the server prints other lines in between.
AnswerIsOwn ==
  \A c \in Calls :
    call[c].got \in {"nothing", "process down", "network", "server", "timeout", NoCaller, c}

\* No process is left behind: one that runs is the session's, or is being
\* started, or never finished its handshake.
NoStrayServer ==
  \A p \in DOMAIN children :
    children[p].alive /\ children[p].shook => p = inner

\* Every call returns, and lets the next one have the session, provided that the
\* server does not talk for ever: every line starts the wait anew.
FallsSilent == <>[][\A p \in DOMAIN children : ~ServerSpeaks(p)]_mcpVars
CallsReturn == FallsSilent => \A c \in Calls : call[c].at = "lock" ~> call[c].at = "done"

\* The session does not hang (docs/prd-collab-agent-2026-08-03.md:233): whoever holds
\* it gives it back, whatever the server does.
SessionComesFree == mutex # NoCaller ~> mutex = NoCaller

\* Whether a server is enabled is the user's decision: a connection test, whose
\* outcome may come long after, marks the row but does not switch it.
EnabledIsWanted == server.known => server.enabled = wanted

\* A row does not stay "connecting": a test that was not cut off marks it again.
TestSettles ==
  (server.status = "connecting") ~> (server.status # "connecting" \/ mcpKit.crash = 0)

\* What the client makes of servers that are slow, talk out of turn and die: a call
\* that returns has its own answer or none, no process outlives its session, and a
\* test leaves the user's switch alone.
ServersKept == AnswerIsOwn /\ NoStrayServer /\ EnabledIsWanted

\* Neither a server that never answers nor one that dies or says other things for a
\* while holds anybody up: each call returns, and a test comes to an end.
ServersSettle == CallsReturn /\ TestSettles
=============================================================================
