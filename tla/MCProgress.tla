----------------------------- MODULE MCProgress -----------------------------
(***************************************************************************)
(* The parts that have to come to an end, for TLC: the turns of a chat,    *)
(* the ledger's writer, the sessions of MCP servers, an answer that        *)
(* streams in, a command-line agent, the start of the program, reminders   *)
(* and jobs.  They share no state: a behaviour looks into one of them, its *)
(* focus, and fairness is asked of the focus alone, as each module asks it *)
(* of its own actions.                                                     *)
(***************************************************************************)
EXTENDS MCTalks, Ledger, Mcp, Executors, Startup, Reminders, Automation

CONSTANT Focuses   \* the parts a run looks into
VARIABLE focus

(***************************************************************************)
(* Bounds: what a behaviour of each part may spend.                        *)
(***************************************************************************)
OneWait == Kit({"post", "remove"}, 2, 2, 0)

OneLedger == [steps |-> 4, faults |-> 1, crash |-> 0]
SmallLedgers == {OneLedger, [steps |-> 2, faults |-> 1, crash |-> 1]}

\* calls that idle, spawn and time out; a server that dies, one that prints some
\* lines of its own and one that never stops; two connection tests beside the
\* user's edits
MK(c, i, s, l, d, e, t, x) ==
  [calls |-> c, idle |-> i, spawns |-> s, lines |-> l, deaths |-> d,
   edits |-> e, tests |-> t, crash |-> x, chats |-> FALSE]
OneServer == MK(3, 0, 2, 0, 1, 0, 0, 0)
SmallServers == {OneServer, MK(2, 1, 2, 1, 0, 0, 0, 0), MK(0, 0, 0, 0, 0, 4, 2, 1),
                 MK(2, 0, 2, 1, 1, 0, 0, 0), MK(2, 0, 1, 2, 0, 0, 0, 0),
                 [MK(2, 0, 1, 0, 0, 0, 0, 0) EXCEPT !.chats = TRUE]}

\* seats without an executor, agents that are missing, logged out or answer
\* nothing, that fail while they talk, or never come to an end, and machines on
\* which the question whether they are there does not
XK(ex, se, st, ma, lo, ca, sp, exi, er, out, can) ==
  [executor |-> ex, session |-> se, stop |-> st, machine |-> ma, login |-> lo, card |-> ca,
   spawns |-> sp, exit |-> exi, stderr |-> er, stdout |-> out, cancelled |-> can]
OneAgent == XK("none", "made", "Completed", "NotFound", "ok", "text", TRUE, 0, "", FALSE, TRUE)
SmallAgents ==
  {XK("none", se, st, "NotFound", "ok", "text", TRUE, 0, "", FALSE, TRUE) :
     se \in {"broken", "made"}, st \in {"Completed", "BudgetExhausted"}}
  \cup {XK(ex, "made", "Completed", ma, lo, ca, sp, 0, "", TRUE, can) :
          ex \in {"cli:codex", "cli:pi"}, ma \in {"installed", "NotFound"},
          lo \in {"ok", "missing", "broken"}, ca \in {"text", "empty"},
          sp \in BOOLEAN, can \in BOOLEAN}
  \cup {XK("cli:claude", "made", "Completed", "installed", "ok", "text", TRUE, e, er, out, TRUE) :
          e \in {0, 1}, er \in {"", "auth_failure"}, out \in BOOLEAN}
  \cup {XK("cli:claude", "made", "Completed", "installed", "ok", "text", TRUE, Hangs, "", FALSE, can) :
          can \in BOOLEAN}
  \cup {XK("cli:codex", "made", "Completed", ma, "hangs", "text", TRUE, 0, "", TRUE, TRUE) :
          ma \in {"installed", "hangs"}}

\* nothing on the disk, an old database in the old place, and one of the first
\* version that the schema's statements have to complete
BK(d, sc, di, st, sk, se, ed) ==
  [disk |-> d, schema |-> sc, dies |-> di, starts |-> st, skills |-> sk, servers |-> se, edits |-> ed]
FreshSchema == [version |-> 0, columns |-> {}, titled |-> TRUE]
Ids == {"sessions", "messages", "tasks", "runs", "workspaces", "calendar_events",
        "scheduled_tasks", "changeset", "agents"}
Ancient == [version |-> 0, titled |-> FALSE,
            columns |-> {<<t, "id">> : t \in Ids} \cup {<<"roundtable_messages", "seq">>}]
FirstSchema == [version |-> 1, titled |-> TRUE,
                columns |-> UNION {s.arg : s \in Range(Migrations[1])}]
EmptyDisk == [old |-> {}, new |-> {}]
NewDisk == [old |-> {}, new |-> {""}]
LegacyDisk == [old |-> {"", "-wal"}, new |-> {}]
OneBoot == BK(LegacyDisk, Ancient, {}, 2, <<>>, <<>>, 2)
SmallBoots ==
  {OneBoot,
   BK(EmptyDisk, FreshSchema, {"skills", "imports", "defaults", "presets", "demo", "kanban", "jobs"},
      2, <<"s1", "s2">>, <<"tavily", "own">>, 1),
   BK(NewDisk, FirstSchema, {"presets", "kanban"}, 3, <<"s1">>, <<>>, 1)}
\* dying in a migration
BootCut == {BK(NewDisk, FirstSchema, {"migrate"}, 1, <<>>, <<>>, 0)}

SmallAgendas == {[edits |-> 3, crashes |-> 1]}

OneJob == [expr |-> [is |-> "over", left |-> Late], action |-> "shell", edits |-> 1,
           now |-> 1, crash |-> 0]
Hourly == [OneJob EXCEPT !.expr = [is |-> "every", left |-> Never], !.now = 0]
SmallJobs == {OneJob, [Hourly EXCEPT !.edits = 1],
              [Hourly EXCEPT !.edits = 0, !.action = "agent", !.crash = 1]}
-----------------------------------------------------------------------------
(***************************************************************************)
(* One part at a time.                                                     *)
(***************************************************************************)
\* a part out of focus starts from one state, in which it owes nothing
Fixed(name, chosen, one) == focus = name \/ chosen = one

ProgressInit ==
  /\ focus \in Focuses
  /\ ChatInit /\ Fixed("chat", kit, OneWait)
  /\ LedgerInit /\ Fixed("ledger", ledgerKit, OneLedger)
  /\ McpInit /\ Fixed("mcp", mcpKit, OneServer)
  /\ StreamInit /\ Fixed("llm", script, OneAnswer)
  /\ IF focus = "executor" THEN ExecInit
     ELSE /\ setup = OneAgent /\ stage = "over" /\ process = "none" /\ entry = FALSE
          /\ result = NoResult /\ taskRow = "Failed" /\ cancel = [at |-> "none", met |-> "never"]
  /\ BootInit /\ Fixed("startup", boots, OneBoot)
  /\ AgendaInit
  /\ JobInit /\ Fixed("automation", jobKit, OneJob)

ProgressNext ==
  /\ UNCHANGED focus
  /\ \/ focus = "chat" /\ ChatNext
     \/ focus # "chat" /\ UNCHANGED chatVars
  /\ \/ focus = "ledger" /\ LedgerNext
     \/ focus # "ledger" /\ UNCHANGED ledgerVars
  /\ \/ focus = "mcp" /\ McpNext
     \/ focus # "mcp" /\ UNCHANGED mcpVars
  /\ \/ focus = "llm" /\ StreamNext
     \/ focus # "llm" /\ UNCHANGED streamVars
  /\ \/ focus = "executor" /\ ExecNext
     \/ focus # "executor" /\ UNCHANGED execVars
  /\ \/ focus = "startup" /\ BootNext
     \/ focus # "startup" /\ UNCHANGED bootVars
  /\ \/ focus = "reminders" /\ AgendaNext
     \/ focus # "reminders" /\ UNCHANGED agendaVars
  /\ \/ focus = "automation" /\ JobNext
     \/ focus # "automation" /\ UNCHANGED jobVars

progressVars ==
  <<focus, chatVars, ledgerVars, mcpVars, streamVars, execVars, bootVars, agendaVars, jobVars>>

\* ChatFairness, LedgerFairness, McpFairness, StreamFairness, ExecFairness,
\* BootFairness, AgendaFairness and JobFairness, each while its part has the focus
ProgressFairness ==
  /\ \A i \in 1 .. MaxTurns :
       /\ WF_chatVars(focus = "chat" /\ i \in DOMAIN turns /\ (Prepare(i) \/ AnswerStep(i)))
       /\ WF_chatVars(focus = "chat" /\ i \in DOMAIN turns /\ Lock(i))
       /\ WF_chatVars(focus = "chat" /\ i \in DOMAIN turns /\ Converse(i))
  /\ WF_ledgerVars(focus = "ledger" /\ Receive)
  /\ \A r \in LedgerRuns : WF_ledgerVars(focus = "ledger" /\ FinishRow(r))
  /\ \A c \in Calls : /\ WF_mcpVars(focus = "mcp" /\ CallStep(c))
                      /\ WF_mcpVars(focus = "mcp" /\ LockSession(c))
  /\ WF_mcpVars(focus = "mcp" /\ TestEnds)
  /\ WF_streamVars(focus = "llm" /\ (BeginRequest \/ ReadChunk \/ Broken \/ StreamEnds))
  /\ WF_streamVars(focus = "llm" /\ IdleTimeout)
  /\ WF_execVars(focus = "executor" /\ (EngineBegin \/ EngineEnd \/ Probe \/ SpawnCli
                                             \/ ReadOutput))
  /\ WF_execVars(focus = "executor" /\ (JudgeTask \/ SettleTask))
  /\ WF_execVars(focus = "executor" /\ CliTimeout)
  /\ WF_bootVars(focus = "startup" /\ Launch)
  /\ WF_bootVars(focus = "startup" /\ NextPhase)
  /\ WF_bootVars(focus = "startup" /\ BootStep)
  /\ WF_bootVars(focus = "startup" /\ Refuse)
  /\ WF_agendaVars(focus = "reminders" /\ Scan)
  /\ WF_agendaVars(focus = "reminders" /\ MinutePasses)
  /\ WF_agendaVars(focus = "reminders" /\ Notify)
  /\ WF_agendaVars(focus = "reminders" /\ Stamp)
  /\ WF_jobVars(focus = "automation" /\ TickJobs)
  /\ WF_jobVars(focus = "automation" /\ StartScheduler)
  /\ \A s \in Slots : WF_jobVars(focus = "automation" /\ Exec(s))

ProgressSpec == ProgressInit /\ [][ProgressNext]_progressVars /\ ProgressFairness
-----------------------------------------------------------------------------
\* Whoever waits gets an answer or a time-out: members for each other's turns, a run for
\* the ledger, a caller for a server, the user for a stream to stop and a task for its
\* agent (group/roundtable.rs, agent/ledger_sqlite.rs, mcp/session.rs, llm/client.rs,
\* agent/executor/cli.rs).
WaitsEnd == Settles /\ FinishReturns /\ ServersSettle /\ CancelStops /\ RowSettles

\* What is due happens, however late: every reminder is shown, and every job that is
\* active is executed (reminder.rs, scheduler/engine.rs).
DueHappens == RemindersRing /\ ActiveIsRun
=============================================================================
