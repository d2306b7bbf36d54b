------------------------------ MODULE Startup ------------------------------
(***************************************************************************)
(* How the application comes up (lib.rs run, paths.rs,                     *)
(* storage/migrations.rs, seed.rs): files of the old layout are moved, the *)
(* schema is brought up to date, defaults and the demo are seeded. Every   *)
(* statement is durable on its own (execute_batch runs outside a           *)
(* transaction), so the process may die between any two of them; the next  *)
(* start reads what was left.                                              *)
(***************************************************************************)
EXTENDS Integers, FiniteSets, SequencesExt

CONSTANT BootKits   \* [disk, schema, dies, starts, skills, servers, edits]

VARIABLES
  boots,    \* the kit: where the process may die, starts and edits left
  phase,    \* of the start in progress: "off", a phase, "up", "refused"
  todo,     \* statements of the phase still to run
  disk,     \* which of the database's files lie in the old and the new place
  schema,   \* user_version, the columns there are, titles copied or not
  stored    \* rows, as [in, name, n, of]: n tells copies apart, of is the worker

bootVars == <<boots, phase, todo, disk, schema, stored>>

Phases == <<"files", "migrate", "backfill", "skills", "imports", "defaults", "presets",
            "demo", "kanban", "jobs", "up">>
PhaseAfter(p) == Phases[1 + CHOOSE i \in 1..Len(Phases) : Phases[i] = p]

Do(what, arg) == [do |-> what, arg |-> arg]
Add(table, col) == Do("add", <<table, col>>)
Make(table, names) == Do("make", {<<table, c>> : c \in names})
-----------------------------------------------------------------------------
\* the migrations, statement by statement, of the tables that later ones touch
Migrations == <<
  << Make("sessions", {"id"}), Make("messages", {"id"}), Make("scheduled_tasks", {"id"}),
     Make("agents", {"id"}), Make("tasks", {"id"}),
     Make("roundtable_messages", {"seq", "session_id"}), Make("changeset", {"id"}),
     Make("runs", {"id"}), Make("calendar_events", {"id", "title", "time_start", "kind"}),
     Make("workspaces", {"id", "path"}) >>,
  << Add("messages", "run_id"), Add("messages", "artifacts") >>,
  << Add("agents", "plugins") >>,
  << Add("tasks", "last_error") >>,
  << Make("session_events", {"id", "call_id"}) >> >>

\* columns added wherever the one probed for is missing
FillColumn(table, col, others) == [probe |-> <<table, col>>,
  batch |-> <<Add(table, col)>> \o [i \in 1..Len(others) |-> Add(table, others[i])]]
Backfills == <<
  [probe |-> <<"calendar_events", "title">>,
   batch |-> << Add("calendar_events", "title"), Add("calendar_events", "time_start"),
                Do("copy", <<"calendar_events", "title">>) >>],
  FillColumn("calendar_events", "kind", <<>>),
  FillColumn("calendar_events", "notified_at", <<>>),
  FillColumn("scheduled_tasks", "session_id", <<"progress", "checkpoint_json">>),
  FillColumn("runs", "checkpoint_json", <<>>),
  FillColumn("runs", "dismissed_at", <<>>),
  FillColumn("changeset", "after_content", <<"snapshot_type">>),
  FillColumn("sessions", "workspace_id", <<>>),
  FillColumn("workspaces", "path", <<>>),
  FillColumn("tasks", "order_idx", <<>>),
  FillColumn("sessions", "mode", <<"group_id">>),
  FillColumn("roundtable_messages", "worker_id", <<>>),
  FillColumn("roundtable_messages", "session_id", <<>>),
  FillColumn("session_events", "call_id", <<>>) >>

Wanted == UNION {UNION {s.arg : s \in {x \in Range(Migrations[v]) : x.do = "make"}} : v \in 1..5}
          \cup UNION {{s.arg : s \in {x \in Range(Migrations[v]) : x.do = "add"}} : v \in 1..5}
          \cup UNION {{s.arg : s \in {x \in Range(Backfills[b].batch) : x.do = "add"}} :
                      b \in 1..Len(Backfills)}
-----------------------------------------------------------------------------
\* (mutant) the database without its log
DatabaseOnly == <<"">>
FileSuffixes == <<"", "-wal", "-shm">>
\* migrate_legacy: decided once, on the database file itself
FilePlan ==
  IF "" \notin disk.old \/ "" \in disk.new THEN <<>>
  ELSE LET moves == SelectSeq(FileSuffixes, LAMBDA s : s \in disk.old /\ s \notin disk.new)
       IN [i \in 1..Len(moves) |-> Do("move", moves[i])]

\* (mutant) the version of the database is not asked for
NewerThanNone(version) == version > 0
Newer(version) == version > schema.version
\* run_migrations: the version is read once, and set after every migration
MigratePlan ==
  LET due == SelectSeq([v \in 1..Len(Migrations) |-> v], Newer)
  IN FlattenSeq([i \in 1..Len(due) |-> Migrations[due[i]] \o <<Do("version", due[i])>>])

\* (mutant) a table is looked for, not its column
LacksTable(probe) == \A c \in schema.columns : c[1] # probe[1]
\* table_has_column
Lacks(probe) == probe \notin schema.columns
BackfillPlan ==
  LET due == SelectSeq(Backfills, LAMBDA b : Lacks(b.probe))
  IN FlattenSeq([i \in 1..Len(due) |-> due[i].batch])
-----------------------------------------------------------------------------
StoredIn(table) == {r \in stored : r.in = table}
Named(table, name) == {r \in StoredIn(table) : r.name = name}
\* a row under a fixed id, or under an id of its own (uuid)
Insert(table, name) == Do("insert", [in |-> table, name |-> name, of |-> 0])
Create(table, name) == Do("create", [in |-> table, name |-> name, of |-> 0])
CreateTask(name, seat) == Do("insert", [in |-> "task", name |-> name, of |-> seat])
Inserts(table, names) == [i \in 1..Len(names) |-> Insert(table, names[i])]

\* seed_skills, seed_mcp: the skills and servers of another program found here
SkillPlan == IF StoredIn("skill") # {} THEN <<>> ELSE Inserts("skill", boots.skills)
ImportPlan == IF StoredIn("server") # {} THEN <<>> ELSE Inserts("server", boots.servers)
DefaultServers == <<"filesystem", "tavily">>
DefaultPlan == Inserts("server", SelectSeq(DefaultServers, LAMBDA s : Named("server", s) = {}))

\* seed_persona_presets, seed_functional_presets: by name
Presets == <<"host", "engineer">>
\* (mutant) only an empty table is asked about
AbsentFromEmpty(name) == Cardinality(StoredIn("agent")) < Len(Presets)
AbsentPreset(name) == Named("agent", name) = {}
PresetPlan ==
  LET due == SelectSeq(Presets, AbsentPreset) IN [i \in 1..Len(due) |-> Create("agent", due[i])]

\* seed_demo_data: as long as there is no session
DemoPlan ==
  IF StoredIn("session") # {} THEN <<>>
  ELSE <<Create("agent", "researcher"), Create("group", "demo"), Create("worker", "demo")>>

\* seed_demo_kanban: the group and two workers are found or made, then the tasks
Seats == {r.n : r \in Named("worker", "example")}
NextCopy(table, name) == 1 + Cardinality(Named(table, name))
Lowest(s) == CHOOSE x \in s : \A y \in s : x <= y
ExampleSeats == IF Cardinality(Seats) >= 2 THEN <<Lowest(Seats), Lowest(Seats \ {Lowest(Seats)})>>
                ELSE <<NextCopy("worker", "example"), NextCopy("worker", "example") + 1>>
MissingSeats == IF Cardinality(Seats) >= 2 THEN <<>>
                ELSE <<Create("worker", "example"), Create("worker", "example")>>
ExampleTasks == <<CreateTask("seo_1", ExampleSeats[1]), CreateTask("api_1", ExampleSeats[2])>>
\* (mutant) the tasks before the workers they name
TasksFirst == ExampleTasks \o MissingSeats
SeatsThenTasks == MissingSeats \o ExampleTasks
KanbanPlan ==
  IF StoredIn("task") # {} THEN <<>>
  ELSE (IF Named("group", "example") = {} THEN <<Create("group", "example")>> ELSE <<>>)
       \o SeatsThenTasks
JobPlan == IF StoredIn("job") # {} THEN <<>> ELSE Inserts("job", <<"daily", "fail">>)

PlanOf(p) ==
  CASE p = "files" -> FilePlan [] p = "migrate" -> MigratePlan [] p = "backfill" -> BackfillPlan
    [] p = "skills" -> SkillPlan [] p = "imports" -> ImportPlan [] p = "defaults" -> DefaultPlan
    [] p = "presets" -> PresetPlan [] p = "demo" -> DemoPlan [] p = "kanban" -> KanbanPlan
    [] p = "jobs" -> JobPlan [] OTHER -> <<>>
-----------------------------------------------------------------------------
BootInit ==
  /\ boots \in BootKits
  /\ phase = "off" /\ todo = <<>>
  /\ disk = boots.disk /\ schema = boots.schema /\ stored = {}

Launch ==
  /\ phase = "off" /\ boots.starts > 0
  /\ boots' = [boots EXCEPT !.starts = @ - 1]
  /\ phase' = "files" /\ todo' = FilePlan
  /\ UNCHANGED <<disk, schema, stored>>

\* a phase ends, the next one reads what it decides on
NextPhase ==
  /\ phase \notin {"off", "up", "refused"} /\ todo = <<>>
  /\ phase' = PhaseAfter(phase) /\ todo' = PlanOf(phase')
  /\ disk' = IF phase' = "migrate" THEN [disk EXCEPT !.new = @ \cup {""}] ELSE disk
  /\ UNCHANGED <<boots, schema, stored>>

Run(s) ==
  \/ /\ s.do = "move" /\ disk' = [old |-> disk.old \ {s.arg}, new |-> disk.new \cup {s.arg}]
     /\ UNCHANGED <<schema, stored>>
  \/ /\ s.do = "make" /\ UNCHANGED <<disk, stored>>
     /\ schema' = IF \E c \in s.arg : \E d \in schema.columns : c[1] = d[1] THEN schema
                  ELSE [schema EXCEPT !.columns = @ \cup s.arg]
  \/ /\ s.do = "add" /\ s.arg \notin schema.columns /\ UNCHANGED <<disk, stored>>
     /\ schema' = [schema EXCEPT !.columns = @ \cup {s.arg}]
  \/ /\ s.do = "copy" /\ schema' = [schema EXCEPT !.titled = TRUE] /\ UNCHANGED <<disk, stored>>
  \/ /\ s.do = "version" /\ schema' = [schema EXCEPT !.version = s.arg]
     /\ UNCHANGED <<disk, stored>>
  \/ /\ s.do \in {"insert", "create"} /\ UNCHANGED <<disk, schema>>
     /\ LET copy == NextCopy(s.arg.in, s.arg.name)
        IN stored' = IF s.do = "insert" /\ copy > 1 THEN stored   \* the id is taken
                     ELSE stored \cup {[in |-> s.arg.in, name |-> s.arg.name, n |-> copy,
                                        of |-> s.arg.of]}
BootStep ==
  /\ todo # <<>> /\ phase # "refused"
  /\ Run(Head(todo)) /\ todo' = Tail(todo)
  /\ UNCHANGED <<boots, phase>>

\* a column that is already there: open fails, and with it the start
Refuse ==
  /\ todo # <<>> /\ Head(todo).do = "add" /\ Head(todo).arg \in schema.columns
  /\ phase' = "refused" /\ todo' = <<>>
  /\ UNCHANGED <<boots, disk, schema, stored>>

Die ==
  /\ phase \in boots.dies
  /\ boots' = [boots EXCEPT !.dies = {}, !.starts = @ + 1]
  /\ phase' = "off" /\ todo' = <<>> /\ UNCHANGED <<disk, schema, stored>>

Quit ==
  /\ phase = "up" /\ boots.starts > 0
  /\ phase' = "off" /\ UNCHANGED <<boots, todo, disk, schema, stored>>

\* the user removes a row, or opens a session
Edit ==
  /\ phase = "up" /\ boots.edits > 0
  /\ boots' = [boots EXCEPT !.edits = @ - 1]
  /\ \/ \E r \in stored : r.in # "worker" /\ stored' = stored \ {r}
     \/ stored' = stored \cup {[in |-> "session", name |-> "mine", n |-> 1, of |-> 0]}
  /\ UNCHANGED <<phase, todo, disk, schema>>

BootNext == Launch \/ NextPhase \/ BootStep \/ Refuse \/ Die \/ Quit \/ Edit
BootFairness == WF_bootVars(Launch) /\ WF_bootVars(NextPhase) /\ WF_bootVars(BootStep)
                /\ WF_bootVars(Refuse)
-----------------------------------------------------------------------------
\* Up means a whole schema: from every database an older build may have left,
\* a start that gets through has every column the code reads, the titles of
\* old calendar rows and the last version (run_migrations, apply_backfills).
UpIsWhole ==
  phase = "up" => /\ Wanted \subseteq schema.columns /\ schema.version = Len(Migrations)
                  /\ schema.titled

\* A preset is seeded once, wherever an earlier start died and whatever the
\* user deleted since (seed_persona_presets, seed_functional_presets).
PresetsOnce == \A i \in 1..Len(Presets) : Cardinality(Named("agent", Presets[i])) <= 1

\* Every task of the example has the worker it names, even when the start that
\* made them died half way (seed_demo_kanban).
TasksHaveSeats == \A t \in StoredIn("task") : t.of \in Seats

\* Every start comes up, also the one after a crash (outside the migrations).
ComesUp == (phase = "files") ~> (phase = "up")

\* What the design says of a crash inside the migrations: the next start works.
OpensAgain == phase # "refused"

\* Nothing written is left behind: the log of the last process goes with the
\* database it belongs to (migrate_legacy moves it second).
LogFollows == phase = "up" => disk.old = {}

\* From whatever an older build or a start that died left behind, a start comes up
\* with a whole schema, all old files, no preset twice and no task without a seat.
StartsWhole ==
  []UpIsWhole /\ []PresetsOnce /\ []TasksHaveSeats /\ []LogFollows /\ ComesUp
=============================================================================
