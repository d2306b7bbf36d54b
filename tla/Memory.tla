------------------------------- MODULE Memory -------------------------------
(***************************************************************************)
(* The memory files (agent/tools/memory.rs, commands/memory.rs): which     *)
(* file a session's notes go to and which its prompt is given, and how     *)
(* text gets into them: the agent's tool, a distillation, and the profile  *)
(* of the settings page, which is a marked section of USER.md              *)
(* (commands/user_profile.rs). Nobody locks a file, and each of them reads *)
(* it and then writes it whole. A file is a sequence of notes, markers and *)
(* line ends, <<>> being a file that is not there.                         *)
(***************************************************************************)
EXTENDS Naturals, FiniteSets, SequencesExt

CONSTANTS
  Rememberers,  \* who has one note to write: a session's run, or the settings page
  WorkspaceOf,  \* sessions.workspace_id of each; NoWorkspace is NULL
  NoteKits      \* [mode, target] of each, unreadable: reads that fail

VARIABLES
  file,      \* per path its text
  held,      \* per session the text it has read and not yet written back
  wrote,     \* sessions whose note is written
  crossed,   \* paths somebody wrote without having what was in them
  replaced,  \* paths whose text the agent has replaced
  profile,   \* the profile saved last, if the agent has not replaced it
  prompted,  \* per session the notes of the project section its last run was given
  notes      \* the kit

memoryVars == <<file, held, wrote, crossed, replaced, profile, prompted, notes>>

NoWorkspace == "NULL"
EOL == "\n"
NotHeld == <<"not held">>
Begin == "profile:begin"
End == "profile:end"
NoProfile == "none"

UserPath == "USER.md"
MemoryPath == "MEMORY.md"
ProjectPath == "PROJECT.md"
WorkspacePath(w) == w \o "/PROJECT.md"
\* (mutant) a workspace without a file of its own uses the global one
ResolveGlobal(w) == IF w = NoWorkspace \/ file[WorkspacePath(w)] = <<>> THEN ProjectPath
                    ELSE WorkspacePath(w)
\* resolve_project_path
ResolveProject(w) == IF w = NoWorkspace THEN ProjectPath ELSE WorkspacePath(w)
\* (mutant) a distillation always goes to the global file
DistillAnywhere(w) == ProjectPath
\* memory_distill has a match of its own
DistillPath(w) == IF w # NoWorkspace THEN WorkspacePath(w) ELSE ProjectPath
Paths == {UserPath, MemoryPath, ProjectPath}
         \cup {WorkspacePath(WorkspaceOf[s]) : s \in {x \in Rememberers : WorkspaceOf[x] # NoWorkspace}}

TargetPath(s) == CASE notes.target[s] \in {"user", "profile"} -> UserPath
                   [] notes.target[s] = "memory" -> MemoryPath
                   [] notes.target[s] = "project" -> ResolveProject(WorkspaceOf[s])
                   [] notes.target[s] = "distill" -> DistillPath(WorkspaceOf[s])
-----------------------------------------------------------------------------
\* ids are no markers and no line ends, and every workspace has a folder of its own
ASSUME MemoryConstants ==
  /\ Rememberers \cap {EOL, Begin, End, NoProfile, "not held", "title"} = {}
  /\ NoteKits \subseteq [mode : [Rememberers -> {"append", "replace", "save", "clear"}],
                        target : [Rememberers -> {"user", "profile", "memory", "project", "distill"}],
                        unreadable : Nat]
  /\ \A s, x \in Rememberers :
       /\ WorkspacePath(WorkspaceOf[s]) \notin {UserPath, MemoryPath, ProjectPath}
       /\ WorkspacePath(WorkspaceOf[s]) = WorkspacePath(WorkspaceOf[x]) => WorkspaceOf[s] = WorkspaceOf[x]
-----------------------------------------------------------------------------
\* ensure_memory_files: the three global ones get a first line
MemoryInit ==
  /\ notes \in NoteKits
  /\ file = [p \in Paths |-> IF p \in {UserPath, MemoryPath, ProjectPath} THEN <<"title", EOL>> ELSE <<>>]
  /\ held = [s \in Rememberers |-> NotHeld]
  /\ wrote = {} /\ crossed = {} /\ replaced = {} /\ profile = NoProfile
  /\ prompted = [s \in Rememberers |-> {}]

Terminated(text) == text = <<>> \/ Last(text) = EOL
\* (mutant) text is put after what is there
Butted(text, s) == text \o <<s, EOL>>
Appended(text, s) == (IF Terminated(text) THEN text ELSE Append(text, EOL)) \o <<s, EOL>>
\* a distillation starts with an empty line
Distilled(text, s) == text \o <<EOL, s, EOL>>

TrimEnd(text) == SubSeq(text, 1, CHOOSE n \in 0..Len(text) :
  /\ \A i \in n+1..Len(text) : text[i] = EOL
  /\ n > 0 => text[n] # EOL)
NormalizeTail(text) == Append(TrimEnd(text), EOL)
Find(text, x) == CHOOSE i \in 0..Len(text) :
  IF x \in Range(text) THEN i > 0 /\ text[i] = x /\ \A k \in 1..i-1 : text[k] # x ELSE i = 0
Marked(text) == Find(text, Begin) > 0 /\ Find(text, End) > Find(text, Begin)
Section(s) == <<Begin, EOL, s, EOL, End>>
\* (mutant) a new section each time
AppendSection(text, s) ==
  NormalizeTail(IF s = NoProfile THEN text ELSE TrimEnd(text) \o <<EOL, EOL>> \o Section(s))
\* upsert_section
UpsertSection(text, s) ==
  LET head == SubSeq(text, 1, Find(text, Begin) - 1)
      tail == SubSeq(text, Find(text, End) + 1, Len(text))
  IN NormalizeTail(
       IF Marked(text) THEN IF s = NoProfile THEN TrimEnd(head) \o tail ELSE head \o Section(s) \o tail
       ELSE IF s = NoProfile THEN text
       ELSE (IF TrimEnd(text) = <<>> THEN <<>> ELSE TrimEnd(text) \o <<EOL, EOL>>) \o Section(s))
\* extract_section
ExtractSection(text) == {text[i] : i \in Find(text, Begin)+1..Find(text, End)-1} \ {EOL}
-----------------------------------------------------------------------------
Write(p, text, s) ==
  /\ file' = [file EXCEPT ![p] = text]
  /\ wrote' = wrote \cup {s}
  /\ crossed' = IF \E x \in Rememberers \ {s} : held[x] # NotHeld /\ TargetPath(x) = p
                THEN crossed \cup {p} ELSE crossed

\* read_to_string(..).unwrap_or_default(): a file that cannot be read counts as empty
ReadOld(s) ==
  /\ s \notin wrote /\ held[s] = NotHeld /\ notes.mode[s] # "replace"
  /\ \/ held' = [held EXCEPT ![s] = file[TargetPath(s)]] /\ UNCHANGED <<crossed, notes>>
     \/ /\ notes.unreadable > 0 /\ notes' = [notes EXCEPT !.unreadable = @ - 1]
        /\ held' = [held EXCEPT ![s] = <<>>] /\ crossed' = crossed \cup {TargetPath(s)}
  /\ UNCHANGED <<file, wrote, replaced, profile, prompted>>

\* update_memory in its "append" mode, and the end of a distillation
WriteBack(s) ==
  /\ held[s] # NotHeld /\ held' = [held EXCEPT ![s] = NotHeld] /\ notes.target[s] # "profile"
  /\ Write(TargetPath(s), IF notes.target[s] = "distill" THEN Distilled(held[s], s)
                          ELSE Appended(held[s], s), s)
  /\ UNCHANGED <<replaced, profile, prompted, notes>>

\* user_profile_write, with a section or with an empty one
WriteProfile(s) ==
  /\ held[s] # NotHeld /\ held' = [held EXCEPT ![s] = NotHeld] /\ notes.target[s] = "profile"
  /\ profile' = IF notes.mode[s] = "clear" THEN NoProfile ELSE s
  /\ Write(UserPath, UpsertSection(held[s], profile'), s)
  /\ UNCHANGED <<replaced, prompted, notes>>

\* the text of a "replace" is written as it comes, without a line end
Replace(s) ==
  /\ s \notin wrote /\ notes.mode[s] = "replace"
  /\ Write(TargetPath(s), <<s>>, s)
  /\ replaced' = replaced \cup {TargetPath(s)}
  /\ profile' = IF TargetPath(s) = UserPath THEN NoProfile ELSE profile
  /\ UNCHANGED <<held, prompted, notes>>

\* read_memory_block, when a run of the session starts
ReadMemoryBlock(s) ==
  /\ prompted' = [prompted EXCEPT ![s] = Range(file[ResolveProject(WorkspaceOf[s])]) \cap Rememberers]
  /\ prompted' # prompted
  /\ UNCHANGED <<file, held, wrote, crossed, replaced, profile, notes>>

MemoryNext == \E s \in Rememberers : \/ ReadOld(s) \/ WriteBack(s) \/ WriteProfile(s)
                                     \/ Replace(s) \/ ReadMemoryBlock(s)
MemorySpec == MemoryInit /\ [][MemoryNext]_memoryVars
-----------------------------------------------------------------------------
ForProject(s) == notes.target[s] \in {"project", "distill"}

\* a run is never told the project notes of another workspace
MemoryIsolated == \A s, x \in Rememberers :
  x \in prompted[s] => ForProject(x) /\ WorkspaceOf[x] = WorkspaceOf[s]

\* a note stays in the file every session of its workspace is given, unless the agent
\* replaced it or somebody wrote the file without having read it in; saving the profile
\* never takes it away
NotesKept == \A s \in wrote :
  TargetPath(s) \in crossed \cup replaced \/ notes.target[s] = "profile"
    \/ s \in Range(file[IF ForProject(s) THEN ResolveProject(WorkspaceOf[s]) ELSE TargetPath(s)])

\* every note is on lines of its own, which is what memory_search shows
NotesOnOwnLines == \A p \in Paths : \A i \in 1..Len(file[p]) - 1 :
  file[p][i] = EOL \/ file[p][i + 1] = EOL

\* the settings page reads back the profile saved last, whatever was written around it
ProfileReadsBack == UserPath \in crossed
  \/ ExtractSection(file[UserPath]) = IF profile = NoProfile THEN {} ELSE {profile}

\* The memory files that agents, the distiller and the profile page rewrite whole
\* keep every note, on lines of its own, for the workspace it was made in.
MemoryKept == MemoryIsolated /\ NotesKept /\ NotesOnOwnLines /\ ProfileReadsBack

\* the default workspace has one project memory, whether its id is NULL or "default"
DefaultIsGlobal == \A s \in Rememberers :
  WorkspaceOf[s] = "default" => \A x \in wrote : TargetPath(x) = ProjectPath /\ x \in Range(file[ProjectPath])
    => x \in Range(file[ResolveProject(WorkspaceOf[s])])
=============================================================================
