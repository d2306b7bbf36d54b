----------------------------- MODULE Workspaces -----------------------------
(***************************************************************************)
(* Workspaces, the sessions and ideas kept in them, and the knowledge      *)
(* files of a folder opened as one (commands/workspace.rs,                 *)
(* commands/inspiration.rs). Nothing in the tables ties a session to its   *)
(* workspace, and every statement of a command commits by itself, so a     *)
(* deletion can stop half-way or run beside a session being created.       *)
(***************************************************************************)
EXTENDS Naturals, FiniteSets, SequencesExt

CONSTANTS
  Rooms,         \* ids of workspaces, each given out once
  Folders,       \* directories that can be opened as one
  RoomSessions,  \* ids of sessions; an idea goes the way of a session without messages
  RoomKits       \* bounds
ASSUME RoomConstants ==
  /\ Rooms \cap {"NULL", "default"} = {}    \* neither is given out as an id
  /\ RoomKits \subseteq [edits : Nat, crashes : Nat]

VARIABLES
  room,     \* per workspace [row, folder]
  entry,    \* per session [row, in, messages, digest]: its row and what hangs on it
  dot,      \* per folder the .one-desktop directory: per file whose text it has
  doing,    \* per workspace the statements its deletion has left, or <<"init">>
  asked,    \* workspaces somebody asked to delete with their contents
  late,     \* sessions created in a workspace being deleted or gone
  spared    \* the kit, counted down

roomVars == <<room, entry, dot, doing, asked, late, spared>>

NoFolder == "no folder"
Unfiled == "NULL"       \* sessions.workspace_id of the default workspace
Literal == "default"    \* what the window sends for it when a first message opens a session
Knowledge == {"rules.md", "memory/PROJECT.md", "AGENTS.md"}
NoEntry == [row |-> "none", in |-> Unfiled, messages |-> 0, digest |-> FALSE]
Filed(w) == {s \in RoomSessions : entry[s].row = "there" /\ entry[s].in = w}
There(w) == room[w].row = "there"

RoomsInit ==
  /\ room = [w \in Rooms |-> [row |-> "none", folder |-> NoFolder]]
  /\ entry = [s \in RoomSessions |-> NoEntry]
  /\ dot = [f \in Folders |-> [k \in Knowledge \cup {"config.json"} |-> "absent"]]
  /\ doing = [w \in Rooms |-> <<>>]
  /\ asked = {} /\ late = {} /\ spared \in RoomKits

Spare(f) == spared[f] > 0 /\ spared' = [spared EXCEPT ![f] = @ - 1]
-----------------------------------------------------------------------------
\* create_workspace has no folder; create_workspace_with_path goes on to its files
CreateWorkspace(w) ==
  /\ Spare("edits") /\ room[w].row = "none"
  /\ \E f \in Folders \cup {NoFolder} :
       /\ room' = [room EXCEPT ![w] = [row |-> "there", folder |-> f]]
       /\ doing' = [doing EXCEPT ![w] = IF f = NoFolder THEN <<>> ELSE <<"init">>]
  /\ UNCHANGED <<entry, dot, asked, late>>

\* (mutant) whatever is there
WriteAnyway(files, k) == "template"
WriteIfAbsent(files, k) == IF files[k] = "absent" THEN "template" ELSE files[k]
InitWorkspaceDir(w) ==
  /\ doing[w] = <<"init">> /\ doing' = [doing EXCEPT ![w] = <<>>]
  /\ \/ dot' = [dot EXCEPT ![room[w].folder] =
                  [k \in DOMAIN @ |-> IF k = "config.json" THEN w ELSE WriteIfAbsent(@, k)]]
     \/ UNCHANGED dot      \* not a directory, or it cannot be written
  /\ UNCHANGED <<room, entry, asked, late, spared>>

\* the user's own text in a knowledge file
WriteKnowledge(f, k) == /\ Spare("edits") /\ dot' = [dot EXCEPT ![f][k] = "own"]
                        /\ UNCHANGED <<room, entry, doing, asked, late>>
-----------------------------------------------------------------------------
\* a session, or an idea, is filed under the id the window shows, read earlier
CreateEntry(s) ==
  /\ Spare("edits") /\ entry[s].row = "none"
  /\ \E w \in {x \in Rooms : room[x].row # "none"} \cup {Unfiled, Literal} :
       /\ entry' = [entry EXCEPT ![s] = [NoEntry EXCEPT !.row = "there", !.in = w]]
       /\ late' = IF w \in Rooms /\ (~There(w) \/ doing[w] # <<>>) THEN late \cup {s} ELSE late
  /\ UNCHANGED <<room, dot, doing, asked>>

\* the session is used: messages, and a digest of what was folded away
Talk(s) == /\ entry[s].row = "there" /\ entry[s].messages = 0
           /\ entry' = [entry EXCEPT ![s].messages = 1, ![s].digest = TRUE]
           /\ UNCHANGED <<room, dot, doing, asked, late, spared>>

\* messages and row; its digest stays
DeleteEntry(s) == /\ Spare("edits") /\ entry[s].row = "there"
                  /\ entry' = [entry EXCEPT ![s].row = "gone", ![s].messages = 0]
                  /\ UNCHANGED <<room, dot, doing, asked, late>>
-----------------------------------------------------------------------------
\* (mutant) the row first
RowFirst(move) == IF move THEN <<"row", "move">> ELSE <<"row", "messages", "digests", "entries">>
\* (mutant) the messages go either way
MessagesFirst(move) == IF move THEN <<"messages", "move", "row">>
                       ELSE <<"messages", "digests", "entries", "row">>
Statements(move) == IF move THEN <<"move", "row">> ELSE <<"messages", "digests", "entries", "row">>

\* asked in a dialog, for one workspace at a time
DeleteWorkspace(w) ==
  /\ Spare("edits") /\ There(w) /\ doing[w] = <<>>
  /\ \E move \in BOOLEAN :
       /\ doing' = [doing EXCEPT ![w] = Statements(move)]
       /\ asked' = IF move THEN asked ELSE asked \cup {w}
  /\ UNCHANGED <<room, entry, dot, late>>

Update(S, E(_)) == entry' = [s \in RoomSessions |-> IF s \in S THEN E(entry[s]) ELSE entry[s]]
\* one statement; messages go with their session's row, a digest does not
Execute(w) ==
  /\ doing[w] # <<>> /\ doing[w] # <<"init">>
  /\ doing' = [doing EXCEPT ![w] = Tail(@)]
  /\ LET st == Head(doing[w]) IN
     /\ room' = IF st = "row" THEN [room EXCEPT ![w].row = "gone"] ELSE room
     /\ \/ st = "move" /\ Update(Filed(w), LAMBDA e : [e EXCEPT !.in = Unfiled])
        \/ st = "messages" /\ Update(Filed(w), LAMBDA e : [e EXCEPT !.messages = 0])
        \/ st = "digests" /\ Update(Filed(w), LAMBDA e : [e EXCEPT !.digest = FALSE])
        \/ st = "entries" /\ Update(Filed(w), LAMBDA e : [e EXCEPT !.row = "gone", !.messages = 0])
        \/ st = "row" /\ UNCHANGED entry
  /\ UNCHANGED <<dot, asked, late, spared>>

RoomsCrash == /\ Spare("crashes") /\ doing' = [w \in Rooms |-> <<>>]
              /\ UNCHANGED <<room, entry, dot, asked, late>>

RoomsNext ==
  \/ \E w \in Rooms : CreateWorkspace(w) \/ InitWorkspaceDir(w) \/ DeleteWorkspace(w) \/ Execute(w)
  \/ \E s \in RoomSessions : CreateEntry(s) \/ Talk(s) \/ DeleteEntry(s)
  \/ \E f \in Folders, k \in Knowledge : WriteKnowledge(f, k)
  \/ RoomsCrash
RoomsSpec == RoomsInit /\ [][RoomsNext]_roomVars
-----------------------------------------------------------------------------
\* row_to_dto: the entries a listed workspace counts, the default one those without any
Counted(w) == IF w = Literal THEN Filed(Unfiled) ELSE Filed(w)
Listed == {Literal} \cup {w \in Rooms : There(w)}

\* every session and idea is counted in one listed workspace, whatever a deletion has
\* done so far and wherever it stopped. One created meanwhile may be in none, and so is
\* one filed under the default workspace's id
EveryEntryCounted ==
  \A s \in RoomSessions \ late :
    entry[s].row = "there" /\ entry[s].in # Literal => Cardinality({w \in Listed : s \in Counted(w)}) = 1

\* a session that was talked in keeps all of it until somebody deletes it, or asks to
\* delete a workspace with what is in it; a workspace moved away takes nothing along
MovedWhole ==
  [][\A s \in RoomSessions :
       entry[s].messages > 0 /\ entry'[s].messages = 0 /\ spared' = spared => entry[s].in \in asked]_roomVars

\* what the user wrote in a folder's knowledge files survives the folder being opened as
\* a workspace, again and by other workspaces, each of which names itself in config.json
OwnTextKept == [][\A f \in Folders, k \in Knowledge : dot[f][k] = "own" => dot'[f][k] = "own"]_roomVars

\* A workspace that is deleted, renamed or opened again takes nothing of the user's
\* with it: no session out of every list, no message, no text of its folder.
WorkspacesKept == []EveryEntryCounted /\ MovedWhole /\ OwnTextKept
=============================================================================
