----------------------------- MODULE Changesets -----------------------------
(***************************************************************************)
(* The version history of a file (storage/changeset_sqlite.rs): every      *)
(* write of an agent leaves a row with what was there before and after,    *)
(* and a rollback puts the `before` of a row back, after archiving what it *)
(* is about to overwrite.  The rollback takes no write gate: the user's    *)
(* editor and the agents go on meanwhile.  A content is a number, 0 is a   *)
(* file that does not exist.                                               *)
(***************************************************************************)
EXTENDS Naturals, SequencesExt

CONSTANTS MaxEdits, MaxWrites, MaxRollbacks   \* bounds of a behaviour

Absent == 0
NoContent == 0   \* a NULL column

VARIABLES
  disk,       \* what the file holds
  rows,       \* changeset rows by created_at
  fresh,      \* the last content anybody invented
  writer,     \* an agent's write_file, between its statements
  rollback,   \* changeset_rollback, between its statements
  overrun,    \* contents that appeared after a step in progress had read the file
  overwritten,       \* what the program overwrote although no row holds it, and how
  fileLeft    \* what is left of the bounds

fileVars == <<disk, rows, fresh, writer, rollback, overrun, overwritten, fileLeft>>

NoWriter == [at |-> "none", before |-> Absent, after |-> Absent]
NoRollback == [at |-> "none", before |-> Absent, cur |-> Absent, of |-> "normal"]
Row(before, after, kind) == [before |-> before, after |-> after, kind |-> kind]
Spend(f) == fileLeft[f] > 0 /\ fileLeft' = [fileLeft EXCEPT ![f] = @ - 1]
Busy == writer.at # "none" \/ rollback.at # "none"
Kept == {rows[i].before : i \in DOMAIN rows} \cup {rows[i].after : i \in DOMAIN rows}

FileInit ==
  /\ disk \in {Absent, 1} /\ fresh = 1 /\ rows = <<>>
  /\ writer = NoWriter /\ rollback = NoRollback /\ overrun = {} /\ overwritten = {}
  /\ fileLeft = [edit |-> MaxEdits, write |-> MaxWrites, undo |-> MaxRollbacks]

\* the program puts something else where the disk's content was
Overwrites(how, aware) ==
  overwritten' = IF disk = Absent \/ disk \in Kept \cup aware THEN overwritten
          ELSE overwritten \cup {[what |-> disk, how |-> IF disk \in overrun THEN "late" ELSE how]}

\* the user, outside the program: what a reader has already looked at is stale
Edit ==
  /\ Spend("edit")
  /\ disk' = fresh + 1 /\ fresh' = fresh + 1
  /\ overrun' = IF Busy THEN overrun \cup {fresh + 1} ELSE overrun
  /\ UNCHANGED <<rows, writer, rollback, overwritten>>

\* write_file: read what is there, write, record both
ReadBefore ==
  /\ writer.at = "none" /\ Spend("write")
  /\ writer' = [NoWriter EXCEPT !.at = "write", !.before = disk]
  /\ UNCHANGED <<disk, rows, fresh, rollback, overrun, overwritten>>
WriteOut ==
  /\ writer.at = "write"
  /\ Overwrites("write", {writer.before})
  /\ disk' = fresh + 1 /\ fresh' = fresh + 1
  /\ writer' = [writer EXCEPT !.at = "record", !.after = fresh + 1]
  /\ UNCHANGED <<rows, rollback, overrun, fileLeft>>
Record ==
  /\ writer.at = "record"
  /\ rows' = Append(rows, Row(writer.before, writer.after, "normal"))
  /\ writer' = NoWriter
  /\ UNCHANGED <<disk, fresh, rollback, overrun, overwritten, fileLeft>>

\* (mutant) nothing is ever archived
NeedsNoArchive(row, cur) == FALSE

\* rollback: the row and the file are read; the file's content is archived when
\* it is not what the row left, which only a row with an `after` can tell
NeedsArchive(row, cur) == cur # Absent /\ row.after # NoContent /\ cur # row.after

ReadRow(i) ==
  /\ rollback.at = "none" /\ i \in DOMAIN rows /\ Spend("undo")
  /\ rollback' = [at |-> IF NeedsArchive(rows[i], disk) THEN "archive" ELSE "restore",
                  before |-> rows[i].before, cur |-> disk, of |-> rows[i].kind]
  /\ UNCHANGED <<disk, rows, fresh, writer, overrun, overwritten>>
Archive ==
  /\ rollback.at = "archive"
  /\ rows' = Append(rows, Row(rollback.cur, NoContent, "auto_snapshot"))
  /\ rollback' = [rollback EXCEPT !.at = "restore"]
  /\ UNCHANGED <<disk, fresh, writer, overrun, overwritten, fileLeft>>
\* the archive row cannot be written: nothing is rolled back
ArchiveFails ==
  /\ rollback.at = "archive"
  /\ rollback' = NoRollback
  /\ UNCHANGED <<disk, rows, fresh, writer, overrun, overwritten, fileLeft>>
\* the `before` is written back, or the file removed when there was none
Restore ==
  /\ rollback.at = "restore"
  /\ Overwrites(rollback.of, {rollback.before, writer.before, writer.after} \ {NoContent})
  /\ disk' = rollback.before
  /\ rollback' = NoRollback
  /\ UNCHANGED <<rows, fresh, writer, overrun, fileLeft>>

FileNext ==
  \/ Edit \/ ReadBefore \/ WriteOut \/ Record \/ Archive \/ ArchiveFails \/ Restore
  \/ \E i \in DOMAIN rows : ReadRow(i)
FileSpec == FileInit /\ [][FileNext]_fileVars
-----------------------------------------------------------------------------
\* Agents and rollbacks of their changes lose nothing that could still be saved:
\* what they overwrite is in some row, or appeared after they had read the file.
\* Rolling an archive row back is another matter (see RollbackKeepsAll).
ChangesKept == \A x \in overwritten : x.how \in {"late", "auto_snapshot"}

\* "No rollback loses an existing change" (docs/run-changeset-review-design.md):
\* whichever row is rolled back, what it overwrites was archived first.
RollbackKeepsAll == \A x \in overwritten : x.how \in {"late", "write"}
=============================================================================
