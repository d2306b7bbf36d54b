---------------------------- MODULE BoardOrder ----------------------------
(***************************************************************************)
(* The order of the cards on the task board (group/task_board_repo.rs,     *)
(* agent/tools/kanban.rs, commands/group.rs). The kanban tool, the user's  *)
(* commands and the scheduler work on the same rows: an operation is       *)
(* several statements of a pool of connections, each durable on its own,   *)
(* so that operations of different actors interleave between them.         *)
(***************************************************************************)
EXTENDS Integers, FiniteSets, SequencesExt

CONSTANTS
  Cards,      \* ids, as numbers from 1 in their order
  BoardKits   \* [actors, edits]: who works on the board, operations left

ASSUME BoardAssumption ==
  /\ IsFiniteSet(Cards) /\ Cards \subseteq Nat \ {0}
  /\ BoardKits \subseteq [actors : SUBSET STRING, edits : Nat]

VARIABLES
  card,    \* per id [col, idx], col "none" before creation, "gone" after
  hands,   \* per actor: Idle, or the operation, what it has read, and whether it ran alone
  ordered, \* per actor: what the last finished operation promised, if it ran alone
  boardKit     \* the kit, edits counted down

boardVars == <<card, hands, ordered, boardKit>>

Columns == {"Pending", "InProgress", "Completed"}
NoCard == [col |-> "none", idx |-> 0]
GoneCard == [col |-> "gone", idx |-> 0]
OnBoard == {c \in Cards : card[c].col \in Columns}
Column(col) == {c \in Cards : card[c].col = col}
AtEnd == 0   \* no card: the end of the column
Idle == [op |-> "idle", card |-> AtEnd, col |-> "none", old |-> NoCard, idx |-> 0,
         before |-> AtEnd, line |-> <<>>, at |-> 0, alone |-> FALSE]
-----------------------------------------------------------------------------
\* (mutant) one after as many as there are
NextAfterCount(col) == Cardinality(Column(col))
\* COALESCE(MAX(order_idx), -1) + 1
NextIndex(col) == IF Column(col) = {} THEN 0
                  ELSE 1 + CHOOSE m \in {card[c].idx : c \in Column(col)} :
                             \A c \in Column(col) : card[c].idx <= m

\* ORDER BY order_idx ASC, id ASC
Before(c, d) == card[c].idx < card[d].idx \/ (card[c].idx = card[d].idx /\ c < d)
InOrder(col) == CHOOSE s \in SetToSeqs(Column(col)) :
                  \A i, j \in 1..Len(s) : i < j => Before(s[i], s[j])
PlaceIn(line, c) == CHOOSE i \in 1..Len(line) : line[i] = c

\* the dragged card before b, or at the end when b is not in its column
Dropped(s, c, b) ==
  LET rest == RemoveAt(s, PlaceIn(s, c))
  IN IF \E i \in 1..Len(rest) : rest[i] = b THEN InsertAt(rest, PlaceIn(rest, b), c)
     ELSE Append(rest, c)
-----------------------------------------------------------------------------
BoardInit ==
  /\ boardKit \in BoardKits
  /\ card = [c \in Cards |-> NoCard]
  /\ hands = [a \in boardKit.actors |-> Idle]
  /\ ordered = {}

\* a statement of a: the operations of the others no longer run alone, and what was
\* promised before may be undone
Statement(a, next, rows, promise) ==
  /\ card' = rows
  /\ hands' = [x \in boardKit.actors |-> IF x = a THEN next
                                     ELSE IF hands[x] = Idle THEN Idle
                                     ELSE [hands[x] EXCEPT !.alone = FALSE]]
  /\ ordered' = promise

BeginOp(a, op) ==
  /\ hands[a] = Idle /\ boardKit.edits > 0
  /\ boardKit' = [boardKit EXCEPT !.edits = @ - 1]
  /\ Statement(a, [op EXCEPT !.alone = \A x \in boardKit.actors : hands[x] = Idle], card, {})
Promised(a, c, b) == IF hands[a].alone THEN {[card |-> c, before |-> b]} ELSE {}

\* TaskBoardRepository::create, for the tool and for task_create
BeginCreate(a) == \E c \in Column("none"), col \in Columns :
  BeginOp(a, [Idle EXCEPT !.op = "create", !.card = c, !.col = col, !.idx = NextIndex(col)])
InsertCard(a) ==
  /\ hands[a].op = "create" /\ card[hands[a].card].col = "none"
  /\ Statement(a, Idle, [card EXCEPT ![hands[a].card] = [col |-> hands[a].col, idx |-> hands[a].idx]],
               Promised(a, hands[a].card, AtEnd))
  /\ UNCHANGED boardKit

\* KanbanTool::update: read the card, read the end of its new column, write all fields
\* back, those it was not asked to change with the values it has read
BeginUpdate(a) == \E c \in OnBoard, col \in Columns :
  BeginOp(a, [Idle EXCEPT !.op = "update", !.card = c, !.col = col, !.old = card[c]])
ReadEnd(a) ==
  /\ hands[a].op = "update"
  /\ LET d == hands[a] IN
     Statement(a, [d EXCEPT !.op = "write",
                            !.idx = IF d.col # d.old.col THEN NextIndex(d.col) ELSE d.old.idx],
               card, {})
  /\ UNCHANGED boardKit
WriteIdx(a) ==
  /\ hands[a].op = "write"
  /\ LET d == hands[a] IN
     Statement(a, Idle,
               IF d.card \in OnBoard THEN [card EXCEPT ![d.card] = [col |-> d.col, idx |-> d.idx]]
               ELSE card,
               IF d.col # d.old.col THEN Promised(a, d.card, AtEnd) ELSE {})
  /\ UNCHANGED boardKit

\* reorder: the column as it is read, then one UPDATE per card of it
BeginReorder(a) == \E c \in OnBoard : \E b \in Column(card[c].col) \cup {AtEnd} :
  BeginOp(a, [Idle EXCEPT !.op = "reorder", !.card = c, !.before = b, !.col = card[c].col])
ReadColumn(a) ==
  /\ hands[a].op = "reorder"
  /\ LET d == hands[a] IN
     IF d.card \in Column(d.col)
     THEN Statement(a, [d EXCEPT !.op = "place", !.at = 1,
                                 !.line = Dropped(InOrder(d.col), d.card, d.before)], card, {})
     ELSE Statement(a, Idle, card, {})
  /\ UNCHANGED boardKit
PlaceNext(a) ==
  /\ hands[a].op = "place"
  /\ LET d == hands[a]
         c == d.line[d.at]
         rows == IF c \in OnBoard THEN [card EXCEPT ![c].idx = d.at - 1] ELSE card
     IN IF d.at < Len(d.line) THEN Statement(a, [d EXCEPT !.at = @ + 1], rows, {})
        ELSE Statement(a, Idle, rows,
                       Promised(a, d.card, IF d.before = d.card THEN AtEnd ELSE d.before))
  /\ UNCHANGED boardKit

\* update_status (the scheduler, task_set_status) keeps order_idx; delete takes the row
SetColumn(a) == /\ hands[a] = Idle /\ boardKit.edits > 0
                /\ \E c \in OnBoard, col \in Columns :
                     Statement(a, Idle, [card EXCEPT ![c].col = col], {})
                /\ boardKit' = [boardKit EXCEPT !.edits = @ - 1]
DeleteCard(a) == /\ hands[a] = Idle /\ boardKit.edits > 0
                 /\ \E c \in OnBoard : Statement(a, Idle, [card EXCEPT ![c] = GoneCard], {})
                 /\ boardKit' = [boardKit EXCEPT !.edits = @ - 1]

BoardNext == \E a \in boardKit.actors :
  \/ BeginCreate(a) \/ InsertCard(a) \/ BeginUpdate(a) \/ ReadEnd(a) \/ WriteIdx(a)
  \/ BeginReorder(a) \/ ReadColumn(a) \/ PlaceNext(a) \/ SetColumn(a) \/ DeleteCard(a)
BoardSpec == BoardInit /\ [][BoardNext]_boardVars
-----------------------------------------------------------------------------
\* an operation that nobody interrupted leaves its card where it was asked to go, at the
\* end of its column or right before the named one, whatever ties and gaps the others left
PlacedWhereAsked == \A p \in ordered :
  LET line == InOrder(card[p.card].col)
      i == PlaceIn(line, p.card)
  IN IF p.before = AtEnd THEN i = Len(line) ELSE i < Len(line) /\ line[i + 1] = p.before
=============================================================================
