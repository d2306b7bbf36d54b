------------------------------ MODULE UserFiles ------------------------------
(***************************************************************************)
(* The user's files: what comes in, what a preview opens, what is listed.  *)
(*                                                                         *)
(* Attachments pasted or picked (commands/attachment.rs): a paste arrives  *)
(* in base64 and is decoded by hand, and either is stored under the        *)
(* millisecond and a cleaned name. A character of base64 is its value      *)
(* 0..63, Pad, PadByte or Bad; a name is [dir, stem, ext].                 *)
(***************************************************************************)
EXTENDS Integers, FiniteSets, SequencesExt

CONSTANTS
  Payloads,     \* byte sequences to attach
  Names,        \* names they come with
  MaxBytes,     \* the limit of a file
  MaxSaves      \* bound

VARIABLES
  ms,       \* the clock, 0 or 1
  stored,   \* attachments/: per path the bytes
  handed    \* [path, bytes] the window was told, with the bytes it gave

attachVars == <<ms, stored, handed>>

Pad == -1
PadByte == -2
Byte(x) == x % 256
\* what the browser sends: the value of each 6 bits, then pads
Encode(b) ==
  LET bit(i) == IF i \div 8 < Len(b) THEN (b[(i \div 8) + 1] \div 2 ^ (7 - (i % 8))) % 2 ELSE 0
      n == (Len(b) * 8 + 5) \div 6
  IN [k \in 1..n |-> FoldLeft(LAMBDA v, j : 2 * v + bit(6 * (k - 1) + j), 0, <<0, 1, 2, 3, 4, 5>>)]
       \o [k \in 1..((4 - (n % 4)) % 4) |-> Pad]

Failed == [ok |-> FALSE, out |-> <<>>]
Scan == [out |-> <<>>, buf |-> <<>>, pads |-> 0, ok |-> TRUE]
PushTriplet(out, q) ==
  LET n == q[1] * 2^18 + q[2] * 2^12 + q[3] * 2^6 + q[4]
  IN out \o <<Byte(n \div 2^16), Byte(n \div 2^8), Byte(n)>>
Take(st, v) ==
  IF Len(st.buf) = 3 THEN [st EXCEPT !.out = PushTriplet(st.out, Append(st.buf, v)), !.buf = <<>>]
  ELSE [st EXCEPT !.buf = Append(@, v)]
Character(st, c) ==
  CASE ~st.ok \/ c = PadByte -> st
    [] c >= 0 -> Take(st, c)
    [] c = Pad /\ Len(st.buf) >= 2 -> [Take(st, 0) EXCEPT !.pads = st.pads + 1]
    [] OTHER -> [st EXCEPT !.ok = FALSE]
Leftover(buf) ==
  CASE Len(buf) = 2 -> <<Byte(buf[1] * 4 + buf[2] \div 16)>>
    [] Len(buf) = 3 -> <<Byte(buf[1] * 4 + buf[2] \div 16), Byte((buf[2] % 16) * 16 + buf[3] \div 4)>>
    [] OTHER -> <<>>
\* (mutant) the bytes the pads stand for stay
Untruncated(out, pads) == out
Truncated(out, pads) == IF pads > 0 /\ pads <= Len(out) THEN SubSeq(out, 1, Len(out) - pads) ELSE out
\* base64_decode
Decode(text) ==
  LET st == FoldLeft(Character, Scan, text)
  IN IF ~st.ok \/ Len(st.buf) = 1 THEN Failed
     ELSE [ok |-> TRUE, out |-> Truncated(st.out \o Leftover(st.buf), st.pads)]
-----------------------------------------------------------------------------
AllowedExt == {"png", "txt", "html"}
\* the last part of the path; "paste" when nothing is left of it
SanitizeFileName(n) == IF n.stem \in {"", "."} /\ n.ext = "" THEN [dir |-> "", stem |-> "paste", ext |-> ""]
                       ELSE [n EXCEPT !.dir = ""]
ExtAllowed(n) == n.ext \in AllowedExt
PathOf(n) == <<ms, SanitizeFileName(n)>>
Put(n, bytes, given) ==
  /\ ExtAllowed(SanitizeFileName(n))
  /\ stored' = [p \in DOMAIN stored \cup {PathOf(n)} |-> IF p = PathOf(n) THEN bytes ELSE stored[p]]
  /\ handed' = Append(handed, [path |-> PathOf(n), bytes |-> given])

AttachInit == ms = 0 /\ stored = [p \in {} |-> <<>>] /\ handed = <<>>

\* line breaks anywhere, and pads or not
Variants(t) == {t, SelectSeq(t, LAMBDA c : c # Pad)} \cup {SubSeq(t, 1, i) \o <<PadByte>> \o SubSeq(t, i + 1, Len(t)) : i \in 0..Len(t)}
SavePasteAttachment(b, n) ==
  /\ Len(handed) < MaxSaves
  /\ \E t \in Variants(Encode(b)) :
       /\ Decode(t).ok /\ Decode(t).out # <<>> /\ Len(Decode(t).out) <= MaxBytes
       /\ Put(n, Decode(t).out, b)
  /\ UNCHANGED ms

ImportAttachment(b, n) ==
  /\ Len(handed) < MaxSaves /\ Len(b) <= MaxBytes /\ Put(n, b, b)
  /\ UNCHANGED ms

TickMs == ms' = 1 - ms /\ ms = 0 /\ UNCHANGED <<stored, handed>>

AttachNext == TickMs \/ \E b \in Payloads, n \in Names : SavePasteAttachment(b, n) \/ ImportAttachment(b, n)
-----------------------------------------------------------------------------
\* an attachment the window was given a path for is stored as it was given, byte for
\* byte, unless a later one came in the same millisecond with the same name
AttachmentReadsBack == \A i \in 1..Len(handed) :
  \/ stored[handed[i].path] = handed[i].bytes
  \/ \E k \in i+1..Len(handed) : handed[k].path = handed[i].path
-----------------------------------------------------------------------------
(***************************************************************************)
(* Which file a preview opens (commands/artifact.rs): the path a model     *)
(* wrote is looked up under the roots, and when it is not there a product  *)
(* of the session with that name is taken, if there is just one.  A path   *)
(* is a folder and a name, a name a sequence of characters.                *)
(***************************************************************************)
CONSTANTS
  RootOrder,   \* allowed_roots, in order: the workspaces' folder, the working directory, ...
  Shelves,     \* files there are, and the changes on record
  Wishes       \* what is asked for: a folder or none, a name, a session or none

VARIABLES shelf, preview
artifactVars == <<shelf, preview>>

FileAt(folder, name) == [folder |-> folder, name |-> name]
Recorded == {c.file : c \in shelf.changes}
\* assert_allowed: what is not there is passed over; what a run has changed may be read wherever
\* it is, all else below a root
Allowed(p) == p \in shelf.files /\ (p \in Recorded \/ p.folder \in ToSet(RootOrder))
CandidatesOf(w) ==
  IF w.folder = "none" THEN [i \in DOMAIN RootOrder |-> FileAt(RootOrder[i], w.name)]
  ELSE <<FileAt(w.folder, w.name)>>
NoPath == [folder |-> "none", name |-> <<>>]
AssertAllowed(w) ==
  LET fit == SelectSeq(CandidatesOf(w), Allowed) IN IF fit = <<>> THEN NoPath ELSE Head(fit)

\* LIKE: "_" of the name asked for stands for any character
Like(pattern, name) ==
  Len(pattern) = Len(name) /\ \A i \in DOMAIN name : pattern[i] \in {"_", name[i]}
\* (mutant) whatever the session changed
ProductsTouched(w) == {c \in shelf.changes : w.session \in {"any", c.session}}
ProductsOf(w) == {c \in shelf.changes : c.created /\ w.session \in {"any", c.session}}
\* lookup_product_by_basename: files its runs made that are still there
LookupProduct(w) == {c.file : c \in {q \in ProductsOf(w) : Like(w.name, q.file.name)}} \cap shelf.files
\* (mutant) the first of several
AnyOf(found) == IF found = {} THEN NoPath ELSE CHOOSE p \in found : TRUE
OnlyOne(found) == IF Cardinality(found) = 1 THEN CHOOSE p \in found : TRUE ELSE NoPath
\* resolve_with_basename_fallback
Resolve(w) == IF AssertAllowed(w) # NoPath THEN AssertAllowed(w) ELSE OnlyOne(LookupProduct(w))

ArtifactsInit == shelf \in Shelves /\ preview \in Wishes
ArtifactsNext == UNCHANGED artifactVars
-----------------------------------------------------------------------------
\* The file that is opened is there, and it is below a root or a run's own; what is below a
\* root is found before any product of that name, the first root before the others; a product
\* is opened only if the session made it, no other of its products would do as well, and, but
\* for a name with a "_", it has the name that was asked for.
ProductFound ==
  LET p == Resolve(preview)
      direct == {i \in DOMAIN CandidatesOf(preview) : Allowed(CandidatesOf(preview)[i])}
      made == {c.file : c \in {q \in shelf.changes : q.created /\ preview.session \in {"any", q.session}}}
      rivals == {q \in made \cap shelf.files : q.name = preview.name}
  IN  /\ p # NoPath => p \in shelf.files /\ (p.folder \in ToSet(RootOrder) \/ p \in Recorded)
      /\ direct # {} => p = CandidatesOf(preview)[CHOOSE i \in direct : \A j \in direct : i <= j]
      /\ direct = {} /\ p # NoPath =>
           p \in made /\ rivals \subseteq {p} /\ ("_" \notin ToSet(preview.name) => p.name = preview.name)
      /\ direct = {} /\ Cardinality(rivals) = 1 /\ "_" \notin ToSet(preview.name) => {p} = rivals
-----------------------------------------------------------------------------
(***************************************************************************)
(* The two views of the users' files (commands/workspace.rs): a flat list  *)
(* of the newest (list_model_files) and a tree (list_workspace_file_tree). *)
(* Each walks the same roots with a recursion of its own; the tree stops   *)
(* when its cap of nodes is used up. A disk is a set of entries, each      *)
(* under a folder or a root.                                               *)
(***************************************************************************)
CONSTANTS
  DefaultRoot,     \* data_dir()/workspaces, whose folders are groups' workspaces
  OtherRoots,      \* folders opened as a workspace
  Disks,           \* sets of entries [id, under, dir, hidden], ids in order of name
  TreeCaps,        \* 1200 in the code
  ListMax,         \* MODEL_FILES_MAX
  MaxDepth         \* MODEL_FILES_MAX_DEPTH

VARIABLES
  entries,    \* what is on disk
  treeCap

treesVars == <<entries, treeCap>>

Under(x) == SetToSortSeq({e \in entries : e.under = x}, LAMBDA a, b : a.id < b.id)
Skipped(e) == e.hidden       \* starts with a dot, or node_modules

\* walk_model_files: every file below a folder, not deeper than MaxDepth
RECURSIVE Walk(_, _)
Walk(x, depth) ==
  IF depth > MaxDepth THEN {}
  ELSE {e.id : e \in {f \in entries : f.under = x /\ ~f.dir /\ ~Skipped(f)}}
       \cup UNION {Walk(d.id, depth + 1) : d \in {f \in entries : f.under = x /\ f.dir /\ ~Skipped(f)}}
Roots == {DefaultRoot} \cup OtherRoots
Walked == UNION {Walk(r, 0) : r \in Roots}
\* sorted by time, which is the id here, and cut off
ListModelFiles == {f \in Walked : Cardinality({x \in Walked : x > f}) < ListMax}

\* build_file_tree: the nodes below a folder and what is left of the cap; a folder counts
\* after its contents, and is not shown when the cap ran out before it was opened
NoNode == [shown |-> FALSE, nodes |-> {}, cap |-> 0]
Saturating(n) == IF n > 0 THEN n - 1 ELSE 0
\* (mutant) files do not count
FileCostFree(n) == n
FileCost(n) == Saturating(n)
\* (mutant) a folder's depth starts over
SameDepth(depth) == depth
Deeper(depth) == depth + 1
RECURSIVE BuildFileTree(_, _, _)
BuildFileTree(x, depth, cap) ==
  IF depth > MaxDepth \/ cap = 0 THEN [NoNode EXCEPT !.cap = cap]
  ELSE FoldLeft(LAMBDA acc, e :
         IF acc.cap = 0 \/ Skipped(e) THEN acc
         ELSE IF ~e.dir THEN [acc EXCEPT !.nodes = @ \cup {e.id}, !.cap = FileCost(@)]
         ELSE LET t == BuildFileTree(e.id, Deeper(depth), acc.cap)
              IN IF t.shown THEN [shown |-> TRUE, nodes |-> acc.nodes \cup t.nodes \cup {e.id},
                                  cap |-> Saturating(t.cap)]
                 ELSE [acc EXCEPT !.cap = t.cap],
       [shown |-> TRUE, nodes |-> {}, cap |-> cap], Under(x))

\* list_workspace_file_tree: the default root shows its folders, another root itself, all
\* from one cap
AddRoot(acc, x, depth) ==
  LET t == BuildFileTree(x, depth, acc.cap)
  IN IF t.shown THEN [nodes |-> acc.nodes \cup t.nodes, cap |-> t.cap, roots |-> acc.roots + 1]
     ELSE [acc EXCEPT !.cap = t.cap]
FileTree ==
  LET groups == SelectSeq(Under(DefaultRoot), LAMBDA e : e.dir)
      start == FoldLeft(LAMBDA acc, g : AddRoot(acc, g.id, 1), [nodes |-> {}, cap |-> treeCap, roots |-> 0], groups)
  IN FoldLeft(LAMBDA acc, r : AddRoot(acc, r, 0), start, SetToSeq(OtherRoots))

TreesInit == entries \in Disks /\ treeCap \in TreeCaps
TreesNext == UNCHANGED treesVars
-----------------------------------------------------------------------------
FilesOf(nodes) == {e.id : e \in {f \in entries : ~f.dir /\ f.id \in nodes}}
Loose == {e.id : e \in {f \in entries : f.under = DefaultRoot /\ (~f.dir \/ f.hidden)}}
OfGroups == UNION {Walk(e.id, 1) : e \in {f \in entries : f.under = DefaultRoot /\ f.dir}}

\* while neither limit is reached both views show the same files; only what lies beside the
\* groups' folders, or in a hidden one, is in one view alone
ViewsAgree ==
  FileTree.cap > 0 /\ Cardinality(Walked) <= ListMax =>
    FilesOf(FileTree.nodes) = (ListModelFiles \ Loose) \cup OfGroups

\* the tree never grows past its cap by more than the folders that were open when it ran
\* out, at most one per level of depth
TreeIsBounded == Cardinality(FileTree.nodes) <= treeCap + MaxDepth
=============================================================================
