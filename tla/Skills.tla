------------------------------- MODULE Skills -------------------------------
(***************************************************************************)
(* Skills (skill/manager.rs, storage/skill_repo.rs): a row, a folder that  *)
(* is copied on import, a budget and the agents that refer to it are kept  *)
(* apart; what is missing between them is found by a diagnosis that reads  *)
(* one table after the other (commands/extensibility.rs, diagnostics.rs).  *)
(* A skill's page is a sequence of lines.                                  *)
(***************************************************************************)
EXTENDS Integers, FiniteSets, SequencesExt

CONSTANTS
  SkillIds,        \* fresh ids, one per import
  SkillEdits,      \* bound: operations of the user
  MaxBody,         \* L2_TOKEN_LIMIT * CHARS_PER_TOKEN, in lines
  PagesOfSkills    \* pages: lines of the head or none, whether it is closed, the body
\* "---" ends a head, so it is none of its lines
ASSUME SkillConstants ==
  /\ MaxBody \in Nat
  /\ \A p \in PagesOfSkills :
       /\ p.head \in {"none", "closed", "open"} /\ "---" \notin ToSet(p.lines)
       /\ p.lines \in Seq(ToSet(p.lines)) /\ p.body \in Seq(ToSet(p.body))

VARIABLES
  skillRows,    \* id -> [kind, enabled]
  folders,      \* id -> how much of the page was copied
  budgets,      \* ids with a budget row
  skillRefs,    \* ids the agents refer to
  importing,    \* the import under way
  usedIds, skillEdits,
  check,        \* the diagnosis under way
  skillPage
skillVars == <<skillRows, folders, budgets, skillRefs, importing, usedIds, skillEdits, check, skillPage>>

Skilled == DOMAIN skillRows
NoImport == [at |-> "none", id |-> 0]
NoCheck == [at |-> "none", skills |-> {}, budgets |-> {}, orphaned |-> {}, missing |-> {}, before |-> <<>>]
SkillsInit ==
  /\ skillRows = <<>> /\ folders = <<>> /\ budgets = {} /\ skillRefs = {}
  /\ importing = NoImport /\ usedIds = {} /\ skillEdits = 0 /\ check = NoCheck
  /\ skillPage \in PagesOfSkills
-----------------------------------------------------------------------------
PutSkill(f, k, v) == [x \in DOMAIN f \cup {k} |-> IF x = k THEN v ELSE f[x]]
Without(f, k) == [x \in DOMAIN f \ {k} |-> f[x]]
\* bound
SkillEdit == skillEdits < SkillEdits /\ skillEdits' = skillEdits + 1

\* the insert of add_skill and import_url: no folder
InsertSkill ==
  \E id \in SkillIds \ usedIds :
    /\ SkillEdit
    /\ usedIds' = usedIds \cup {id}
    /\ skillRows' = PutSkill(skillRows, id, [kind |-> "row", enabled |-> TRUE])
    /\ UNCHANGED <<folders, budgets, skillRefs, importing, check, skillPage>>
\* import_local: the folder is copied file by file, then the row is written
StartImport ==
  \E id \in SkillIds \ usedIds :
    /\ importing.at = "none" /\ SkillEdit
    /\ usedIds' = usedIds \cup {id}
    /\ importing' = [at |-> "copy", id |-> id]
    /\ folders' = PutSkill(folders, id, "part")
    /\ UNCHANGED <<skillRows, budgets, skillRefs, check, skillPage>>
\* (mutant) a file that cannot be copied is passed over
CopyLossy == {"part", "whole"}
CopyResults == {"whole"}
CopyFolder ==
  /\ importing.at = "copy"
  /\ \E much \in CopyResults : folders' = PutSkill(folders, importing.id, much)
  /\ importing' = [importing EXCEPT !.at = "row"]
  /\ UNCHANGED <<skillRows, budgets, skillRefs, usedIds, skillEdits, check, skillPage>>
\* a file that cannot be read ends the import, as a crash does; what was copied stays
AbandonImport ==
  /\ importing.at # "none"
  /\ importing' = NoImport
  /\ UNCHANGED <<skillRows, folders, budgets, skillRefs, usedIds, skillEdits, check, skillPage>>
WriteSkillRow ==
  /\ importing.at = "row"
  /\ skillRows' = PutSkill(skillRows, importing.id, [kind |-> "local", enabled |-> TRUE])
  /\ importing' = NoImport
  /\ UNCHANGED <<folders, budgets, skillRefs, usedIds, skillEdits, check, skillPage>>
SetSkillEnabled ==
  \E id \in Skilled, on \in BOOLEAN :
    /\ SkillEdit
    /\ skillRows' = [skillRows EXCEPT ![id].enabled = on]
    /\ UNCHANGED <<folders, budgets, skillRefs, importing, usedIds, check, skillPage>>
\* (mutant) the folder goes too, the row in a statement of its own that may not come
DeleteFolderFirst(id) == folders' = Without(folders, id) /\ UNCHANGED skillRows
\* the row only: the folder, the budget and the agents' references stay
DropSkill(id) == skillRows' = Without(skillRows, id) /\ UNCHANGED folders
DeleteSkill ==
  \E id \in Skilled :
    /\ SkillEdit
    /\ DropSkill(id)
    /\ UNCHANGED <<budgets, skillRefs, importing, usedIds, check, skillPage>>
\* set_budget asks nobody whether there is such a skill
SetSkillBudget ==
  \E id \in usedIds :
    /\ SkillEdit
    /\ budgets' = budgets \cup {id}
    /\ UNCHANGED <<skillRows, folders, skillRefs, importing, usedIds, check, skillPage>>
\* an agent's profile is given a skill that was in the list, or loses it
ReferToSkill ==
  \E id \in Skilled \cup skillRefs :
    /\ SkillEdit
    /\ skillRefs' = IF id \in skillRefs THEN skillRefs \ {id} ELSE skillRefs \cup {id}
    /\ UNCHANGED <<skillRows, folders, budgets, importing, usedIds, check, skillPage>>
-----------------------------------------------------------------------------
\* l1_block: what an agent is told of its skills
L1Block == {id \in skillRefs \cap Skilled : skillRows[id].enabled}
\* read_l2 for a job, whether or not the skill is enabled
Readable == {id \in Skilled : skillRows[id].kind = "local" /\ id \in DOMAIN folders}

\* diagnose_capabilities: skills, budgets, agents; evaluate compares what was read
StartCheck ==
  /\ check = NoCheck    \* bound: one diagnosis of a behaviour
  /\ check' = [check EXCEPT !.at = "budgets", !.skills = Skilled,
                            !.before = [skills |-> Skilled, budgets |-> budgets, refs |-> skillRefs]]
  /\ UNCHANGED <<skillRows, folders, budgets, skillRefs, importing, usedIds, skillEdits, skillPage>>
CheckBudgets ==
  /\ check.at = "budgets"
  /\ check' = [check EXCEPT !.at = "refs", !.budgets = budgets]
  /\ UNCHANGED <<skillRows, folders, budgets, skillRefs, importing, usedIds, skillEdits, skillPage>>
\* (mutant) a skill that is switched off counts as missing
MissingOrOff(skills, ids) == {id \in ids : id \notin skills \/ (id \in Skilled /\ ~skillRows[id].enabled)}
NotAmong(skills, ids) == ids \ skills
EvaluateSkills ==
  /\ check.at = "refs"
  /\ check' = [check EXCEPT !.at = "told", !.orphaned = NotAmong(check.skills, check.budgets),
                            !.missing = NotAmong(check.skills, skillRefs)]
  /\ UNCHANGED <<skillRows, folders, budgets, skillRefs, importing, usedIds, skillEdits, skillPage>>

SkillsNext ==
  \/ InsertSkill \/ StartImport \/ CopyFolder \/ AbandonImport \/ WriteSkillRow
  \/ SetSkillEnabled \/ DeleteSkill \/ SetSkillBudget \/ ReferToSkill
  \/ StartCheck \/ CheckBudgets \/ EvaluateSkills
SkillsSpec == SkillsInit /\ [][SkillsNext]_skillVars
-----------------------------------------------------------------------------
(***************************************************************************)
(* A skill's page: a head between two lines "---", then the body.          *)
(***************************************************************************)
Blank == ""
EndOfHead(lines) ==
  LET rules == {i \in 2 .. Len(lines) : lines[i] = "---"}
  IN  IF lines = <<>> \/ lines[1] # "---" \/ rules = {} THEN 0
      ELSE CHOOSE i \in rules : \A j \in rules : i <= j
\* parse_skill_frontmatter: without a head the folder's name, without a name in it a default
ParseFrontmatter(lines) ==
  LET end == EndOfHead(lines)
      named == {i \in 2 .. end - 1 : lines[i] \in {"name a", "name b"}}
  IN  IF end = 0 THEN "folder"
      ELSE IF named = {} THEN "imported-skill" ELSE lines[CHOOSE i \in named : \A j \in named : i <= j]
\* (mutant) up to the last rule of the page
StripToLastRule(lines) ==
  IF EndOfHead(lines) = 0 THEN lines
  ELSE SubSeq(lines, (CHOOSE i \in DOMAIN lines : lines[i] = "---" /\ \A j \in i + 1 .. Len(lines) : lines[j] # "---") + 1, Len(lines))
\* strip_frontmatter: the empty lines behind the head go too
StripFrontmatter(lines) ==
  LET end == EndOfHead(lines)
      from == CHOOSE i \in end + 1 .. Len(lines) + 1 :
                (i > Len(lines) \/ lines[i] # Blank) /\ \A j \in end + 1 .. i - 1 : lines[j] = Blank
  IN  IF end = 0 THEN lines ELSE SubSeq(lines, from, Len(lines))
\* read_l2
BodyOf(lines) ==
  LET body == StripFrontmatter(lines)
  IN  IF Len(body) > MaxBody THEN SubSeq(body, 1, MaxBody) \o <<"cut">> ELSE body
-----------------------------------------------------------------------------
PageLines ==
  (IF skillPage.head = "none" THEN <<>>
   ELSE <<"---">> \o skillPage.lines \o (IF skillPage.head = "closed" THEN <<"---">> ELSE <<>>))
  \o skillPage.body
\* A skill with a folder has all of it, whatever failed or crashed while it was imported, and
\* whoever is told of a skill can be given it. A diagnosis misses nothing that was wrong
\* when it began, and what it tells wrongly is at most a skill that came while it ran; on
\* tables nobody touched it tells exactly what is wrong. A page's rules stay in its body.
SkillsAccounted ==
  /\ \A id \in Skilled : skillRows[id].kind = "local" => id \in DOMAIN folders /\ folders[id] = "whole"
  /\ {id \in L1Block : skillRows[id].kind = "local"} \subseteq Readable
  /\ check.at = "told" =>
       LET was == check.before
       IN  /\ was.budgets \ was.skills \subseteq check.orphaned
           /\ (was.refs \cap skillRefs) \ was.skills \subseteq check.missing
           /\ (check.orphaned \cup check.missing) \cap was.skills = {}
           /\ \A id \in (check.orphaned \cup check.missing) \cap Skilled : id \notin was.skills
           /\ was = [skills |-> Skilled, budgets |-> budgets, refs |-> skillRefs] =>
                check.orphaned = budgets \ Skilled
  /\ skillPage.head = "closed" =>
       /\ skillPage.body # <<>> /\ skillPage.body[1] # Blank /\ Len(skillPage.body) <= MaxBody =>
            BodyOf(PageLines) = skillPage.body
       /\ "name a" \in ToSet(skillPage.lines) /\ "name b" \notin ToSet(skillPage.lines) =>
            ParseFrontmatter(PageLines) = "name a"
  /\ skillPage.head = "none" /\ "---" \notin ToSet(skillPage.body) /\ Len(skillPage.body) <= MaxBody =>
       BodyOf(PageLines) = skillPage.body
=============================================================================
