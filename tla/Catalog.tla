------------------------------- MODULE Catalog -------------------------------
(***************************************************************************)
(* The agent catalog and what is made from it: profiles edited in windows  *)
(* (group/agent_repo.rs), exported and imported as markdown files          *)
(* (group/agent_adapter.rs), and groups whose seats copy a profile         *)
(* (group/manager.rs, group/group_repo.rs). An update reads the row and    *)
(* writes every column back; a group's row, its policy and its seats are   *)
(* statements of their own.                                                *)
(***************************************************************************)
EXTENDS Naturals, FiniteSets, SequencesExt

CONSTANTS
  Agents,       \* ids, each given out once
  Editors,      \* windows with the profile page open
  Teams,        \* ids of groups
  CatalogKits   \* [profile (of the first agent), payloads, seats, edits, crashes]

VARIABLES
  agent,     \* per id its row, or NoAgent
  window,    \* per editor the update under way [id, payload, row], or Shut
  team,      \* per id [row, asked, policy, seats]
  making,    \* per group the statements its creation has left
  given,     \* per id the value last asked for each column
  stale,      \* ids updated while another window had read them
  exported,  \* agent-exports/: a file by its name, or NoFile
  shop       \* the kit, counted down

catalogVars == <<agent, window, team, making, given, stale, exported, shop>>

\* the columns of a profile that are told apart; a payload names some of them
ProfileColumns == {"name", "model", "system_prompt", "tools", "disallowed_tools", "permission_mode",
            "max_turns", "isolation", "capabilities"}
ASSUME CatalogConstants ==
  \A k \in CatalogKits :
    /\ DOMAIN k = {"profile", "payloads", "seats", "edits", "crashes"}
    /\ DOMAIN k.profile = ProfileColumns /\ \A p \in k.payloads : DOMAIN p \subseteq ProfileColumns

NoAgent == [none |-> "agent"]
NoFile == [none |-> "file"]
Shut == [none |-> "window"]
NoTeam == [row |-> FALSE, asked |-> "default", policy |-> "none", seats |-> {}]
Exists(id) == agent[id] # NoAgent
\* the columns of both, the first's where both have one
Joined(f, g) == [c \in DOMAIN f \cup DOMAIN g |-> IF c \in DOMAIN f THEN f[c] ELSE g[c]]
Shop(f) == shop[f] > 0 /\ shop' = [shop EXCEPT ![f] = @ - 1]

\* columns the file carries, with what is left out of it or assumed without it
Defaults == [permission_mode |-> "default", max_turns |-> 0, isolation |-> "none",
             tools |-> <<>>, disallowed_tools |-> <<>>, model |-> "deepseek-chat"]
Unwritten == [permission_mode |-> {"default"}, max_turns |-> {0}, isolation |-> {"none"},
              tools |-> {<<>>}, disallowed_tools |-> {<<>>}, model |-> {}]

CatalogInit ==
  /\ shop \in CatalogKits
  /\ agent = [id \in Agents |-> IF \A x \in Agents : id <= x THEN shop.profile ELSE NoAgent]
  /\ given = agent /\ stale = {}
  /\ window = [e \in Editors |-> Shut]
  /\ team = [g \in Teams |-> NoTeam] /\ making = [g \in Teams |-> <<>>]
  /\ exported = NoFile
-----------------------------------------------------------------------------
Unused(id) == ~Exists(id) /\ given[id] = NoAgent
CreateProfile(id, row) == /\ agent' = [agent EXCEPT ![id] = row]
                          /\ given' = [given EXCEPT ![id] = row]

\* update: the row as found, each column replaced by the payload's if it has one
StartUpdate(e, id) ==
  /\ Shop("edits") /\ window[e] = Shut /\ Exists(id)
  /\ \E p \in shop.payloads : window' = [window EXCEPT ![e] = [id |-> id, payload |-> p, row |-> agent[id]]]
  /\ UNCHANGED <<agent, team, making, given, stale, exported>>
\* (mutant) a column nobody named takes its default
UpdatedOrDefault(row, p) == [c \in DOMAIN row |-> IF c \in DOMAIN p THEN p[c]
                                                 ELSE IF c \in DOMAIN Defaults THEN Defaults[c] ELSE row[c]]
WithPayload(row, p) == [c \in DOMAIN row |-> IF c \in DOMAIN p THEN p[c] ELSE row[c]]
FinishUpdate(e) ==
  /\ window[e] # Shut /\ window' = [window EXCEPT ![e] = Shut]
  /\ LET u == window[e] IN
     /\ agent' = IF Exists(u.id) THEN [agent EXCEPT ![u.id] = WithPayload(u.row, u.payload)] ELSE agent
     /\ given' = [given EXCEPT ![u.id] = Joined(u.payload, @)]
     /\ stale' = IF \E x \in Editors \ {e} : window[x] # Shut /\ window[x].id = u.id
                THEN stale \cup {u.id} ELSE stale
  /\ UNCHANGED <<team, making, exported, shop>>

DeleteProfile(id) == /\ Shop("edits") /\ Exists(id) /\ agent' = [agent EXCEPT ![id] = NoAgent]
                     /\ UNCHANGED <<window, team, making, given, stale, exported>>
-----------------------------------------------------------------------------
\* render_agent_md: a line per column that is not at its default; max_turns only above 0
Exported(row) == {c \in DOMAIN Unwritten : row[c] \notin Unwritten[c]}
RenderAgentMd(row, redact) ==
  [lines |-> [c \in Exported(row) \cup {"name"} |-> row[c]],
   body  |-> IF redact THEN "[REDACTED system prompt]" ELSE row.system_prompt]

\* extract_yaml_value: an empty value is none at all
Unspoken(c, v) == c \in {"model", "permission_mode", "isolation"} /\ v = ""
Value(md, c) == IF c \in DOMAIN md.lines /\ ~Unspoken(c, md.lines[c]) THEN md.lines[c] ELSE Defaults[c]
\* (mutant) the forbidden tools are not read
ParseForgetful(md) ==
  Joined([c \in DOMAIN Defaults \ {"disallowed_tools"} |-> Value(md, c)],
         [name |-> md.lines["name"], system_prompt |-> md.body, capabilities |-> <<>>, disallowed_tools |-> <<>>])
\* parse_agent_md; capabilities, skills, servers and plugins are not in the file
ParseAgentMd(md) ==
  Joined([c \in DOMAIN Defaults |-> Value(md, c)],
         [name |-> md.lines["name"], system_prompt |-> md.body, capabilities |-> <<>>])

ExportAgent(id) == /\ Shop("edits") /\ Exists(id)
                   /\ \E redact \in BOOLEAN : exported' = RenderAgentMd(agent[id], redact)
                   /\ UNCHANGED <<agent, window, team, making, given, stale>>
ImportAgent(id) == /\ exported # NoFile /\ Unused(id) /\ CreateProfile(id, ParseAgentMd(exported))
                   /\ UNCHANGED <<window, team, making, stale, exported, shop>>
-----------------------------------------------------------------------------
\* (mutant) the seats first
SeatsFirst == <<"seats", "policy">>
\* what is left once the row is inserted
AfterRow == <<"policy", "seats">>
\* insert_group, for create_group or create_group_from_manifest
CreateTeam(g) ==
  /\ Shop("edits") /\ ~team[g].row
  /\ \E policy \in {"default", "manifest"} : team' = [team EXCEPT ![g] = [NoTeam EXCEPT !.row = TRUE, !.asked = policy]]
  /\ making' = [making EXCEPT ![g] = AfterRow]
  /\ UNCHANGED <<agent, window, given, stale, exported>>

\* the policy, then a seat for each listed agent that is there; an error in a seat is dropped
CreationStep(g) ==
  /\ making[g] # <<>> /\ making' = [making EXCEPT ![g] = Tail(@)]
  /\ team' = IF Head(making[g]) = "policy" THEN [team EXCEPT ![g].policy = team[g].asked]
             ELSE [team EXCEPT ![g].seats =
               {[agent |-> id, capabilities |-> agent[id].capabilities] : id \in {x \in shop.seats : Exists(x)}}]
  /\ UNCHANGED <<agent, window, given, stale, exported, shop>>

CatalogCrash == /\ Shop("crashes")
                /\ making' = [g \in Teams |-> <<>>] /\ window' = [e \in Editors |-> Shut]
                /\ UNCHANGED <<agent, team, given, stale, exported>>

CatalogNext ==
  \/ \E id \in Agents : DeleteProfile(id) \/ ExportAgent(id) \/ ImportAgent(id)
  \/ \E e \in Editors : FinishUpdate(e) \/ \E id \in Agents : StartUpdate(e, id)
  \/ \E g \in Teams : CreateTeam(g) \/ CreationStep(g)
  \/ CatalogCrash
CatalogSpec == CatalogInit /\ [][CatalogNext]_catalogVars
-----------------------------------------------------------------------------
\* an agent exported and imported again is restricted as it was: tools, forbidden tools,
\* permission mode, turns and isolation are those of the row, an empty one the default
RestrictionsSurviveExport ==
  \A id \in Agents : Exists(id) =>
    LET back == ParseAgentMd(RenderAgentMd(agent[id], FALSE))
    IN \A c \in DOMAIN Defaults : back[c] = IF Unspoken(c, agent[id][c]) THEN Defaults[c] ELSE agent[id][c]

\* what was last asked of a column is in it, unless two windows overlapped on the agent
EditsKept == \A id \in Agents \ stale : Exists(id) => agent[id] = given[id]

\* no seat of a new group can be given work before the policy it asked for is there,
\* wherever its creation stopped
SeatedUnderPolicy == \A g \in Teams : team[g].seats # {} => team[g].policy = team[g].asked

\* What the user restricted stays restricted: through an export, beside another
\* window's edit, and while a group is being made.
CatalogKept == RestrictionsSurviveExport /\ EditsKept /\ SeatedUnderPolicy
=============================================================================
