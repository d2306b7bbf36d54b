----------------------------- MODULE MCServices -----------------------------
(***************************************************************************)
(* The services around the scheduler and the agent loop, for TLC.  They    *)
(* share no state: a behaviour looks into one of them, its focus, and the  *)
(* others keep an initial state.                                           *)
(***************************************************************************)
EXTENDS Sessions, Changesets, Automation, Stores, ToolRound, JsonRepair,
        BoardOrder, Interruptions, Workspaces, UserRecords, UserFiles, CutTexts,
        Plans, Insight, MCTalks

CONSTANT Focuses   \* the services a run looks into
VARIABLE focus

(***************************************************************************)
(* Bounds: what a behaviour of each service may spend.                     *)
(***************************************************************************)
LogKit(r, c, st, x, cr, cl, d, rd, co, l) ==
  [runs |-> r, calls |-> c, steer |-> st, stop |-> x, crash |-> cr, clear |-> cl,
   delete |-> d, reads |-> rd, compact |-> co, lost |-> l]
OneLog == LogKit(1, 1, 0, 0, 1, 0, 0, 2, 0, TRUE)
\* three runs that fold, with a failed write, a crash, a clear, messages of the
\* user; two readers of the trace; a deletion, alone and cut by crashes; a request
\* compacted twice
SmallLogKits == {
  OneLog,
  LogKit(3, 4, 0, 0, 0, 0, 0, 0, 0, FALSE),
  LogKit(3, 3, 0, 1, 1, 0, 0, 0, 0, TRUE),
  LogKit(3, 2, 1, 0, 1, 1, 0, 0, 0, FALSE),
  LogKit(2, 1, 0, 1, 0, 0, 1, 1, 0, FALSE),
  LogKit(2, 2, 0, 0, 2, 0, 1, 0, 0, FALSE),
  LogKit(2, 3, 2, 0, 0, 0, 0, 0, 2, FALSE)}

Every == [is |-> "every", left |-> Never]
Soon == [is |-> "soon", left |-> 1]
Past == [is |-> "over", left |-> Late]
JK(expr, action, edits, now, crash) ==
  [expr |-> expr, action |-> action, edits |-> edits, now |-> now, crash |-> crash]
OneJob == JK(Every, "shell", 1, 0, 0)
SmallJobKits == {OneJob, JK(Soon, "agent", 1, 0, 0), JK(Soon, "shell", 2, 0, 0), JK(Soon, "shell", 1, 1, 0),
                 JK(Every, "agent", 0, 0, 1), JK(Past, "shell", 1, 1, 1)}

Denies == [edges |-> <<>>, default |-> FALSE]
Allows == [edges |-> <<>>, default |-> TRUE]
BothPolicies == {Denies, Allows}

\* skills with a tool that reads and one that writes
SmallSkills == [a |-> {"skill__a__read", "skill__a__write"}, b |-> {"skill__b__write"}]
OfSkills(a, b) == [a |-> a, b |-> b]
\* rounds of three calls, each for a reason: side by side or not, overrides,
\* budgets, exemptions, a skill's scope, a provider that is down
SafeRound == [calls |-> <<"read_file", "write_file", "run_shell">>, kind |-> "user",
              auto |-> FALSE, overrides |-> <<>>, scope |-> [allow |-> "all", tools |-> {}],
              exempt |-> {}, limit |-> OfSkills(Unlimited, Unlimited), used |-> OfSkills(0, 0),
              providers |-> <<Safe \cup Dangerous, {"mcp"} \cup SmallSkills.a \cup SmallSkills.b>>,
              answers |-> <<"any", "any", "any">>]
ReadRound == [SafeRound EXCEPT !.calls = <<"read_file", "list_dir", "read_state">>, !.auto = TRUE,
                               !.answers = <<"ok", "failed", "timeout">>]
Rule(tool, scope, action) == [tool |-> tool, scope |-> scope, action |-> action]
\* one of the skill's tools is allowed and uses the budget up, the others are denied
SkillRound == [SafeRound EXCEPT !.calls = <<"skill__a__read", "skill__a__write", "skill__b__write">>,
                                !.kind = "unattended_worker", !.limit = OfSkills(0, Unlimited),
                                !.overrides = <<Rule("skill__a__read", "worker", "allow")>>]
SmallRounds == {
  SafeRound, ReadRound,
  [ReadRound EXCEPT !.overrides = <<Rule("list_dir", "user", "ask")>>],
  [ReadRound EXCEPT !.overrides = <<Rule("list_dir", "all", "deny")>>],
  [SafeRound EXCEPT !.calls = <<"write_file", "mcp", "run_shell">>, !.kind = "attended_worker"],
  [SkillRound EXCEPT !.overrides = <<>>],
  SkillRound, [SkillRound EXCEPT !.exempt = {"skill__a__write"}],
  [SkillRound EXCEPT !.kind = "attended_worker", !.limit = OfSkills(1, 0)],
  [SkillRound EXCEPT !.limit = OfSkills(0, 0), !.used = OfSkills(1, 0)],
  [SkillRound EXCEPT !.calls = <<"skill__a__read", "mcp", "skill__a__read">>, !.kind = "user", !.auto = TRUE,
                     !.scope = [allow |-> "only", tools |-> SmallSkills.a]],
  [SafeRound EXCEPT !.exempt = {"write_file"}, !.scope = [allow |-> "all_except", tools |-> {"run_shell"}]],
  [SafeRound EXCEPT !.kind = "unattended_worker",
                    !.overrides = <<Rule("run_shell", "worker", "allow"), Rule("write_file", "all", "ask")>>,
                    !.providers = <<Safe \cup Dangerous, {"mcp"}>>]}

SmallUnits == {<<"x">>, <<"A">>, <<"N">>, <<"B", "Q">>, <<"Q">>, <<",">>, <<"}">>, <<"{">>}
PlainSample == [content |-> <<>>, quote |-> "A", colon |-> FALSE, comma |-> FALSE]

OneBoard == [actors |-> {"tool"}, edits |-> 4]
SmallBoardKits == {OneBoard, [actors |-> {"tool", "user"}, edits |-> 3]}
OnePanel == [days |-> 2, limit |-> 1, edits |-> 1, restarts |-> 1]
SmallPanelKits == {OnePanel}
SmallRoomKits == {[edits |-> 4, crashes |-> 1]}

\* a and b write to what everybody reads, c belongs to a workspace
TwoAndOne == ("a" :> "NULL") @@ ("b" :> "NULL") @@ ("c" :> "w1")
Three(a, b, c) == ("a" :> a) @@ ("b" :> b) @@ ("c" :> c)
NK(m, t, u) == [mode |-> m, target |-> t, unreadable |-> u]
Append3 == Three("append", "append", "append")
OneNote == NK(Three("append", "replace", "append"), Three("memory", "memory", "memory"), 1)
SmallNoteKits ==
  {OneNote, NK(Append3, Three("user", "user", "memory"), 0)}
    \cup {NK(Append3, Three("project", x, y), 0) : x, y \in {"project", "distill"}}
    \cup {NK(Three("append", m, n), Three("user", "profile", "profile"), 0) :
            m \in {"save", "replace"}, n \in {"save", "clear"}}
    \cup {NK(Three("replace", "save", n), Three("user", "profile", "profile"), 0) :
            n \in {"save", "clear"}}

Profile(mode, most, denied, model) ==
  [name |-> "a", model |-> model, system_prompt |-> "p", tools |-> <<"read">>,
   disallowed_tools |-> denied, permission_mode |-> mode, max_turns |-> most,
   isolation |-> "sandbox", capabilities |-> <<"c">>]
ShopOf(p) == [profile |-> p, seats |-> {1}, edits |-> 3, crashes |-> 1,
              payloads |-> {[disallowed_tools |-> <<"shell">>],
                            [permission_mode |-> "plan", max_turns |-> 0]}]
OneShop == ShopOf(Profile("plan", 20, <<"shell">>, "m"))
SmallShops == {OneShop, ShopOf(Profile("", 0, <<>>, ""))}

SmallPayloads == {<<77>>, <<0>>, <<255, 0>>, <<0, 255>>, <<77, 97, 110>>, <<255, 128, 1, 254>>,
                  <<0, 0, 63, 64, 65>>, <<7, 0, 0, 0>>, <<>>}
SmallNames == {[dir |-> "d", stem |-> "a", ext |-> "png"], [dir |-> "", stem |-> "b", ext |-> "exe"],
               [dir |-> "", stem |-> "", ext |-> ""]}

\* four entries, files and folders, under either root or one another, one hidden
OnDisk(i, u, d, h) == [id |-> i, under |-> u, dir |-> d, hidden |-> h]
Places == {q \in [1..4 -> {0, 1, 2, 3, 100}] : \A i \in 1..4 : q[i] < i \/ q[i] = 100}
Shapes == {k \in [1..4 -> BOOLEAN] : ~k[4]}
SmallDisks ==
  {D \in {{OnDisk(i, p[i], k[i], i \in h) : i \in 1..4} :
            p \in Places, k \in Shapes, h \in {{}, {2}, {4}}} :
     \A e \in D : e.under \in {0, 100} \/ \E f \in D : f.id = e.under /\ f.dir}

\* two names that differ where a "_" stands in one of them, below two roots and elsewhere
TwoRoots == <<"r1", "r2">>
Hyphened == <<"a", "-">>
Underscored == <<"a", "_">>
Everywhere == {FileAt(f, n) : f \in {"r1", "away"}, n \in {Hyphened, Underscored}} \cup {FileAt("r2", Hyphened)}
Change(p, made, s) == [file |-> p, created |-> made, session |-> s]
SmallShelves ==
  [files : SUBSET Everywhere,
   changes : {{Change(FileAt("away", Hyphened), made, "s"), Change(q, TRUE, s)} :
                q \in {FileAt(f, Underscored) : f \in {"r1", "away"}}, made \in BOOLEAN, s \in {"s", "t"}}]
SmallWishes == [folder : {"none", "r2", "away", "lost"}, name : {Hyphened, Underscored}, session : {"any", "s"}]

\* sentences short and long, and names before, in and behind the words
NameAB == <<"A", "B">>
Letters(n) == [i \in 1..n |-> "x"]
Sentences == {Letters(n) \o e : n \in {1, 2, 3, 8}, e \in {<<".">>, <<" ", "n">>}} \cup {Letters(2), <<"n">>}
NameLayers == {<<"A", "B", ":">>, <<"@", "A", " ", "B", ":", " ">>, <<" ", "A", "B", "#", "1", " ", ":">>}
Words == {<<"x">>, <<"A", "B", " ", "x">>, <<"A", "x", ":">>, <<"@", "x">>, <<"#", "1", ":">>, <<"A", "B", "#">>}
SmallReplies ==
  [names : {<<>>}, words : UNION {{FlattenSeq(s) : s \in [1..n -> Sentences]} : n \in 0..3}, plain : {FALSE}]
    \cup [names : UNION {[1..n -> NameLayers] : n \in 0..3}, words : Words, plain : {TRUE}]

\* pages of up to three pieces, requests of up to three messages
Piece(code, text) == [code |-> code, text |-> text, sound |-> TRUE]
Block(tag, in) == Piece(<<"<" \o tag, ">">> \o in \o <<"</" \o tag \o ">">>, <<>>)
Pieces == {
  Piece(<<"x">>, <<"x">>), Piece(<<" ">>, <<" ">>), Piece(<<"<div", "y", ">">>, <<>>), Piece(<<"</div>">>, <<>>),
  Block("script", <<"x", "<", "</head>", "x">>), Block("style", <<"x">>),
  Block("head", <<"<div", ">", "z">> \o Block("script", <<"</head>">>).code),
  Block("svg", Block("style", <<"<">>).code),
  Piece(<<"&", "lt;">>, <<"<">>), Piece(<<"&", "amp;", "lt;">>, <<"&", "lt;">>),
  Piece(<<"&", "x">>, <<"&", "x">>), Piece(<<"&", "nbsp;">>, <<" ">>),
  [Piece(<<"<header", ">">>, <<>>) EXCEPT !.sound = FALSE]}
SmallPages == UNION {[1..n -> Pieces] : n \in 0..3}
Results == [role : {"tool"}, chars : {3, 5, 9, 12}, width : {1, 3}, cut : {FALSE}]
             \cup [role : {"user"}, chars : {8}, width : {3}, cut : {FALSE}]
SmallRequests == UNION {[1..n -> Results] : n \in 0..3}

Asking(e, l, n, several) == [empty |-> e, lines |-> l, long |-> n, steps |-> several]
PlanOf(items, options) == [parses |-> TRUE, items |-> items, options |-> options]
OnePlan == [message |-> Asking(FALSE, FALSE, FALSE, TRUE), answer |-> PlanOf(<<TRUE, TRUE, TRUE>>, <<>>),
            auto |-> FALSE, from |-> 0, most |-> 4]
\* an entry or an option without a title, a resumed run, a short message
SmallPlanKits == {
  OnePlan, [OnePlan EXCEPT !.answer = PlanOf(<<TRUE, FALSE, TRUE>>, <<FALSE, TRUE>>)],
  [OnePlan EXCEPT !.answer = PlanOf(<<FALSE>>, <<TRUE>>)], [OnePlan EXCEPT !.from = 2],
  [OnePlan EXCEPT !.message = Asking(FALSE, FALSE, FALSE, FALSE)]}

TwoSeats == <<"s", "t", "s">>
OneInsight == [runs |-> 2, steps |-> 1, tokens |-> 5, limit |-> 1, model |-> <<"m", "d", "NULL">>,
               table |-> <<[pattern |-> "d", price |-> 3], [pattern |-> "*", price |-> 1],
                           [pattern |-> "m", price |-> 7]>>]
SmallInsightKits ==
  {OneInsight, [OneInsight EXCEPT !.runs = 3, !.steps = 0, !.table = <<[pattern |-> "m", price |-> 7]>>]}
SmallTexts == UNION {[1..n -> {"<u", "/u", "<p", "/p", "x"}] : n \in 0..5}

NoPage == [head |-> "none", lines |-> <<>>, body |-> <<>>]
SmallSkillPages ==
  [head : {"none", "closed", "open"},
   lines : {<<>>, <<"name a">>, <<"", "name a", "x">>, <<"name b", "name a">>},
   body : {<<>>, <<"x">>, <<"", "x">>, <<"x", "---", "x">>, <<"x", "x", "x", "x">>}]

SmallTalk == <<1, 3, 1>>
-----------------------------------------------------------------------------
(***************************************************************************)
(* One service at a time.                                                  *)
(***************************************************************************)
\* a service out of focus starts from one state
Fixed(name, chosen, one) == IF focus = name THEN TRUE ELSE chosen = one

ServicesInit ==
  /\ focus \in Focuses
  /\ Fixed("chat", kit, OneChat) /\ ChatInit
  /\ Fixed("sessions", logKit, OneLog) /\ LogInit
  /\ Fixed("llm", script, OneAnswer) /\ StreamInit
  /\ Fixed("changesets", disk, 1) /\ FileInit
  /\ Fixed("automation", jobKit, OneJob) /\ JobInit
  /\ StoresInit
  /\ Fixed("toolround", round, SafeRound) /\ RoundInit
  /\ IF focus = "repair" THEN RepairInit ELSE sample = PlainSample
  /\ Fixed("board", boardKit, OneBoard) /\ BoardInit
  /\ PanelInit /\ Fixed("interruptions", <<setting.auto, panel>>, <<TRUE, OnePanel>>)
  /\ RoomsInit
  /\ Fixed("memory", notes, OneNote) /\ MemoryInit
  /\ Fixed("catalog", shop, OneShop) /\ CatalogInit
  /\ AttachInit
  /\ IF focus = "trees" THEN TreesInit ELSE entries = {} /\ treeCap = 1
  /\ IF focus = "artifacts" THEN ArtifactsInit
     ELSE shelf = [files |-> {}, changes |-> {}] /\ preview = [folder |-> "none", name |-> <<>>, session |-> "s"]
  /\ IF focus = "replies" THEN RepliesInit ELSE reply = [names |-> <<>>, words |-> <<>>, plain |-> FALSE]
  /\ Fixed("pages", page, <<>>) /\ Fixed("requests", request, <<>>) /\ TextInit
  /\ Fixed("plans", planKit, OnePlan) /\ PlansInit
  /\ Fixed("insight", insightKit, OneInsight) /\ Fixed("redaction", digestText, <<>>) /\ InsightInit
  /\ Fixed("skillpages", skillPage, NoPage) /\ SkillsInit
  /\ UpgradesInit

ServicesNext ==
  /\ UNCHANGED focus
  /\ \/ focus = "chat" /\ ChatNext
     \/ focus # "chat" /\ UNCHANGED chatVars
  /\ \/ focus = "llm" /\ StreamNext
     \/ focus # "llm" /\ UNCHANGED streamVars
  /\ \/ focus = "sessions" /\ LogNext
     \/ focus # "sessions" /\ UNCHANGED logVars
  /\ \/ focus = "changesets" /\ FileNext
     \/ focus # "changesets" /\ UNCHANGED fileVars
  /\ \/ focus = "automation" /\ JobNext
     \/ focus # "automation" /\ UNCHANGED jobVars
  /\ \/ focus = "stores" /\ StoresNext
     \/ focus # "stores" /\ UNCHANGED storeVars
  /\ \/ focus = "toolround" /\ RoundNext
     \/ focus # "toolround" /\ UNCHANGED roundVars
  /\ \/ focus = "repair" /\ RepairNext
     \/ focus # "repair" /\ UNCHANGED sample
  /\ \/ focus = "board" /\ BoardNext
     \/ focus # "board" /\ UNCHANGED boardVars
  /\ \/ focus = "interruptions" /\ PanelNext
     \/ focus # "interruptions" /\ UNCHANGED panelVars
  /\ \/ focus = "workspaces" /\ RoomsNext
     \/ focus # "workspaces" /\ UNCHANGED roomVars
  /\ \/ focus = "memory" /\ MemoryNext
     \/ focus # "memory" /\ UNCHANGED memoryVars
  /\ \/ focus = "catalog" /\ CatalogNext
     \/ focus # "catalog" /\ UNCHANGED catalogVars
  /\ \/ focus = "attachments" /\ AttachNext
     \/ focus # "attachments" /\ UNCHANGED attachVars
  /\ \/ focus = "trees" /\ TreesNext
     \/ focus # "trees" /\ UNCHANGED treesVars
  /\ \/ focus = "artifacts" /\ ArtifactsNext
     \/ focus # "artifacts" /\ UNCHANGED artifactVars
  /\ \/ focus = "replies" /\ RepliesNext
     \/ focus # "replies" /\ UNCHANGED reply
  /\ \/ focus \in {"pages", "requests"} /\ TextNext
     \/ focus \notin {"pages", "requests"} /\ UNCHANGED textVars
  /\ \/ focus = "plans" /\ PlansNext
     \/ focus # "plans" /\ UNCHANGED planVars
  /\ \/ focus = "insight" /\ InsightNext
     \/ focus # "insight" /\ UNCHANGED insightVars
  /\ \/ focus = "skills" /\ SkillsNext
     \/ focus # "skills" /\ UNCHANGED skillVars
  /\ \/ focus = "upgrades" /\ UpgradesNext
     \/ focus # "upgrades" /\ UNCHANGED upgradeVars

servicesVars ==
  <<focus, chatVars, streamVars, logVars, fileVars, jobVars, storeVars, roundVars, sample, boardVars,
    panelVars, roomVars, memoryVars, catalogVars, attachVars, treesVars, artifactVars, reply,
    textVars, planVars, insightVars, skillVars, upgradeVars>>
ServicesSpec == ServicesInit /\ [][ServicesNext]_servicesVars
-----------------------------------------------------------------------------
\* a part out of focus stands still: it is judged where it has the focus
Within(parts, kept) == focus \in parts => kept

\* What the model says arrives as it was meant: a stream that breaks off or is cut
\* anywhere shows nothing twice and its arguments whole, arguments written down with the
\* usual slips are read for what they are, and an answer is posted whole, in bubbles and
\* without its speaker's name (llm/client.rs, llm/json_repair.rs, group/roundtable.rs).
ModelIsHeard ==
  /\ Within({"llm"}, ShownIsAnswered /\ AnswerIsWhole)
  /\ Within({"repair"}, RepairRecovers /\ TolerantRecovers)
  /\ Within({"replies"}, PostsWhole)

\* What the model is told is what there is: a request has the history as it was and no call
\* without its result, a page is read for its text, and of what is too long the ends of the
\* oldest results go first (agent/compaction.rs, agent/engine/engine_history.rs,
\* engine_toolrun.rs, engine_loop.rs).
ModelIsTold ==
  /\ Within({"sessions"}, RequestFaithful)
  /\ Within({"pages", "requests"}, PageTextKept /\ OldestCutFirst)

\* What is shown is what there is: an attachment reads back as it was handed in, the list and
\* the tree of a folder agree and stay within their caps, a preview opens the file that was
\* meant, the totals cover the runs they are shown with, and a replay holds no personal
\* memory (commands/attachment.rs, commands/workspace.rs, commands/artifact.rs,
\* agent/insight.rs, commands/redact.rs).
ViewsKept ==
  /\ Within({"attachments"}, AttachmentReadsBack)
  /\ Within({"trees"}, ViewsAgree /\ TreeIsBounded)
  /\ Within({"artifacts"}, ProductFound)
  /\ Within({"insight", "redaction"}, TotalsCovered /\ RedactionHides)
=============================================================================
