\* Every service around the scheduler and the agent loop, one at a time.
CONSTANTS
  Focuses = {"chat", "llm", "sessions", "changesets", "automation", "stores", "toolround", "repair",
             "board", "interruptions", "workspaces", "memory", "catalog", "attachments",
             "trees", "artifacts", "replies", "pages", "requests", "plans", "insight", "redaction", "skills",
             "skillpages", "upgrades"}
  m1 = m1
  m2 = m2
  Members = {m1, m2}
  Owner = owner
  Policy <- MeshPolicy
  MaxMentionDepth = 1
  Kits <- MeshKits
  StreamKits <- SmallAnswers
  MaxChunk = 3
  FoldAt = 4
  KeepRecent = 2
  RunMin = 5
  RunTail = 2
  LogKits <- SmallLogKits
  MaxEdits = 2
  MaxWrites = 2
  MaxRollbacks = 2
  Period = 2
  Slots = {1, 2}
  JobKits <- SmallJobKits
  Everyone = everyone
  NoPolicy = nopolicy
  Keys = {"k1"}
  Writers = {"v1", "v2"}
  GroupOwner = "owner"
  Policies <- BothPolicies
  MaxStoreWrites = 3
  MaxPolicies = 2
  RoundKits <- SmallRounds
  SkillTools <- SmallSkills
  MaxParallel = 2
  RepairUnits <- SmallUnits
  MaxUnits = 3
  Cards = {1, 2, 3}
  BoardKits <- SmallBoardKits
  Runs = {1, 2}
  Talks = {"s", "t"}
  PanelKits <- SmallPanelKits
  Rooms = {"w1", "w2"}
  Folders = {"f"}
  RoomSessions = {"s1"}
  RoomKits <- SmallRoomKits
  Rememberers = {"a", "b", "c"}
  WorkspaceOf <- TwoAndOne
  NoteKits <- SmallNoteKits
  Agents = {1, 2}
  Editors = {"e1", "e2"}
  Teams = {"g"}
  CatalogKits <- SmallShops
  Payloads <- SmallPayloads
  Names <- SmallNames
  MaxBytes = 5
  MaxSaves = 2
  DefaultRoot = 0
  OtherRoots = {100}
  Disks <- SmallDisks
  TreeCaps = {1, 2, 9}
  ListMax = 4
  MaxDepth = 1
  RootOrder <- TwoRoots
  Shelves <- SmallShelves
  Wishes <- SmallWishes
  Speaker <- NameAB
  Target = 4
  HardMax = 7
  MinMerge = 3
  MaxLayers = 3
  Replies <- SmallReplies
  Pages <- SmallPages
  MaxResult = 18
  MinPage = 4
  Requests <- SmallRequests
  MaxPrompt = 25
  CutTo = 4
  NoticeSize = 2
  PlanKits <- SmallPlanKits
  SeatOf <- TwoSeats
  InsightKits <- SmallInsightKits
  Texts <- SmallTexts
  SkillIds = {1, 2}
  SkillEdits = 4
  MaxBody = 3
  PagesOfSkills <- SmallSkillPages
  Windows = {"w1", "w2"}
  MaxLines = 2
  MaxSize = 4
  TalkSizes <- SmallTalk
SPECIFICATION ServicesSpec
INVARIANTS
  TurnsKeepApart
  RoundsKeepOrder
  ModelIsTold
  
  ModelIsHeard
  CallsByPermission
  PlacedWhereAsked
  RecordsKept
  TodosTell
  ViewsKept
  ChangesKept
PROPERTIES
  StoresKept
  JobsKept
  OffersAreTrue
  WorkspacesKept
CHECK_DEADLOCK FALSE
