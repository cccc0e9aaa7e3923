\* Bounds are named in README.md.
SPECIFICATION Spec
CONSTANTS
  slotsSession = {s1, s2, s3}
  slotsCreate = {c1, c2}
  slotsDelete = {d1}
  slotsMaxSessions = 1
  editsSave = {b1}
  editsWrite = {w1}
  editsEdit = {e1}
  editsMaxShell = 1
  editsEnds = {"git", b1}
  editorMaxTexts = 3
  editorMaxRequests = 1
  editorMaxOpens = 2
  editorMaxEvents = 1
  tuiPrompt = {p1, p2, p3}
  tuiListing = {p3}
  tuiQuestion = {q1}
  tuiModel = {local, cloud}
  tuiFirstModel = local
  tuiCloud = {cloud}
  tuiMaxCommands = 1
  askAsk = {a, w}
  askWorker = {w}
  reqMessage = {m1, m2}
  reqPost = {p1, p2, p3}
  reqUpdate = {u1}
  reqModel = {local, cloud}
  reqCloud = {cloud}
  reqFirstModel = local
  reqFirstKey = FALSE
  reqIdCap = 1
  eventsEmitter = {e1, e2}
  eventsMaxEvents = 3
  eventsMaxConn = 2
  eventsRingCap = 2
  eventsChanCap = 1
  indexFile = {f1, f2}
  indexContent = {x}
  indexModel = {m1, m2}
  indexRetrieval = {r1}
  indexMaxWrites = 2
  indexMaxEdits = 1
  prepSize = {0, 2, 6}
  prepAvail = {0, 3}
  prepReadCap = 4
  prepByteCap = 5
  prepFileCap = 2
  prepDirFileCap = 1
  prepAsked = 1
  prepLarge = 6
  prepTiny = 2
  prepMarker = 1
  prepMaxSamples = 1
  prepContextCap = 3
  prepMaxEdits = 1
  rangesLength = {0, 2}
  rangesMaxLines = 4
  rangesRoom = {3, 9}
  rangesHeadLines = 1
  rangesTailLines = 2
  rangesMatchBefore = 0
  rangesMatchAfter = 1
  rangesMaxMatches = 2
  rangesGap = 1
  rangesLineGuess = 2
  rangesLarge = 6
  rangesMaxEdits = 1
  mcpCaller = {a, b}
  mcpConnect = Connect
  mcpMaxNoise = 1
  serversRawName = {"a-b", "a_b"}
  serversMaxLines = 3
  stackCalls = 1
  stackHooks = 2
  stackParallel = {2}
  stackCap = 1
  memExtraction = {e1, e2}
  memMaxSelected = 1
  memMaxDrafts = 2
  memMaxSeconds = 1
  memMaxEdits = 1
  subMaxAgents = 3
  subMaxCalls = 2
  evalRepeat = 2
  evalJobs = 1
  evalTurns = 2
  evalMaxTurns = 2
  evalMaxToolCalls = 1
  evalMaxAttempts = 3
  evalMaxDiffLines = 4
  evalPassThreshold = 70
  ckptTui = {a, b}
  ckptTask = {k1, k2}
  ckptMaxFaults = 1
  analyzeMaxFiles = 2
  analyzeMaxBytes = 6
  analyzeWindow = 3
  analyzeNear = 1
  analyzeChunkLines = 1
  analyzeFileLines = 2
  analyzeMaxEdits = 2
  filesMaxTasks = 2
  filesMaxSaid = 2
  filesMaxReplay = 1
  filesMaxTail = 2
  filesMaxFaults = 1
  pipeMaxSent = 3
  pipeCap = 1
  storeUi = "ui"
  storeWorker = {w1}
  storeSubscriber = {b1}
  storeMaxSets = 3
  authRequest = {a, b}
  authMaxTokens = 3
  authMaxFaults = 2
INVARIANTS
  TypeOK
  SlotsAreCounted
  NoWriteIsLost
  PromptsGetTheirRuns
  DecisionIsTheUsers
  NothingIsLooser
  GlobsMeanWhatTheySay
  RequestsRunAsAsked
  EvidenceIsHonest
  McpKeepsItsWord
  RunnersKeepTheirWord
  VerdictsAreTrue
  AnalysisIsHonest
  OnlyNamedLosses
  IndexIsWhole
CHECK_DEADLOCK FALSE
