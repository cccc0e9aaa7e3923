------------------------------- MODULE MCParts -------------------------------
(***************************************************************************)
(* Small instances of the parts that keep their state to themselves, side  *)
(* by side: a behaviour picks one part and runs it.                        *)
(***************************************************************************)
EXTENDS Naturals, TLC

CONSTANTS
  slotsSession, slotsCreate, slotsDelete, slotsMaxSessions, editsSave, editsWrite,
  editsEdit, editsMaxShell, editsEnds, editorMaxTexts, editorMaxRequests,
  editorMaxOpens, editorMaxEvents, tuiPrompt, tuiListing, tuiQuestion, tuiModel,
  tuiFirstModel, tuiCloud, tuiMaxCommands, askAsk, askWorker, reqMessage, reqPost, reqUpdate,
  reqModel, reqCloud, reqFirstModel, reqFirstKey, reqIdCap, eventsEmitter,
  eventsMaxEvents, eventsMaxConn, eventsRingCap, eventsChanCap, indexFile,
  indexContent, indexModel, indexRetrieval, indexMaxWrites, indexMaxEdits, prepSize,
  prepAvail, prepReadCap, prepByteCap, prepFileCap, prepDirFileCap, prepAsked,
  prepLarge, prepTiny, prepMarker, prepMaxSamples, prepContextCap, prepMaxEdits,
  rangesLength, rangesMaxLines, rangesRoom, rangesHeadLines, rangesTailLines,
  rangesMatchBefore, rangesMatchAfter, rangesMaxMatches, rangesGap, rangesLineGuess,
  rangesLarge, rangesMaxEdits, mcpCaller, mcpConnect, mcpMaxNoise, serversRawName,
  serversMaxLines, stackCalls, stackHooks, stackParallel, stackCap, memExtraction,
  memMaxSelected, memMaxDrafts, memMaxSeconds, memMaxEdits, subMaxAgents, subMaxCalls,
  evalRepeat, evalJobs, evalTurns, evalMaxTurns, evalMaxToolCalls, evalMaxAttempts, evalMaxDiffLines,
  evalPassThreshold, ckptTui, ckptTask, ckptMaxFaults, analyzeMaxFiles,
  analyzeMaxBytes, analyzeWindow, analyzeNear, analyzeChunkLines, analyzeFileLines,
  analyzeMaxEdits, filesMaxTasks, filesMaxSaid, filesMaxReplay, filesMaxTail,
  filesMaxFaults, pipeMaxSent, pipeCap, storeUi, storeWorker, storeSubscriber,
  storeMaxSets, authRequest, authMaxTokens, authMaxFaults

\* Parts run one at a time, so they share the variables: each takes as many as it
\* has, in its own order, and leaves the others at Unused.
VARIABLES
  part,  \* which of the parts this behaviour is about
  v1, v2, v3, v4, v5, v6, v7, v8, v9, v10, v11, v12, v13, v14, v15, v16, v17, v18, v19,
  v20, v21

Unused == "unused"

vars == <<part, v1, v2, v3, v4, v5, v6, v7, v8, v9, v10, v11, v12, v13, v14, v15, v16, v17, v18,
          v19, v20, v21>>

\* What the theorems about the parts take of their constants.
ASSUME PartsAssumption ==
  /\ slotsMaxSessions \in Nat
  /\ "nobody" \notin editsSave \cup editsWrite \cup editsEdit /\ editsMaxShell \in Nat
  /\ editorMaxTexts \in Nat \ {0} /\ editorMaxOpens \in Nat
  /\ "none" \notin tuiPrompt \cup tuiQuestion /\ "reply" \notin tuiPrompt
  /\ tuiListing \subseteq tuiPrompt /\ tuiFirstModel \in tuiModel /\ tuiMaxCommands \in Nat
  /\ reqPost \cap reqUpdate = {} /\ "none" \notin reqModel
  /\ reqFirstModel \in reqModel /\ reqFirstKey \in BOOLEAN /\ reqIdCap \in Nat \ {0}
  /\ indexMaxWrites \in Nat /\ indexContent # {}
  /\ {evalRepeat, evalTurns, evalMaxTurns, evalMaxToolCalls, evalMaxAttempts} \subseteq Nat
  /\ subMaxAgents \in Nat \ {0} /\ subMaxCalls \in Nat

Words(chars, n) == UNION {[1..k -> chars] : k \in 0..n}

\* Globs with the targets they are tried on: "*" and "**" beside "/", classes,
\* ranges and escapes, each closed or not.
SomePatterns ==
  (Words({"*", "/", "a"}, 4) \X Words({"a", "/"}, 2))
    \cup ({<<"a", "/", "*", "*", "/", "a">>, <<"*", "*", "/", "*", "*", "/", "a">>,
           <<"*", "a", "*", "a", "/">>, <<"*", "*", "/", "a", "/", "*", "*">>}
            \X Words({"a", "/"}, 4))
    \cup (Words({"*", "?", "[", "]", "a"}, 3) \X Words({"a", "["}, 2))
    \cup (Words({"\\", "*", "a"}, 3) \X Words({"\\", "*", "a"}, 2))
    \cup ((Words({"[", "]", "!", "-", "a", "c"}, 3)
             \cup {<<"[", "!", "a", "]">>, <<"[", "]", "a", "]">>, <<"[", "a", "-", "]">>,
                   <<"[", "!", "]", "]">>, <<"[", "a", "-", "c", "]">>,
                   <<"[", "!", "a", "-", "c", "]">>, <<"[", "c", "-", "a", "]">>,
                   <<"[", "a", "-", "c", "-", "]">>, <<"[", "-", "a", "-", "c">>})
            \X {<<"b">>, <<"-">>})

SomeTargets == Words({"*", "?", "[", "\\", "a", " "}, 2)
                 \cup {<<"[", "a", "]">>, <<"a", " ", "a">>, <<" ", "a", " ">>}

\* Lines of an mcp.toml: two names, one of which another is sanitized to.
SomeLines ==
  [key : {"section"}, value : {"a-b", "c"}]
    \cup {[key |-> "trusted", value |-> "true"], [key |-> "enabled", value |-> "false"],
           [key |-> "command", value |-> "set"]}

\* Files of two projects: empty ones, lines of interest, runes at the end of a
\* window, broken ones, a newline within a window, more than may be read.
SomeContents ==
  ("p" :> {<<>>, <<"#", "n", "#", "n", "a", "a", "#">>, <<"a", "a", "L", "c", "a", "a">>,
           <<"c", "c", "c", "a", "n", "L", "c">>})
    @@ ("q" :> {<<"n">>})

Slots == INSTANCE SessionSlots WITH
  Session <- slotsSession, Create <- slotsCreate, Delete <- slotsDelete,
  MaxSessions <- slotsMaxSessions, used <- v1, registered <- v2, state <- v3,
  running <- v4, attached <- v5, blank <- v6, stopped <- v7, pcC <- v8, victim <- v9,
  attempt <- v10, reused <- v11, pcD <- v12, target <- v13, pcW <- v14, swept <- v15,
  prey <- v16

Edits == INSTANCE FileEdits WITH
  Save <- editsSave, Write <- editsWrite, Edit <- editsEdit, MaxShell <- editsMaxShell,
  Ends <- editsEnds, file <- v1, shells <- v2, base <- v3, seen <- v4, snap <- v5,
  whole <- v6, ranged <- v7, known <- v8, pc <- v9, confirm <- v10, prompts <- v11,
  activeWrites <- v12, entry <- v13, refs <- v14, inside <- v15, slot <- v16

Editor == INSTANCE BrowserEditor WITH
  MaxTexts <- editorMaxTexts, MaxRequests <- editorMaxRequests,
  MaxOpens <- editorMaxOpens, MaxEvents <- editorMaxEvents, disk <- v1, texts <- v2,
  tab <- v3, ed <- v4, gen <- v5, loading <- v6, again <- v7, requests <- v8,
  events <- v9, hashing <- v10, shown <- v11, typed <- v12, lost <- v13

Screen == INSTANCE Terminal WITH
  Prompt <- tuiPrompt, Listing <- tuiListing, Question <- tuiQuestion, Model <- tuiModel,
  FirstModel <- tuiFirstModel, Cloud <- tuiCloud, MaxCommands <- tuiMaxCommands,
  messages <- v1, activeRun <- v2, current <- v3, kind <- v4, cancelled <- v5,
  ended <- v6, queue <- v7, pendingBTW <- v8, dream <- v9, activeModel <- v10,
  resolvedModel <- v11, switches <- v12, credential <- v13, typed <- v14,
  accepted <- v15, given <- v16, commands <- v17, gone <- v18

Dialog == INSTANCE TerminalPrompts WITH
  Ask <- askAsk, Worker <- askWorker, pcA <- v1, pending <- v2, channel <- v3,
  told <- v4, inbox <- v5, shown <- v6, pressed <- v7, rules <- v8

Requests == INSTANCE SessionRequests WITH
  Message <- reqMessage, Post <- reqPost, Update <- reqUpdate, Model <- reqModel,
  Cloud <- reqCloud, FirstModel <- reqFirstModel, FirstKey <- reqFirstKey,
  IdCap <- reqIdCap, recent <- v1, activeModel <- v2, switchedModel <- v3, route <- v4,
  keyKnown <- v5, running <- v6, runModel <- v7, id <- v8, pc <- v9, target <- v10,
  dialog <- v11, runs <- v12, dropped <- v13, crossed <- v14

Permission == INSTANCE PermissionResolution WITH
  request <- v1

Glob == INSTANCE RuleGlob WITH
  Patterns <- SomePatterns, Targets <- SomeTargets, s <- v1, ruleOf <- v2,
  pattern <- v3, left <- v4, p <- v5, pi <- v6, si <- v7, star <- v8, mark <- v9,
  verdict <- v10

Events == INSTANCE EventStream WITH
  Emitter <- eventsEmitter, MaxEvents <- eventsMaxEvents, MaxConn <- eventsMaxConn,
  RingCap <- eventsRingCap, ChanCap <- eventsChanCap, counter <- v1, holds <- v2,
  appended <- v3, ring <- v4, subscribers <- v5, closed <- v6, chan <- v7,
  backlog <- v8, pcK <- v9, wire <- v10, current <- v11, attempts <- v12, seen <- v13,
  lastId <- v14, delivered <- v15, missed <- v16

Index == INSTANCE SemanticIndex WITH
  File <- indexFile, Content <- indexContent, Model <- indexModel,
  Retrieval <- indexRetrieval, MaxWrites <- indexMaxWrites, MaxEdits <- indexMaxEdits,
  files <- v1, edits <- v2, written <- v3, writes <- v4, disk <- v5, pcB <- v6,
  plan <- v7, cache <- v8, pcR <- v9, got <- v10, clearing <- v11, beside <- v12,
  died <- v13

Prep == INSTANCE TurnPrep WITH
  File <- {"a", "dir/c"}, Inside <- {"dir/c"}, Order <- <<"a", "dir", "dir/c">>,
  Size <- prepSize, Avail <- prepAvail, ReadCap <- prepReadCap, ByteCap <- prepByteCap,
  FileCap <- prepFileCap, DirFileCap <- prepDirFileCap, Asked <- prepAsked,
  Large <- prepLarge, Tiny <- prepTiny, Marker <- prepMarker,
  MaxSamples <- prepMaxSamples, ContextCap <- prepContextCap, MaxEdits <- prepMaxEdits,
  size <- v1, edits <- v2, request <- v3, pc <- v4, left <- v5, usedFiles <- v6,
  usedBytes <- v7, resolved <- v8, dirCut <- v9, statSize <- v10, reads <- v11,
  remaining <- v12, form <- v13, shown <- v14, told <- v15, content <- v16,
  attached <- v17, route <- v18, was <- v19

Ranges == INSTANCE EvidenceRanges WITH
  Length <- rangesLength, MaxLines <- rangesMaxLines, Room <- rangesRoom,
  HeadLines <- rangesHeadLines, TailLines <- rangesTailLines,
  MatchBefore <- rangesMatchBefore, MatchAfter <- rangesMatchAfter,
  MaxMatches <- rangesMaxMatches, Gap <- rangesGap, LineGuess <- rangesLineGuess,
  Large <- rangesLarge, MaxEdits <- rangesMaxEdits, file <- v1, newline <- v2,
  edits <- v3, asked <- v4, pc <- v5, meta <- v6, todo <- v7, shown <- v8,
  remaining <- v9, digest <- v10, notice <- v11, omittedBytes <- v12

Mcp == INSTANCE McpStdio WITH
  Caller <- mcpCaller, Connect <- mcpConnect, MaxNoise <- mcpMaxNoise, connected <- v1,
  pc <- v2, id <- v3, late <- v4, got <- v5, nextID <- v6, lock <- v7, stdin <- v8,
  working <- v9, executed <- v10, stdout <- v11, noise <- v12, server <- v13,
  closing <- v14

Servers == INSTANCE McpServers WITH
  RawName <- serversRawName,
  Sanitize <- [n \in {"a-b", "a_b", "c"} |-> IF n = "c" THEN "c" ELSE "a_b"],
  Order <- <<"a_b", "c">>, Line <- SomeLines, MaxLines <- serversMaxLines, user <- v1,
  project <- v2, servers <- v3, pc <- v4, todo <- v5, status <- v6, offered <- v7,
  registered <- v8, refused <- v9

Stack == INSTANCE RunnerStack WITH
  Calls <- stackCalls, Hooks <- stackHooks, Parallel <- stackParallel, Cap <- stackCap,
  cancelled <- v1, hpc <- v2, mpc <- v3, apc <- v4, task <- v5, verdict <- v6,
  state <- v7, ending <- v8, fromAgent <- v9, fromMemory <- v10, out <- v11,
  told <- v12, said <- v13, agreed <- v14, others <- v15, terminals <- v16,
  last <- v17, extracted <- v18

Memory == INSTANCE MemoryStore WITH
  File <- <<"f", "g">>, Extraction <- memExtraction, DraftName <- {"a", "b"},
  MaxSelected <- memMaxSelected, MaxDrafts <- memMaxDrafts,
  MaxSeconds <- memMaxSeconds, MaxEdits <- memMaxEdits, active <- v1, edits <- v2,
  rpc <- v3, scanned <- v4, chosen <- v5, shown <- v6, second <- v7, epc <- v8,
  drafts <- v9, target <- v10, tmp <- v11, pending <- v12, written <- v13, torn <- v14

SubAgents == INSTANCE SubAgent WITH
  MaxAgents <- subMaxAgents, MaxCalls <- subMaxCalls, kind <- v1, parent <- v2,
  mode <- v3, held <- v4, prompt <- v5, pc <- v6, calls <- v7, toolPrompt <- v8,
  toolPolicy <- v9, taken <- v10, crossed <- v11, origin <- v12

Eval == INSTANCE EvalRun WITH
  Repeat <- evalRepeat, Jobs <- evalJobs, Tests <- <<TRUE, FALSE>>, Turns <- evalTurns,
  MaxTurns <- evalMaxTurns, MaxToolCalls <- evalMaxToolCalls,
  MaxAttempts <- evalMaxAttempts,
  MaxDiffLines <- evalMaxDiffLines, PassThreshold <- evalPassThreshold, strict <- v1,
  recorded <- v2, allowUnexpected <- v3, canceled <- v4, pc <- v5, ctxErr <- v6,
  workspace <- v7, after <- v8, nextTurn <- v9, replayErr <- v10, turns <- v11,
  attempted <- v12, limitExceeded <- v13, runCanceled <- v14, terminal <- v15,
  answered <- v16, testResults <- v17, status <- v18, reason <- v19, exit <- v20,
  touched <- v21

Resuming == INSTANCE Checkpoints WITH
  Tui <- ckptTui, Task <- ckptTask, MaxFaults <- ckptMaxFaults, asked <- v1,
  answer <- v2, shown <- v3, run <- v4, ended <- v5, queue <- v6, saving <- v7,
  cut <- v8, file <- v9, tasks <- v10, faults <- v11, root <- v12, finished <- v13,
  newest <- v14, stale <- v15, resumed <- v16

Analysis == INSTANCE ProjectAnalysis WITH
  Project <- {"p", "q"}, Order <- <<"f", "g", "h">>, Contents <- SomeContents,
  MaxFiles <- analyzeMaxFiles, MaxBytes <- analyzeMaxBytes, Window <- analyzeWindow,
  Near <- analyzeNear, ChunkLines <- analyzeChunkLines, FileLines <- analyzeFileLines,
  MaxEdits <- analyzeMaxEdits, tree <- v1, pc <- v2, explicit <- v3, selected <- v4,
  content <- v5, chunks <- v6, fresh <- v7, records <- v8, cache <- v9, edits <- v10

Outputs == INSTANCE OutputFiles WITH
  MaxTasks <- filesMaxTasks, MaxSaid <- filesMaxSaid, MaxReplay <- filesMaxReplay,
  MaxTail <- filesMaxTail, MaxFaults <- filesMaxFaults, kind <- v1, stage <- v2,
  stopped <- v3, file <- v4, failed <- v5, said <- v6, pipe <- v7, faults <- v8,
  told <- v9, mute <- v10, cut <- v11

Pipe == INSTANCE StreamPipe WITH
  MaxSent <- pipeMaxSent, Cap <- pipeCap, sent <- v1, wire <- v2, server <- v3,
  reader <- v4, read <- v5, channel <- v6, observer <- v7, observed <- v8,
  recorded <- v9, watchdog <- v10, watched <- v11, turn <- v12, got <- v13,
  reason <- v14, toolCalls <- v15, cancelled <- v16

States == INSTANCE StateStore WITH
  Ui <- storeUi, Worker <- storeWorker, Subscriber <- storeSubscriber,
  MaxSets <- storeMaxSets, value <- v1, mirror <- v2, pc <- v3, prev <- v4, next <- v5,
  begun <- v6, visited <- v7, hand <- v8, subscribers <- v9, stage <- v10,
  current <- v11, channel <- v12, seen <- v13, closed <- v14, sets <- v15, down <- v16,
  crossed <- v17, raced <- v18, behind <- v19

Auth == INSTANCE McpAuth WITH
  Request <- authRequest, MaxTokens <- authMaxTokens, MaxFaults <- authMaxFaults,
  store <- v1, pc <- v2, held <- v3, sent <- v4, issued <- v5, expired <- v6,
  live <- v7, faults <- v8, logins <- v9, stingy <- v10, broken <- v11, crossed <- v12

Idle19 == v20 = Unused /\ v21 = Unused
Idle18 == v19 = Unused /\ Idle19
Idle17 == v18 = Unused /\ Idle18
Idle16 == v17 = Unused /\ Idle17
Idle14 == v15 = Unused /\ v16 = Unused /\ Idle16
Idle13 == v14 = Unused /\ Idle14
Idle12 == v13 = Unused /\ Idle13
Idle11 == v12 = Unused /\ Idle12
Idle10 == v11 = Unused /\ Idle11
Idle9 == v10 = Unused /\ Idle10
Idle8 == v9 = Unused /\ Idle9
Idle1 ==
  /\ v2 = Unused /\ v3 = Unused /\ v4 = Unused /\ v5 = Unused /\ v6 = Unused
  /\ v7 = Unused /\ v8 = Unused /\ Idle8

Init ==
  \/ part = "slots" /\ Slots!Init /\ Idle16
  \/ part = "edits" /\ Edits!Init /\ Idle16
  \/ part = "editor" /\ Editor!Init /\ Idle13
  \/ part = "tui" /\ Screen!Init /\ Idle18
  \/ part = "ask" /\ Dialog!Init /\ Idle8
  \/ part = "req" /\ Requests!Init /\ Idle14
  \/ part = "perm" /\ Permission!Init /\ Idle1
  \/ part = "glob" /\ Glob!Init /\ Idle10
  \/ part = "events" /\ Events!Init /\ Idle16
  \/ part = "index" /\ Index!Init /\ Idle13
  \/ part = "prep" /\ Prep!Init /\ Idle19
  \/ part = "ranges" /\ Ranges!Init /\ Idle12
  \/ part = "mcp" /\ Mcp!Init /\ Idle14
  \/ part = "servers" /\ Servers!Init /\ Idle9
  \/ part = "stack" /\ Stack!Init /\ Idle18
  \/ part = "mem" /\ Memory!Init /\ Idle14
  \/ part = "sub" /\ SubAgents!Init /\ Idle12
  \/ part = "eval" /\ Eval!Init
  \/ part = "ckpt" /\ Resuming!Init /\ Idle16
  \/ part = "analyze" /\ Analysis!Init /\ Idle10
  \/ part = "files" /\ Outputs!Init /\ Idle11
  \/ part = "pipe" /\ Pipe!Init /\ Idle16
  \/ part = "store" /\ States!Init /\ Idle19
  \/ part = "auth" /\ Auth!Init /\ Idle12

\* A behaviour takes the steps of its part.
StepSlots ==
  /\ part = "slots" /\ Slots!Next
  /\ UNCHANGED <<part, v17, v18, v19, v20, v21>>

StepEdits ==
  /\ part = "edits" /\ Edits!Next
  /\ UNCHANGED <<part, v17, v18, v19, v20, v21>>

StepEditor ==
  /\ part = "editor" /\ Editor!Next
  /\ UNCHANGED <<part, v14, v15, v16, v17, v18, v19, v20, v21>>

StepScreen ==
  /\ part = "tui" /\ Screen!Next
  /\ UNCHANGED <<part, v19, v20, v21>>

StepDialog ==
  /\ part = "ask" /\ Dialog!Next
  /\ UNCHANGED <<part, v9, v10, v11, v12, v13, v14, v15, v16, v17, v18, v19, v20, v21>>

StepRequests ==
  /\ part = "req" /\ Requests!Next
  /\ UNCHANGED <<part, v15, v16, v17, v18, v19, v20, v21>>

StepPermission ==
  /\ part = "perm" /\ Permission!Next
  /\ UNCHANGED <<part, v2, v3, v4, v5, v6, v7, v8, v9, v10, v11, v12, v13, v14, v15, v16, v17, v18,
     v19, v20, v21>>

StepGlob ==
  /\ part = "glob" /\ Glob!Next
  /\ UNCHANGED <<part, v11, v12, v13, v14, v15, v16, v17, v18, v19, v20, v21>>

StepEvents ==
  /\ part = "events" /\ Events!Next
  /\ UNCHANGED <<part, v17, v18, v19, v20, v21>>

StepIndex ==
  /\ part = "index" /\ Index!Next
  /\ UNCHANGED <<part, v14, v15, v16, v17, v18, v19, v20, v21>>

StepPrep ==
  /\ part = "prep" /\ Prep!Next
  /\ UNCHANGED <<part, v20, v21>>

StepRanges ==
  /\ part = "ranges" /\ Ranges!Next
  /\ UNCHANGED <<part, v13, v14, v15, v16, v17, v18, v19, v20, v21>>

StepMcp ==
  /\ part = "mcp" /\ Mcp!Next
  /\ UNCHANGED <<part, v15, v16, v17, v18, v19, v20, v21>>

StepServers ==
  /\ part = "servers" /\ Servers!Next
  /\ UNCHANGED <<part, v10, v11, v12, v13, v14, v15, v16, v17, v18, v19, v20, v21>>

StepStack ==
  /\ part = "stack" /\ Stack!Next
  /\ UNCHANGED <<part, v19, v20, v21>>

StepMemory ==
  /\ part = "mem" /\ Memory!Next
  /\ UNCHANGED <<part, v15, v16, v17, v18, v19, v20, v21>>

StepSubAgents ==
  /\ part = "sub" /\ SubAgents!Next
  /\ UNCHANGED <<part, v13, v14, v15, v16, v17, v18, v19, v20, v21>>

StepEval ==
  /\ part = "eval" /\ Eval!Next
  /\ UNCHANGED <<part>>

StepResuming ==
  /\ part = "ckpt" /\ Resuming!Next
  /\ UNCHANGED <<part, v17, v18, v19, v20, v21>>

StepAnalysis ==
  /\ part = "analyze" /\ Analysis!Next
  /\ UNCHANGED <<part, v11, v12, v13, v14, v15, v16, v17, v18, v19, v20, v21>>

StepOutputs ==
  /\ part = "files" /\ Outputs!Next
  /\ UNCHANGED <<part, v12, v13, v14, v15, v16, v17, v18, v19, v20, v21>>

StepPipe ==
  /\ part = "pipe" /\ Pipe!Next
  /\ UNCHANGED <<part, v17, v18, v19, v20, v21>>

StepStates ==
  /\ part = "store" /\ States!Next
  /\ UNCHANGED <<part, v20, v21>>

StepAuth ==
  /\ part = "auth" /\ Auth!Next
  /\ UNCHANGED <<part, v13, v14, v15, v16, v17, v18, v19, v20, v21>>

Next ==
  \/ StepSlots
  \/ StepEdits
  \/ StepEditor
  \/ StepScreen
  \/ StepDialog
  \/ StepRequests
  \/ StepPermission
  \/ StepGlob
  \/ StepEvents
  \/ StepIndex
  \/ StepPrep
  \/ StepRanges
  \/ StepMcp
  \/ StepServers
  \/ StepStack
  \/ StepMemory
  \/ StepSubAgents
  \/ StepEval
  \/ StepResuming
  \/ StepAnalysis
  \/ StepOutputs
  \/ StepPipe
  \/ StepStates
  \/ StepAuth

Spec == Init /\ [][Next]_vars

-----------------------------------------------------------------------------
\* Every part keeps its variables to their types.
TypeOK ==
  /\ part = "slots" => Slots!TypeOK
  /\ part = "edits" => Edits!TypeOK
  /\ part = "editor" => Editor!TypeOK
  /\ part = "tui" => Screen!TypeOK
  /\ part = "ask" => Dialog!TypeOK
  /\ part = "req" => Requests!TypeOK
  /\ part = "perm" => Permission!TypeOK
  /\ part = "glob" => Glob!TypeOK
  /\ part = "events" => Events!TypeOK
  /\ part = "index" => Index!TypeOK
  /\ part = "prep" => Prep!TypeOK
  /\ part = "ranges" => Ranges!TypeOK
  /\ part = "mcp" => Mcp!TypeOK
  /\ part = "servers" => Servers!TypeOK
  /\ part = "stack" => Stack!TypeOK
  /\ part = "mem" => Memory!TypeOK
  /\ part = "sub" => SubAgents!TypeOK
  /\ part = "eval" => Eval!TypeOK
  /\ part = "ckpt" => Resuming!TypeOK
  /\ part = "analyze" => Analysis!TypeOK
  /\ part = "files" => Outputs!TypeOK
  /\ part = "pipe" => Pipe!TypeOK
  /\ part = "store" => States!TypeOK
  /\ part = "auth" => Auth!TypeOK

\* session_evict.go, ratelimit.go: a session's slot is given back once, by
\* whoever removed it, and the limit holds.
SlotsAreCounted == part = "slots" => Slots!SlotsAreCounted

\* lock.go, handler_files.go, editor.js, tabs.js: a save or an edit replaces
\* only what was read, and a draft goes only when its user gives it up.
NoWriteIsLost ==
  /\ part = "edits" => Edits!NoWriteIsLost
  /\ part = "editor" => Editor!EditorKeepsItsWord

\* app.go: every prompt taken has a run of its own that is given it.
PromptsGetTheirRuns == part = "tui" => Screen!PromptsGetTheirRuns

\* permission.go: an agent is told what the user pressed in the dialog of its
\* own prompt.
DecisionIsTheUsers == part = "ask" => Dialog!DecisionIsTheUsers

\* clamp.go, save_permission.go, agenttool.go, subagent.go: neither a sub-agent
\* nor a browser save does unasked what the agent itself might not, unless a
\* worker crossed the call.
NothingIsLooser ==
  /\ part = "perm" => Permission!NothingIsLooser
  /\ part = "sub" => SubAgents!ChildrenAreHeld

\* match.go, session_rule.go: the matcher agrees with the meaning of a glob,
\* and an "always" rule matches its target, less the white space around it.
GlobsMeanWhatTheySay == part = "glob" => Glob!GlobsMeanWhatTheySay

\* handler.go, recentids.go, service.go: a message runs again only once newer
\* ones have pushed its id out, and its requests go where its model is, unless
\* two switches, or a switch and the start of a run, crossed.
RequestsRunAsAsked == part = "req" => Requests!RequestsRunAsAsked

\* current_turn.go, budget.go, range_pipeline.go: what the model is shown of
\* the files that were asked for fits, and what is missing of them is told or
\* counted.
EvidenceIsHonest ==
  /\ part = "prep" => Prep!MissingIsTold /\ Prep!EvidenceFits
  /\ part = "ranges" => Ranges!RangesAreTrue

\* stdio_client.go, client.go, config.go, manager.go, oauth.go: a call gets its
\* own answer, a server runs only as the user wants, and a login lasts.
McpKeepsItsWord ==
  /\ part = "mcp" => Mcp!CallsGetTheirAnswers
  /\ part = "servers" => Servers!ServersAreTheUsers
  /\ part = "auth" => Auth!LoginLasts

\* hooks/runner.go, memory/runner.go, store.go: a run ends told and its hooks
\* are heard, and what it is to remember stays within its bounds and is lost
\* only where drafts meet in a second.
RunnersKeepTheirWord ==
  /\ part = "stack" => Stack!StackKeepsItsOrder
  /\ part = "mem" => Memory!MemoryKeepsItsWord

\* runner.go, checks.go, eval.go: a fixture passes only on what its agent did
\* in time and within its limits, and what is amiss with the harness is told of
\* the harness.
VerdictsAreTrue == part = "eval" => Eval!VerdictsAreTrue

\* checkpoint.go, terminal.go, workflow.go, chunker.go, cache.go: "continue"
\* takes up what is unanswered, with its own text, and an analysis tells of
\* each file what is in it.
AnalysisIsHonest ==
  /\ part = "ckpt" => Resuming!ResumedIsOpen
  /\ part = "analyze" => Analysis!EvidenceIsOfTheFiles

\* session.go, sse.js, output.go, replay.go, ollama.go, watchdog.go, store.go,
\* onchange.go: no event is shown twice, and what is sent, printed, said or set
\* on its way to a reader is lost only in the places each part names.
OnlyNamedLosses ==
  /\ part = "events" => Events!OnlyNamedLosses
  /\ part = "files" => Outputs!FilesTellTheirTasks
  /\ part = "pipe" => Pipe!AnswersComeThrough
  /\ part = "store" => States!StoreIsFollowed

\* service.go, store.go: the index is never mixed, except in a cache filled
\* beside a writing.
IndexIsWhole == part = "index" => Index!IndexIsWhole
=============================================================================
