----------------------------- MODULE MCPartsProofs -----------------------------
(***************************************************************************)
(* What is proved of the parts one by one (PartsProofs, and FileEditsProofs *)
(* of the file and its editor) holds of the model that runs them side by   *)
(* side: a behaviour that picked a part is one of that part.               *)
(***************************************************************************)
EXTENDS MCParts, TLAPS

P == INSTANCE PartsProofs WITH
  Prompt <- tuiPrompt, Listing <- tuiListing, Question <- tuiQuestion, Model <- tuiModel,
  FirstModel <- tuiFirstModel, Cloud <- tuiCloud, MaxCommands <- tuiMaxCommands,
  Ask <- askAsk, Worker <- askWorker,
  Caller <- mcpCaller, Connect <- mcpConnect, MaxNoise <- mcpMaxNoise, Message <- reqMessage,
  Post <- reqPost, Update <- reqUpdate, Offered <- reqModel, FirstOffered <- reqFirstModel,
  Hosted <- reqCloud, FirstKey <- reqFirstKey, IdCap <- reqIdCap, Session <- slotsSession,
  Create <- slotsCreate, Delete <- slotsDelete, MaxSessions <- slotsMaxSessions,
  File <- indexFile, Content <- indexContent, Embedder <- indexModel,
  Retrieval <- indexRetrieval, MaxWrites <- indexMaxWrites, MaxEdits <- indexMaxEdits,
  Repeat <- evalRepeat, Jobs <- evalJobs, Tests <- <<TRUE, FALSE>>, Turns <- evalTurns,
  MaxTurns <- evalMaxTurns, MaxToolCalls <- evalMaxToolCalls, MaxAttempts <- evalMaxAttempts,
  MaxDiffLines <- evalMaxDiffLines, PassThreshold <- evalPassThreshold,
  Request <- authRequest, MaxTokens <- authMaxTokens, MaxFaults <- authMaxFaults,
  MaxAgents <- subMaxAgents, MaxCalls <- subMaxCalls,
  messages <- v1, activeRun <- v2, current <- v3, kind <- v4, cancelled <- v5, ended <- v6,
  queue <- v7, pendingBTW <- v8, dream <- v9, activeModel <- v10, resolvedModel <- v11,
  switches <- v12, credential <- v13, typed <- v14, accepted <- v15, given <- v16,
  commands <- v17, gone <- v18,
  pcA <- v1, pending <- v2, channel <- v3, told <- v4, inbox <- v5, shown <- v6, pressed <- v7,
  rules <- v8,
  connected <- v1, pc <- v2, id <- v3, late <- v4, got <- v5, nextID <- v6, lock <- v7,
  stdin <- v8, working <- v9, executed <- v10, stdout <- v11, noise <- v12, server <- v13,
  closing <- v14,
  recent <- v1, sessionModel <- v2, switchedModel <- v3, route <- v4, keyKnown <- v5,
  running <- v6, runModel <- v7, messageId <- v8, stage <- v9, target <- v10, dialog <- v11,
  runs <- v12, dropped <- v13, crossed <- v14,
  used <- v1, registered <- v2, state <- v3, busySessions <- v4, attached <- v5, blank <- v6,
  stopped <- v7, pcC <- v8, victim <- v9, attempt <- v10, reused <- v11, pcD <- v12,
  doomed <- v13, pcW <- v14, swept <- v15, prey <- v16,
  files <- v1, edits <- v2, written <- v3, writes <- v4, disk <- v5, pcB <- v6, plan <- v7,
  cache <- v8, pcR <- v9, loaded <- v10, clearing <- v11, beside <- v12, dead <- v13,
  strict <- v1, recorded <- v2, allowUnexpected <- v3, canceled <- v4, phase <- v5,
  ctxErr <- v6, workspace <- v7, after <- v8, nextTurn <- v9, replayErr <- v10, turns <- v11,
  attempted <- v12, limitExceeded <- v13, runCanceled <- v14, terminal <- v15,
  answered <- v16, testResults <- v17, status <- v18, reason <- v19, exit <- v20,
  touched <- v21,
  store <- v1, errand <- v2, held <- v3, sent <- v4, issued <- v5, expired <- v6, live <- v7,
  faults <- v8, logins <- v9, stingy <- v10, broken <- v11, raced <- v12,
  queried <- v1,
  role <- v1, parent <- v2, mode <- v3, bound <- v4, asking <- v5, station <- v6,
  pendingCalls <- v7, toolPrompt <- v8, toolPolicy <- v9, policyRead <- v10,
  crossers <- v11, origin <- v12

F == INSTANCE FileEditsProofs WITH
  Save <- editsSave, Write <- editsWrite, Edit <- editsEdit, MaxShell <- editsMaxShell,
  Ends <- editsEnds, MaxTexts <- editorMaxTexts, MaxRequests <- editorMaxRequests,
  MaxOpens <- editorMaxOpens, MaxEvents <- editorMaxEvents,
  file <- v1, shells <- v2, base <- v3, seen <- v4, snap <- v5, whole <- v6, ranged <- v7,
  known <- v8, pc <- v9, confirm <- v10, prompts <- v11, activeWrites <- v12, entry <- v13,
  refs <- v14, inside <- v15, slot <- v16,
  disk <- v1, texts <- v2, tab <- v3, ed <- v4, gen <- v5, loading <- v6, again <- v7,
  requests <- v8, events <- v9, hashing <- v10, shown <- v11, typed <- v12, lost <- v13

-----------------------------------------------------------------------------
\* No step changes the part a behaviour is about, and each is one of its part.
LEMMA PartStays == [Next]_vars => part' = part
  BY DEF Next, vars, StepSlots, StepEdits, StepEditor, StepScreen, StepDialog, StepRequests,
         StepPermission, StepGlob, StepEvents, StepIndex, StepPrep, StepRanges, StepMcp,
         StepServers, StepStack, StepMemory, StepSubAgents, StepEval, StepResuming,
         StepAnalysis, StepOutputs, StepPipe, StepStates, StepAuth

\* A step of a behaviour that picked a part is a step of that part.
LEMMA PartSteps ==
  ASSUME [Next]_vars
  PROVE  /\ part = "slots" => StepSlots \/ UNCHANGED vars
         /\ part = "edits" => StepEdits \/ UNCHANGED vars
         /\ part = "editor" => StepEditor \/ UNCHANGED vars
         /\ part = "tui" => StepScreen \/ UNCHANGED vars
         /\ part = "ask" => StepDialog \/ UNCHANGED vars
         /\ part = "req" => StepRequests \/ UNCHANGED vars
         /\ part = "index" => StepIndex \/ UNCHANGED vars
         /\ part = "eval" => StepEval \/ UNCHANGED vars
         /\ part = "perm" => StepPermission \/ UNCHANGED vars
         /\ part = "sub" => StepSubAgents \/ UNCHANGED vars
  BY DEF Next, StepSlots, StepEdits, StepEditor, StepScreen, StepDialog, StepRequests,
         StepPermission, StepGlob, StepEvents, StepIndex, StepPrep, StepRanges, StepMcp,
         StepServers, StepStack, StepMemory, StepSubAgents, StepEval, StepResuming,
         StepAnalysis, StepOutputs, StepPipe, StepStates, StepAuth

\* So is its start.
LEMMA PartInits ==
  ASSUME Init
  PROVE  /\ part = "slots" => Slots!Init
         /\ part = "edits" => Edits!Init
         /\ part = "editor" => Editor!Init
         /\ part = "tui" => Screen!Init
         /\ part = "ask" => Dialog!Init
         /\ part = "req" => Requests!Init
         /\ part = "index" => Index!Init
         /\ part = "eval" => Eval!Init
         /\ part = "perm" => Permission!Init
         /\ part = "sub" => SubAgents!Init
  BY DEF Init

-----------------------------------------------------------------------------
\* A behaviour of the dialogs is one of theirs alone.
LEMMA DialogSame ==
  /\ Dialog!Init => P!Dialog!Init
  /\ Dialog!Next => P!Dialog!Next
  /\ UNCHANGED vars => UNCHANGED P!Dialog!vars
  BY DEF P!Dialog!vars, Dialog!vars, P!Dialog!None, Dialog!None, P!Dialog!Decision,
         Dialog!Decision, P!Dialog!Init, Dialog!Init, P!Dialog!Msg, Dialog!Msg,
         P!Dialog!AskUser, Dialog!AskUser, P!Dialog!SendPrompt, Dialog!SendPrompt,
         P!Dialog!Cancelled, Dialog!Cancelled, P!Dialog!SendCancelled, Dialog!SendCancelled,
         P!Dialog!EscalationTimeout, Dialog!EscalationTimeout, P!Dialog!TakeDecision,
         Dialog!TakeDecision, P!Dialog!Take, Dialog!Take, P!Dialog!ShowPrompt,
         Dialog!ShowPrompt, P!Dialog!HidePrompt, Dialog!HidePrompt, P!Dialog!PressKey,
         Dialog!PressKey, P!Dialog!resolvedID, Dialog!resolvedID, P!Dialog!Resolve,
         Dialog!Resolve, P!Dialog!CancelAll, Dialog!CancelAll, P!Dialog!AskStep, Dialog!AskStep,
         P!Dialog!Update, Dialog!Update, P!Dialog!Next, Dialog!Next,
         vars

\* An agent is told what the user pressed in the dialog of its own prompt.
THEOREM DialogTogether == Spec => []DecisionIsTheUsers
<1> DEFINE Here == part = "ask"
<1>1. Here /\ Init => P!Dialog!Init
  BY PartInits, DialogSame
<1>2. Here /\ [Next]_vars => Here' /\ [P!Dialog!Next]_(P!Dialog!vars)
  BY PartStays, PartSteps, DialogSame DEF StepDialog
<1>3. ~Here /\ [Next]_vars => ~Here'
  BY PartStays
<1>4. P!Dialog!Spec => []P!Dialog!DecisionIsTheUsers
  BY P!DialogDecisions
<1>5. P!Dialog!DecisionIsTheUsers \/ ~Here => DecisionIsTheUsers
  BY DEF P!Dialog!DecisionIsTheUsers, Dialog!DecisionIsTheUsers, P!Dialog!None, Dialog!None,
         DecisionIsTheUsers
<1> HIDE DEF Here
<1> QED
  BY <1>1, <1>2, <1>3, <1>4, <1>5, PTL DEF Spec, P!Dialog!Spec

-----------------------------------------------------------------------------
\* A behaviour of the terminal is one of it alone.
LEMMA ScreenSame ==
  /\ Screen!Init => P!Screen!Init
  /\ Screen!Next => P!Screen!Next
  /\ UNCHANGED vars => UNCHANGED P!Screen!vars
  BY DEF P!Screen!runVars, Screen!runVars, P!Screen!modelVars, Screen!modelVars, P!Screen!vars,
         Screen!vars, P!Screen!None, Screen!None, P!Screen!NoModal, Screen!NoModal,
         P!Screen!Init, Screen!Init, P!Screen!Begin, Screen!Begin, P!Screen!Prompts, Screen!Prompts,
         P!Screen!BeginDirect, Screen!BeginDirect, P!Screen!BeginQueued, Screen!BeginQueued,
         P!Screen!Reply, Screen!Reply,
         P!Screen!busy, Screen!busy, P!Screen!AcceptPrompt, Screen!AcceptPrompt,
         P!Screen!RunOrQueue, Screen!RunOrQueue, P!Screen!AtPrompt, Screen!AtPrompt,
         P!Screen!Switch, Screen!Switch, P!Screen!SubmitPrompt, Screen!SubmitPrompt,
         P!Screen!handleBTWCommand, Screen!handleBTWCommand, P!Screen!Command, Screen!Command,
         P!Screen!CtrlC, Screen!CtrlC, P!Screen!Clear, Screen!Clear,
         P!Screen!handleCompactCommand, Screen!handleCompactCommand, P!Screen!SwitchCommand,
         Screen!SwitchCommand, P!Screen!Completed, Screen!Completed, P!Screen!NeedsCredential,
         Screen!NeedsCredential, P!Screen!Back, Screen!Back, P!Screen!Failed, Screen!Failed,
         P!Screen!CredentialGiven, Screen!CredentialGiven, P!Screen!CredentialCancelled,
         Screen!CredentialCancelled, P!Screen!TerminalEvent, Screen!TerminalEvent,
         P!Screen!TerminalLost, Screen!TerminalLost, P!Screen!agentDone, Screen!agentDone,
         P!Screen!Next, Screen!Next,
         vars

\* Every prompt the terminal took has a run of its own that is given it.
THEOREM ScreenTogether == Spec => []PromptsGetTheirRuns
<1> DEFINE Here == part = "tui"
<1>1. Here /\ Init => P!Screen!Init
  BY PartInits, ScreenSame
<1>2. Here /\ [Next]_vars => Here' /\ [P!Screen!Next]_(P!Screen!vars)
  BY PartStays, PartSteps, ScreenSame DEF StepScreen
<1>3. ~Here /\ [Next]_vars => ~Here'
  BY PartStays
<1>4. P!Screen!Spec => []P!Screen!PromptsGetTheirRuns
  BY P!ScreenPrompts, PartsAssumption DEF PartsAssumption, P!ScreenAssumption, P!None, P!Reply
<1>5. P!Screen!PromptsGetTheirRuns \/ ~Here => PromptsGetTheirRuns
  BY DEF P!Screen!PromptsGetTheirRuns, Screen!PromptsGetTheirRuns, P!Screen!None, Screen!None,
         P!Screen!GivenItsPrompt, Screen!GivenItsPrompt, PromptsGetTheirRuns
<1> HIDE DEF Here
<1> QED
  BY <1>1, <1>2, <1>3, <1>4, <1>5, PTL DEF Spec, P!Screen!Spec

-----------------------------------------------------------------------------
\* A behaviour of a session's requests is one of theirs alone.
LEMMA RequestsSame ==
  /\ Requests!Init => P!Requests!Init
  /\ Requests!Next => P!Requests!Next
  /\ UNCHANGED vars => UNCHANGED P!Requests!vars
  BY DEF P!Requests!serverVars, Requests!serverVars, P!Requests!pageVars, Requests!pageVars,
         P!Requests!history, Requests!history, P!Requests!vars, Requests!vars,
         P!Requests!Request, Requests!Request, P!Requests!Side, Requests!Side,
         P!Requests!Settled, Requests!Settled, P!Requests!Switching, Requests!Switching,
         P!Requests!Init, Requests!Init, P!Requests!Goto, Requests!Goto, P!Requests!NextPost,
         Requests!NextPost, P!Requests!Send, Requests!Send, P!Requests!Choose, Requests!Choose,
         P!Requests!SaveKey, Requests!SaveKey, P!Requests!CancelKey, Requests!CancelKey,
         P!Requests!seen, Requests!seen, P!Requests!Full, Requests!Full, P!Requests!SeenOrAdd,
         Requests!SeenOrAdd, P!Requests!modelSwitchCurrent, Requests!modelSwitchCurrent,
         P!Requests!CheckModel, Requests!CheckModel, P!Requests!ReadModel, Requests!ReadModel,
         P!Requests!StartRun, Requests!StartRun, P!Requests!FinishRun, Requests!FinishRun,
         P!Requests!mayChange, Requests!mayChange, P!Requests!CheckIdle, Requests!CheckIdle,
         P!Requests!NeedKey, Requests!NeedKey, P!Requests!FailActivate, Requests!FailActivate,
         P!Requests!SwitchRuntime, Requests!SwitchRuntime, P!Requests!ApplyActivation,
         Requests!ApplyActivation, P!Requests!Next, Requests!Next,
         vars

\* A message runs again only when newer ones pushed its id out, and its requests go
\* where its model is.
THEOREM RequestsTogether == Spec => []RequestsRunAsAsked
<1> DEFINE Here == part = "req"
<1>1. Here /\ Init => P!Requests!Init
  BY PartInits, RequestsSame
<1>2. Here /\ [Next]_vars => Here' /\ [P!Requests!Next]_(P!Requests!vars)
  BY PartStays, PartSteps, RequestsSame DEF StepRequests
<1>3. ~Here /\ [Next]_vars => ~Here'
  BY PartStays
<1>4. P!Requests!Spec => []P!Requests!RequestsRunAsAsked
  BY P!RequestsAsAsked, PartsAssumption DEF PartsAssumption, P!RequestsAssumption
<1>5. P!Requests!RequestsRunAsAsked \/ ~Here => RequestsRunAsAsked
  BY DEF P!Requests!RequestsRunAsAsked, Requests!RequestsRunAsAsked, P!Requests!IdsRunOnce,
         Requests!IdsRunOnce, P!Requests!RunsReachTheirModel, Requests!RunsReachTheirModel,
         P!Requests!Side, Requests!Side, RequestsRunAsAsked
<1> HIDE DEF Here
<1> QED
  BY <1>1, <1>2, <1>3, <1>4, <1>5, PTL DEF Spec, P!Requests!Spec

-----------------------------------------------------------------------------
\* A behaviour of the sessions' slots is one of theirs alone.
LEMMA SlotsSame ==
  /\ Slots!Init => P!Slots!Init
  /\ Slots!Next => P!Slots!Next
  /\ UNCHANGED vars => UNCHANGED P!Slots!vars
  BY DEF P!Slots!sessionVars, Slots!sessionVars, P!Slots!createVars, Slots!createVars,
         P!Slots!deleteVars, Slots!deleteVars, P!Slots!sweepVars, Slots!sweepVars, P!Slots!vars,
         Slots!vars, P!Slots!Nobody, Slots!Nobody, P!Slots!Init, Slots!Init, P!Slots!Evictable,
         Slots!Evictable, P!Slots!StartRun, Slots!StartRun, P!Slots!EndRun, Slots!EndRun,
         P!Slots!Attach, Slots!Attach, P!Slots!Detach, Slots!Detach, P!Slots!stop, Slots!stop,
         P!Slots!Removed, Slots!Removed, P!Slots!remove, Slots!remove, P!Slots!ReleaseSession,
         Slots!ReleaseSession, P!Slots!AcquireSession, Slots!AcquireSession, P!Slots!GoC,
         Slots!GoC, P!Slots!Blank, Slots!Blank, P!Slots!ReuseBlank, Slots!ReuseBlank,
         P!Slots!RecheckBlank, Slots!RecheckBlank, P!Slots!WantNew, Slots!WantNew,
         P!Slots!TakeSlot, Slots!TakeSlot, P!Slots!MaxAttempts, Slots!MaxAttempts,
         P!Slots!ChooseVictim, Slots!ChooseVictim, P!Slots!LimitReached, Slots!LimitReached,
         P!Slots!MarkClosing, Slots!MarkClosing, P!Slots!ChooseAgain, Slots!ChooseAgain,
         P!Slots!StopVictim, Slots!StopVictim, P!Slots!RemoveVictim, Slots!RemoveVictim,
         P!Slots!ReleaseVictim, Slots!ReleaseVictim, P!Slots!BuildFails, Slots!BuildFails,
         P!Slots!Register, Slots!Register, P!Slots!GoD, Slots!GoD, P!Slots!FindTarget,
         Slots!FindTarget, P!Slots!StopTarget, Slots!StopTarget, P!Slots!RemoveTarget,
         Slots!RemoveTarget, P!Slots!ReleaseTarget, Slots!ReleaseTarget, P!Slots!GoW, Slots!GoW,
         P!Slots!Sweep, Slots!Sweep, P!Slots!SweepOne, Slots!SweepOne, P!Slots!Back, Slots!Back,
         P!Slots!RemovePrey, Slots!RemovePrey, P!Slots!ReleasePrey, Slots!ReleasePrey,
         P!Slots!CreateStep, Slots!CreateStep, P!Slots!DeleteStep, Slots!DeleteStep,
         P!Slots!SweepStep, Slots!SweepStep, P!Slots!Use, Slots!Use, P!Slots!Next, Slots!Next,
         vars

\* A session's slot is given back once, and the limit holds.
THEOREM SlotsTogether == Spec => []SlotsAreCounted
<1> DEFINE Here == part = "slots"
<1>1. Here /\ Init => P!Slots!Init
  BY PartInits, SlotsSame
<1>2. Here /\ [Next]_vars => Here' /\ [P!Slots!Next]_(P!Slots!vars)
  BY PartStays, PartSteps, SlotsSame DEF StepSlots
<1>3. ~Here /\ [Next]_vars => ~Here'
  BY PartStays
<1>4. P!Slots!Spec => []P!Slots!SlotsAreCounted
  BY P!SlotCount, PartsAssumption DEF PartsAssumption
<1>5. P!Slots!SlotsAreCounted \/ ~Here => SlotsAreCounted
  BY DEF P!Slots!SlotsAreCounted, Slots!SlotsAreCounted, P!Slots!InHand, Slots!InHand,
         P!Slots!Cardinality, Slots!Cardinality, SlotsAreCounted
<1> HIDE DEF Here
<1> QED
  BY <1>1, <1>2, <1>3, <1>4, <1>5, PTL DEF Spec, P!Slots!Spec

-----------------------------------------------------------------------------
\* A behaviour of the index is one of it alone.
LEMMA IndexSame ==
  /\ Index!Init => P!Index!Init
  /\ Index!Next => P!Index!Next
  /\ UNCHANGED vars => UNCHANGED P!Index!vars
  BY DEF P!Index!diskVars, Index!diskVars, P!Index!buildVars, Index!buildVars, P!Index!readVars,
         Index!readVars, P!Index!vars, Index!vars, P!Index!Gone, Index!Gone, P!Index!Empty,
         Index!Empty, P!Index!NoEntry, Index!NoEntry, P!Index!NoPlan, Index!NoPlan, P!Index!NoDir,
         Index!NoDir, P!Index!Dir, Index!Dir, P!Index!Init, Index!Init, P!Index!EditFile,
         Index!EditFile, P!Index!LoadManifest, Index!LoadManifest, P!Index!Home, Index!Home,
         P!Index!Count, Index!Count, P!Index!Cardinality, Index!Cardinality, P!Index!Loads,
         Index!Loads, P!Index!Embed, Index!Embed, P!Index!Builds, Index!Builds, P!Index!changed,
         Index!changed, P!Index!Refreshes, Index!Refreshes, P!Index!StartBuild, Index!StartBuild,
         P!Index!StartRefresh, Index!StartRefresh, P!Index!EmbedFails, Index!EmbedFails,
         P!Index!Tmp, Index!Tmp, P!Index!Ws, Index!Ws, P!Index!Old, Index!Old,
         P!Index!WriteManifest, Index!WriteManifest, P!Index!WriteData, Index!WriteData,
         P!Index!WriteFails, Index!WriteFails, P!Index!MoveOld, Index!MoveOld, P!Index!MoveNew,
         Index!MoveNew, P!Index!RemoveOld, Index!RemoveOld, P!Index!invalidateIndexCache,
         Index!invalidateIndexCache, P!Index!Clear, Index!Clear, P!Index!Cleared, Index!Cleared,
         P!Index!ReadManifest, Index!ReadManifest, P!Index!ReadPart, Index!ReadPart,
         P!Index!LoadRecords, Index!LoadRecords, P!Index!LoadVectors, Index!LoadVectors,
         P!Index!putCachedIndex, Index!putCachedIndex, P!Index!Again, Index!Again, P!Index!Die,
         Index!Die, P!Index!Write, Index!Write, P!Index!Read, Index!Read, P!Index!Changing,
         Index!Changing, P!Index!Reading, Index!Reading, P!Index!Watch, Index!Watch, P!Index!Step,
         Index!Step, P!Index!Next, Index!Next, vars

\* The index is never mixed, but in a cache filled while it was being changed, as long
\* as the process lives.
THEOREM IndexTogether == Spec => []IndexIsWhole
<1> DEFINE Here == part = "index"
<1>1. Here /\ Init => P!Index!Init
  BY PartInits, IndexSame
<1>2. Here /\ [Next]_vars => Here' /\ [P!Index!Next]_(P!Index!vars)
  BY PartStays, PartSteps, IndexSame DEF StepIndex
<1>3. ~Here /\ [Next]_vars => ~Here'
  BY PartStays
<1>4. P!Index!Spec => []P!Index!IndexIsWhole
  BY P!IndexWhole, PartsAssumption DEF PartsAssumption, P!IndexAssumption
<1>5. P!Index!IndexIsWhole \/ ~Here => IndexIsWhole
  BY DEF P!Index!IndexIsWhole, Index!IndexIsWhole, P!Index!LoadManifest, Index!LoadManifest,
         P!Index!Home, Index!Home, P!Index!Changing, Index!Changing, P!Index!Embed, Index!Embed,
         P!Index!NoDir, Index!NoDir, P!Index!Dir, Index!Dir, IndexIsWhole
<1> HIDE DEF Here
<1> QED
  BY <1>1, <1>2, <1>3, <1>4, <1>5, PTL DEF Spec, P!Index!Spec

-----------------------------------------------------------------------------
\* A behaviour of an evaluation is one of it alone.
LEMMA EvalSame ==
  /\ Eval!Init => P!Eval!Init
  /\ Eval!Next => P!Eval!Next
  /\ UNCHANGED vars => UNCHANGED P!Eval!vars
  BY DEF P!Eval!config, Eval!config, P!Eval!env, Eval!env, P!Eval!agentVars, Eval!agentVars,
         P!Eval!runVars, Eval!runVars, P!Eval!result, Eval!result, P!Eval!vars, Eval!vars,
         P!Eval!Target, Eval!Target, P!Eval!golden, Eval!golden, P!Eval!File, Eval!File,
         P!Eval!Repo, Eval!Repo, P!Eval!Expected, Eval!Expected, P!Eval!Link, Eval!Link,
         P!Eval!NoFile, Eval!NoFile, P!Eval!Writes, Eval!Writes, P!Eval!Init, Eval!Init,
         P!Eval!Set, Eval!Set, P!Eval!Goto, Eval!Goto, P!Eval!Load, Eval!Load, P!Eval!Deadline,
         Eval!Deadline, P!Eval!Interrupt, Eval!Interrupt, P!Eval!Stopped, Eval!Stopped,
         P!Eval!Take, Eval!Take, P!Eval!Judged, Eval!Judged, P!Eval!Return, Eval!Return,
         P!Eval!Fault, Eval!Fault, P!Eval!Ended, Eval!Ended, P!Eval!agentRest, Eval!agentRest,
         P!Eval!Aborted, Eval!Aborted, P!Eval!OutOfTurns, Eval!OutOfTurns, P!Eval!Served,
         Eval!Served, P!Eval!NotServed, Eval!NotServed, P!Eval!Answer, Eval!Answer,
         P!Eval!NoCall, Eval!NoCall,
         P!Eval!ToolCall, Eval!ToolCall, P!Eval!unusedTurns, Eval!unusedTurns,
         P!Eval!Unreadable, Eval!Unreadable, P!Eval!Verify, Eval!Verify, P!Eval!Outcomes,
         Eval!Outcomes, P!Eval!StartTest, Eval!StartTest, P!Eval!EndTest, Eval!EndTest,
         P!Eval!TestError, Eval!TestError, P!Eval!TestsDone, Eval!TestsDone, P!Eval!CommonStart,
         Eval!CommonStart, P!Eval!CommonEnd, Eval!CommonEnd, P!Eval!modified, Eval!modified,
         P!Eval!Changed, Eval!Changed, P!Eval!Lines, Eval!Lines, P!Eval!diffLines,
         Eval!diffLines, P!Eval!unexpected, Eval!unexpected, P!Eval!matches, Eval!matches,
         P!Eval!testsPassed, Eval!testsPassed, P!Eval!hardFailures, Eval!hardFailures,
         P!Eval!points, Eval!points, P!Eval!verdict, Eval!verdict, P!Eval!Verdict, Eval!Verdict,
         P!Eval!Results, Eval!Results, P!Eval!Report, Eval!Report, P!Eval!Next, Eval!Next,
         P!Eval!Cardinality, Eval!Cardinality, P!Eval!Max, Eval!Max, P!Eval!Min, Eval!Min,
         P!Eval!Reverse, Eval!Reverse, vars

\* A fixture passes only on what its agent did, what is amiss with the harness is told of
\* it, and the command succeeds only if every repetition passed.
THEOREM EvalTogether == Spec => []VerdictsAreTrue
<1> DEFINE Here == part = "eval"
<1>1. Here /\ Init => P!Eval!Init
  BY PartInits, EvalSame
<1>2. Here /\ [Next]_vars => Here' /\ [P!Eval!Next]_(P!Eval!vars)
  BY PartStays, PartSteps, EvalSame DEF StepEval
<1>3. ~Here /\ [Next]_vars => ~Here'
  BY PartStays
<1>4. P!Eval!Spec => []P!Eval!VerdictsAreTrue
  BY P!EvalVerdicts, PartsAssumption DEF PartsAssumption, P!EvalAssumption
<1>5. P!Eval!VerdictsAreTrue \/ ~Here => VerdictsAreTrue
  BY DEF P!Eval!VerdictsAreTrue, Eval!VerdictsAreTrue, P!Eval!PassedMeansPassed,
         Eval!PassedMeansPassed, P!Eval!VerdictsKeepApart, Eval!VerdictsKeepApart,
         P!Eval!SuccessIsOfAll, Eval!SuccessIsOfAll, P!Eval!Target, Eval!Target, P!Eval!golden,
         Eval!golden, P!Eval!Expected, Eval!Expected, VerdictsAreTrue
<1> HIDE DEF Here
<1> QED
  BY <1>1, <1>2, <1>3, <1>4, <1>5, PTL DEF Spec, P!Eval!Spec

-----------------------------------------------------------------------------
\* The decisions on a call are those of their own model.
LEMMA PermitSame ==
  /\ Permission!Init => P!Permit!Init
  /\ Permission!Next => P!Permit!Next
  /\ UNCHANGED vars => UNCHANGED v1
  BY DEF P!Permit!Decision, Permission!Decision, P!Permit!Mode, Permission!Mode,
         P!Permit!Normalize, Permission!Normalize, P!Permit!Result, Permission!Result,
         P!Permit!FirstMatchingRule, Permission!FirstMatchingRule, P!Permit!applyMode,
         Permission!applyMode, P!Permit!Resolve, Permission!Resolve, P!Permit!strictness,
         Permission!strictness, P!Permit!ClampMode, Permission!ClampMode, P!Permit!ChildMode,
         Permission!ChildMode, P!Permit!resolveSavePermission,
         Permission!resolveSavePermission, P!Permit!NoRequest, Permission!NoRequest,
         P!Permit!Init, Permission!Init, P!Permit!Ask, Permission!Ask, P!Permit!Next,
         Permission!Next, vars

\* A behaviour of the runs that start others is one of theirs alone.
LEMMA ChildrenSame ==
  /\ SubAgents!Init => P!Children!Init
  /\ SubAgents!Next => P!Children!Next
  /\ UNCHANGED vars => UNCHANGED P!Children!vars
  BY DEF P!Children!runVars, SubAgents!runVars, P!Children!toolVars, SubAgents!toolVars,
         P!Children!vars, SubAgents!vars, P!Children!Run, SubAgents!Run, P!Children!main,
         SubAgents!main, P!Children!Modes, SubAgents!Modes, P!Children!NoPolicy,
         SubAgents!NoPolicy, P!Children!Init, SubAgents!Init, P!Children!Goto, SubAgents!Goto,
         P!Children!Begin, SubAgents!Begin, P!Children!Recorded, SubAgents!Recorded,
         P!Children!SetPrompt, SubAgents!SetPrompt, P!Children!SetParentPolicy,
         SubAgents!SetParentPolicy, P!Children!Asked, SubAgents!Asked, P!Children!Asks,
         SubAgents!Asks, P!Children!MayBeAllowed, SubAgents!MayBeAllowed,
         P!Children!Crash, SubAgents!Crash, P!Children!Prompts, SubAgents!Prompts,
         P!Children!Allowed, SubAgents!Allowed, P!Children!Refused, SubAgents!Refused,
         P!Children!NextCall, SubAgents!NextCall, P!Children!Called, SubAgents!Called,
         P!Children!After, SubAgents!After, P!Children!Recursion, SubAgents!Recursion,
         P!Children!ReadPolicy, SubAgents!ReadPolicy, P!Children!New, SubAgents!New,
         P!Children!ChildMode, SubAgents!ChildMode, P!Children!StartChild,
         SubAgents!StartChild, P!Children!StartFails, SubAgents!StartFails,
         P!Children!EndChild, SubAgents!EndChild, P!Children!contextMode,
         SubAgents!contextMode, P!Children!workerPermissionMode,
         SubAgents!workerPermissionMode, P!Children!StartWorker, SubAgents!StartWorker,
         P!Children!EndWorker, SubAgents!EndWorker, P!Children!Next, SubAgents!Next,
         P!Children!Policy, SubAgents!Policy, P!Children!Resolution!Mode,
         SubAgents!Resolution!Mode, P!Children!Resolution!Decision,
         SubAgents!Resolution!Decision, P!Children!Resolution!Normalize,
         SubAgents!Resolution!Normalize, P!Children!Resolution!strictness,
         SubAgents!Resolution!strictness, P!Children!Resolution!ClampMode,
         SubAgents!Resolution!ClampMode, P!Children!Resolution!ChildMode,
         SubAgents!Resolution!ChildMode, P!Children!Resolution!applyMode,
         SubAgents!Resolution!applyMode, P!Children!Resolution!Result,
         SubAgents!Resolution!Result, vars

\* Neither a save in the browser, nor a child, nor a worker is looser than the run
\* it is for, unless a worker crossed the call.
THEOREM LooserTogether == Spec => []NothingIsLooser
<1> DEFINE Asked == part = "perm"
           Started == part = "sub"
<1>1. Asked /\ Init => P!Permit!Init
  BY PartInits, PermitSame
<1>2. Asked /\ [Next]_vars => Asked' /\ [P!Permit!Next]_v1
  BY PartStays, PartSteps, PermitSame DEF StepPermission
<1>3. ~Asked /\ [Next]_vars => ~Asked'
  BY PartStays
<1>4. P!Permit!Spec => []P!Permit!NothingIsLooser
  BY P!PermitNoLooser
<1>5. Started /\ Init => P!Children!Init
  BY PartInits, ChildrenSame
<1>6. Started /\ [Next]_vars => Started' /\ [P!Children!Next]_(P!Children!vars)
  BY PartStays, PartSteps, ChildrenSame DEF StepSubAgents
<1>7. ~Started /\ [Next]_vars => ~Started'
  BY PartStays
<1>8. P!Children!Spec => [](P!Children!TypeOK /\ P!Children!ChildrenAreHeld)
  BY P!ChildrenHeld, PartsAssumption DEF PartsAssumption, P!ChildrenAssumption
<1>9. P!Permit!NothingIsLooser \/ ~Asked => (Asked => Permission!NothingIsLooser)
  BY DEF P!Permit!NothingIsLooser, Permission!NothingIsLooser,
         P!Permit!ChildIsNoLooser, Permission!ChildIsNoLooser, P!Permit!SaveIsNoLooser,
         Permission!SaveIsNoLooser, P!Permit!Unasked, Permission!Unasked,
         P!Permit!Decision, Permission!Decision, P!Permit!Mode, Permission!Mode,
         P!Permit!Normalize, Permission!Normalize, P!Permit!Result, Permission!Result,
         P!Permit!FirstMatchingRule, Permission!FirstMatchingRule, P!Permit!applyMode,
         Permission!applyMode, P!Permit!Resolve, Permission!Resolve, P!Permit!strictness,
         Permission!strictness, P!Permit!ClampMode, Permission!ClampMode, P!Permit!ChildMode,
         Permission!ChildMode, P!Permit!resolveSavePermission,
         Permission!resolveSavePermission
<1>10. P!Children!ChildrenAreHeld \/ ~Started => (Started => SubAgents!ChildrenAreHeld)
  BY DEF P!Children!ChildrenAreHeld, SubAgents!ChildrenAreHeld,
         P!Children!Asked, SubAgents!Asked, P!Children!Strictness,
         SubAgents!Strictness, P!Children!Resolution!strictness,
         SubAgents!Resolution!strictness, P!Children!Run, SubAgents!Run, P!Children!main,
         SubAgents!main
<1>11. (Asked => Permission!NothingIsLooser) /\ (Started => SubAgents!ChildrenAreHeld)
         => NothingIsLooser
  BY DEF NothingIsLooser
<1> HIDE DEF Asked, Started
<1> QED
  BY <1>1, <1>2, <1>3, <1>4, <1>5, <1>6, <1>7, <1>8, <1>9, <1>10, <1>11, PTL
     DEF Spec, P!Permit!Spec, P!Children!Spec

-----------------------------------------------------------------------------
\* A behaviour of a file and its writers is one of theirs alone.
LEMMA EditsSame ==
  /\ Edits!Init => F!Init
  /\ Edits!Next => F!Next
  /\ UNCHANGED vars => UNCHANGED F!vars
  BY DEF F!Call, Edits!Call, F!Writer, Edits!Writer, F!lockVars, Edits!lockVars, F!readVars,
         Edits!readVars, F!tabVars, Edits!tabVars, F!trackVars, Edits!trackVars, F!vars,
         Edits!vars, F!None, Edits!None, F!First, Edits!First, F!Init, Edits!Init, F!Go,
         Edits!Go, F!acquireEntry, Edits!acquireEntry, F!entryAfterRelease,
         Edits!entryAfterRelease, F!releaseEntry, Edits!releaseEntry, F!Enter, Edits!Enter,
         F!Unlock, Edits!Unlock, F!Next_, Edits!Next_, F!Shell, Edits!Shell, F!Load,
         Edits!Load, F!writePending, Edits!writePending, F!PutFiles, Edits!PutFiles,
         F!TryLockPath, Edits!TryLockPath, F!CheckBase, Edits!CheckBase, F!Decide,
         Edits!Decide, F!CheckLatest, Edits!CheckLatest, F!SaveWrite, Edits!SaveWrite,
         F!WriteFails, Edits!WriteFails, F!AskPermission, Edits!AskPermission, F!Answer,
         Edits!Answer, F!trackFileWriteStart, Edits!trackFileWriteStart, F!LockPath,
         Edits!LockPath, F!LockTaken, Edits!LockTaken, F!LockTimeout, Edits!LockTimeout,
         F!ReadPrior, Edits!ReadPrior, F!Stale, Edits!Stale, F!ReadCurrent, Edits!ReadCurrent,
         F!WriteBack, Edits!WriteBack, F!trackFileWriteResult, Edits!trackFileWriteResult,
         F!FileRead, Edits!FileRead, F!SaveStep, Edits!SaveStep, F!CallStep, Edits!CallStep,
         F!Next, Edits!Next, F!Content, Edits!Content, vars

\* A behaviour of the editor is one of it alone.
LEMMA EditorSame ==
  /\ Editor!Init => F!Editor!Init
  /\ Editor!Next => F!Editor!Next
  /\ UNCHANGED vars => UNCHANGED F!Editor!vars
<1>1. Editor!Init => F!Editor!Init
  BY DEF F!Editor!Init, Editor!Init, F!Editor!NoTab, Editor!NoTab, F!Editor!NoEditor,
         Editor!NoEditor, F!Editor!None, Editor!None, F!Editor!NoConfirm, Editor!NoConfirm
<1>2. UNCHANGED vars => UNCHANGED F!Editor!vars
  BY DEF F!Editor!vars, F!Editor!diskVars, F!Editor!viewVars, F!Editor!pageVars,
         F!Editor!history, vars
<1>3. /\ Editor!Open => F!Editor!Open
      /\ Editor!Leave => F!Editor!Leave
  BY ZenonT(60) DEF F!Editor!Open, Editor!Open, F!Editor!MayAsk, Editor!MayAsk,
         F!Editor!NoTab, Editor!NoTab, F!Editor!viewVars, Editor!viewVars, F!Editor!Load,
         Editor!Load, F!Editor!diskVars, Editor!diskVars, F!Editor!pageVars, Editor!pageVars,
         F!Editor!history, Editor!history, F!Editor!None, Editor!None, F!Editor!Request,
         Editor!Request, F!Editor!Leave, Editor!Leave, F!Editor!Cardinality,
         Editor!Cardinality
<1>4. /\ Editor!Select => F!Editor!Select
      /\ Editor!Retry => F!Editor!Retry
  BY ZenonT(60) DEF F!Editor!Select, Editor!Select, F!Editor!MayAsk, Editor!MayAsk,
         F!Editor!Publish, Editor!Publish, F!Editor!Sees, Editor!Sees, F!Editor!Keeps,
         Editor!Keeps, F!Editor!None, Editor!None, F!Editor!Load, Editor!Load,
         F!Editor!viewVars, Editor!viewVars, F!Editor!diskVars, Editor!diskVars,
         F!Editor!pageVars, Editor!pageVars, F!Editor!claims, Editor!claims, F!Editor!render,
         Editor!render, F!Editor!Draft, Editor!Draft, F!Editor!Unkept, Editor!Unkept,
         F!Editor!Request, Editor!Request, F!Editor!stateOf, Editor!stateOf,
         F!Editor!Refreshed, Editor!Refreshed, F!Editor!Base, Editor!Base, F!Editor!NoEditor,
         Editor!NoEditor, F!Editor!NoConfirm, Editor!NoConfirm, F!Editor!Retry, Editor!Retry,
         F!Editor!Cardinality, Editor!Cardinality
<1>5. Editor!Close => F!Editor!Close
  BY ZenonT(60) DEF F!Editor!Close, Editor!Close, F!Editor!NoTab, Editor!NoTab,
         F!Editor!NoEditor, Editor!NoEditor, F!Editor!claims, Editor!claims, F!Editor!Unkept,
         Editor!Unkept, F!Editor!diskVars, Editor!diskVars, F!Editor!viewVars,
         Editor!viewVars, F!Editor!pageVars, Editor!pageVars, F!Editor!None, Editor!None,
         F!Editor!NoConfirm, Editor!NoConfirm, F!Editor!Draft, Editor!Draft
<1>6. Editor!Type => F!Editor!Type
  BY ZenonT(60) DEF F!Editor!Type, Editor!Type, F!Editor!Editing, Editor!Editing,
         F!Editor!Publish, Editor!Publish, F!Editor!Draft, Editor!Draft, F!Editor!viewVars,
         Editor!viewVars, F!Editor!pageVars, Editor!pageVars, F!Editor!claims, Editor!claims,
         F!Editor!render, Editor!render, F!Editor!None, Editor!None, F!Editor!stateOf,
         Editor!stateOf, F!Editor!Refreshed, Editor!Refreshed, F!Editor!Base, Editor!Base,
         F!Editor!NoEditor, Editor!NoEditor, F!Editor!NoConfirm, Editor!NoConfirm
<1>7. /\ Editor!Save => F!Editor!Save
      /\ Editor!Decide => F!Editor!Decide
      /\ Editor!Fetch => F!Editor!Fetch
      /\ Editor!Keep => F!Editor!Keep
  BY ZenonT(60) DEF F!Editor!Save, Editor!Save, F!Editor!Editing, Editor!Editing,
         F!Editor!Draft, Editor!Draft, F!Editor!NoConfirm, Editor!NoConfirm, F!Editor!MayAsk,
         Editor!MayAsk, F!Editor!Saves, Editor!Saves, F!Editor!diskVars, Editor!diskVars,
         F!Editor!viewVars, Editor!viewVars, F!Editor!pageVars, Editor!pageVars,
         F!Editor!history, Editor!history, F!Editor!claims, Editor!claims, F!Editor!None,
         Editor!None, F!Editor!Request, Editor!Request, F!Editor!Decide, Editor!Decide,
         F!Editor!Asks, Editor!Asks, F!Editor!Fetch, Editor!Fetch, F!Editor!Keep, Editor!Keep,
         F!Editor!Cardinality, Editor!Cardinality
<1>8. /\ Editor!AgentWrites => F!Editor!AgentWrites
      /\ Editor!Serve => F!Editor!Serve
  BY ZenonT(60) DEF F!Editor!AgentWrites, Editor!AgentWrites, F!Editor!Quiet, Editor!Quiet,
         F!Editor!viewVars, Editor!viewVars, F!Editor!history, Editor!history, F!Editor!Serve,
         Editor!Serve, F!Editor!Waiting, Editor!Waiting, F!Editor!Answered, Editor!Answered,
         F!Editor!None, Editor!None
<1>9. /\ Editor!Written => F!Editor!Written
      /\ Editor!HashSaved => F!Editor!HashSaved
  BY ZenonT(60) DEF F!Editor!Written, Editor!Written, F!Editor!MayAsk, Editor!MayAsk,
         F!Editor!DiskChange, Editor!DiskChange, F!Editor!viewVars, Editor!viewVars,
         F!Editor!diskVars, Editor!diskVars, F!Editor!history, Editor!history, F!Editor!Draft,
         Editor!Draft, F!Editor!Load, Editor!Load, F!Editor!Request, Editor!Request,
         F!Editor!None, Editor!None, F!Editor!HashSaved, Editor!HashSaved,
         F!Editor!Cardinality, Editor!Cardinality
<1>10. Editor!SavedEvent => F!Editor!SavedEvent
  BY ZenonT(60) DEF F!Editor!SavedEvent, Editor!SavedEvent, F!Editor!MayAsk, Editor!MayAsk,
         F!Editor!viewVars, Editor!viewVars, F!Editor!Patch, Editor!Patch,
         F!Editor!DiskChange, Editor!DiskChange, F!Editor!Sees, Editor!Sees, F!Editor!Keeps,
         Editor!Keeps, F!Editor!diskVars, Editor!diskVars, F!Editor!Publish, Editor!Publish,
         F!Editor!Draft, Editor!Draft, F!Editor!Load, Editor!Load, F!Editor!None, Editor!None,
         F!Editor!Unkept, Editor!Unkept, F!Editor!claims, Editor!claims, F!Editor!render,
         Editor!render, F!Editor!Request, Editor!Request, F!Editor!stateOf, Editor!stateOf,
         F!Editor!Refreshed, Editor!Refreshed, F!Editor!Base, Editor!Base, F!Editor!NoEditor,
         Editor!NoEditor, F!Editor!NoConfirm, Editor!NoConfirm, F!Editor!Cardinality,
         Editor!Cardinality
<1>11. ASSUME NEW r PROVE Editor!Loaded(r) => F!Editor!Loaded(r)
  BY ZenonT(60) DEF F!Editor!Loaded, Editor!Loaded, F!Editor!Came, Editor!Came,
         F!Editor!Patch, Editor!Patch, F!Editor!Patched, Editor!Patched, F!Editor!Sees,
         Editor!Sees, F!Editor!Keeps, Editor!Keeps, F!Editor!Request, Editor!Request,
         F!Editor!None, Editor!None, F!Editor!diskVars, Editor!diskVars, F!Editor!pageVars,
         Editor!pageVars, F!Editor!Publish, Editor!Publish, F!Editor!Unkept, Editor!Unkept,
         F!Editor!claims, Editor!claims, F!Editor!render, Editor!render, F!Editor!Draft,
         Editor!Draft, F!Editor!stateOf, Editor!stateOf, F!Editor!Refreshed, Editor!Refreshed,
         F!Editor!Base, Editor!Base, F!Editor!NoEditor, Editor!NoEditor, F!Editor!NoConfirm,
         Editor!NoConfirm
<1>12. ASSUME NEW r PROVE Editor!Saved(r) => F!Editor!Saved(r)
  BY ZenonT(60) DEF F!Editor!Saved, Editor!Saved, F!Editor!Came, Editor!Came, F!Editor!Mine,
         Editor!Mine, F!Editor!Patch, Editor!Patch, F!Editor!Patched, Editor!Patched,
         F!Editor!SavedState, Editor!SavedState, F!Editor!Sees, Editor!Sees, F!Editor!Keeps,
         Editor!Keeps, F!Editor!diskVars, Editor!diskVars, F!Editor!viewVars, Editor!viewVars,
         F!Editor!pageVars, Editor!pageVars, F!Editor!Publish, Editor!Publish, F!Editor!None,
         Editor!None, F!Editor!Unkept, Editor!Unkept, F!Editor!claims, Editor!claims,
         F!Editor!render, Editor!render, F!Editor!Draft, Editor!Draft, F!Editor!stateOf,
         Editor!stateOf, F!Editor!Refreshed, Editor!Refreshed, F!Editor!Base, Editor!Base,
         F!Editor!NoEditor, Editor!NoEditor, F!Editor!NoConfirm, Editor!NoConfirm
<1>13. ASSUME NEW r PROVE Editor!Reloaded(r) => F!Editor!Reloaded(r)
  BY ZenonT(60) DEF F!Editor!Reloaded, Editor!Reloaded, F!Editor!Came, Editor!Came,
         F!Editor!Mine, Editor!Mine, F!Editor!None, Editor!None, F!Editor!Patch, Editor!Patch,
         F!Editor!Patched, Editor!Patched, F!Editor!Sees, Editor!Sees, F!Editor!Keeps,
         Editor!Keeps, F!Editor!diskVars, Editor!diskVars, F!Editor!viewVars, Editor!viewVars,
         F!Editor!pageVars, Editor!pageVars, F!Editor!Publish, Editor!Publish,
         F!Editor!Unkept, Editor!Unkept, F!Editor!claims, Editor!claims, F!Editor!render,
         Editor!render, F!Editor!Draft, Editor!Draft, F!Editor!stateOf, Editor!stateOf,
         F!Editor!Refreshed, Editor!Refreshed, F!Editor!Base, Editor!Base, F!Editor!NoEditor,
         Editor!NoEditor, F!Editor!NoConfirm, Editor!NoConfirm
<1>14. ASSUME NEW r PROVE Editor!Compared(r) => F!Editor!Compared(r)
  BY ZenonT(60) DEF F!Editor!Compared, Editor!Compared, F!Editor!Mine, Editor!Mine,
         F!Editor!Saves, Editor!Saves, F!Editor!Sees, Editor!Sees, F!Editor!Keeps,
         Editor!Keeps, F!Editor!diskVars, Editor!diskVars, F!Editor!viewVars, Editor!viewVars,
         F!Editor!pageVars, Editor!pageVars, F!Editor!NoConfirm, Editor!NoConfirm,
         F!Editor!Request, Editor!Request, F!Editor!None, Editor!None, F!Editor!Unkept,
         Editor!Unkept, F!Editor!Draft, Editor!Draft
<1>15. Editor!Next => F!Editor!Next
  BY <1>3, <1>4, <1>5, <1>6, <1>7, <1>8, <1>9, <1>10, <1>11, <1>12, <1>13, <1>14
     DEF F!Editor!Next, Editor!Next
<1> QED
  BY <1>1, <1>2, <1>15

\* No save, edit or write replaces what its writer has not read, and the editor drops
\* no draft its user has not given up.
THEOREM WritesTogether == Spec => []NoWriteIsLost
<1> DEFINE Filed == part = "edits"
           Edited == part = "editor"
<1>1. Filed /\ Init => F!Init
  BY PartInits, EditsSame
<1>2. Filed /\ [Next]_vars => Filed' /\ [F!Next]_(F!vars)
  BY PartStays, PartSteps, EditsSame DEF StepEdits
<1>3. ~Filed /\ [Next]_vars => ~Filed'
  BY PartStays
<1>4. F!Spec => []F!NoWriteIsLost
  BY F!NothingOverwritten, PartsAssumption DEF PartsAssumption, F!Writer, F!Call
<1>5. Edited /\ Init => F!Editor!Init
  BY PartInits, EditorSame
<1>6. Edited /\ [Next]_vars => Edited' /\ [F!Editor!Next]_(F!Editor!vars)
  BY PartStays, PartSteps, EditorSame DEF StepEditor
<1>7. ~Edited /\ [Next]_vars => ~Edited'
  BY PartStays
<1>8. F!Editor!Spec => [](F!Editor!TypeOK /\ F!Editor!EditorKeepsItsWord)
  BY F!EditorKept, PartsAssumption DEF PartsAssumption, F!EditorAssumption
<1>9. F!NoWriteIsLost \/ ~Filed => (Filed => Edits!NoWriteIsLost)
  BY DEF F!NoWriteIsLost, Edits!NoWriteIsLost, F!Writer, Edits!Writer, F!Call, Edits!Call
<1>10. F!Editor!EditorKeepsItsWord \/ ~Edited => (Edited => Editor!EditorKeepsItsWord)
  BY DEF F!Editor!EditorKeepsItsWord, Editor!EditorKeepsItsWord,
         F!Editor!NothingUnseenIsReplaced, Editor!NothingUnseenIsReplaced,
         F!Editor!DraftsAreKept, Editor!DraftsAreKept, F!Editor!MarkIsTrue, Editor!MarkIsTrue,
         F!Editor!OneSaveAtATime, Editor!OneSaveAtATime, F!Editor!Waiting, Editor!Waiting,
         F!Editor!Draft, Editor!Draft, F!Editor!claims, Editor!claims, F!Editor!None,
         Editor!None, F!Editor!NoConfirm, Editor!NoConfirm, F!Editor!Cardinality,
         Editor!Cardinality
<1>11. (Filed => Edits!NoWriteIsLost) /\ (Edited => Editor!EditorKeepsItsWord)
         => NoWriteIsLost
  BY DEF NoWriteIsLost
<1> HIDE DEF Filed, Edited
<1> QED
  BY <1>1, <1>2, <1>3, <1>4, <1>5, <1>6, <1>7, <1>8, <1>9, <1>10, <1>11, PTL
     DEF Spec, F!Spec, F!Editor!Spec
==============================================================================
