------------------------------ MODULE PartsProofs ------------------------------
(***************************************************************************)
(* Theorems about small parts, each about its own variables:               *)
(*   Screen   the terminal's prompts and their queue (Terminal);           *)
(*   Dialog   its permission dialog (TerminalPrompts);                     *)
(*   Mcp      one MCP server behind a pipe (McpStdio);                     *)
(*   Requests the messages and model changes of a session                  *)
(*            (SessionRequests);                                           *)
(*   Slots    the limit on sessions (SessionSlots);                        *)
(*   Index    the semantic index of a workspace (SemanticIndex);           *)
(*   Eval     the evaluation of a fixture (EvalRun);                       *)
(*   Auth     the tokens of an MCP server (McpAuth);                       *)
(*   Permit   the decision on a tool call (PermissionResolution);          *)
(*   Children the runs a run starts (SubAgent).                            *)
(* What a part takes of its constants is in its theorems' hypotheses.      *)
(***************************************************************************)
EXTENDS Integers, Sequences, SequenceTheorems, FiniteSetTheorems, WellFoundedInduction, TLAPS

CONSTANTS
  Prompt, Listing, Question, Model, FirstModel, Cloud, MaxCommands,
  Ask, Worker,
  Caller, Connect, MaxNoise,
  Message, Post, Update, Offered, FirstOffered, Hosted, FirstKey, IdCap,
  Session, Create, Delete, MaxSessions,
  File, Content, Embedder, Retrieval, MaxWrites, MaxEdits,
  Repeat, Jobs, Tests, Turns, MaxTurns, MaxToolCalls, MaxAttempts, MaxDiffLines, PassThreshold,
  Request, MaxTokens, MaxFaults,
  MaxAgents, MaxCalls

VARIABLES
  messages, activeRun, current, kind, cancelled, ended, queue, pendingBTW, dream, activeModel,
  resolvedModel, switches, credential, typed, accepted, given, gone,
  commands,
  pcA, pending, channel, told, inbox, shown, pressed, rules,
  connected, pc, id, late, got, nextID, lock, stdin, working, executed, stdout, noise, server,
  closing,
  recent, sessionModel, switchedModel, route, keyKnown, running, runModel, messageId, stage, target,
  dialog, runs, dropped, crossed,
  used, registered, state, busySessions, attached, blank, stopped, pcC, victim, attempt, reused,
  pcD, doomed, pcW, swept, prey,
  files, edits, written, writes, disk, pcB, plan, cache, pcR, loaded, clearing, beside, dead,
  strict, recorded, allowUnexpected, canceled, phase, ctxErr, workspace, after, nextTurn,
  replayErr, turns, attempted, limitExceeded, runCanceled, terminal, answered, testResults,
  status, reason, exit, touched,
  store, errand, held, sent, issued, expired, live, faults, logins, stingy, broken, raced,
  queried,
  role, parent, mode, bound, asking, station, pendingCalls, toolPrompt, toolPolicy,
  policyRead, crossers, origin

Screen   == INSTANCE Terminal
Dialog   == INSTANCE TerminalPrompts
Mcp      == INSTANCE McpStdio
Requests == INSTANCE SessionRequests WITH Model <- Offered, FirstModel <- FirstOffered,
              Cloud <- Hosted, activeModel <- sessionModel, id <- messageId, pc <- stage
Slots    == INSTANCE SessionSlots WITH running <- busySessions, target <- doomed
Index    == INSTANCE SemanticIndex WITH Model <- Embedder, got <- loaded, died <- dead
Eval     == INSTANCE EvalRun WITH pc <- phase
Auth     == INSTANCE McpAuth WITH pc <- errand, crossed <- raced
Permit   == INSTANCE PermissionResolution WITH request <- queried
Children == INSTANCE SubAgent WITH kind <- role, held <- bound, prompt <- asking, pc <- station,
              calls <- pendingCalls, taken <- policyRead, crossed <- crossers

-----------------------------------------------------------------------------
(* Screen.  Its invariant adds to its property and the types:              *)
(*   Remembered  an accepted prompt is in the history or was taken out by   *)
(*               /clear or /compact, and a prompt that ends the history is  *)
(*               the last one accepted.                                     *)
(* A prompt waits only while the controller has a run, so one that finds no *)
(* run finds the queue empty.                                               *)

None == "none"
Reply == "reply"

ScreenAssumption ==
  /\ None \notin Prompt \cup Question /\ Reply \notin Prompt /\ Listing \subseteq Prompt
  /\ FirstModel \in Model
  /\ MaxCommands \in Nat

\* The prompts and their runs.
RunsTyped ==
  /\ activeRun \in BOOLEAN /\ cancelled \in BOOLEAN /\ ended \in BOOLEAN /\ dream \in BOOLEAN
  /\ current \in {"main", "btw", None} /\ kind \in {"main", "btw"}
  /\ queue \in Seq(Prompt) /\ accepted \in Seq(Prompt) /\ given \in Seq(SUBSET Prompt)
  /\ pendingBTW \in Question \cup {None}
  /\ messages \in Seq(Prompt \cup {Reply}) /\ gone \subseteq Prompt

\* The models, and what waits for them.
ModelsTyped ==
  /\ typed \subseteq Prompt \cup Question
  /\ activeModel \in Model /\ resolvedModel \in Model \cup {None}
  /\ switches \subseteq [model : Model, for : Prompt \cup {None}, key : BOOLEAN]
  /\ credential \in [model : Model, for : Prompt \cup {None}] \cup {Screen!NoModal}
  /\ commands \in 0..MaxCommands

\* Where an accepted prompt is.
Remembered ==
  /\ \A n \in 1..Len(accepted) : accepted[n] \in Screen!Prompts(messages) \cup gone
  /\ messages # <<>> /\ messages[Len(messages)] \in Prompt =>
       accepted # <<>> /\ messages[Len(messages)] = accepted[Len(accepted)]

PromptsKept == RunsTyped /\ Remembered /\ Screen!PromptsGetTheirRuns

ScreenInv == PromptsKept /\ ModelsTyped

\* What was given stays given when more is accepted or taken away.
LEMMA StillGiven ==
  ASSUME RunsTyped, Screen!PromptsGetTheirRuns, gone \subseteq gone',
         accepted' = accepted \/ \E p \in Prompt : accepted' = Append(accepted, p),
         NEW n \in 1..Len(given), given'[n] = given[n]
  PROVE  Screen!GivenItsPrompt(n)'
<1>1. Len(given) \in Nat /\ Len(queue) \in Nat /\ Len(accepted) \in Nat
  BY LenProperties DEF RunsTyped
<1>2. /\ Len(accepted) <= Len(accepted)' /\ Len(accepted)' \in Nat
      /\ \A i \in 1..Len(accepted) : accepted'[i] = accepted[i]
  BY <1>1, AppendProperties DEF RunsTyped
<1>3. n \in 1..Len(accepted) /\ Screen!GivenItsPrompt(n)
  BY <1>1 DEF Screen!PromptsGetTheirRuns
<1>4. CASE accepted[n] \in given[n] \cup gone
  BY <1>2, <1>3, <1>4 DEF Screen!GivenItsPrompt
<1>5. ASSUME NEW later \in n + 1..Len(accepted),
             accepted[later] \in Listing /\ given[n] = {accepted[later]}
      PROVE  Screen!GivenItsPrompt(n)'
  <2>1. later \in 1..Len(accepted) /\ later \in n + 1..Len(accepted)'
    BY <1>1, <1>2
  <2>2. accepted'[later] \in Listing /\ given'[n] = {accepted'[later]}
    BY <1>2, <1>5, <2>1
  <2> QED
    BY <2>1, <2>2 DEF Screen!GivenItsPrompt
<1> QED
  BY <1>3, <1>4, <1>5 DEF Screen!GivenItsPrompt

\* A run is begun for the prompt that is next, and is given it.
LEMMA OneMoreGiven ==
  ASSUME RunsTyped, Screen!PromptsGetTheirRuns, RunsTyped', gone \subseteq gone',
         accepted' = accepted \/ \E p \in Prompt : accepted' = Append(accepted, p),
         NEW input \in SUBSET Prompt, given' = Append(given, input),
         NEW next, next = Len(given) + 1, Screen!GivenItsPrompt(next)',
         Len(given)' + Len(queue)' = Len(accepted)', current' # None
  PROVE  Screen!PromptsGetTheirRuns'
<1>1. /\ Len(given) \in Nat /\ Len(given)' = Len(given) + 1
      /\ \A n \in 1..Len(given) : given'[n] = given[n]
  BY LenProperties, AppendProperties DEF RunsTyped
<1>2. \A n \in 1..Len(given) : Screen!GivenItsPrompt(n)'
  BY <1>1, StillGiven
<1>3. \A n \in 1..Len(given)' : n \in 1..Len(given) \/ n = next
  BY <1>1
<1>4. \A n \in 1..Len(given)' : Screen!GivenItsPrompt(n)'
  BY <1>2, <1>3
<1> QED
  BY <1>4 DEF Screen!PromptsGetTheirRuns, Screen!None, None

\* Nothing is begun.
LEMMA NoneGiven ==
  ASSUME RunsTyped, Screen!PromptsGetTheirRuns, gone \subseteq gone',
         accepted' = accepted \/ \E p \in Prompt : accepted' = Append(accepted, p),
         given' = given, Len(given)' + Len(queue)' = Len(accepted)',
         activeRun' \/ queue' # <<>> => current' # None
  PROVE  Screen!PromptsGetTheirRuns'
<1>1. \A n \in 1..Len(given) : Screen!GivenItsPrompt(n)'
  BY StillGiven
<1> QED
  BY <1>1 DEF Screen!PromptsGetTheirRuns, Screen!None, None

\* A prompt is put at the end of the history.
LEMMA AcceptedIsLast ==
  ASSUME RunsTyped, Remembered, NEW p \in Prompt, gone' = gone,
         messages' = Append(messages, p), accepted' = Append(accepted, p)
  PROVE  /\ messages' \in Seq(Prompt \cup {Reply}) /\ accepted' \in Seq(Prompt)
         /\ Len(accepted)' = Len(accepted) + 1 /\ accepted'[Len(accepted) + 1] = p
         /\ p \in Screen!Prompts(messages)' /\ Screen!Prompts(messages)' \subseteq Prompt
         /\ Remembered'
<1>1. /\ messages' \in Seq(Prompt \cup {Reply}) /\ Len(messages) \in Nat
      /\ Len(messages)' = Len(messages) + 1 /\ messages'[Len(messages) + 1] = p
      /\ \A i \in 1..Len(messages) : messages'[i] = messages[i]
  BY LenProperties, AppendProperties DEF RunsTyped
<1>2. /\ accepted' \in Seq(Prompt) /\ Len(accepted) \in Nat
      /\ Len(accepted)' = Len(accepted) + 1 /\ accepted'[Len(accepted) + 1] = p
      /\ \A i \in 1..Len(accepted) : accepted'[i] = accepted[i]
  BY LenProperties, AppendProperties DEF RunsTyped
<1>3. /\ p \in Screen!Prompts(messages)' /\ Screen!Prompts(messages)' \subseteq Prompt
      /\ Screen!Prompts(messages) \subseteq Screen!Prompts(messages)'
  BY <1>1 DEF Screen!Prompts
<1>4. \A n \in 1..Len(accepted)' : accepted'[n] \in Screen!Prompts(messages)' \cup gone'
  <2> SUFFICES ASSUME NEW n \in 1..Len(accepted)'
               PROVE  accepted'[n] \in Screen!Prompts(messages)' \cup gone'
    OBVIOUS
  <2>1. CASE n \in 1..Len(accepted)
    BY <1>2, <1>3, <2>1 DEF Remembered
  <2>2. CASE n = Len(accepted) + 1
    BY <1>2, <1>3, <2>2
  <2> QED
    BY <1>2, <2>1, <2>2
<1>5. accepted' # <<>>
  BY <1>2, EmptySeq
<1> QED
  BY <1>1, <1>2, <1>3, <1>4, <1>5 DEF Remembered

\* A prompt is begun, put into the queue, or refused (submitPrompt).
LEMMA PromptTaken ==
  ASSUME ScreenAssumption, NEW p \in Prompt, PromptsKept, pendingBTW' = pendingBTW,
         Screen!RunOrQueue(p)
  PROVE  PromptsKept'
<1> USE DEF Screen!None, None
<1>1. CASE UNCHANGED <<messages, gone, accepted, Screen!runVars, queue, dream>>
  BY <1>1 DEF PromptsKept, RunsTyped, Remembered, Screen!PromptsGetTheirRuns,
     Screen!GivenItsPrompt, Screen!runVars, Screen!Prompts
<1>2. CASE Screen!AcceptPrompt(p, Screen!busy)
  <2>1. /\ messages' = Append(messages, p) /\ accepted' = Append(accepted, p) /\ gone' = gone
        /\ RunsTyped /\ Remembered /\ Screen!PromptsGetTheirRuns
    BY <1>2 DEF Screen!AcceptPrompt, PromptsKept
  <2>2. /\ messages' \in Seq(Prompt \cup {Reply}) /\ accepted' \in Seq(Prompt)
        /\ Len(accepted)' = Len(accepted) + 1 /\ accepted'[Len(accepted) + 1] = p
        /\ p \in Screen!Prompts(messages)' /\ Screen!Prompts(messages)' \subseteq Prompt
        /\ Remembered'
    BY <2>1, AcceptedIsLast
  <2>3. Len(given) \in Nat /\ Len(queue) \in Nat /\ Len(accepted) \in Nat
    BY <2>1, LenProperties DEF RunsTyped
  <2>4. CASE Screen!busy
    <3>1. queue' = Append(queue, p) /\ UNCHANGED <<Screen!runVars, dream>>
      BY <1>2, <2>4 DEF Screen!AcceptPrompt
    <3>2. queue' \in Seq(Prompt) /\ Len(queue)' = Len(queue) + 1
      BY <2>1, <3>1, AppendProperties DEF RunsTyped
    <3>3. RunsTyped'
      BY <2>1, <2>2, <3>1, <3>2 DEF RunsTyped, Screen!runVars
    <3>4. current' # None
      BY <2>1, <2>4, <3>1 DEF Screen!busy, Screen!PromptsGetTheirRuns, Screen!runVars
    <3>5. given' = given /\ Len(given)' + Len(queue)' = Len(accepted)'
      <4>1. given' = given /\ Len(given) + Len(queue) = Len(accepted)
        BY <2>1, <3>1 DEF Screen!runVars, Screen!PromptsGetTheirRuns
      <4> QED
        BY <2>2, <2>3, <3>2, <4>1
    <3>6. Screen!PromptsGetTheirRuns'
      BY <2>1, <3>4, <3>5, NoneGiven
    <3> QED
      BY <2>2, <3>3, <3>6 DEF PromptsKept
  <2>5. CASE ~Screen!busy
    <3>1. current = None /\ queue = <<>> /\ Len(queue) = 0
      BY <2>1, <2>5 DEF Screen!busy, Screen!PromptsGetTheirRuns
    <3>2. dream' = FALSE /\ queue' = queue /\ Screen!BeginDirect(p)
      BY <1>2, <2>5, <3>1 DEF Screen!AcceptPrompt
    <3>3. PICK input \in {Screen!Prompts(messages'), {p}} : given' = Append(given, input)
      BY <3>2 DEF Screen!BeginDirect
    <3>4. input \in SUBSET Prompt /\ p \in input
      BY <2>2, <3>3 DEF Screen!Prompts
    <3>5. /\ given' \in Seq(SUBSET Prompt) /\ Len(given)' = Len(given) + 1
          /\ given'[Len(given) + 1] = input
      BY <2>1, <3>3, <3>4, AppendProperties DEF RunsTyped
    <3>6. RunsTyped' /\ current' # None
      BY <2>1, <2>2, <3>2, <3>5 DEF RunsTyped, Screen!BeginDirect, Screen!Begin
    <3>7. Len(given) = Len(accepted)
      BY <2>1, <2>3, <3>1 DEF Screen!PromptsGetTheirRuns
    <3> PICK next : next = Len(given) + 1
      OBVIOUS
    <3>8. Screen!GivenItsPrompt(next)'
      BY <2>2, <3>4, <3>5, <3>7 DEF Screen!GivenItsPrompt
    <3>9. Screen!PromptsGetTheirRuns'
      BY <2>1, <2>2, <2>3, <3>1, <3>2, <3>3, <3>4, <3>5, <3>6, <3>7, <3>8, OneMoreGiven
    <3> QED
      BY <2>2, <3>6, <3>9 DEF PromptsKept
  <2> QED
    BY <2>4, <2>5
<1> QED
  BY <1>1, <1>2 DEF Screen!RunOrQueue

\* A run ends, and the question, the run for the next prompt, or nothing follows.
LEMMA RunEnds ==
  ASSUME ScreenAssumption, PromptsKept, Screen!agentDone
  PROVE  PromptsKept'
<1> USE DEF Screen!None, None
<1>0. /\ UNCHANGED <<messages, gone, accepted>>
      /\ RunsTyped /\ Remembered /\ Screen!PromptsGetTheirRuns
  BY DEF Screen!agentDone, PromptsKept
<1>1. Remembered'
  BY <1>0 DEF Remembered, Screen!Prompts
<1>2. CASE /\ pendingBTW # None /\ pendingBTW' = None /\ Screen!Begin("btw")
           /\ UNCHANGED <<given, queue, dream>>
  <2>1. RunsTyped' /\ current' # None
    BY <1>0, <1>2 DEF RunsTyped, Screen!Begin
  <2>2. Screen!PromptsGetTheirRuns'
    BY <1>0, <1>2, <2>1 DEF Screen!PromptsGetTheirRuns, Screen!GivenItsPrompt
  <2> QED
    BY <1>1, <2>1, <2>2 DEF PromptsKept
<1>3. CASE /\ queue # <<>> /\ queue' = Tail(queue) /\ Screen!BeginQueued
           /\ UNCHANGED <<pendingBTW, dream>>
  <2> DEFINE last == messages[Len(messages)]
             alone == messages # <<>> /\ last \in Listing
             input == IF alone THEN {last} ELSE Screen!Prompts(messages)
  <2> PICK next : next = Len(given) + 1
    OBVIOUS
  <2>1. Len(given) \in Nat /\ Len(queue) \in Nat \ {0} /\ Len(accepted) \in Nat
    BY <1>0, <1>3, LenProperties, EmptySeq DEF RunsTyped
  <2>2. Tail(queue) \in Seq(Prompt) /\ Len(Tail(queue)) = Len(queue) - 1
    BY <1>0, <1>3, HeadTailProperties DEF RunsTyped
  <2>3. given' = Append(given, input) /\ Screen!Begin("main")
    BY <1>3 DEF Screen!BeginQueued
  <2>4. input \in SUBSET Prompt
    BY DEF ScreenAssumption, Screen!Prompts
  <2> HIDE DEF input
  <2>5. /\ given' \in Seq(SUBSET Prompt) /\ Len(given)' = Len(given) + 1
        /\ given'[next] = input
    BY <1>0, <2>3, <2>4, AppendProperties DEF RunsTyped
  <2>6. RunsTyped' /\ current' # None
    BY <1>0, <1>3, <2>2, <2>3, <2>5 DEF RunsTyped, Screen!Begin
  <2>7. next \in 1..Len(accepted) /\ Len(given)' + Len(queue)' = Len(accepted)'
    BY <1>0, <1>3, <2>1, <2>2, <2>5 DEF Screen!PromptsGetTheirRuns
  <2>8. Screen!GivenItsPrompt(next)'
    <3>1. CASE ~alone
      <4>1. accepted'[next] \in given'[next] \cup gone'
        BY <1>0, <2>5, <2>7, <3>1 DEF Remembered, input
      <4> QED
        BY <4>1 DEF Screen!GivenItsPrompt
    <3>2. CASE alone
      <4>1. given'[next] = {accepted[Len(accepted)]} /\ accepted[Len(accepted)] \in Listing
        BY <1>0, <2>5, <3>2 DEF Remembered, ScreenAssumption, input
      <4>2. CASE next = Len(accepted)
        BY <1>0, <4>1, <4>2 DEF Screen!GivenItsPrompt
      <4>3. CASE next # Len(accepted)
        <5>1. Len(accepted)' \in next + 1..Len(accepted)'
          BY <1>0, <2>1, <2>7, <4>3
        <5> QED
          BY <1>0, <4>1, <5>1 DEF Screen!GivenItsPrompt
      <4> QED
        BY <4>2, <4>3
    <3> QED
      BY <3>1, <3>2
  <2>9. Screen!PromptsGetTheirRuns'
    BY <1>0, <2>3, <2>4, <2>6, <2>7, <2>8, OneMoreGiven
  <2> QED
    BY <1>1, <2>6, <2>9 DEF PromptsKept
<1>4. CASE /\ queue = <<>> /\ activeRun' = FALSE /\ current' = None /\ cancelled' = FALSE
           /\ ended' = FALSE /\ dream' \in {dream, TRUE}
           /\ UNCHANGED <<kind, given, queue, pendingBTW>>
  <2>1. RunsTyped'
    BY <1>0, <1>4 DEF RunsTyped
  <2>2. Screen!PromptsGetTheirRuns'
    BY <1>0, <1>4 DEF Screen!PromptsGetTheirRuns, Screen!GivenItsPrompt
  <2> QED
    BY <1>1, <2>1, <2>2 DEF PromptsKept
<1> QED
  BY <1>2, <1>3, <1>4 DEF Screen!agentDone

\* Prompts leave the history: what stays is a tail of it (/clear, /compact).
LEMMA HistoryCut ==
  ASSUME PromptsKept, UNCHANGED <<Screen!runVars, queue, dream, accepted, pendingBTW>>,
         messages' = <<>> \/ \E n \in 2..Len(messages) :
                               messages' = SubSeq(messages, n, Len(messages)),
         gone' = gone \cup (Screen!Prompts(messages) \ Screen!Prompts(messages)')
  PROVE  PromptsKept'
<1>0. RunsTyped /\ Remembered /\ Screen!PromptsGetTheirRuns
  BY DEF PromptsKept
<1>1. /\ messages' \in Seq(Prompt \cup {Reply})
      /\ messages' # <<>> => messages # <<>> /\ messages'[Len(messages)'] = messages[Len(messages)]
  <2>1. CASE messages' = <<>>
    BY <2>1, EmptySeq
  <2>2. ASSUME NEW n \in 2..Len(messages), messages' = SubSeq(messages, n, Len(messages))
        PROVE  <1>1!1 /\ <1>1!2
    <3>1. messages \in Seq(Prompt \cup {Reply}) /\ Len(messages) \in Nat
      BY <1>0, LenProperties DEF RunsTyped
    <3>2. \A i \in n..Len(messages) : messages[i] \in Prompt \cup {Reply}
      BY <3>1, ElementOfSeq
    <3>3. /\ messages' \in Seq(Prompt \cup {Reply})
          /\ Len(messages)' = Len(messages) - n + 1
          /\ \A i \in 1..Len(messages) - n + 1 : messages'[i] = messages[n + i - 1]
      BY <2>2, <3>1, <3>2, SubSeqProperties
    <3>4. Len(messages)' \in 1..Len(messages) - n + 1
      BY <3>1, <3>3
    <3>5. n + Len(messages)' - 1 = Len(messages)
      BY <3>1, <3>3
    <3>6. messages'[Len(messages)'] = messages[Len(messages)]
      BY <3>3, <3>4, <3>5
    <3> QED
      BY <3>1, <3>3, <3>6, EmptySeq
  <2> QED
    BY <2>1, <2>2
<1>2. gone' \subseteq Prompt /\ gone \subseteq gone'
  BY <1>0 DEF RunsTyped, Screen!Prompts
<1>3. RunsTyped'
  BY <1>0, <1>1, <1>2 DEF RunsTyped, Screen!runVars
<1>4. Remembered'
  BY <1>0, <1>1 DEF Remembered
<1>5. Screen!PromptsGetTheirRuns'
  <2>1. /\ given' = given /\ Len(given)' + Len(queue)' = Len(accepted)' /\ accepted' = accepted
        /\ activeRun' \/ queue' # <<>> => current' # None
    BY <1>0 DEF Screen!PromptsGetTheirRuns, Screen!runVars, Screen!None, None
  <2> QED
    BY <1>0, <1>2, <2>1, NoneGiven
<1> QED
  BY <1>3, <1>4, <1>5 DEF PromptsKept

\* Every step keeps the prompts and their runs.
LEMMA ScreenRunsStep ==
  ASSUME ScreenAssumption, PromptsKept, ModelsTyped, [Screen!Next]_(Screen!vars)
  PROVE  PromptsKept'
<1> USE DEF Screen!None, None
<1>0. RunsTyped /\ Remembered /\ Screen!PromptsGetTheirRuns
  BY DEF PromptsKept
<1> DEFINE Same == UNCHANGED <<queue, accepted, given, messages, gone>>
<1>1. ASSUME Same, RunsTyped', activeRun' => activeRun \/ current' # None, current' = current
             \/ current' # None
      PROVE  PromptsKept'
  BY <1>0, <1>1 DEF PromptsKept, Remembered, Screen!PromptsGetTheirRuns, Screen!GivenItsPrompt,
     Screen!Prompts
<1>2. ASSUME Same, UNCHANGED <<Screen!runVars, dream, pendingBTW>>
      PROVE  PromptsKept'
  <2>1. RunsTyped'
    BY <1>0, <1>2 DEF RunsTyped, Screen!runVars
  <2> QED
    BY <1>1, <1>2, <2>1 DEF Screen!runVars
<1>3. ASSUME NEW p \in Prompt, Screen!SubmitPrompt(p)
      PROVE  PromptsKept'
  <2>1. CASE UNCHANGED <<messages, gone, accepted, Screen!runVars, queue, dream>>
    BY <1>2, <1>3, <2>1 DEF Screen!SubmitPrompt, Screen!runVars
  <2>2. CASE Screen!RunOrQueue(p)
    BY <1>3, <2>2, PromptTaken DEF Screen!SubmitPrompt
  <2> QED
    BY <1>3, <2>1, <2>2 DEF Screen!SubmitPrompt
<1>4. ASSUME NEW q \in Question, Screen!handleBTWCommand(q)
      PROVE  PromptsKept'
  <2>1. CASE Screen!busy
    <3>1. RunsTyped' /\ UNCHANGED <<Screen!runVars, queue, accepted, messages, gone>>
      BY <1>0, <1>4, <2>1 DEF Screen!handleBTWCommand, RunsTyped, Screen!runVars
    <3> QED
      BY <1>1, <3>1 DEF Screen!runVars
  <2>2. CASE ~Screen!busy
    <3>1. /\ Screen!Begin("btw")
          /\ UNCHANGED <<messages, gone, given, queue, dream, accepted, pendingBTW>>
      BY <1>4, <2>2 DEF Screen!handleBTWCommand
    <3>2. RunsTyped' /\ current' # None
      BY <1>0, <3>1 DEF RunsTyped, Screen!Begin
    <3> QED
      BY <1>1, <3>1, <3>2
  <2> QED
    BY <2>1, <2>2
<1>5. CASE Screen!CtrlC
  <2>1. RunsTyped' /\ UNCHANGED <<activeRun, current>>
    BY <1>0, <1>5 DEF Screen!CtrlC, RunsTyped
  <2> QED
    BY <1>1, <1>5, <2>1 DEF Screen!CtrlC
<1>6. CASE Screen!Clear
  <2>1. messages' = <<>> /\ Screen!Prompts(messages)' = {} /\ Len(<<>>) = 0
    BY <1>6 DEF Screen!Clear, Screen!Prompts
  <2> QED
    BY <1>6, <2>1, HistoryCut DEF Screen!Clear
<1>7. CASE Screen!handleCompactCommand
  BY <1>7, HistoryCut DEF Screen!handleCompactCommand
<1>8. ASSUME NEW m \in Model, Screen!SwitchCommand(m)
      PROVE  PromptsKept'
  BY <1>2, <1>8 DEF Screen!SwitchCommand, Screen!runVars
<1>9. ASSUME NEW s \in switches, Screen!Completed(s)
      PROVE  PromptsKept'
  <2>1. CASE s.for # None
    <3>1. s.for \in Prompt
      BY <2>1 DEF ModelsTyped
    <3>2. Screen!RunOrQueue(s.for) /\ pendingBTW' = pendingBTW
      BY <1>9, <2>1 DEF Screen!Completed
    <3> QED
      BY <3>1, <3>2, PromptTaken
  <2>2. CASE s.for = None
    BY <1>2, <1>9, <2>2 DEF Screen!Completed, Screen!runVars
  <2> QED
    BY <2>1, <2>2
<1>10. ASSUME NEW s \in switches, Screen!NeedsCredential(s) \/ Screen!Failed(s)
       PROVE  PromptsKept'
  BY <1>2, <1>10 DEF Screen!NeedsCredential, Screen!Failed, Screen!runVars
<1>11. CASE Screen!CredentialGiven \/ Screen!CredentialCancelled \/ UNCHANGED Screen!vars
  BY <1>2, <1>11 DEF Screen!CredentialGiven, Screen!CredentialCancelled, Screen!vars,
     Screen!runVars
<1>12. CASE Screen!TerminalEvent
  <2>1. /\ UNCHANGED <<gone, current, cancelled, given, queue, pendingBTW, dream, accepted>>
        /\ ended' = TRUE /\ activeRun' = FALSE /\ kind' = "main"
        /\ messages' = messages \/ messages' = Append(messages, Reply)
    BY <1>12 DEF Screen!TerminalEvent, Screen!Reply, Reply
  <2>2. CASE messages' = messages
    <3>1. RunsTyped'
      BY <1>0, <2>1, <2>2 DEF RunsTyped
    <3> QED
      BY <1>1, <2>1, <2>2, <3>1
  <2>3. CASE messages' = Append(messages, Reply)
    <3>1. /\ messages' \in Seq(Prompt \cup {Reply}) /\ Len(messages) \in Nat
          /\ Len(messages)' = Len(messages) + 1 /\ messages'[Len(messages)'] = Reply
          /\ \A i \in 1..Len(messages) : messages'[i] = messages[i]
      BY <1>0, <2>3, LenProperties, AppendProperties DEF RunsTyped
    <3>2. Screen!Prompts(messages) \subseteq Screen!Prompts(messages)'
      BY <3>1 DEF Screen!Prompts
    <3>3. Remembered'
      BY <1>0, <2>1, <3>1, <3>2 DEF Remembered, ScreenAssumption
    <3>4. RunsTyped'
      BY <1>0, <2>1, <3>1 DEF RunsTyped
    <3>5. Screen!PromptsGetTheirRuns'
      BY <1>0, <2>1 DEF Screen!PromptsGetTheirRuns, Screen!GivenItsPrompt
    <3> QED
      BY <3>3, <3>4, <3>5 DEF PromptsKept
  <2> QED
    BY <2>1, <2>2, <2>3
<1>13. CASE Screen!TerminalLost
  <2>1. RunsTyped' /\ UNCHANGED <<activeRun, current>>
    BY <1>0, <1>13 DEF Screen!TerminalLost, RunsTyped
  <2> QED
    BY <1>1, <1>13, <2>1 DEF Screen!TerminalLost
<1>14. CASE Screen!agentDone
  BY <1>14, RunEnds
<1> QED
  BY <1>3, <1>4, <1>5, <1>6, <1>7, <1>8, <1>9, <1>10, <1>11, <1>12, <1>13, <1>14 DEF Screen!Next

\* Every step leaves models to models (startModelSwitchCmd, cloudCredentialPrompt).
LEMMA ModelsStep ==
  ASSUME ScreenAssumption, ModelsTyped, [Screen!Next]_(Screen!vars)
  PROVE  ModelsTyped'
<1>0. MaxCommands \in Nat
  BY DEF ScreenAssumption
<1> DEFINE SwitchType == [model : Model, for : Prompt \cup {None}, key : BOOLEAN]
<1>1. ASSUME NEW m \in Model, NEW p \in Prompt \cup {None}, NEW key \in BOOLEAN
      PROVE  Screen!Switch(m, p, key) \in SwitchType
  BY DEF Screen!Switch
<1>2. ASSUME Screen!Command PROVE commands' \in 0..MaxCommands
  BY <1>0, <1>2 DEF Screen!Command, ModelsTyped
<1>3. ASSUME NEW p \in Prompt, Screen!SubmitPrompt(p) PROVE ModelsTyped'
  <2>1. switches' = switches \/ switches' = switches \cup {Screen!Switch(activeModel, p, FALSE)}
    BY <1>3 DEF Screen!SubmitPrompt
  <2>2. Screen!Switch(activeModel, p, FALSE) \in SwitchType
    BY <1>1 DEF ModelsTyped
  <2> QED
    BY <1>3, <2>1, <2>2 DEF Screen!SubmitPrompt, ModelsTyped
<1>4. ASSUME NEW q \in Question, Screen!handleBTWCommand(q) PROVE ModelsTyped'
  BY <1>4 DEF Screen!handleBTWCommand, Screen!modelVars, ModelsTyped
<1>5. CASE Screen!CtrlC \/ Screen!Clear \/ Screen!handleCompactCommand
  <2>1. Screen!Command /\ UNCHANGED <<Screen!modelVars, typed>>
    BY <1>5 DEF Screen!CtrlC, Screen!Clear, Screen!handleCompactCommand
  <2> QED
    BY <1>2, <2>1 DEF Screen!modelVars, ModelsTyped
<1>6. ASSUME NEW m \in Model, Screen!SwitchCommand(m) PROVE ModelsTyped'
  <2>1. switches' = switches \cup {Screen!Switch(m, None, FALSE)}
    BY <1>6 DEF Screen!SwitchCommand, Screen!None, None
  <2>2. Screen!Switch(m, None, FALSE) \in SwitchType
    BY <1>1
  <2>3. commands' \in 0..MaxCommands
    BY <1>2, <1>6 DEF Screen!SwitchCommand
  <2> QED
    BY <1>6, <2>1, <2>2, <2>3 DEF Screen!SwitchCommand, ModelsTyped
<1>7. ASSUME NEW s \in switches, Screen!Completed(s) PROVE ModelsTyped'
  <2>1. s.model \in Model
    BY DEF ModelsTyped
  <2> QED
    BY <1>7, <2>1 DEF Screen!Completed, ModelsTyped
<1>8. ASSUME NEW s \in switches, Screen!NeedsCredential(s) PROVE ModelsTyped'
  <2>1. [model |-> s.model, for |-> s.for] \in [model : Model, for : Prompt \cup {None}]
    BY DEF ModelsTyped
  <2> QED
    BY <1>8, <2>1 DEF Screen!NeedsCredential, ModelsTyped
<1>9. ASSUME NEW s \in switches, Screen!Failed(s) PROVE ModelsTyped'
  <2>1. s.for \in Prompt \cup {None}
    BY DEF ModelsTyped
  <2>2. typed' \subseteq Prompt \cup Question
    BY <1>9, <2>1 DEF Screen!Failed, Screen!Back, Screen!None, None, ModelsTyped
  <2> QED
    BY <1>9, <2>2 DEF Screen!Failed, ModelsTyped
<1>10. CASE Screen!CredentialGiven
  <2>1. credential.model \in Model /\ credential.for \in Prompt \cup {None}
    BY <1>10 DEF Screen!CredentialGiven, ModelsTyped
  <2>2. Screen!Switch(credential.model, credential.for, TRUE) \in SwitchType
    BY <1>1, <2>1
  <2> QED
    BY <1>10, <2>2 DEF Screen!CredentialGiven, ModelsTyped
<1>11. CASE Screen!CredentialCancelled
  <2>1. credential.for \in Prompt \cup {None}
    BY <1>11 DEF Screen!CredentialCancelled, ModelsTyped
  <2>2. typed' \subseteq Prompt \cup Question
    BY <1>11, <2>1 DEF Screen!CredentialCancelled, Screen!Back, Screen!None, None, ModelsTyped
  <2> QED
    BY <1>11, <2>2 DEF Screen!CredentialCancelled, ModelsTyped
<1>12. CASE Screen!TerminalEvent \/ Screen!TerminalLost \/ Screen!agentDone \/ UNCHANGED Screen!vars
  BY <1>12 DEF Screen!TerminalEvent, Screen!TerminalLost, Screen!agentDone, Screen!vars,
     Screen!modelVars, ModelsTyped
<1> QED
  BY <1>3, <1>4, <1>5, <1>6, <1>7, <1>8, <1>9, <1>10, <1>11, <1>12 DEF Screen!Next

\* At first nothing is typed, asked or run.
LEMMA ScreenInitial == ASSUME ScreenAssumption, Screen!Init PROVE ScreenInv
<1>1. RunsTyped
  BY EmptySeq DEF Screen!Init, RunsTyped, Screen!None, None
<1>2. ModelsTyped
  BY DEF Screen!Init, ModelsTyped, ScreenAssumption, Screen!None, None
<1>3. Remembered /\ Screen!PromptsGetTheirRuns
  <2>1. /\ queue = <<>> /\ given = <<>> /\ accepted = <<>> /\ messages = <<>>
        /\ activeRun = FALSE /\ Len(<<>>) = 0
    BY DEF Screen!Init
  <2> QED
    BY <2>1 DEF Remembered, Screen!PromptsGetTheirRuns
<1> QED
  BY <1>1, <1>2, <1>3 DEF ScreenInv, PromptsKept

\* Every variable of the terminal keeps its type (app.go).
THEOREM ScreenTypes ==
  ASSUME ScreenAssumption
  PROVE  Screen!Spec => []Screen!TypeOK
<1>1. Screen!Init => ScreenInv
  BY ScreenInitial
<1>2. ScreenInv /\ [Screen!Next]_(Screen!vars) => ScreenInv'
  BY ScreenRunsStep, ModelsStep DEF ScreenInv
<1>3. ScreenInv => Screen!TypeOK
  BY DEF ScreenInv, PromptsKept, RunsTyped, ModelsTyped, Screen!TypeOK, Screen!None, None,
     Screen!Reply, Reply
<1> QED
  BY <1>1, <1>2, <1>3, PTL DEF Screen!Spec

\* Every prompt taken into the history has a run of its own, begun or to come, that
\* is given it, unless it was cleared away or a later listing is sent alone; none
\* waits without a run whose end will see to it (submitPrompt, startQueuedPrompt,
\* agentDoneMsg).
THEOREM ScreenPrompts ==
  ASSUME ScreenAssumption
  PROVE  Screen!Spec => []Screen!PromptsGetTheirRuns
<1>1. Screen!Init => ScreenInv
  BY ScreenInitial
<1>2. ScreenInv /\ [Screen!Next]_(Screen!vars) => ScreenInv'
  BY ScreenRunsStep, ModelsStep DEF ScreenInv
<1>3. ScreenInv => Screen!PromptsGetTheirRuns
  BY DEF ScreenInv, PromptsKept
<1> QED
  BY <1>1, <1>2, <1>3, PTL DEF Screen!Spec

-----------------------------------------------------------------------------
(* Dialog.  An answer is followed from the key to the agent: the message    *)
(* that carries it and the channel it is put into hold what was pressed    *)
(* for that very prompt.                                                   *)

Carried ==
  \A m \in inbox : m.kind = "resolved" =>
    m.answer \in Dialog!Decision /\ [id |-> m.id, answer |-> m.answer] \in pressed

Delivered ==
  \A a \in Ask : channel[a] \in {"allow", "always"} => [id |-> a, answer |-> channel[a]] \in pressed

DialogInv == Dialog!TypeOK /\ Carried /\ Delivered /\ Dialog!DecisionIsTheUsers

\* What is asked, pressed and told keeps its type.
LEMMA DialogTypesStep ==
  ASSUME Dialog!TypeOK, Carried, [Dialog!Next]_(Dialog!vars)
  PROVE  Dialog!TypeOK'
<1> DEFINE Letter == [kind : {"prompt", "cancelled", "resolved"}, id : Ask,
                      answer : Dialog!Decision \cup {Dialog!None}]
<1>0. /\ pcA \in [Ask -> {"idle", "sending", "waiting", "leaving", "done"}]
      /\ pending \subseteq Ask /\ rules \subseteq Ask
      /\ channel \in [Ask -> Dialog!Decision \cup {Dialog!None}]
      /\ told \in [Ask -> {Dialog!None, "allow", "deny"}]
      /\ inbox \subseteq Letter /\ shown \in Ask \cup {Dialog!None}
      /\ pressed \subseteq [id : Ask, answer : Dialog!Decision]
  BY DEF Dialog!TypeOK
<1>1. ASSUME NEW a \in Ask, Dialog!AskUser(a) \/ Dialog!Cancelled(a) PROVE Dialog!TypeOK'
  BY <1>0, <1>1 DEF Dialog!AskUser, Dialog!Cancelled, Dialog!TypeOK
<1>2. ASSUME NEW a \in Ask, Dialog!SendPrompt(a) PROVE Dialog!TypeOK'
  <2>1. Dialog!Msg("prompt", a, Dialog!None) \in Letter
    BY DEF Dialog!Msg
  <2>2. inbox' \subseteq Letter
    BY <1>0, <1>2, <2>1 DEF Dialog!SendPrompt
  <2> QED
    BY <1>0, <1>2, <2>2 DEF Dialog!SendPrompt, Dialog!TypeOK
<1>3. ASSUME NEW a \in Ask, Dialog!SendCancelled(a) PROVE Dialog!TypeOK'
  <2>1. Dialog!Msg("cancelled", a, Dialog!None) \in Letter
    BY DEF Dialog!Msg
  <2>2. inbox' \subseteq Letter
    BY <1>0, <1>3, <2>1 DEF Dialog!SendCancelled
  <2> QED
    BY <1>0, <1>3, <2>2 DEF Dialog!SendCancelled, Dialog!TypeOK
<1>4. ASSUME NEW a \in Ask, Dialog!EscalationTimeout(a) \/ Dialog!TakeDecision(a)
      PROVE  Dialog!TypeOK'
  <2>1. told' \in [Ask -> {Dialog!None, "allow", "deny"}]
    BY <1>0, <1>4 DEF Dialog!EscalationTimeout, Dialog!TakeDecision
  <2>2. pcA' \in [Ask -> {"idle", "sending", "waiting", "leaving", "done"}]
    BY <1>0, <1>4 DEF Dialog!EscalationTimeout, Dialog!TakeDecision
  <2> QED
    BY <1>0, <1>4, <2>1, <2>2 DEF Dialog!EscalationTimeout, Dialog!TakeDecision, Dialog!TypeOK
<1>5. ASSUME NEW a \in Ask, Dialog!ShowPrompt(a) \/ Dialog!HidePrompt(a) PROVE Dialog!TypeOK'
  <2>1. inbox' \subseteq Letter /\ shown' \in Ask \cup {Dialog!None}
    BY <1>0, <1>5 DEF Dialog!ShowPrompt, Dialog!HidePrompt, Dialog!Take
  <2> QED
    BY <1>0, <1>5, <2>1 DEF Dialog!ShowPrompt, Dialog!HidePrompt, Dialog!TypeOK
<1>6. ASSUME NEW d \in Dialog!Decision, Dialog!PressKey(d) PROVE Dialog!TypeOK'
  <2>1. shown \in Ask
    BY <1>0, <1>6 DEF Dialog!PressKey
  <2>2. Dialog!Msg("resolved", shown, d) \in Letter
        /\ [id |-> shown, answer |-> d] \in [id : Ask, answer : Dialog!Decision]
    BY <2>1 DEF Dialog!Msg
  <2>3. inbox' \subseteq Letter /\ pressed' \subseteq [id : Ask, answer : Dialog!Decision]
        /\ rules' \subseteq Ask
    BY <1>0, <1>6, <2>1, <2>2 DEF Dialog!PressKey
  <2> QED
    BY <1>0, <1>6, <2>3 DEF Dialog!PressKey, Dialog!TypeOK
<1>7. ASSUME NEW m \in inbox, Dialog!Resolve(m) PROVE Dialog!TypeOK'
  <2>1. m.id \in Ask /\ m.answer \in Dialog!Decision
    BY <1>0, <1>7 DEF Dialog!Resolve, Carried
  <2>2. inbox' \subseteq Letter /\ shown' \in Ask \cup {Dialog!None} /\ pending' \subseteq Ask
    BY <1>0, <1>7 DEF Dialog!Resolve, Dialog!Take
  <2>3. channel' \in [Ask -> Dialog!Decision \cup {Dialog!None}]
    BY <1>0, <1>7, <2>1 DEF Dialog!Resolve, Dialog!resolvedID
  <2> QED
    BY <1>0, <1>7, <2>2, <2>3 DEF Dialog!Resolve, Dialog!TypeOK
<1>8. CASE Dialog!CancelAll
  <2>1. channel' \in [Ask -> Dialog!Decision \cup {Dialog!None}]
    BY <1>0, <1>8 DEF Dialog!CancelAll, Dialog!Decision
  <2> QED
    BY <1>0, <1>8, <2>1 DEF Dialog!CancelAll, Dialog!TypeOK
<1>9. CASE UNCHANGED Dialog!vars
  BY <1>0, <1>9 DEF Dialog!vars, Dialog!TypeOK
<1> QED
  BY <1>1, <1>2, <1>3, <1>4, <1>5, <1>6, <1>7, <1>8, <1>9
  DEF Dialog!Next, Dialog!Update, Dialog!AskStep

\* An answer reaches the agent whose prompt it is for, and no other.
LEMMA AnswersStep ==
  ASSUME DialogInv, [Dialog!Next]_(Dialog!vars)
  PROVE  Carried' /\ Delivered' /\ Dialog!DecisionIsTheUsers'
<1> USE DEF Dialog!None
<1>0. /\ Dialog!TypeOK /\ Carried /\ Delivered /\ Dialog!DecisionIsTheUsers
      /\ pcA \in [Ask -> {"idle", "sending", "waiting", "leaving", "done"}]
      /\ channel \in [Ask -> Dialog!Decision \cup {"none"}]
      /\ told \in [Ask -> {"none", "allow", "deny"}]
      /\ shown \in Ask \cup {"none"}
  BY DEF DialogInv, Dialog!TypeOK
<1>1. ASSUME NEW a \in Ask, Dialog!AskUser(a) \/ Dialog!Cancelled(a)
      PROVE  Carried' /\ Delivered' /\ Dialog!DecisionIsTheUsers'
  BY <1>0, <1>1
  DEF Dialog!AskUser, Dialog!Cancelled, Carried, Delivered, Dialog!DecisionIsTheUsers
<1>2. ASSUME NEW a \in Ask, Dialog!SendPrompt(a)
      PROVE  Carried' /\ Delivered' /\ Dialog!DecisionIsTheUsers'
  BY <1>0, <1>2
  DEF Dialog!SendPrompt, Dialog!Msg, Carried, Delivered, Dialog!DecisionIsTheUsers
<1>3. ASSUME NEW a \in Ask, Dialog!SendCancelled(a)
      PROVE  Carried' /\ Delivered' /\ Dialog!DecisionIsTheUsers'
  BY <1>0, <1>3
  DEF Dialog!SendCancelled, Dialog!Msg, Carried, Delivered, Dialog!DecisionIsTheUsers
<1>4. ASSUME NEW a \in Ask, Dialog!EscalationTimeout(a)
      PROVE  Carried' /\ Delivered' /\ Dialog!DecisionIsTheUsers'
  BY <1>0, <1>4
  DEF Dialog!EscalationTimeout, Carried, Delivered, Dialog!DecisionIsTheUsers
<1>5. ASSUME NEW a \in Ask, Dialog!TakeDecision(a)
      PROVE  Carried' /\ Delivered' /\ Dialog!DecisionIsTheUsers'
  <2>1. Carried' /\ Delivered'
    BY <1>0, <1>5 DEF Dialog!TakeDecision, Carried, Delivered
  <2>2. channel[a] = "deny" \/ \E d \in {"allow", "always"} : [id |-> a, answer |-> d] \in pressed
    BY <1>0, <1>5 DEF Dialog!TakeDecision, Delivered, Dialog!Decision
  <2>3. told'[a] = "allow" => \E d \in {"allow", "always"} : [id |-> a, answer |-> d] \in pressed
    BY <1>0, <1>5, <2>2 DEF Dialog!TakeDecision, Dialog!DecisionIsTheUsers
  <2>4. /\ \A b \in Ask \ {a} : told'[b] = told[b] /\ pcA'[b] = pcA[b]
        /\ pcA'[a] = "done" /\ UNCHANGED <<pending, channel, pressed, rules>>
    BY <1>0, <1>5 DEF Dialog!TakeDecision
  <2> QED
    BY <1>0, <2>1, <2>3, <2>4 DEF Dialog!DecisionIsTheUsers
<1>6. ASSUME NEW a \in Ask, Dialog!ShowPrompt(a) \/ Dialog!HidePrompt(a)
      PROVE  Carried' /\ Delivered' /\ Dialog!DecisionIsTheUsers'
  BY <1>0, <1>6 DEF Dialog!ShowPrompt, Dialog!HidePrompt, Dialog!Take, Carried, Delivered,
     Dialog!DecisionIsTheUsers
<1>7. ASSUME NEW d \in Dialog!Decision, Dialog!PressKey(d)
      PROVE  Carried' /\ Delivered' /\ Dialog!DecisionIsTheUsers'
  <2>1. /\ pressed' = pressed \cup {[id |-> shown, answer |-> d]}
        /\ inbox' = inbox \cup {Dialog!Msg("resolved", shown, d)}
        /\ UNCHANGED <<pcA, pending, channel, told, shown>>
        /\ rules' = IF d = "always" THEN rules \cup {shown} ELSE rules
    BY <1>7 DEF Dialog!PressKey
  <2>2. Carried' /\ Delivered'
    BY <1>0, <2>1 DEF Dialog!Msg, Carried, Delivered
  <2> QED
    BY <1>0, <2>1, <2>2 DEF Dialog!DecisionIsTheUsers
<1>8. ASSUME NEW m \in inbox, Dialog!Resolve(m)
      PROVE  Carried' /\ Delivered' /\ Dialog!DecisionIsTheUsers'
  <2>1. /\ m.answer \in Dialog!Decision /\ [id |-> m.id, answer |-> m.answer] \in pressed
        /\ pending' = pending \ {m.id} /\ inbox' = inbox \ {m}
        /\ channel' = IF m.id \in pending THEN [channel EXCEPT ![m.id] = m.answer] ELSE channel
        /\ UNCHANGED <<pcA, told, pressed, rules>>
    BY <1>0, <1>8 DEF Dialog!Resolve, Dialog!resolvedID, Dialog!Take, Carried
  <2>2. Carried' /\ Delivered'
    BY <1>0, <2>1 DEF Carried, Delivered
  <2>3. ASSUME NEW a \in Ask, a \in pending \/ channel[a] # "none"
        PROVE  a \in pending' \/ channel'[a] # "none"
    BY <1>0, <2>1, <2>3 DEF Dialog!Decision
  <2> QED
    BY <1>0, <2>1, <2>2, <2>3 DEF Dialog!DecisionIsTheUsers
<1>9. CASE Dialog!CancelAll
  BY <1>0, <1>9 DEF Dialog!CancelAll, Carried, Delivered, Dialog!DecisionIsTheUsers
<1>10. CASE UNCHANGED Dialog!vars
  BY <1>0, <1>10 DEF Dialog!vars, Carried, Delivered, Dialog!DecisionIsTheUsers
<1> QED
  BY <1>1, <1>2, <1>3, <1>4, <1>5, <1>6, <1>7, <1>8, <1>9, <1>10
  DEF Dialog!Next, Dialog!Update, Dialog!AskStep

\* At first nobody has asked.
LEMMA DialogInitial == ASSUME Dialog!Init PROVE DialogInv
  BY DEF Dialog!Init, DialogInv, Dialog!TypeOK, Carried, Delivered, Dialog!DecisionIsTheUsers,
     Dialog!None

\* Every variable of the dialog keeps its type (tui/permission.go).
THEOREM DialogTypes == Dialog!Spec => []Dialog!TypeOK
<1>1. Dialog!Init => DialogInv
  BY DialogInitial
<1>2. DialogInv /\ [Dialog!Next]_(Dialog!vars) => DialogInv'
  BY DialogTypesStep, AnswersStep DEF DialogInv
<1>3. DialogInv => Dialog!TypeOK
  BY DEF DialogInv
<1> QED
  BY <1>1, <1>2, <1>3, PTL DEF Dialog!Spec

\* An agent is told what the user pressed in the dialog of its own prompt, and
\* one that waits has its prompt pending or its answer at hand (PromptFunc,
\* handlePermissionKeyMsg, resolve).
THEOREM DialogDecisions == Dialog!Spec => []Dialog!DecisionIsTheUsers
<1>1. Dialog!Init => DialogInv
  BY DialogInitial
<1>2. DialogInv /\ [Dialog!Next]_(Dialog!vars) => DialogInv'
  BY DialogTypesStep, AnswersStep DEF DialogInv
<1>3. DialogInv => Dialog!DecisionIsTheUsers
  BY DEF DialogInv
<1> QED
  BY <1>1, <1>2, <1>3, PTL DEF Dialog!Spec

-----------------------------------------------------------------------------
(* Mcp.  Ids are handed out before the lock is taken and answers come late, *)
(* so what a call returns is followed through the pipe:                    *)
(*   OwnIds     no two requests have one id;                               *)
(*   Unwritten  the id of a request that is not written, or never will be, *)
(*              is neither on its way to the server nor carried out;       *)
(*   Honest     a frame that answers an id follows its execution;          *)
(*   Connecting while Connect asks, no other call is under way.            *)

Requester == Caller \cup {Connect}
Nobody == "nobody"

McpAssumption == Nobody \notin Requester /\ MaxNoise \in Nat

Frame  == [kind : {"result", "error", "note", "broken"}, id : 0..nextID]
Result == [kind : {"none", "result", "error", "write error", "read error", "deadline"},
           of : 0..nextID]

McpTyped ==
  /\ connected \in {"no", "listing", "yes", "failed"}
  /\ pc \in [Requester -> {"idle", "lock", "check", "read", "done"}]
  /\ id \in [Requester -> 0..nextID] /\ late \subseteq Requester /\ nextID \in Nat
  /\ got \in [Requester -> Result]
  /\ lock \in Requester \cup {Nobody} /\ stdin \in Seq(1..nextID)
  /\ working \subseteq 1..nextID /\ executed \subseteq 1..nextID
  /\ stdout \in Seq(Frame)
  /\ noise \in 0..MaxNoise /\ server \in {"up", "exited"}
  /\ closing \in {"no", "notify", "wait", "closed"}

OwnIds ==
  /\ \A c, d \in Requester : c # d /\ id[c] = id[d] => id[c] = 0
  /\ \A c \in Requester : pc[c] # "idle" => id[c] # 0

Unwritten ==
  \A c \in Requester :
    /\ pc[c] = "lock" \/ got[c].kind = "write error" =>
         id[c] \notin Range(stdin) \cup working \cup executed
    /\ got[c].kind = "write error" => pc[c] = "done"

Answers == {"result", "error"}

Honest == \A f \in Range(stdout) : f.kind \in Answers => f.id \in executed

Connecting == pc[Connect] \in {"lock", "check", "read"} => connected \in {"no", "listing"}

McpPromises == OwnIds /\ Unwritten /\ Honest /\ Connecting /\ Mcp!CallsGetTheirAnswers

McpInv == McpTyped /\ McpPromises

\* What a queue holds when something is put at its end.
LEMMA RangeGrows ==
  ASSUME NEW S, NEW q \in Seq(S), NEW x \in S
  PROVE  Append(q, x) \in Seq(S) /\ Range(Append(q, x)) = Range(q) \cup {x}
<1> DEFINE r == Append(q, x)
<1>1. /\ r \in Seq(S) /\ Len(r) = Len(q) + 1 /\ r[Len(q) + 1] = x
      /\ \A i \in 1..Len(q) : r[i] = q[i]
  BY AppendProperties
<1>2. DOMAIN q = 1..Len(q) /\ DOMAIN r = 1..Len(r) /\ Len(q) \in Nat
  BY <1>1, LenProperties
<1> HIDE DEF r
<1> QED
  BY <1>1, <1>2 DEF Range, r

\* What a queue holds after its first elements are taken.
LEMMA RangeRest ==
  ASSUME NEW S, NEW q \in Seq(S), NEW n \in Nat \ {0}
  PROVE  SubSeq(q, n, Len(q)) \in Seq(S) /\ Range(SubSeq(q, n, Len(q))) \subseteq Range(q)
<1> DEFINE r == SubSeq(q, n, Len(q))
           k == Len(q)
<1>1. k \in Nat /\ DOMAIN q = 1..k /\ \A i \in 1..k : q[i] \in S
  BY LenProperties, ElementOfSeq
<1>2. \A i \in n..k : q[i] \in S
  BY <1>1
<1>3. /\ r \in Seq(S) /\ Len(r) = IF n <= k THEN k - n + 1 ELSE 0
      /\ \A i \in 1..k - n + 1 : r[i] = q[n + i - 1]
  BY <1>1, <1>2, SubSeqProperties
<1>4. DOMAIN r = 1..Len(r)
  BY <1>3, LenProperties
<1>5. \A i \in 1..Len(r) : n + i - 1 \in 1..k /\ r[i] = q[n + i - 1]
  BY <1>1, <1>3
<1> HIDE DEF r, k
<1>6. Range(r) \subseteq Range(q)
  BY <1>1, <1>4, <1>5 DEF Range
<1> QED
  BY <1>3, <1>6 DEF r, k

\* The head of a queue is in it, and so is the rest.
LEMMA RangeTail ==
  ASSUME NEW S, NEW q \in Seq(S), q # <<>>
  PROVE  /\ Head(q) \in S /\ Head(q) \in Range(q)
         /\ Tail(q) \in Seq(S) /\ Range(Tail(q)) \subseteq Range(q)
<1>1. Len(q) \in Nat \ {0} /\ DOMAIN q = 1..Len(q)
  BY EmptySeq, LenProperties
<1>2. Head(q) = q[1] /\ Tail(q) = SubSeq(q, 2, Len(q)) /\ Head(q) \in S
  BY TailIsSubSeq, HeadTailProperties
<1> QED
  BY <1>1, <1>2, RangeRest DEF Range

\* A queue of the members of a set is one of the members of a larger set.
LEMMA QueueGrows ==
  ASSUME NEW n \in Nat, NEW q \in Seq(1..n)
  PROVE  q \in Seq(1..(n + 1))
<1>1. 1..n \subseteq 1..(n + 1)
  OBVIOUS
<1> QED
  BY <1>1, SeqMonotonic

\* A request returns: its caller is done, unless it is Connect, which goes on to
\* its second request.
LEMMA Returns ==
  ASSUME McpTyped, NEW c \in Requester, NEW k, NEW of \in 0..nextID,
         k \in {"result", "error", "write error", "read error", "deadline"},
         Mcp!Return(c, k, of)
  PROVE  /\ lock' = Nobody /\ got' = [got EXCEPT ![c] = [kind |-> k, of |-> of]]
         /\ got' \in [Requester -> Result]
         /\ pc' = [pc EXCEPT ![c] = pc'[c]] /\ pc'[c] \in {"idle", "done"}
         /\ pc' \in [Requester -> {"idle", "lock", "check", "read", "done"}]
         /\ connected' \in {"no", "listing", "yes", "failed"}
         /\ closing' \in {"no", "notify", "wait", "closed"}
         /\ c # Connect => connected' = connected /\ pc'[c] = "done"
         /\ k # "result" => pc'[c] = "done"
<1>1. [kind |-> k, of |-> of] \in Result
  BY DEF Result
<1>2. /\ lock' = Nobody /\ got' = [got EXCEPT ![c] = [kind |-> k, of |-> of]]
      /\ got' \in [Requester -> Result]
  BY <1>1 DEF Mcp!Return, McpTyped, Mcp!Nobody, Nobody
<1>3. CASE c # Connect
  BY <1>2, <1>3 DEF Mcp!Return, McpTyped
<1>4. CASE c = Connect
  <2>1. /\ connected' \in {"listing", "yes", "failed"} /\ (k # "result" => connected' = "failed")
        /\ pc' = [pc EXCEPT ![c] = IF connected' = "listing" THEN "idle" ELSE "done"]
        /\ closing' \in {"notify", closing}
    BY <1>4 DEF Mcp!Return
  <2> QED
    BY <1>2, <1>4, <2>1 DEF McpTyped
<1> QED
  BY <1>3, <1>4

\* The ids and frames of a step that hands out no id keep their types.
LEMMA SameFrames ==
  ASSUME nextID' = nextID
  PROVE  Frame' = Frame /\ Result' = Result
  BY DEF Frame, Result

\* Every step leaves the client and the pipe well formed.
LEMMA McpTypesStep ==
  ASSUME McpAssumption, McpTyped, OwnIds, [Mcp!Next]_(Mcp!vars)
  PROVE  McpTyped'
<1>0. nextID \in Nat /\ id \in [Requester -> 0..nextID] /\ stdout \in Seq(Frame)
      /\ stdin \in Seq(1..nextID) /\ 0 \in 0..nextID
  BY DEF McpTyped
<1>1. ASSUME NEW c \in Requester, Mcp!Begin(c) PROVE McpTyped'
  <2>1. /\ nextID' = nextID + 1 /\ id' = [id EXCEPT ![c] = nextID + 1]
        /\ pc' = [pc EXCEPT ![c] = "lock"]
        /\ UNCHANGED <<connected, late, got, lock, stdin, working, executed, noise, server, stdout,
                       closing>>
    BY <1>1 DEF Mcp!Begin, Mcp!serverVars
  <2>2. 0..nextID \subseteq 0..nextID' /\ 1..nextID \subseteq 1..nextID'
    BY <1>0, <2>1
  <2>3. Frame \subseteq Frame' /\ Result \subseteq Result'
    BY <2>2 DEF Frame, Result
  <2>4. stdout' \in Seq(Frame') /\ stdin' \in Seq(1..nextID')
    BY <1>0, <2>1, <2>2, <2>3, SeqMonotonic
  <2>5. id' \in [Requester -> 0..nextID'] /\ nextID' \in Nat
    BY <1>0, <2>1, <2>2
  <2>6. got' \in [Requester -> Result']
    BY <2>1, <2>3 DEF McpTyped
  <2> QED
    BY <2>1, <2>2, <2>4, <2>5, <2>6 DEF McpTyped
<1>2. ASSUME NEW c \in Requester, Mcp!Write(c) PROVE McpTyped'
  <2>1. /\ UNCHANGED <<id, late, nextID, working, executed, noise, server, stdout>>
        /\ Frame' = Frame /\ Result' = Result
    BY <1>2, SameFrames DEF Mcp!Write
  <2>2. CASE server = "up" /\ closing \in {"no", "notify"}
    <3>1. /\ lock' = c /\ pc' = [pc EXCEPT ![c] = "check"]
          /\ stdin' = Append(stdin, id[c]) /\ UNCHANGED <<connected, got, closing>>
      BY <1>2, <2>2 DEF Mcp!Write

    <3>2. id[c] \in 1..nextID
      <4>1. pc[c] = "lock"
        BY <1>2 DEF Mcp!Write
      <4> QED
        BY <1>0, <4>1 DEF OwnIds
    <3>3. stdin' \in Seq(1..nextID)
      BY <1>0, <3>1, <3>2, AppendProperties
    <3> QED
      BY <2>1, <3>1, <3>3 DEF McpTyped
  <2>3. CASE ~(server = "up" /\ closing \in {"no", "notify"})
    <3>1. Mcp!Return(c, "write error", 0) /\ UNCHANGED stdin
      BY <1>2, <2>3 DEF Mcp!Write
    <3>2. 0 \in 0..nextID
      BY <1>0
    <3>3. /\ lock' = Nobody /\ got' \in [Requester -> Result]
          /\ pc' \in [Requester -> {"idle", "lock", "check", "read", "done"}]
          /\ connected' \in {"no", "listing", "yes", "failed"}
          /\ closing' \in {"no", "notify", "wait", "closed"}
      BY <3>1, <3>2, Returns
    <3> QED
      BY <2>1, <3>1, <3>3 DEF McpTyped
  <2> QED
    BY <2>2, <2>3
<1>3. ASSUME NEW c \in Requester, NEW k \in {"result", "error", "read error", "deadline"},
             NEW of \in 0..nextID, Mcp!Return(c, k, of),
             UNCHANGED <<id, late, nextID, Mcp!serverVars>>, stdout' \in Seq(Frame)
      PROVE  McpTyped'
  <2>1. Frame' = Frame /\ Result' = Result
    BY <1>3, SameFrames
  <2>2. /\ lock' = Nobody /\ got' \in [Requester -> Result]
        /\ pc' \in [Requester -> {"idle", "lock", "check", "read", "done"}]
        /\ connected' \in {"no", "listing", "yes", "failed"}
        /\ closing' \in {"no", "notify", "wait", "closed"}
    BY <1>3, Returns
  <2> QED
    BY <1>3, <2>1, <2>2 DEF McpTyped, Mcp!serverVars
<1>4. ASSUME NEW c \in Requester, Mcp!Check(c) PROVE McpTyped'
  <2>1. CASE c \in late
    <3>1. Mcp!Return(c, "deadline", 0) /\ UNCHANGED <<id, late, nextID, Mcp!serverVars, stdout>>
      BY <1>4, <2>1 DEF Mcp!Check
    <3> QED
      BY <1>0, <1>3, <3>1
  <2>2. CASE c \notin late
    <3>1. /\ pc' = [pc EXCEPT ![c] = "read"]
          /\ UNCHANGED <<connected, got, lock, closing, id, late, nextID, stdin, working, executed,
                         noise, server, stdout>>
      BY <1>4, <2>2 DEF Mcp!Check, Mcp!serverVars
    <3> QED
      BY <3>1, SameFrames DEF McpTyped
  <2> QED
    BY <2>1, <2>2
<1>5. ASSUME stdout # <<>>
      PROVE  /\ Head(stdout) \in Frame
             /\ Tail(stdout) \in Seq(Frame)
  BY <1>0, <1>5, HeadTailProperties
<1>6. ASSUME NEW c \in Requester, Mcp!ReadMine(c) PROVE McpTyped'
  <2>1. /\ stdout # <<>> /\ Head(stdout).kind \in {"result", "error"}
        /\ Mcp!Return(c, Head(stdout).kind, Head(stdout).id)
        /\ stdout' = Tail(stdout) /\ UNCHANGED <<id, late, nextID, Mcp!serverVars>>
    BY <1>6 DEF Mcp!ReadMine, Mcp!Mine
  <2>2. Head(stdout).id \in 0..nextID
    BY <1>5, <2>1 DEF Frame
  <2> QED
    BY <1>3, <1>5, <2>1, <2>2
<1>7. ASSUME NEW c \in Requester, Mcp!ReadOther(c) PROVE McpTyped'
  <2>1. /\ stdout' = Tail(stdout) /\ pc' = [pc EXCEPT ![c] = "check"] /\ stdout # <<>>
        /\ UNCHANGED <<connected, id, late, got, nextID, lock, stdin, working, executed, noise,
                       server, closing>>
    BY <1>7 DEF Mcp!ReadOther, Mcp!serverVars
  <2> QED
    BY <1>5, <2>1, SameFrames DEF McpTyped
<1>8. ASSUME NEW c \in Requester, Mcp!ReadBroken(c) PROVE McpTyped'
  <2>1. PICK n \in 1..2 : stdout' = SubSeq(stdout, n + 1, Len(stdout))
    BY <1>8 DEF Mcp!ReadBroken
  <2>2. n + 1 \in Nat \ {0}
    OBVIOUS
  <2>3. stdout' \in Seq(Frame)
    BY <1>0, <2>1, <2>2, RangeRest
  <2> QED
    <3>1. Mcp!Return(c, "read error", 0) /\ UNCHANGED <<id, late, nextID, Mcp!serverVars>>
      BY <1>8 DEF Mcp!ReadBroken
    <3> QED
      BY <1>0, <1>3, <2>3, <3>1
<1>9. ASSUME NEW c \in Requester, Mcp!ReadEOF(c) PROVE McpTyped'
  <2>1. stdout' = stdout
    BY <1>9 DEF Mcp!ReadEOF
  <2> QED
    <3>1. Mcp!Return(c, "read error", 0) /\ UNCHANGED <<id, late, nextID, Mcp!serverVars>>
      BY <1>9 DEF Mcp!ReadEOF
    <3> QED
      BY <1>0, <1>3, <2>1, <3>1
<1>10. ASSUME NEW c \in Requester, Mcp!Expire(c) PROVE McpTyped'
  BY <1>10, SameFrames DEF Mcp!Expire, Mcp!serverVars, McpTyped
<1>11. CASE Mcp!TakeRequest
  <2>1. /\ stdin # <<>> /\ stdin' = Tail(stdin) /\ working' = working \cup {Head(stdin)}
        /\ UNCHANGED <<connected, pc, id, late, got, nextID, lock, executed, noise, server, stdout,
                       closing>>
    BY <1>11 DEF Mcp!TakeRequest
  <2>2. Head(stdin) \in 1..nextID /\ Tail(stdin) \in Seq(1..nextID)
    BY <1>0, <2>1, HeadTailProperties
  <2> QED
    BY <2>1, <2>2, SameFrames DEF McpTyped
<1>12. ASSUME NEW i \in working, Mcp!Answer(i) PROVE McpTyped'
  <2>1. PICK k \in {"result", "error"} : stdout' = Append(stdout, [kind |-> k, id |-> i])
    BY <1>12 DEF Mcp!Answer
  <2>2. i \in 1..nextID
    BY DEF McpTyped
  <2>3. [kind |-> k, id |-> i] \in Frame
    BY <1>0, <2>2 DEF Frame
  <2>4. stdout' \in Seq(Frame)
    BY <1>0, <2>1, <2>3, AppendProperties
  <2>5. /\ working' = working \ {i} /\ executed' = executed \cup {i}
        /\ UNCHANGED <<connected, pc, id, late, got, nextID, lock, stdin, noise, server, closing>>
    BY <1>12 DEF Mcp!Answer
  <2> QED
    BY <2>2, <2>4, <2>5, SameFrames DEF McpTyped
<1>13. CASE Mcp!Noise
  <2>1. PICK k \in {"note", "broken"} : stdout' = Append(stdout, [kind |-> k, id |-> 0])
    BY <1>13 DEF Mcp!Noise
  <2>2. [kind |-> k, id |-> 0] \in Frame
    BY <1>0 DEF Frame
  <2>3. stdout' \in Seq(Frame)
    BY <1>0, <2>1, <2>2, AppendProperties
  <2>4. noise' \in 0..MaxNoise
    BY <1>13 DEF Mcp!Noise, McpTyped, McpAssumption
  <2> QED
    BY <1>13, <2>3, <2>4, SameFrames DEF Mcp!Noise, McpTyped
<1>14. CASE Mcp!ServerExits
  <2>1. stdin' \in Seq(1..nextID)
    BY <1>14, EmptySeq DEF Mcp!ServerExits
  <2> QED
    BY <1>14, <2>1, SameFrames DEF Mcp!ServerExits, McpTyped
<1>15. CASE Mcp!BeginClose \/ Mcp!Notify \/ UNCHANGED Mcp!vars
  BY <1>15, SameFrames DEF Mcp!BeginClose, Mcp!Notify, Mcp!vars, Mcp!serverVars, McpTyped
<1>16. CASE Mcp!Wait
  <2>1. stdin' \in Seq(1..nextID) /\ stdout' \in Seq(Frame)
    BY <1>16, EmptySeq DEF Mcp!Wait
  <2> QED
    BY <1>16, <2>1, SameFrames DEF Mcp!Wait, McpTyped
<1> QED
  BY <1>1, <1>2, <1>4, <1>6, <1>7, <1>8, <1>9, <1>10, <1>11, <1>12, <1>13, <1>14, <1>15, <1>16
  DEF Mcp!Next, Mcp!Requester, Requester

\* A request's return keeps the promises: only an answer to its own id is one.
LEMMA ReturnKeeps ==
  ASSUME McpAssumption, McpTyped, McpPromises, NEW c \in Requester, NEW k, NEW of \in 0..nextID,
         k \in {"result", "error", "write error", "read error", "deadline"},
         lock = c \/ (lock = Nobody /\ pc[c] = "lock"),
         pc[c] \in {"lock", "check", "read"},
         Mcp!Return(c, k, of), UNCHANGED <<id, stdin, working, executed>>,
         Range(stdout') \subseteq Range(stdout),
         k \in Answers => of = id[c] /\ of \in executed,
         k = "write error" => pc[c] = "lock"
  PROVE  McpPromises'
<1>0. OwnIds /\ Unwritten /\ Honest /\ Connecting /\ Mcp!CallsGetTheirAnswers
  BY DEF McpPromises
<1>1. /\ lock' = Nobody /\ got' = [got EXCEPT ![c] = [kind |-> k, of |-> of]]
      /\ pc' = [pc EXCEPT ![c] = pc'[c]] /\ pc'[c] \in {"idle", "done"}
      /\ c # Connect => connected' = connected /\ pc'[c] = "done"
      /\ k # "result" => pc'[c] = "done"
  BY Returns
<1>2. got \in [Requester -> Result]
      /\ pc \in [Requester -> {"idle", "lock", "check", "read", "done"}]
  BY DEF McpTyped
<1>3. /\ got'[c].kind = k /\ got'[c].of = of
      /\ \A d \in Requester \ {c} : got'[d] = got[d] /\ pc'[d] = pc[d]
  BY <1>1, <1>2
<1>4. OwnIds'
  BY <1>0, <1>1, <1>3 DEF OwnIds
<1>5. Unwritten'
  BY <1>0, <1>1, <1>3 DEF Unwritten
<1>6. Honest'
  BY <1>0 DEF Honest
<1>7. Connecting'
  <2>1. CASE c = Connect
    BY <1>1, <2>1 DEF Connecting
  <2>2. CASE c # Connect
    BY <1>0, <1>1, <1>3, <2>2 DEF Connecting, Requester
  <2> QED
    BY <2>1, <2>2
<1>8. ASSUME NEW d \in Requester
      PROVE  /\ got'[d].kind \in Answers /\ pc'[d] = "done" =>
                  got'[d].of = id'[d] /\ id'[d] \in executed'
             /\ got'[d].kind = "write error" => id'[d] \notin executed'
             /\ d # Connect /\ id'[d] # 0 => connected' = "yes"
             /\ lock' = d <=> pc'[d] \in {"check", "read"}
  <2>1. got'[d].kind \in Answers /\ pc'[d] = "done" => got'[d].of = id'[d] /\ id'[d] \in executed'
    BY <1>0, <1>3 DEF Mcp!CallsGetTheirAnswers, Mcp!Requester, Requester, Answers
  <2>2. got'[d].kind = "write error" => id'[d] \notin executed'
    BY <1>5 DEF Unwritten
  <2>3. d # Connect /\ id'[d] # 0 => connected' = "yes"
    <3>1. CASE c = Connect
      <4>1. connected \in {"no", "listing"}
        BY <1>0, <3>1 DEF Connecting
      <4> QED
        BY <1>0, <4>1 DEF Mcp!CallsGetTheirAnswers, Mcp!Requester, Requester
    <3>2. CASE c # Connect
      BY <1>0, <1>1, <3>2 DEF Mcp!CallsGetTheirAnswers, Mcp!Requester, Requester
    <3> QED
      BY <3>1, <3>2
  <2>4. lock' = d <=> pc'[d] \in {"check", "read"}
    <3>1. lock = d <=> pc[d] \in {"check", "read"}
      BY <1>0 DEF Mcp!CallsGetTheirAnswers, Mcp!Requester, Requester
    <3> QED
      BY <1>1, <1>3, <3>1 DEF McpAssumption
  <2> QED
    BY <2>1, <2>2, <2>3, <2>4
<1>9. Mcp!CallsGetTheirAnswers'
  BY <1>8 DEF Mcp!CallsGetTheirAnswers, Mcp!Requester, Requester, Answers
<1> QED
  BY <1>4, <1>5, <1>6, <1>7, <1>9 DEF McpPromises

\* What the pipe and the server do keeps them: an id moves on, and none appears.
LEMMA ServerKeeps ==
  ASSUME McpPromises, UNCHANGED <<connected, pc, id, got, lock>>,
         executed \subseteq executed', Honest',
         (Range(stdin) \cup working \cup executed)' \subseteq
           Range(stdin) \cup working \cup executed
  PROVE  McpPromises'
<1>0. OwnIds /\ Unwritten /\ Honest /\ Connecting /\ Mcp!CallsGetTheirAnswers
  BY DEF McpPromises
<1>1. OwnIds'
  BY <1>0 DEF OwnIds
<1>2. Unwritten'
  BY <1>0 DEF Unwritten
<1>3. Connecting'
  BY <1>0 DEF Connecting
<1>4. Mcp!CallsGetTheirAnswers'
  BY <1>0, <1>2 DEF Mcp!CallsGetTheirAnswers, Mcp!Requester, Requester, Unwritten
<1> QED
  BY <1>1, <1>2, <1>3, <1>4 DEF McpPromises

\* A caller goes to read the next frame, or to look at its deadline again.
LEMMA ReadingKeeps ==
  ASSUME McpTyped, McpPromises, NEW c \in Requester, NEW to \in {"check", "read"},
         pc[c] \in {"check", "read"}, pc' = [pc EXCEPT ![c] = to],
         UNCHANGED <<connected, id, got, lock, stdin, working, executed>>,
         Range(stdout') \subseteq Range(stdout)
  PROVE  McpPromises'
<1>0. /\ OwnIds /\ Unwritten /\ Honest /\ Connecting /\ Mcp!CallsGetTheirAnswers
      /\ pc \in [Requester -> {"idle", "lock", "check", "read", "done"}]
  BY DEF McpPromises, McpTyped
<1>1. OwnIds'
  BY <1>0 DEF OwnIds
<1>2. Unwritten'
  BY <1>0 DEF Unwritten
<1>3. Honest'
  BY <1>0 DEF Honest
<1>4. Connecting'
  BY <1>0 DEF Connecting, Requester
<1>5. Mcp!CallsGetTheirAnswers'
  BY <1>0 DEF Mcp!CallsGetTheirAnswers, Mcp!Requester, Requester
<1> QED
  BY <1>1, <1>2, <1>3, <1>4, <1>5 DEF McpPromises

\* A new request has an id of its own, which nobody has seen.
LEMMA BeginKeeps ==
  ASSUME McpTyped, McpPromises, NEW c \in Requester, Mcp!Begin(c)
  PROVE  McpPromises'
<1>0. /\ OwnIds /\ Unwritten /\ Honest /\ Connecting /\ Mcp!CallsGetTheirAnswers
      /\ pc \in [Requester -> {"idle", "lock", "check", "read", "done"}]
      /\ nextID \in Nat /\ id \in [Requester -> 0..nextID]
  BY DEF McpPromises, McpTyped
<1>1. /\ pc[c] = "idle"
         /\ (IF c = Connect THEN connected \in {"no", "listing"} ELSE connected = "yes")
      /\ id' = [id EXCEPT ![c] = nextID + 1] /\ pc' = [pc EXCEPT ![c] = "lock"]
      /\ UNCHANGED <<connected, got, lock, stdin, working, executed, stdout>>
  BY DEF Mcp!Begin, Mcp!mayAsk, Mcp!serverVars
<1>2. /\ id'[c] = nextID + 1 /\ pc'[c] = "lock"
      /\ \A d \in Requester \ {c} : id'[d] = id[d] /\ pc'[d] = pc[d] /\ id[d] # nextID + 1
  BY <1>0, <1>1
<1>3. OwnIds'
  BY <1>0, <1>2 DEF OwnIds
<1>4. nextID + 1 \notin Range(stdin) \cup working \cup executed
  <2>1. stdin \in Seq(1..nextID) /\ working \subseteq 1..nextID /\ executed \subseteq 1..nextID
    BY DEF McpTyped
  <2>2. \A i \in DOMAIN stdin : stdin[i] \in 1..nextID
    BY <2>1, LenProperties, ElementOfSeq
  <2>3. Range(stdin) \subseteq 1..nextID
    BY <2>2 DEF Range
  <2> QED
    BY <1>0, <2>1, <2>3
<1>5. Unwritten'
  BY <1>0, <1>1, <1>2, <1>4 DEF Unwritten
<1>6. Honest'
  BY <1>0, <1>1 DEF Honest
<1>7. Connecting'
  BY <1>0, <1>1, <1>2 DEF Connecting, Requester
<1>8. ASSUME NEW d \in Requester
      PROVE  /\ got'[d].kind \in Answers /\ pc'[d] = "done" =>
                  got'[d].of = id'[d] /\ id'[d] \in executed'
             /\ got'[d].kind = "write error" => id'[d] \notin executed'
             /\ d # Connect /\ id'[d] # 0 => connected' = "yes"
             /\ lock' = d <=> pc'[d] \in {"check", "read"}
  <2>1. /\ got[d].kind \in Answers /\ pc[d] = "done" => got[d].of = id[d] /\ id[d] \in executed
        /\ d # Connect /\ id[d] # 0 => connected = "yes"
        /\ lock = d <=> pc[d] \in {"check", "read"}
    BY <1>0 DEF Mcp!CallsGetTheirAnswers, Mcp!Requester, Requester, Answers
  <2>2. got'[d].kind = "write error" => id'[d] \notin executed'
    BY <1>5 DEF Unwritten
  <2>3. CASE d = c
    <3>1. pc[d] = "idle" /\ pc'[d] = "lock" /\ lock' = lock /\ connected' = connected
      BY <1>1, <1>2, <2>3
    <3>2. d # Connect => connected = "yes"
      BY <1>1, <2>3
    <3> QED
      BY <2>1, <2>2, <3>1, <3>2
  <2>4. CASE d # c
    <3>1. id'[d] = id[d] /\ pc'[d] = pc[d]
      BY <1>2, <2>4
    <3>2. UNCHANGED <<connected, got, lock, executed>>
      BY <1>1
    <3> QED
      BY <2>1, <2>2, <3>1, <3>2
  <2> QED
    BY <2>3, <2>4
<1>9. Mcp!CallsGetTheirAnswers'
  BY <1>8 DEF Mcp!CallsGetTheirAnswers, Mcp!Requester, Requester, Answers
<1> QED
  BY <1>3, <1>5, <1>6, <1>7, <1>9 DEF McpPromises

\* A request is written: its id goes to the server, and no other's.
LEMMA WriteKeeps ==
  ASSUME McpAssumption, McpTyped, McpPromises, NEW c \in Requester, pc[c] = "lock", lock = Nobody,
         lock' = c, pc' = [pc EXCEPT ![c] = "check"], stdin' = Append(stdin, id[c]),
         UNCHANGED <<connected, got, id, working, executed, stdout>>
  PROVE  McpPromises'
<1>0. /\ OwnIds /\ Unwritten /\ Honest /\ Connecting /\ Mcp!CallsGetTheirAnswers
      /\ pc \in [Requester -> {"idle", "lock", "check", "read", "done"}]
      /\ id \in [Requester -> 0..nextID] /\ stdin \in Seq(1..nextID)
  BY DEF McpPromises, McpTyped
<1>1. id[c] # 0 /\ id[c] \in 1..nextID
  <2>1. OwnIds
    BY <1>0
  <2>2. id[c] # 0
    BY <2>1 DEF OwnIds
  <2>3. id[c] \in 0..nextID
    BY <1>0
  <2> QED
    BY <2>2, <2>3
<1>2. Range(stdin') = Range(stdin) \cup {id[c]}
  <2>1. stdin \in Seq(1..nextID)
    BY <1>0
  <2> DEFINE x == id[c]
             S == 1..nextID
  <2>2. x \in S /\ stdin \in Seq(S)
    BY <1>1, <2>1
  <2> HIDE DEF x, S
  <2>3. Range(Append(stdin, x)) = Range(stdin) \cup {x}
    BY <2>2, RangeGrows
  <2> QED
    BY <2>3 DEF x
<1>3. /\ pc'[c] = "check" /\ \A d \in Requester \ {c} : pc'[d] = pc[d] /\ id[d] # id[c]
  <2>1. pc'[c] = "check" /\ \A d \in Requester \ {c} : pc'[d] = pc[d]
    BY <1>0
  <2>2. \A d \in Requester \ {c} : id[d] # id[c]
    BY <1>0, <1>1 DEF OwnIds
  <2> QED
    BY <2>1, <2>2
<1>4. OwnIds'
  BY <1>0, <1>1, <1>3 DEF OwnIds
<1>5. Unwritten'
  BY <1>0, <1>2, <1>3 DEF Unwritten
<1>6. Honest'
  BY <1>0 DEF Honest
<1>7. Connecting'
  BY <1>0, <1>3 DEF Connecting, Requester
<1>8. ASSUME NEW d \in Requester
      PROVE  /\ got'[d].kind \in Answers /\ pc'[d] = "done" =>
                  got'[d].of = id'[d] /\ id'[d] \in executed'
             /\ got'[d].kind = "write error" => id'[d] \notin executed'
             /\ d # Connect /\ id'[d] # 0 => connected' = "yes"
             /\ lock' = d <=> pc'[d] \in {"check", "read"}
  <2>1. /\ got[d].kind \in Answers /\ pc[d] = "done" => got[d].of = id[d] /\ id[d] \in executed
        /\ d # Connect /\ id[d] # 0 => connected = "yes"
        /\ lock = d <=> pc[d] \in {"check", "read"}
    BY <1>0 DEF Mcp!CallsGetTheirAnswers, Mcp!Requester, Requester, Answers
  <2>2. got'[d].kind = "write error" => id'[d] \notin executed'
    BY <1>5 DEF Unwritten
  <2>3. CASE d = c
    BY <1>3, <2>1, <2>2, <2>3
  <2>4. CASE d # c
    BY <1>3, <2>1, <2>2, <2>4 DEF McpAssumption
  <2> QED
    BY <2>3, <2>4
<1>9. Mcp!CallsGetTheirAnswers'
  BY <1>8 DEF Mcp!CallsGetTheirAnswers, Mcp!Requester, Requester, Answers
<1> QED
  BY <1>4, <1>5, <1>6, <1>7, <1>9 DEF McpPromises

\* Every step keeps the promises.
LEMMA PromisesStep ==
  ASSUME McpAssumption, McpTyped, McpPromises, [Mcp!Next]_(Mcp!vars)
  PROVE  McpPromises'
<1>0. /\ Honest /\ stdout \in Seq(Frame) /\ stdin \in Seq(1..nextID) /\ 0 \in 0..nextID
      /\ \A c \in Requester : lock = c <=> pc[c] \in {"check", "read"}
  <2>1. nextID \in Nat /\ stdout \in Seq(Frame) /\ stdin \in Seq(1..nextID)
    BY DEF McpTyped
  <2>2. Honest /\ Mcp!CallsGetTheirAnswers
    BY DEF McpPromises
  <2>3. 0 \in 0..nextID
    BY <2>1
  <2>4. \A c \in Requester : lock = c <=> pc[c] \in {"check", "read"}
    BY <2>2 DEF Mcp!CallsGetTheirAnswers, Mcp!Requester, Requester
  <2> QED
    BY <2>1, <2>2, <2>3, <2>4
<1>1. ASSUME NEW c \in Requester, Mcp!Begin(c) PROVE McpPromises'
  BY <1>1, BeginKeeps
<1>2. ASSUME NEW c \in Requester, Mcp!Write(c) PROVE McpPromises'
  <2>1. /\ pc[c] = "lock" /\ lock = Nobody /\ UNCHANGED <<id, working, executed, stdout>>
    BY <1>2 DEF Mcp!Write, Mcp!Nobody, Nobody
  <2>2. CASE server = "up" /\ closing \in {"no", "notify"}
    <3>1. /\ lock' = c /\ pc' = [pc EXCEPT ![c] = "check"]
          /\ stdin' = Append(stdin, id[c]) /\ UNCHANGED <<connected, got>>
      BY <1>2, <2>2 DEF Mcp!Write
    <3> QED
      BY <2>1, <3>1, WriteKeeps
  <2>3. CASE ~(server = "up" /\ closing \in {"no", "notify"})
    <3>1. Mcp!Return(c, "write error", 0) /\ UNCHANGED stdin
      BY <1>2, <2>3 DEF Mcp!Write
    <3>2. "write error" \notin Answers
      BY DEF Answers
    <3> QED
      BY <1>0, <2>1, <3>1, <3>2, ReturnKeeps
  <2> QED
    BY <2>2, <2>3
<1>3. ASSUME NEW c \in Requester, NEW k \in {"read error", "deadline"},
             pc[c] \in {"check", "read"}, Mcp!Return(c, k, 0),
             UNCHANGED <<id, Mcp!serverVars>>, Range(stdout') \subseteq Range(stdout)
      PROVE  McpPromises'
  <2>1. k \notin Answers /\ k # "write error" /\ lock = c
    BY <1>0, <1>3 DEF Answers
  <2>2. UNCHANGED <<stdin, working, executed>>
    BY <1>3 DEF Mcp!serverVars
  <2> QED
    BY <1>0, <1>3, <2>1, <2>2, ReturnKeeps
<1>4. ASSUME NEW c \in Requester, Mcp!Check(c) PROVE McpPromises'
  <2>1. pc[c] = "check" /\ UNCHANGED <<id, Mcp!serverVars, stdout>>
    BY <1>4 DEF Mcp!Check
  <2>2. CASE c \in late
    BY <1>3, <1>4, <2>1, <2>2 DEF Mcp!Check
  <2>3. CASE c \notin late
    <3>1. pc' = [pc EXCEPT ![c] = "read"] /\ UNCHANGED <<connected, got, lock>>
      BY <1>4, <2>3 DEF Mcp!Check
    <3> QED
      BY <2>1, <3>1, ReadingKeeps DEF Mcp!serverVars
  <2> QED
    BY <2>2, <2>3
<1>5. ASSUME stdout # <<>>
      PROVE  /\ Head(stdout) \in Frame /\ Head(stdout) \in Range(stdout)
             /\ Range(Tail(stdout)) \subseteq Range(stdout)
  BY <1>0, <1>5, RangeTail
<1>6. ASSUME NEW c \in Requester, Mcp!ReadMine(c) PROVE McpPromises'
  <2>1. /\ pc[c] = "read" /\ stdout # <<>> /\ Head(stdout).kind \in {"result", "error"}
        /\ Head(stdout).id = id[c] /\ stdout' = Tail(stdout)
        /\ Mcp!Return(c, Head(stdout).kind, Head(stdout).id)
        /\ UNCHANGED <<id, stdin, working, executed>>
    BY <1>6 DEF Mcp!ReadMine, Mcp!Mine, Mcp!serverVars
  <2>2. Head(stdout).id \in 0..nextID /\ Head(stdout).id \in executed
    BY <1>0, <1>5, <2>1 DEF Frame, Honest, Answers
  <2>3. lock = c /\ Range(stdout') \subseteq Range(stdout)
    BY <1>0, <1>5, <2>1
  <2> QED
    BY <2>1, <2>2, <2>3, ReturnKeeps
<1>7. ASSUME NEW c \in Requester, Mcp!ReadOther(c) PROVE McpPromises'
  <2>1. /\ pc[c] = "read" /\ stdout # <<>> /\ stdout' = Tail(stdout)
        /\ pc' = [pc EXCEPT ![c] = "check"]
        /\ UNCHANGED <<connected, id, got, lock, stdin, working, executed>>
    BY <1>7 DEF Mcp!ReadOther, Mcp!serverVars
  <2> QED
    BY <1>5, <2>1, ReadingKeeps
<1>8. ASSUME NEW c \in Requester, Mcp!ReadBroken(c) PROVE McpPromises'
  <2>1. PICK n \in 1..2 : stdout' = SubSeq(stdout, n + 1, Len(stdout))
    BY <1>8 DEF Mcp!ReadBroken
  <2>2. n + 1 \in Nat \ {0}
    OBVIOUS
  <2>3. Range(stdout') \subseteq Range(stdout)
    BY <1>0, <2>1, <2>2, RangeRest
  <2>4. pc[c] = "read" /\ Mcp!Return(c, "read error", 0) /\ UNCHANGED <<id, Mcp!serverVars>>
    BY <1>8 DEF Mcp!ReadBroken
  <2> QED
    BY <1>3, <2>3, <2>4
<1>9. ASSUME NEW c \in Requester, Mcp!ReadEOF(c) PROVE McpPromises'
  <2>1. /\ pc[c] = "read" /\ Mcp!Return(c, "read error", 0)
        /\ UNCHANGED <<id, Mcp!serverVars, stdout>>
    BY <1>9 DEF Mcp!ReadEOF
  <2> QED
    BY <1>3, <2>1
<1>10. ASSUME NEW c \in Requester, Mcp!Expire(c) PROVE McpPromises'
  <2>1. UNCHANGED <<connected, pc, id, got, lock, stdin, working, executed, stdout>>
    BY <1>10 DEF Mcp!Expire, Mcp!serverVars
  <2> QED
    BY <1>0, <2>1, ServerKeeps DEF Honest
<1>11. CASE Mcp!TakeRequest
  <2>1. /\ stdin # <<>> /\ stdin' = Tail(stdin) /\ working' = working \cup {Head(stdin)}
        /\ UNCHANGED <<connected, pc, id, got, lock, executed, stdout>>
    BY <1>11 DEF Mcp!TakeRequest
  <2>2. Head(stdin) \in Range(stdin) /\ Range(Tail(stdin)) \subseteq Range(stdin)
    BY <1>0, <2>1, RangeTail
  <2>3. Honest'
    BY <1>0, <2>1 DEF Honest
  <2> QED
    BY <2>1, <2>2, <2>3, ServerKeeps
<1>12. ASSUME NEW i \in working, Mcp!Answer(i) PROVE McpPromises'
  <2>1. PICK k \in {"result", "error"} : stdout' = Append(stdout, [kind |-> k, id |-> i])
    BY <1>12 DEF Mcp!Answer
  <2>2. /\ working' = working \ {i} /\ executed' = executed \cup {i}
        /\ UNCHANGED <<connected, pc, id, got, lock, stdin>>
    BY <1>12 DEF Mcp!Answer
  <2>3. [kind |-> k, id |-> i] \in Frame
    BY DEF Frame, McpTyped
  <2>4. Range(stdout') = Range(stdout) \cup {[kind |-> k, id |-> i]}
    BY <1>0, <2>1, <2>3, RangeGrows
  <2>5. Honest'
    BY <1>0, <2>2, <2>4 DEF Honest
  <2> QED
    BY <2>2, <2>5, ServerKeeps
<1>13. CASE Mcp!Noise
  <2>1. PICK k \in {"note", "broken"} : stdout' = Append(stdout, [kind |-> k, id |-> 0])
    BY <1>13 DEF Mcp!Noise
  <2>2. UNCHANGED <<connected, pc, id, got, lock, stdin, working, executed>>
    BY <1>13 DEF Mcp!Noise
  <2>3. [kind |-> k, id |-> 0] \in Frame
    BY <1>0 DEF Frame
  <2>4. Range(stdout') = Range(stdout) \cup {[kind |-> k, id |-> 0]}
    BY <1>0, <2>1, <2>3, RangeGrows
  <2>5. Honest'
    BY <1>0, <2>2, <2>4 DEF Honest, Answers
  <2> QED
    BY <2>2, <2>5, ServerKeeps
<1>14. CASE Mcp!ServerExits \/ Mcp!Wait
  <2>1. Range(<<>>) = {}
    BY DEF Range
  <2>2. /\ stdin' = <<>> /\ working' = {} /\ (stdout' = stdout \/ stdout' = <<>>)
        /\ UNCHANGED <<connected, pc, id, got, lock, executed>>
    BY <1>14 DEF Mcp!ServerExits, Mcp!Wait
  <2>3. Honest'
    BY <1>0, <2>1, <2>2 DEF Honest
  <2> QED
    BY <2>1, <2>2, <2>3, ServerKeeps
<1>15. CASE Mcp!BeginClose \/ Mcp!Notify \/ UNCHANGED Mcp!vars
  <2>1. UNCHANGED <<connected, pc, id, got, lock, stdin, working, executed, stdout>>
    BY <1>15 DEF Mcp!BeginClose, Mcp!Notify, Mcp!vars, Mcp!serverVars
  <2> QED
    BY <1>0, <2>1, ServerKeeps DEF Honest
<1> QED
  BY <1>1, <1>2, <1>4, <1>6, <1>7, <1>8, <1>9, <1>10, <1>11, <1>12, <1>13, <1>14, <1>15
  DEF Mcp!Next, Mcp!Requester, Requester

\* At first nothing is asked.
LEMMA McpInitial == ASSUME McpAssumption, Mcp!Init PROVE McpTyped /\ McpPromises
<1>0. /\ connected = "no" /\ late = {} /\ nextID = 0 /\ lock = Nobody
      /\ stdin = <<>> /\ working = {} /\ executed = {} /\ stdout = <<>> /\ noise = 0
      /\ server = "up" /\ closing = "no"
      /\ pc = [c \in Requester |-> "idle"] /\ id = [c \in Requester |-> 0]
      /\ got = [c \in Requester |-> [kind |-> "none", of |-> 0]]
  BY DEF Mcp!Init, Mcp!NoResult, Mcp!Requester, Requester, Mcp!Nobody, Nobody
<1>1. [kind |-> "none", of |-> 0] \in Result /\ 0 \in 0..nextID
  BY <1>0 DEF Result
<1>2. stdin \in Seq(1..nextID) /\ stdout \in Seq(Frame)
  BY <1>0, EmptySeq
<1>3. McpTyped
  BY <1>0, <1>1, <1>2 DEF McpTyped, McpAssumption
<1>4. \A c \in Requester : pc[c] = "idle" /\ id[c] = 0 /\ got[c].kind = "none"
  BY <1>0
<1>5. OwnIds /\ Unwritten /\ Connecting
  BY <1>0, <1>4 DEF OwnIds, Unwritten, Connecting, Requester
<1>6. Honest
  BY <1>0 DEF Honest, Range
<1>7. Mcp!CallsGetTheirAnswers
  BY <1>0, <1>4 DEF Mcp!CallsGetTheirAnswers, Mcp!Requester, Requester, McpAssumption
<1> QED
  BY <1>3, <1>5, <1>6, <1>7 DEF McpPromises

\* Every variable of the client and of the pipe keeps its type (stdio_client.go).
THEOREM McpTypes ==
  ASSUME McpAssumption
  PROVE  Mcp!Spec => []Mcp!TypeOK
<1>1. Mcp!Init => McpInv
  BY McpInitial DEF McpInv, McpPromises
<1>2. McpInv /\ [Mcp!Next]_(Mcp!vars) => McpInv'
  BY McpTypesStep, PromisesStep DEF McpInv, McpPromises
<1>3. McpInv => Mcp!TypeOK
  <2>1. ASSUME McpTyped PROVE \A i \in DOMAIN stdout : stdout[i].id \in 0..nextID
    <3>1. \A i \in DOMAIN stdout : stdout[i] \in Frame
      BY <2>1, LenProperties, ElementOfSeq DEF McpTyped
    <3> QED
      BY <3>1 DEF Frame
  <2>2. ASSUME McpTyped PROVE \A c \in Requester : got[c].of \in 0..nextID
    BY <2>2 DEF McpTyped, Result
  <2> QED
    BY <2>1, <2>2 DEF McpInv, McpTyped, Mcp!TypeOK, Mcp!Requester, Requester, Mcp!Nobody, Nobody
<1> QED
  BY <1>1, <1>2, <1>3, PTL DEF Mcp!Spec

\* A call that returns a result returns that of its own request, which the server
\* carried out; one whose request was never written was not carried out; and only
\* the holder of the lock reads (request, readMessageLocked).
THEOREM McpAnswers ==
  ASSUME McpAssumption
  PROVE  Mcp!Spec => []Mcp!CallsGetTheirAnswers
<1>1. Mcp!Init => McpInv
  BY McpInitial DEF McpInv, McpPromises
<1>2. McpInv /\ [Mcp!Next]_(Mcp!vars) => McpInv'
  BY McpTypesStep, PromisesStep DEF McpInv, McpPromises
<1>3. McpInv => Mcp!CallsGetTheirAnswers
  BY DEF McpInv, McpPromises
<1> QED
  BY <1>1, <1>2, <1>3, PTL DEF Mcp!Spec

-----------------------------------------------------------------------------
(* Requests.  The invariant:                                               *)
(*   Waiting  what a request says of itself while it is handled;           *)
(*   Once     a message is in the hands of one post, and has not been run  *)
(*            yet, or was run; unless its id is gone, recent knows it;     *)
(*   Routed   as long as no switch crossed another, or the start of a run, *)
(*            the route is that of the session's model between two         *)
(*            switches, and of the switch's after its first step; and a    *)
(*            switch beside a run is one to the run's own model.           *)

Taken == {"recorded", "stale", "ready", "activate", "apply"}

RequestsAssumption ==
  /\ Post \cap Update = {} /\ "none" \notin Offered
  /\ FirstOffered \in Offered /\ FirstKey \in BOOLEAN /\ IdCap \in Nat \ {0}

Waiting ==
  /\ \A p \in Post : stage[p] # "new" => messageId[p] \in Message
  /\ \A q \in Requests!Request :
       Requests!Switching(q) \/ (q \in Update /\ stage[q] # "new") => target[q] \in Offered
  /\ dialog # "none" => stage[dialog] = "keyless"
  /\ switchedModel \in {"none", sessionModel}
  /\ \A p \in Post : stage[p] = "ready" => switchedModel # "none"

Once ==
  \A m \in Message \ dropped :
    /\ runs[m] <= 1
    /\ runs[m] = 1 => m \in Range(recent)
    /\ \A p \in Post : messageId[p] = m /\ stage[p] \in Taken =>
         /\ runs[m] = 0 /\ m \in Range(recent)
         /\ \A o \in Post : messageId[o] = m /\ stage[o] \in Taken => o = p

Routed ==
  ~crossed =>
    /\ \A q, r \in Requests!Request : Requests!Switching(q) /\ Requests!Switching(r) => q = r
    /\ (\A q \in Requests!Request : stage[q] # "apply") /\ switchedModel # "none" =>
         route = Requests!Side(sessionModel)
    /\ \A q \in Requests!Request : stage[q] = "apply" => route = Requests!Side(target[q])
    /\ running => /\ runModel = sessionModel /\ route = Requests!Side(runModel)
                  /\ \A q \in Requests!Request : Requests!Switching(q) => target[q] = sessionModel

RequestsTyped ==
  /\ recent \in Seq(Message) /\ Len(recent) <= IdCap
  /\ sessionModel \in Offered /\ switchedModel \in Offered \cup {"none"}
  /\ route \in {"local", "cloud"} /\ runModel \in Offered \cup {"none"}
  /\ keyKnown \in BOOLEAN /\ running \in BOOLEAN /\ crossed \in BOOLEAN
  /\ stage \in [Requests!Request -> Requests!Settled \cup {"posted"} \cup Taken]
  /\ target \in [Requests!Request -> Offered \cup {"none"}]
  /\ dialog \in Requests!Request \cup {"none"} /\ messageId \in [Post -> Message \cup {"none"}]
  /\ runs \in [Message -> Nat] /\ dropped \subseteq Message

RequestsInv == RequestsTyped /\ Waiting /\ Once /\ Routed

Stages == Requests!Settled \cup {"posted"} \cup Taken

\* A request goes from one stage to another, and the others stay.
LEMMA Goes ==
  ASSUME stage \in [Requests!Request -> Stages], NEW q \in Requests!Request, NEW to \in Stages,
         Requests!Goto(q, to)
  PROVE  /\ stage' \in [Requests!Request -> Stages] /\ stage'[q] = to
         /\ \A r \in Requests!Request \ {q} : stage'[r] = stage[r]
  BY DEF Requests!Goto

\* An id is kept: the oldest one leaves if there is no room (SeenOrAdd).
LEMMA Remembers ==
  ASSUME RequestsAssumption, RequestsTyped, NEW m \in Message, ~Requests!seen(m),
         recent' = Append(IF Requests!Full THEN Tail(recent) ELSE recent, m),
         dropped' = IF Requests!Full THEN dropped \cup ({Head(recent)} \ {m}) ELSE dropped
  PROVE  /\ recent' \in Seq(Message) /\ Len(recent') <= IdCap /\ dropped' \subseteq Message
         /\ dropped \subseteq dropped' /\ m \in Range(recent')
         /\ \A x \in Range(recent) : x \in Range(recent') \/ x \in dropped'
         /\ m \notin Range(recent)
<1>0. recent \in Seq(Message) /\ Len(recent) \in Nat /\ Len(recent) <= IdCap /\ IdCap \in Nat \ {0}
      /\ dropped \subseteq Message /\ DOMAIN recent = 1..Len(recent)
  BY LenProperties DEF RequestsTyped, RequestsAssumption
<1>1. m \notin Range(recent)
  BY DEF Requests!seen, Range
<1>2. CASE Requests!Full
  <2>1. recent # <<>>
    BY <1>0, <1>2, EmptySeq DEF Requests!Full
  <2>2. /\ Tail(recent) \in Seq(Message) /\ Len(Tail(recent)) = Len(recent) - 1
        /\ Head(recent) \in Message
        /\ \A i \in 1..Len(Tail(recent)) : Tail(recent)[i] = recent[i + 1]
    BY <1>0, <2>1, HeadTailProperties
  <2>3. Head(recent) = recent[1]
    BY <1>0, <2>1
  <2>4. recent' = Append(Tail(recent), m) /\ dropped' = dropped \cup ({Head(recent)} \ {m})
    BY <1>2
  <2>5. recent' \in Seq(Message) /\ Range(recent') = Range(Tail(recent)) \cup {m}
    <3> DEFINE t == Tail(recent)
    <3>1. t \in Seq(Message)
      BY <2>2
    <3> HIDE DEF t
    <3>2. Append(t, m) \in Seq(Message) /\ Range(Append(t, m)) = Range(t) \cup {m}
      BY <3>1, RangeGrows
    <3> QED
      BY <2>4, <3>2 DEF t
  <2>6. Len(recent') = Len(recent)
    <3> DEFINE t == Tail(recent)
    <3>1. t \in Seq(Message) /\ Len(t) = Len(recent) - 1
      BY <2>2
    <3> HIDE DEF t
    <3>2. Len(Append(t, m)) = Len(t) + 1
      BY <3>1, AppendProperties
    <3>3. Len(Append(t, m)) = Len(recent)
      BY <1>0, <3>1, <3>2
    <3> QED
      BY <2>4, <3>3 DEF t
  <2>7. ASSUME NEW x \in Range(recent) PROVE x = Head(recent) \/ x \in Range(Tail(recent))
    <3>1. PICK i \in 1..Len(recent) : x = recent[i]
      BY <1>0, <2>7 DEF Range
    <3>2. CASE i = 1
      BY <2>3, <3>1, <3>2
    <3>3. CASE i # 1
      <4>1. i - 1 \in 1..Len(Tail(recent)) /\ (i - 1) + 1 = i
        BY <1>0, <2>2, <3>3
      <4>2. Tail(recent)[i - 1] = x
        BY <2>2, <3>1, <4>1
      <4>3. DOMAIN Tail(recent) = 1..Len(Tail(recent))
        BY <2>2, LenProperties
      <4> QED
        BY <4>1, <4>2, <4>3 DEF Range
    <3> QED
      BY <3>2, <3>3
  <2> QED
    BY <1>0, <1>1, <2>2, <2>4, <2>5, <2>6, <2>7
<1>3. CASE ~Requests!Full
  <2>1. recent' = Append(recent, m) /\ dropped' = dropped
    BY <1>3
  <2>2. recent' \in Seq(Message) /\ Range(recent') = Range(recent) \cup {m}
    <3>1. Append(recent, m) \in Seq(Message) /\ Range(Append(recent, m)) = Range(recent) \cup {m}
      BY <1>0, RangeGrows
    <3> QED
      BY <2>1, <3>1
  <2>3. Len(recent') = Len(recent) + 1 /\ Len(recent) # IdCap
    <3>1. Len(Append(recent, m)) = Len(recent) + 1
      BY <1>0, AppendProperties
    <3> QED
      BY <1>3, <2>1, <3>1 DEF Requests!Full
  <2>4. Len(recent') <= IdCap
    <3>1. \A a, b \in Nat : a <= b /\ a # b => a + 1 <= b
      OBVIOUS
    <3>2. Len(recent) \in Nat /\ IdCap \in Nat /\ Len(recent) <= IdCap
      BY <1>0
    <3>3. Len(recent) + 1 <= IdCap
      BY <2>3, <3>1, <3>2
    <3> QED
      BY <2>3, <3>3
  <2>5. dropped' \subseteq Message /\ dropped \subseteq dropped' /\ m \in Range(recent')
    BY <1>0, <2>1, <2>2
  <2>6. \A x \in Range(recent) : x \in Range(recent')
    BY <2>2
  <2> QED
    BY <1>1, <2>2, <2>4, <2>5, <2>6
<1> QED
  BY <1>2, <1>3

\* The next post to be sent is a post.
LEMMA Posts ==
  ASSUME NEW p, NEW m, Requests!Send(p, m)
  PROVE  /\ p \in Post /\ stage[p] = "new" /\ messageId' = [messageId EXCEPT ![p] = m]
         /\ Requests!Goto(p, "posted")
         /\ UNCHANGED <<recent, sessionModel, switchedModel, route, keyKnown, running, runModel,
                        dialog, runs, dropped, crossed, target>>
  BY DEF Requests!Send, Requests!serverVars, Requests!history

\* Every step keeps the types.
LEMMA RequestsTypesStep ==
  ASSUME RequestsAssumption, RequestsTyped, Waiting, [Requests!Next]_(Requests!vars)
  PROVE  RequestsTyped'
<1> USE DEF Requests!serverVars, Requests!pageVars, Requests!history
<1>0. stage \in [Requests!Request -> Stages] /\ Post \cup Update = Requests!Request
  BY DEF RequestsTyped, Stages, Requests!Request
<1>1. /\ {"posted", "duplicate", "recorded", "ready", "stale", "activate", "conflict", "queued",
          "keyless", "failed", "apply", "set"} \subseteq Stages
  BY DEF Stages, Requests!Settled, Taken
<1>2. ASSUME NEW q \in Requests!Request, NEW to \in Stages, Requests!Goto(q, to)
      PROVE  stage' \in [Requests!Request -> Stages]
  BY <1>0, <1>2, Goes
<1>3. ASSUME stage' \in [Requests!Request -> Stages],
             UNCHANGED <<recent, sessionModel, switchedModel, route, keyKnown, running, runModel,
                         dialog, messageId, runs, dropped, target>>, crossed' \in BOOLEAN
      PROVE  RequestsTyped'
  BY <1>3 DEF RequestsTyped, Stages
<1>4. ASSUME NEW p \in Post, NEW m \in Message, Requests!Send(p, m) PROVE RequestsTyped'
  <2>1. stage' \in [Requests!Request -> Stages]
    BY <1>0, <1>1, <1>2, <1>4, Posts
  <2> QED
    BY <1>4, <2>1, Posts DEF RequestsTyped, Stages
<1>5. ASSUME NEW p \in Post, Requests!SeenOrAdd(p) PROVE RequestsTyped'
  <2>1. /\ stage[p] = "posted"
        /\ UNCHANGED <<sessionModel, switchedModel, route, keyKnown, running, runModel, dialog,
                       messageId, runs, crossed, target>>
    BY <1>5 DEF Requests!SeenOrAdd
  <2>2. messageId[p] \in Message
    BY <2>1 DEF Waiting
  <2>3. stage' \in [Requests!Request -> Stages]
    BY <1>0, <1>1, <1>2, <1>5 DEF Requests!SeenOrAdd
  <2>4. recent' \in Seq(Message) /\ Len(recent') <= IdCap /\ dropped' \subseteq Message
    <3>1. CASE Requests!seen(messageId[p])
      BY <1>5, <3>1 DEF Requests!SeenOrAdd, RequestsTyped
    <3>2. CASE ~Requests!seen(messageId[p])
      BY <1>5, <2>2, <3>2, Remembers DEF Requests!SeenOrAdd
    <3> QED
      BY <3>1, <3>2
  <2> QED
    BY <2>1, <2>3, <2>4 DEF RequestsTyped, Stages
<1>6. ASSUME NEW p \in Post, Requests!CheckModel(p) PROVE RequestsTyped'
  BY <1>0, <1>1, <1>2, <1>3, <1>6 DEF Requests!CheckModel, RequestsTyped
<1>7. ASSUME NEW p \in Post, Requests!ReadModel(p) PROVE RequestsTyped'
  <2>1. stage' \in [Requests!Request -> Stages]
    BY <1>0, <1>1, <1>2, <1>7 DEF Requests!ReadModel
  <2>2. crossed' \in BOOLEAN
    BY <1>7 DEF Requests!ReadModel
  <2> QED
    BY <1>7, <2>1, <2>2 DEF Requests!ReadModel, RequestsTyped, Stages
<1>8. ASSUME NEW p \in Post, Requests!StartRun(p) PROVE RequestsTyped'
  <2>1. stage' \in [Requests!Request -> Stages]
    BY <1>0, <1>1, <1>2, <1>8 DEF Requests!StartRun
  <2>2. messageId[p] \in Message
    BY <1>8 DEF Requests!StartRun, Waiting
  <2>3. /\ crossed' \in BOOLEAN /\ running' \in BOOLEAN /\ runModel' \in Offered \cup {"none"}
        /\ runs' \in [Message -> Nat]
    <3>1. CASE running
      BY <1>8, <3>1 DEF Requests!StartRun, RequestsTyped
    <3>2. CASE ~running
      <4>1. /\ running' = TRUE /\ runModel' = sessionModel /\ crossed' \in BOOLEAN
            /\ runs' = [runs EXCEPT ![messageId[p]] = @ + 1]
        BY <1>8, <3>2 DEF Requests!StartRun
      <4> QED
        BY <2>2, <4>1 DEF RequestsTyped
    <3> QED
      BY <3>1, <3>2
  <2> QED
    BY <1>8, <2>1, <2>3 DEF Requests!StartRun, RequestsTyped, Stages
<1>9. ASSUME NEW u \in Update, NEW model \in Offered, Requests!Choose(u, model) PROVE RequestsTyped'
  <2>1. stage' \in [Requests!Request -> Stages]
    BY <1>0, <1>1, <1>2, <1>9 DEF Requests!Choose
  <2> QED
    BY <1>9, <2>1 DEF Requests!Choose, RequestsTyped, Stages
<1>10. ASSUME NEW u \in Update, Requests!CheckIdle(u) PROVE RequestsTyped'
  <2>1. stage' \in [Requests!Request -> Stages]
    BY <1>0, <1>1, <1>2, <1>10 DEF Requests!CheckIdle
  <2>2. crossed' \in BOOLEAN
    BY <1>10 DEF Requests!CheckIdle
  <2> QED
    BY <1>3, <1>10, <2>1, <2>2 DEF Requests!CheckIdle
<1>11. ASSUME NEW q \in Requests!Request, Requests!NeedKey(q) PROVE RequestsTyped'
  <2>1. stage' \in [Requests!Request -> Stages]
    BY <1>0, <1>1, <1>2, <1>11 DEF Requests!NeedKey
  <2> QED
    BY <1>11, <2>1 DEF Requests!NeedKey, RequestsTyped, Stages
<1>12. ASSUME NEW q \in Requests!Request, Requests!FailActivate(q) PROVE RequestsTyped'
  <2>1. stage' \in [Requests!Request -> Stages]
    BY <1>0, <1>1, <1>2, <1>12 DEF Requests!FailActivate
  <2> QED
    BY <1>12, <2>1 DEF Requests!FailActivate, RequestsTyped, Stages
<1>13. ASSUME NEW q \in Requests!Request, Requests!SwitchRuntime(q) PROVE RequestsTyped'
  <2>1. stage' \in [Requests!Request -> Stages]
    BY <1>0, <1>1, <1>2, <1>13 DEF Requests!SwitchRuntime
  <2> QED
    BY <1>13, <2>1 DEF Requests!SwitchRuntime, Requests!Side, RequestsTyped, Stages
<1>14. ASSUME NEW q \in Requests!Request, Requests!ApplyActivation(q) PROVE RequestsTyped'
  <2>1. stage' \in [Requests!Request -> Stages]
    BY <1>0, <1>1, <1>2, <1>14 DEF Requests!ApplyActivation
  <2>2. target[q] \in Offered
    BY <1>14 DEF Requests!ApplyActivation, Waiting, Requests!Switching
  <2> QED
    BY <1>14, <2>1, <2>2 DEF Requests!ApplyActivation, RequestsTyped, Stages
<1>15. CASE Requests!SaveKey
  <2>1. stage' \in [Requests!Request -> Stages]
    BY <1>0, <1>1, <1>2, <1>15 DEF Requests!SaveKey, RequestsTyped
  <2> QED
    BY <1>15, <2>1 DEF Requests!SaveKey, RequestsTyped, Stages
<1>16. CASE Requests!CancelKey
  BY <1>16 DEF Requests!CancelKey, RequestsTyped
<1>17. CASE Requests!FinishRun \/ UNCHANGED Requests!vars
  BY <1>17 DEF Requests!FinishRun, Requests!vars, RequestsTyped
<1> QED
  BY <1>4, <1>5, <1>6, <1>7, <1>8, <1>9, <1>10, <1>11, <1>12, <1>13, <1>14, <1>15, <1>16, <1>17
  DEF Requests!Next

\* What one request's move leaves of what the requests say of themselves.
LEMMA WaitingKeeps ==
  ASSUME stage \in [Requests!Request -> Stages], Waiting,
         NEW q \in Requests!Request, NEW to \in Stages, Requests!Goto(q, to),
         q \in Post => messageId'[q] \in Message,
         \A p \in Post \ {q} : messageId'[p] = messageId[p],
         \A r \in Requests!Request \ {q} : target'[r] = target[r],
         to \in {"activate", "apply"} \/ q \in Update => target'[q] \in Offered,
         dialog' # "none" => (dialog' = q /\ to = "keyless") \/ (dialog' = dialog /\ dialog # q),
         dialog \in Requests!Request \cup {"none"},
         switchedModel' \in {"none", sessionModel'},
         switchedModel # "none" => switchedModel' # "none",
         q \in Post /\ to = "ready" => switchedModel' # "none"
  PROVE  Waiting'
<1>1. stage'[q] = to /\ \A r \in Requests!Request \ {q} : stage'[r] = stage[r]
  BY Goes
<1>2. Post \subseteq Requests!Request /\ Update \subseteq Requests!Request
  BY DEF Requests!Request
<1>3. ASSUME NEW p \in Post, stage'[p] # "new" PROVE messageId'[p] \in Message
  BY <1>1, <1>2, <1>3 DEF Waiting
<1>4. ASSUME NEW r \in Requests!Request,
             stage'[r] \in {"activate", "apply"} \/ (r \in Update /\ stage'[r] # "new")
      PROVE  target'[r] \in Offered
  BY <1>1, <1>4 DEF Waiting, Requests!Switching
<1>5. dialog' # "none" => stage'[dialog'] = "keyless"
  BY <1>1 DEF Waiting
<1>6. ASSUME NEW p \in Post, stage'[p] = "ready" PROVE switchedModel' # "none"
  BY <1>1, <1>2, <1>6 DEF Waiting
<1> QED
  BY <1>3, <1>4, <1>5, <1>6 DEF Waiting, Requests!Switching

\* Every step leaves them true.
LEMMA WaitingStep ==
  ASSUME RequestsAssumption, RequestsTyped, Waiting, [Requests!Next]_(Requests!vars)
  PROVE  Waiting'
<1> USE DEF Requests!serverVars, Requests!pageVars, Requests!history
<1>0. /\ stage \in [Requests!Request -> Stages] /\ Post \cup Update = Requests!Request
      /\ Post \cap Update = {}
      /\ dialog \in Requests!Request \cup {"none"} /\ switchedModel \in {"none", sessionModel}
      /\ messageId \in [Post -> Message \cup {"none"}]
      /\ target \in [Requests!Request -> Offered \cup {"none"}] /\ "none" \notin Offered
      /\ sessionModel \in Offered
  BY DEF RequestsTyped, RequestsAssumption, Waiting, Stages, Requests!Request
<1>1. /\ {"posted", "duplicate", "recorded", "ready", "stale", "activate", "conflict", "queued",
          "keyless", "failed", "apply", "set"} \subseteq Stages
  BY DEF Stages, Requests!Settled, Taken
<1>2. /\ \A p \in Post : stage[p] # "new" => messageId[p] \in Message
      /\ \A q \in Requests!Request : stage[q] \in {"activate", "apply"} => target[q] \in Offered
      /\ \A q \in Update : stage[q] # "new" => target[q] \in Offered
      /\ dialog # "none" => stage[dialog] = "keyless"
  BY <1>0 DEF Waiting, Requests!Switching
\* A request moves, and nothing else that is said of it changes.
<1>3. ASSUME NEW q \in Requests!Request, NEW to \in Stages \ {"new", "ready"}, Requests!Goto(q, to),
             stage[q] \notin {"new", "keyless"},
             to \in {"activate", "apply"} => q \in Update \/ stage[q] = "activate",
             UNCHANGED <<messageId, target, dialog, sessionModel, switchedModel>>
      PROVE  Waiting'
  <2>1. q \in Post => messageId'[q] \in Message
    BY <1>2, <1>3
  <2>2. to \in {"activate", "apply"} \/ q \in Update => target'[q] \in Offered
    BY <1>2, <1>3
  <2>3. dialog # "none" => dialog # q
    BY <1>2, <1>3
  <2> QED
    BY <1>0, <1>3, <2>1, <2>2, <2>3, WaitingKeeps
<1>4. ASSUME NEW p \in Post, NEW m \in Message, Requests!Send(p, m) PROVE Waiting'
  <2>1. /\ stage[p] = "new" /\ messageId' = [messageId EXCEPT ![p] = m]
         /\ Requests!Goto(p, "posted")
        /\ UNCHANGED <<sessionModel, switchedModel, dialog, target>>
    BY <1>4, Posts
  <2>2. messageId'[p] \in Message /\ \A o \in Post \ {p} : messageId'[o] = messageId[o]
    BY <1>0, <2>1
  <2>3. (dialog # "none" => dialog # p) /\ p \in Requests!Request /\ p \notin Update
    BY <1>0, <1>2, <2>1
  <2> QED
    BY <1>0, <1>1, <2>1, <2>2, <2>3, WaitingKeeps
<1>5. ASSUME NEW p \in Post, Requests!SeenOrAdd(p) PROVE Waiting'
  BY <1>0, <1>1, <1>3, <1>5 DEF Requests!SeenOrAdd
<1>6. ASSUME NEW p \in Post, Requests!CheckModel(p) PROVE Waiting'
  <2>1. CASE Requests!modelSwitchCurrent
    <3>1. /\ stage[p] = "recorded" /\ Requests!Goto(p, "ready") /\ switchedModel # "none"
          /\ UNCHANGED <<messageId, target, dialog, sessionModel, switchedModel>>
      BY <1>6, <2>1 DEF Requests!CheckModel, Requests!modelSwitchCurrent
    <3>2. messageId'[p] \in Message /\ (dialog # "none" => dialog # p) /\ p \in Requests!Request
          /\ p \notin Update
      BY <1>0, <1>2, <3>1
    <3> QED
      BY <1>0, <1>1, <3>1, <3>2, WaitingKeeps
  <2>2. CASE ~Requests!modelSwitchCurrent
    BY <1>0, <1>1, <1>3, <1>6, <2>2 DEF Requests!CheckModel
  <2> QED
    BY <2>1, <2>2
<1>7. ASSUME NEW p \in Post, Requests!ReadModel(p) PROVE Waiting'
  <2>1. /\ stage[p] = "stale" /\ Requests!Goto(p, "activate")
        /\ target' = [target EXCEPT ![p] = sessionModel]
        /\ UNCHANGED <<messageId, dialog, sessionModel, switchedModel>>
    BY <1>7 DEF Requests!ReadModel
  <2>2. /\ messageId'[p] \in Message /\ (dialog # "none" => dialog # p) /\ p \in Requests!Request
        /\ target'[p] \in Offered /\ \A r \in Requests!Request \ {p} : target'[r] = target[r]
    BY <1>0, <1>2, <2>1
  <2> QED
    BY <1>0, <1>1, <2>1, <2>2, WaitingKeeps
<1>8. ASSUME NEW p \in Post, Requests!StartRun(p) PROVE Waiting'
  BY <1>0, <1>1, <1>3, <1>8 DEF Requests!StartRun
<1>9. ASSUME NEW u \in Update, NEW model \in Offered, Requests!Choose(u, model) PROVE Waiting'
  <2>1. /\ stage[u] = "new" /\ Requests!Goto(u, "posted") /\ target' = [target EXCEPT ![u] = model]
        /\ UNCHANGED <<messageId, dialog, sessionModel, switchedModel>>
    BY <1>9 DEF Requests!Choose
  <2>2. /\ (dialog # "none" => dialog # u) /\ u \in Requests!Request /\ u \notin Post
        /\ target'[u] \in Offered /\ \A r \in Requests!Request \ {u} : target'[r] = target[r]
    BY <1>0, <1>2, <2>1
  <2> QED
    BY <1>0, <1>1, <2>1, <2>2, WaitingKeeps
<1>10. ASSUME NEW u \in Update, Requests!CheckIdle(u) PROVE Waiting'
  BY <1>0, <1>1, <1>3, <1>10 DEF Requests!CheckIdle
<1>11. ASSUME NEW q \in Requests!Request, Requests!NeedKey(q) PROVE Waiting'
  <2>1. /\ stage[q] = "activate" /\ Requests!Goto(q, "keyless") /\ dialog' = q
        /\ UNCHANGED <<messageId, target, sessionModel, switchedModel>>
    BY <1>11 DEF Requests!NeedKey
  <2>2. target'[q] \in Offered /\ (q \in Post => messageId'[q] \in Message)
    BY <1>2, <2>1
  <2> QED
    BY <1>0, <1>1, <2>1, <2>2, WaitingKeeps
<1>12. ASSUME NEW q \in Requests!Request, Requests!FailActivate(q) PROVE Waiting'
  BY <1>0, <1>1, <1>3, <1>12 DEF Requests!FailActivate
<1>13. ASSUME NEW q \in Requests!Request, Requests!SwitchRuntime(q) PROVE Waiting'
  BY <1>0, <1>1, <1>3, <1>13 DEF Requests!SwitchRuntime
<1>14. ASSUME NEW q \in Requests!Request, Requests!ApplyActivation(q) PROVE Waiting'
  <2>1. /\ stage[q] = "apply" /\ Requests!Goto(q, IF q \in Post THEN "ready" ELSE "set")
        /\ sessionModel' = target[q] /\ switchedModel' = target[q]
        /\ UNCHANGED <<messageId, target, dialog>>
    BY <1>14 DEF Requests!ApplyActivation
  <2>2. /\ target'[q] \in Offered /\ (q \in Post => messageId'[q] \in Message)
        /\ (dialog # "none" => dialog # q) /\ switchedModel' # "none"
        /\ switchedModel' = sessionModel'
    BY <1>0, <1>2, <2>1
  <2>3. CASE q \in Post
    BY <1>0, <1>1, <2>1, <2>2, <2>3, WaitingKeeps
  <2>4. CASE q \notin Post
    BY <1>0, <1>1, <2>1, <2>2, <2>4, WaitingKeeps
  <2> QED
    BY <2>3, <2>4
<1>15. CASE Requests!SaveKey
  <2>1. /\ dialog # "none" /\ dialog' = "none" /\ Requests!Goto(dialog, "posted")
        /\ UNCHANGED <<messageId, target, sessionModel, switchedModel>>
    BY <1>15 DEF Requests!SaveKey
  <2>2. /\ dialog \in Requests!Request /\ stage[dialog] = "keyless"
    BY <1>0, <1>2, <2>1
  <2>3. /\ dialog \in Post => messageId'[dialog] \in Message
        /\ dialog \in Update => target'[dialog] \in Offered
    BY <1>2, <2>1, <2>2
  <2> QED
    BY <1>0, <1>1, <2>1, <2>2, <2>3, WaitingKeeps
<1>16. CASE Requests!CancelKey \/ Requests!FinishRun \/ UNCHANGED Requests!vars
  BY <1>16 DEF Requests!CancelKey, Requests!FinishRun, Requests!vars, Waiting, Requests!Switching
<1> QED
  BY <1>4, <1>5, <1>6, <1>7, <1>8, <1>9, <1>10, <1>11, <1>12, <1>13, <1>14, <1>15, <1>16
  DEF Requests!Next

\* A step that takes up no post, and neither runs a message nor forgets an id.
LEMMA OnceStays ==
  ASSUME Once, UNCHANGED <<recent, runs, dropped>>,
         \A p \in Post : stage'[p] \in Taken => stage[p] \in Taken /\ messageId'[p] = messageId[p]
  PROVE  Once'
  BY DEF Once

\* A message is run once, as long as its id is kept (allowMessageID, startRun).
LEMMA OnceStep ==
  ASSUME RequestsAssumption, RequestsTyped, Waiting, Once, [Requests!Next]_(Requests!vars)
  PROVE  Once'
<1> USE DEF Requests!serverVars, Requests!pageVars, Requests!history
<1>0. /\ stage \in [Requests!Request -> Stages] /\ Post \cup Update = Requests!Request
      /\ Post \cap Update = {}
      /\ dialog \in Requests!Request \cup {"none"} /\ messageId \in [Post -> Message \cup {"none"}]
      /\ runs \in [Message -> Nat]
  BY DEF RequestsTyped, RequestsAssumption, Stages, Requests!Request
<1>1. /\ {"posted", "duplicate", "recorded", "ready", "stale", "activate", "conflict", "queued",
          "keyless", "failed", "apply", "set"} \subseteq Stages
  BY DEF Stages, Requests!Settled, Taken
<1>2. ASSUME NEW q \in Requests!Request, NEW to \in Stages, Requests!Goto(q, to),
             q \in Update \/ to \notin Taken \/ stage[q] \in Taken,
             UNCHANGED <<messageId, recent, runs, dropped>>
      PROVE  Once'
  <2>1. stage'[q] = to /\ \A r \in Requests!Request \ {q} : stage'[r] = stage[r]
    BY <1>0, <1>2, Goes
  <2>2. \A p \in Post : stage'[p] \in Taken => stage[p] \in Taken
    BY <1>0, <1>2, <2>1
  <2> QED
    BY <1>2, <2>2, OnceStays
<1>3. ASSUME NEW p \in Post, NEW m \in Message, Requests!Send(p, m) PROVE Once'
  <2>1. /\ messageId' = [messageId EXCEPT ![p] = m] /\ Requests!Goto(p, "posted")
        /\ UNCHANGED <<recent, runs, dropped>> /\ p \in Requests!Request
    BY <1>0, <1>3, Posts
  <2>2. stage'[p] = "posted" /\ \A r \in Requests!Request \ {p} : stage'[r] = stage[r]
    BY <1>0, <1>1, <2>1, Goes
  <2>3. \A o \in Post : stage'[o] \in Taken => stage[o] \in Taken /\ messageId'[o] = messageId[o]
    BY <1>0, <2>1, <2>2 DEF Taken
  <2> QED
    BY <2>1, <2>3, OnceStays
<1>4. ASSUME NEW p \in Post, Requests!SeenOrAdd(p) PROVE Once'
  <2>1. p \in Requests!Request /\ stage[p] = "posted" /\ messageId[p] \in Message
        /\ UNCHANGED <<messageId, runs>>
    BY <1>0, <1>4 DEF Requests!SeenOrAdd, Waiting
  <2>2. CASE Requests!seen(messageId[p])
    <3>1. Requests!Goto(p, "duplicate") /\ UNCHANGED <<recent, dropped>>
      BY <1>4, <2>2 DEF Requests!SeenOrAdd
    <3>2. "duplicate" \notin Taken
      BY DEF Taken
    <3> QED
      BY <1>1, <1>2, <2>1, <3>1, <3>2
  <2>3. CASE ~Requests!seen(messageId[p])
    <3> DEFINE m == messageId[p]
    <3>1. /\ Requests!Goto(p, "recorded")
          /\ recent' = Append(IF Requests!Full THEN Tail(recent) ELSE recent, m)
          /\ dropped' = IF Requests!Full THEN dropped \cup ({Head(recent)} \ {m}) ELSE dropped
      BY <1>4, <2>3 DEF Requests!SeenOrAdd
    <3>2. /\ dropped \subseteq dropped' /\ m \in Range(recent') /\ m \notin Range(recent)
          /\ \A x \in Range(recent) : x \in Range(recent') \/ x \in dropped'
      BY <2>1, <2>3, <3>1, Remembers
    <3>3. stage'[p] = "recorded" /\ \A o \in Post \ {p} : stage'[o] = stage[o]
      BY <1>0, <1>1, <2>1, <3>1, Goes
    <3>4. ASSUME NEW x \in Message \ dropped', x # m
          PROVE  /\ runs'[x] <= 1 /\ (runs'[x] = 1 => x \in Range(recent'))
                 /\ \A o \in Post : messageId'[o] = x /\ stage'[o] \in Taken =>
                      /\ runs'[x] = 0 /\ x \in Range(recent')
                      /\ \A r \in Post : messageId'[r] = x /\ stage'[r] \in Taken => r = o
      BY <2>1, <3>2, <3>3, <3>4 DEF Once
    <3>5. ASSUME m \notin dropped'
          PROVE  /\ runs'[m] = 0
                 /\ \A o \in Post : messageId'[o] = m /\ stage'[o] \in Taken => o = p
      <4>1. runs[m] <= 1 /\ runs[m] # 1 /\ runs[m] \in Nat
        BY <1>0, <2>1, <3>2, <3>5 DEF Once
      <4>2. \A o \in Post : messageId[o] = m => stage[o] \notin Taken
        BY <2>1, <3>2, <3>5 DEF Once
      <4> QED
        BY <2>1, <3>3, <4>1, <4>2
    <3> QED
      BY <2>1, <3>2, <3>4, <3>5 DEF Once
  <2> QED
    BY <2>2, <2>3
<1>5. ASSUME NEW p \in Post, Requests!CheckModel(p) PROVE Once'
  BY <1>0, <1>1, <1>2, <1>5 DEF Requests!CheckModel, Taken
<1>6. ASSUME NEW p \in Post, Requests!ReadModel(p) PROVE Once'
  BY <1>0, <1>1, <1>2, <1>6 DEF Requests!ReadModel, Taken
<1>7. ASSUME NEW p \in Post, Requests!StartRun(p) PROVE Once'
  <2>0. p \in Requests!Request /\ stage[p] = "ready" /\ messageId[p] \in Message
        /\ UNCHANGED <<messageId, recent, dropped>> /\ stage[p] \in Taken
    BY <1>0, <1>7 DEF Requests!StartRun, Waiting, Taken
  <2>1. CASE running
    BY <1>0, <1>1, <1>2, <1>7, <2>0, <2>1 DEF Requests!StartRun
  <2>2. CASE ~running
    <3> DEFINE m == messageId[p]
    <3>1. Requests!Goto(p, "queued") /\ runs' = [runs EXCEPT ![m] = @ + 1]
      BY <1>7, <2>2 DEF Requests!StartRun
    <3>2. stage'[p] = "queued" /\ \A o \in Post \ {p} : stage'[o] = stage[o]
      BY <1>0, <1>1, <2>0, <3>1, Goes
    <3>3. runs'[m] = runs[m] + 1 /\ \A x \in Message \ {m} : runs'[x] = runs[x]
      BY <1>0, <2>0, <3>1
    <3>4. ASSUME NEW x \in Message \ dropped', x # m
          PROVE  /\ runs'[x] <= 1 /\ (runs'[x] = 1 => x \in Range(recent'))
                 /\ \A o \in Post : messageId'[o] = x /\ stage'[o] \in Taken =>
                      /\ runs'[x] = 0 /\ x \in Range(recent')
                      /\ \A r \in Post : messageId'[r] = x /\ stage'[r] \in Taken => r = o
      BY <2>0, <3>2, <3>3, <3>4 DEF Once
    <3>5. ASSUME m \notin dropped'
          PROVE  /\ runs'[m] = 1 /\ m \in Range(recent')
                 /\ \A o \in Post : messageId'[o] = m => stage'[o] \notin Taken
      <4>1. runs[m] = 0 /\ m \in Range(recent)
            /\ \A o \in Post : messageId[o] = m /\ stage[o] \in Taken => o = p
        BY <2>0, <3>5 DEF Once
      <4> QED
        BY <2>0, <3>2, <3>3, <4>1 DEF Taken
    <3> QED
      BY <2>0, <3>4, <3>5 DEF Once
  <2> QED
    BY <2>1, <2>2
<1>8. ASSUME NEW u \in Update, NEW model \in Offered, Requests!Choose(u, model) PROVE Once'
  BY <1>0, <1>1, <1>2, <1>8 DEF Requests!Choose
<1>9. ASSUME NEW u \in Update, Requests!CheckIdle(u) PROVE Once'
  BY <1>0, <1>1, <1>2, <1>9 DEF Requests!CheckIdle
<1>10. ASSUME NEW q \in Requests!Request,
              \/ Requests!NeedKey(q) \/ Requests!FailActivate(q)
              \/ Requests!SwitchRuntime(q) \/ Requests!ApplyActivation(q)
       PROVE  Once'
  <2>1. stage[q] \in Taken /\ UNCHANGED <<messageId, recent, runs, dropped>>
    BY <1>10 DEF Requests!NeedKey, Requests!FailActivate, Requests!SwitchRuntime,
       Requests!ApplyActivation, Taken
  <2>2. \E to \in Stages : Requests!Goto(q, to)
    BY <1>1, <1>10 DEF Requests!NeedKey, Requests!FailActivate, Requests!SwitchRuntime,
       Requests!ApplyActivation
  <2> QED
    BY <1>2, <2>1, <2>2
<1>11. CASE Requests!SaveKey
  <2>1. /\ dialog \in Requests!Request /\ Requests!Goto(dialog, "posted") /\ "posted" \notin Taken
        /\ UNCHANGED <<messageId, recent, runs, dropped>>
    BY <1>0, <1>11 DEF Requests!SaveKey, Taken
  <2> QED
    BY <1>1, <1>2, <2>1
<1>12. CASE Requests!CancelKey \/ Requests!FinishRun \/ UNCHANGED Requests!vars
  BY <1>12, OnceStays DEF Requests!CancelKey, Requests!FinishRun, Requests!vars
<1> QED
  BY <1>3, <1>4, <1>5, <1>6, <1>7, <1>8, <1>9, <1>10, <1>11, <1>12 DEF Requests!Next

\* A request's move that begins, goes on with and ends no switch changes no route.
LEMMA RoutedStays ==
  ASSUME stage \in [Requests!Request -> Stages], Routed,
         NEW q \in Requests!Request, NEW to \in Stages, Requests!Goto(q, to),
         stage[q] # "apply", to \notin {"activate", "apply"},
         \A r \in Requests!Request \ {q} : target'[r] = target[r],
         UNCHANGED <<route, sessionModel, switchedModel, running, runModel, crossed>>
  PROVE  Routed'
<1>1. stage'[q] = to /\ \A r \in Requests!Request \ {q} : stage'[r] = stage[r]
  BY Goes
<1>2. \A r \in Requests!Request : Requests!Switching(r)' => r # q /\ Requests!Switching(r)
  BY <1>1 DEF Requests!Switching
<1>3. \A r \in Requests!Request : stage'[r] = "apply" <=> stage[r] = "apply"
  BY <1>1
<1>4. \A r \in Requests!Request : stage'[r] = "apply" => target'[r] = target[r]
  BY <1>1
<1> QED
  BY <1>2, <1>3, <1>4 DEF Routed, Requests!Side

\* Every step keeps the route true, unless switches, or a switch and the start of
\* a run, cross.
LEMMA RoutedStep ==
  ASSUME RequestsAssumption, RequestsTyped, Waiting, Routed, [Requests!Next]_(Requests!vars)
  PROVE  Routed'
<1> USE DEF Requests!serverVars, Requests!pageVars, Requests!history
<1>0. /\ stage \in [Requests!Request -> Stages] /\ Post \cup Update = Requests!Request
      /\ dialog \in Requests!Request \cup {"none"}
      /\ target \in [Requests!Request -> Offered \cup {"none"}]
      /\ crossed \in BOOLEAN /\ running \in BOOLEAN
  BY DEF RequestsTyped, Stages, Requests!Request
<1>1. /\ {"posted", "duplicate", "recorded", "ready", "stale", "activate", "conflict", "queued",
          "keyless", "failed", "apply", "set"} \subseteq Stages
  BY DEF Stages, Requests!Settled, Taken
<1>2. ASSUME NEW q \in Requests!Request, NEW to \in Stages, Requests!Goto(q, to),
             stage[q] # "apply", to \notin {"activate", "apply"},
             UNCHANGED <<target, route, sessionModel, switchedModel, running, runModel, crossed>>
      PROVE  Routed'
  BY <1>0, <1>2, RoutedStays
<1>3. ASSUME NEW p \in Post, NEW m \in Message, Requests!Send(p, m) PROVE Routed'
  <2>1. /\ stage[p] = "new" /\ Requests!Goto(p, "posted") /\ p \in Requests!Request
        /\ UNCHANGED <<target, route, sessionModel, switchedModel, running, runModel, crossed>>
    BY <1>0, <1>3, Posts
  <2> QED
    BY <1>1, <1>2, <2>1
<1>4. ASSUME NEW p \in Post, Requests!SeenOrAdd(p) \/ Requests!CheckModel(p) PROVE Routed'
  <2>1. \E to \in {"duplicate", "recorded", "ready", "stale"} : Requests!Goto(p, to)
    BY <1>4 DEF Requests!SeenOrAdd, Requests!CheckModel
  <2>2. /\ stage[p] # "apply" /\ p \in Requests!Request
        /\ UNCHANGED <<target, route, sessionModel, switchedModel, running, runModel, crossed>>
    BY <1>0, <1>4 DEF Requests!SeenOrAdd, Requests!CheckModel
  <2> QED
    BY <1>1, <1>2, <2>1, <2>2
\* A switch begins.
<1>5. ASSUME NEW q \in Requests!Request, Requests!Goto(q, "activate"), stage[q] # "apply",
             crossed' = (crossed \/ \E r \in Requests!Request \ {q} : Requests!Switching(r)),
             \A r \in Requests!Request \ {q} : target'[r] = target[r],
             running => target'[q] = sessionModel,
             UNCHANGED <<route, sessionModel, switchedModel, running, runModel>>
      PROVE  Routed'
  <2>1. stage'[q] = "activate" /\ \A r \in Requests!Request \ {q} : stage'[r] = stage[r]
    BY <1>0, <1>1, <1>5, Goes
  <2>2. SUFFICES ASSUME ~crossed' PROVE Routed'
    BY DEF Routed
  <2>3. ~crossed /\ \A r \in Requests!Request \ {q} : ~Requests!Switching(r)
    BY <1>0, <1>5, <2>2
  <2>4. \A r \in Requests!Request : Requests!Switching(r)' => r = q
    BY <2>1, <2>3 DEF Requests!Switching
  <2>5. \A r \in Requests!Request : stage'[r] # "apply" /\ stage[r] # "apply"
    BY <1>5, <2>1, <2>3 DEF Requests!Switching
  <2> QED
    BY <1>5, <2>3, <2>4, <2>5 DEF Routed, Requests!Side
<1>6. ASSUME NEW p \in Post, Requests!ReadModel(p) PROVE Routed'
  <2>1. /\ p \in Requests!Request /\ stage[p] = "stale" /\ Requests!Goto(p, "activate")
        /\ target' = [target EXCEPT ![p] = sessionModel]
        /\ crossed' = (crossed \/ \E r \in Requests!Request \ {p} : Requests!Switching(r))
        /\ UNCHANGED <<route, sessionModel, switchedModel, running, runModel>>
    BY <1>0, <1>6 DEF Requests!ReadModel
  <2>2. target'[p] = sessionModel /\ \A r \in Requests!Request \ {p} : target'[r] = target[r]
    BY <1>0, <2>1
  <2> QED
    BY <1>5, <2>1, <2>2
<1>7. ASSUME NEW p \in Post, Requests!StartRun(p) PROVE Routed'
  <2>1. /\ p \in Requests!Request /\ stage[p] = "ready"
        /\ UNCHANGED <<target, route, sessionModel, switchedModel>>
    BY <1>0, <1>7 DEF Requests!StartRun
  <2>2. CASE running
    BY <1>1, <1>2, <1>7, <2>1, <2>2 DEF Requests!StartRun
  <2>3. CASE ~running
    <3>1. /\ runModel' = sessionModel /\ Requests!Goto(p, "queued")
          /\ crossed' = (crossed \/ \E r \in Requests!Request : Requests!Switching(r))
      BY <1>7, <2>3 DEF Requests!StartRun
    <3>2. SUFFICES ASSUME ~crossed' PROVE Routed'
      BY DEF Routed
    <3>3. ~crossed /\ \A r \in Requests!Request : ~Requests!Switching(r)
      BY <1>0, <3>1, <3>2
    <3>4. stage'[p] = "queued" /\ \A r \in Requests!Request \ {p} : stage'[r] = stage[r]
      BY <1>0, <1>1, <2>1, <3>1, Goes
    <3>5. \A r \in Requests!Request :
           /\ ~Requests!Switching(r)'
           /\ stage[r] # "apply" /\ stage'[r] # "apply"
      BY <3>3, <3>4 DEF Requests!Switching
    <3>6. switchedModel # "none"
      BY <1>7, <2>1 DEF Waiting
    <3>7. route = Requests!Side(sessionModel)
      BY <3>3, <3>5, <3>6 DEF Routed
    <3> QED
      BY <2>1, <3>1, <3>5, <3>7 DEF Routed, Requests!Side
  <2> QED
    BY <2>2, <2>3
<1>8. ASSUME NEW u \in Update, NEW model \in Offered, Requests!Choose(u, model) PROVE Routed'
  <2>1. /\ u \in Requests!Request /\ stage[u] = "new" /\ Requests!Goto(u, "posted")
        /\ target' = [target EXCEPT ![u] = model]
        /\ UNCHANGED <<route, sessionModel, switchedModel, running, runModel, crossed>>
    BY <1>0, <1>8 DEF Requests!Choose
  <2>2. \A r \in Requests!Request \ {u} : target'[r] = target[r]
    BY <1>0, <2>1
  <2> QED
    BY <1>0, <1>1, <2>1, <2>2, RoutedStays
<1>9. ASSUME NEW u \in Update, Requests!CheckIdle(u) PROVE Routed'
  <2>1. /\ u \in Requests!Request /\ stage[u] = "posted"
        /\ UNCHANGED <<target, route, sessionModel, switchedModel, running, runModel>>
    BY <1>0, <1>9 DEF Requests!CheckIdle
  <2>2. CASE running
    <3>1. Requests!Goto(u, "conflict") /\ UNCHANGED crossed
      BY <1>0, <1>9, <2>2 DEF Requests!CheckIdle, Requests!mayChange
    <3> QED
      BY <1>1, <1>2, <2>1, <3>1
  <2>3. CASE ~running
    <3>1. /\ Requests!Goto(u, "activate")
          /\ crossed' = (crossed \/ \E r \in Requests!Request \ {u} : Requests!Switching(r))
      BY <1>9, <2>3 DEF Requests!CheckIdle, Requests!mayChange
    <3> QED
      BY <1>5, <2>1, <2>3, <3>1
  <2> QED
    BY <2>2, <2>3
<1>10. ASSUME NEW q \in Requests!Request, Requests!NeedKey(q) \/ Requests!FailActivate(q)
       PROVE  Routed'
  <2>1. \E to \in {"keyless", "failed"} : Requests!Goto(q, to)
    BY <1>10 DEF Requests!NeedKey, Requests!FailActivate
  <2>2. /\ stage[q] # "apply"
        /\ UNCHANGED <<target, route, sessionModel, switchedModel, running, runModel, crossed>>
    BY <1>10 DEF Requests!NeedKey, Requests!FailActivate
  <2> QED
    BY <1>1, <1>2, <2>1, <2>2
<1>11. ASSUME NEW q \in Requests!Request, Requests!SwitchRuntime(q) PROVE Routed'
  <2>1. /\ stage[q] = "activate" /\ route' = Requests!Side(target[q]) /\ Requests!Goto(q, "apply")
        /\ UNCHANGED <<target, sessionModel, switchedModel, running, runModel, crossed>>
    BY <1>11 DEF Requests!SwitchRuntime
  <2>2. stage'[q] = "apply" /\ \A r \in Requests!Request \ {q} : stage'[r] = stage[r]
    BY <1>0, <1>1, <2>1, Goes
  <2>3. SUFFICES ASSUME ~crossed PROVE Routed'
    BY <2>1 DEF Routed
  <2>4. Requests!Switching(q) /\ \A r \in Requests!Request : Requests!Switching(r) => r = q
    BY <2>1, <2>3 DEF Routed, Requests!Switching
  <2>5. \A r \in Requests!Request : Requests!Switching(r)' => r = q
    BY <2>2, <2>4 DEF Requests!Switching
  <2>6. running => runModel = sessionModel /\ target[q] = sessionModel
    BY <2>3, <2>4 DEF Routed
  <2>7. \A r \in Requests!Request : stage'[r] = "apply" => r = q
    BY <2>5 DEF Requests!Switching
  <2> QED
    BY <2>1, <2>2, <2>5, <2>6, <2>7 DEF Routed, Requests!Side
<1>12. ASSUME NEW q \in Requests!Request, Requests!ApplyActivation(q) PROVE Routed'
  <2>1. /\ stage[q] = "apply" /\ sessionModel' = target[q] /\ switchedModel' = target[q]
        /\ UNCHANGED <<target, route, running, runModel, crossed>>
        /\ Requests!Goto(q, IF q \in Post THEN "ready" ELSE "set")
    BY <1>12 DEF Requests!ApplyActivation
  <2>2. stage'[q] \in {"ready", "set"} /\ \A r \in Requests!Request \ {q} : stage'[r] = stage[r]
    BY <1>0, <1>1, <2>1, Goes
  <2>3. SUFFICES ASSUME ~crossed PROVE Routed'
    BY <2>1 DEF Routed
  <2>4. Requests!Switching(q) /\ \A r \in Requests!Request : Requests!Switching(r) => r = q
    BY <2>1, <2>3 DEF Routed, Requests!Switching
  <2>5. \A r \in Requests!Request : ~Requests!Switching(r)' /\ stage'[r] # "apply"
    BY <2>2, <2>4 DEF Requests!Switching
  <2>6. route = Requests!Side(target[q])
    BY <2>1, <2>3 DEF Routed
  <2>7. running => runModel = sessionModel /\ target[q] = sessionModel
         /\ route = Requests!Side(runModel)
    BY <2>3, <2>4 DEF Routed
  <2> QED
    BY <2>1, <2>5, <2>6, <2>7 DEF Routed, Requests!Side
<1>13. CASE Requests!SaveKey
  <2>1. /\ dialog \in Requests!Request /\ stage[dialog] = "keyless"
         /\ Requests!Goto(dialog, "posted")
        /\ UNCHANGED <<target, route, sessionModel, switchedModel, running, runModel, crossed>>
    BY <1>0, <1>13 DEF Requests!SaveKey, Waiting
  <2> QED
    BY <1>1, <1>2, <2>1
<1>14. CASE Requests!CancelKey \/ UNCHANGED Requests!vars
  BY <1>14 DEF Requests!CancelKey, Requests!vars, Routed, Requests!Side, Requests!Switching
<1>15. CASE Requests!FinishRun
  BY <1>15 DEF Requests!FinishRun, Routed, Requests!Side, Requests!Switching
<1> QED
  BY <1>3, <1>4, <1>6, <1>7, <1>8, <1>9, <1>10, <1>11, <1>12, <1>13, <1>14, <1>15
  DEF Requests!Next

\* At first no request has been made.
LEMMA RequestsInitial == ASSUME RequestsAssumption, Requests!Init PROVE RequestsInv
<1>0. /\ \A q \in Requests!Request : stage[q] = "new"
      /\ \A m \in Message : runs[m] = 0
      /\ recent = <<>> /\ dropped = {} /\ dialog = "none" /\ crossed = FALSE /\ running = FALSE
      /\ switchedModel = "none" /\ sessionModel = FirstOffered
  BY DEF Requests!Init
<1>1. RequestsTyped
  <2>1. recent \in Seq(Message) /\ Len(recent) = 0
    BY <1>0, EmptySeq
  <2>2. /\ stage \in [Requests!Request -> Requests!Settled \cup {"posted"} \cup Taken]
        /\ target \in [Requests!Request -> Offered \cup {"none"}]
        /\ messageId \in [Post -> Message \cup {"none"}] /\ runs \in [Message -> Nat]
    BY DEF Requests!Init, Requests!Settled
  <2>3. route \in {"local", "cloud"} /\ runModel \in Offered \cup {"none"} /\ keyKnown \in BOOLEAN
    BY DEF Requests!Init, RequestsAssumption
  <2>4. /\ dropped \subseteq Message /\ dialog \in Requests!Request \cup {"none"}
        /\ running \in BOOLEAN /\ crossed \in BOOLEAN
        /\ sessionModel \in Offered /\ switchedModel \in Offered \cup {"none"}
    BY <1>0 DEF RequestsAssumption
  <2>5. Len(recent) <= IdCap
    BY <2>1 DEF RequestsAssumption
  <2> QED
    BY <2>1, <2>2, <2>3, <2>4, <2>5 DEF RequestsTyped
<1>2. Post \subseteq Requests!Request
  BY DEF Requests!Request
<1>3. Waiting
  BY <1>0, <1>2 DEF Waiting, Requests!Switching, Requests!Request
<1>4. Once
  BY <1>0, <1>2 DEF Once, Taken
<1>5. Routed
  BY <1>0 DEF Routed, Requests!Switching
<1> QED
  BY <1>1, <1>3, <1>4, <1>5 DEF RequestsInv

\* Every step keeps the invariant.
LEMMA RequestsInductive ==
  ASSUME RequestsAssumption, RequestsInv, [Requests!Next]_(Requests!vars)
  PROVE  RequestsInv'
  BY RequestsTypesStep, WaitingStep, OnceStep, RoutedStep DEF RequestsInv

\* Every variable of a session's requests keeps its type (handler.go, session.go).
THEOREM RequestsTypes ==
  ASSUME RequestsAssumption
  PROVE  Requests!Spec => []Requests!TypeOK
<1>1. Requests!Init => RequestsInv
  BY RequestsInitial
<1>2. RequestsInv /\ [Requests!Next]_(Requests!vars) => RequestsInv'
  BY RequestsInductive
<1>3. RequestsInv => Requests!TypeOK
  BY DEF RequestsInv, RequestsTyped, Requests!TypeOK, Taken
<1> QED
  BY <1>1, <1>2, <1>3, PTL DEF Requests!Spec

\* A message is run a second time only after its id has been pushed out by newer
\* ones, and a run's requests go where its model is, unless a switch crossed
\* another switch or the start of a run (RecentIDs, handlePostMessage,
\* handleUpdateModel).
THEOREM RequestsAsAsked ==
  ASSUME RequestsAssumption
  PROVE  Requests!Spec => []Requests!RequestsRunAsAsked
<1>1. Requests!Init => RequestsInv
  BY RequestsInitial
<1>2. RequestsInv /\ [Requests!Next]_(Requests!vars) => RequestsInv'
  BY RequestsInductive
<1>3. RequestsInv => Requests!RequestsRunAsAsked
  <2>1. ASSUME RequestsInv PROVE Requests!IdsRunOnce
    <3>1. \A m \in Message \ dropped : runs[m] <= 1 /\ runs[m] \in Nat
      BY <2>1 DEF RequestsInv, Once, RequestsTyped
    <3> QED
      BY <3>1 DEF Requests!IdsRunOnce
  <2>2. ASSUME RequestsInv PROVE Requests!RunsReachTheirModel
    BY <2>2 DEF RequestsInv, Routed, RequestsTyped, Requests!RunsReachTheirModel
  <2> QED
    BY <2>1, <2>2 DEF Requests!RequestsRunAsAsked
<1> QED
  BY <1>1, <1>2, <1>3, PTL DEF Requests!Spec

-----------------------------------------------------------------------------
(* Slots.  Whoever removes a session, a slot is neither lost nor given back *)
(* twice.  That only finitely many slots are in use at a time is part of    *)
(* the invariant:                                                           *)
(*   SlotsTyped     types, program counters included, and who has a session *)
(*                  in hand;                                                *)
(*   SessionsKnown  a session is stopped before it is removed, and a        *)
(*                  registered one exists;                                  *)
(*   Counted        the count, over finite sets.                            *)

CreatePcs == {"new", "recheck", "reused", "acquire", "again", "building", "chosen", "marked",
              "missed", "stopped", "removed", "refused", "failed", "created"}
DeletePcs == {"new", "found", "stopped", "removed", "done"}
SweepPcs  == {"waiting", "looking", "stopped", "removed"}

\* Types, and what a remover has in hand.
SlotsTyped ==
  /\ Slots!TypeOK
  /\ pcC \in [Create -> CreatePcs] /\ pcD \in [Delete -> DeletePcs] /\ pcW \in SweepPcs
  /\ \A c \in Create : pcC[c] \in {"chosen", "marked", "stopped"} => victim[c] \in Session
  /\ \A d \in Delete : pcD[d] \in {"found", "stopped"} => doomed[d] \in Session

\* A remover stops its session before it removes it.
SessionsKnown ==
  /\ \A s \in registered \cup busySessions : state[s] # "none"
  /\ \A s \in Session : state[s] # "none" => s \in registered \cup stopped
  /\ \A c \in Create : pcC[c] = "stopped" => victim[c] \in stopped
  /\ \A d \in Delete : pcD[d] = "stopped" => doomed[d] \in stopped
  /\ pcW = "stopped" => prey \in stopped

\* Requests that hold a slot of a session not registered, or no longer so.
Creating == {c \in Create : pcC[c] \in {"building", "removed"}}
Deleting == {d \in Delete : pcD[d] = "removed"}

Counted ==
  /\ IsFiniteSet(registered) /\ IsFiniteSet(Creating) /\ IsFiniteSet(Deleting)
  /\ used = Cardinality(registered) + Cardinality(Creating) + Cardinality(Deleting)
               + (IF pcW = "removed" THEN 1 ELSE 0)
  /\ used <= MaxSessions

SlotsInv == SlotsTyped /\ SessionsKnown /\ Counted

-----------------------------------------------------------------------------
\* The initial values have their types, and nobody has a session in hand.
LEMMA SlotsInitial == Slots!Init => SlotsTyped /\ SessionsKnown
  BY DEF Slots!Init, SlotsTyped, Slots!TypeOK, SessionsKnown, CreatePcs, DeletePcs, SweepPcs,
       Slots!MaxAttempts, Slots!Nobody

\* Every variable keeps its type, and who stops or removes has what to.
LEMMA SlotsTypesStep ==
  ASSUME SlotsTyped, [Slots!Next]_(Slots!vars)
  PROVE  SlotsTyped'
<1> USE DEF SlotsTyped, Slots!TypeOK, CreatePcs, DeletePcs, SweepPcs, Slots!MaxAttempts,
            Slots!sessionVars, Slots!createVars, Slots!deleteVars, Slots!sweepVars
<1>1. ASSUME NEW c \in Create, Slots!ReuseBlank(c) PROVE SlotsTyped'
  BY <1>1 DEF Slots!ReuseBlank, Slots!GoC
<1>2. ASSUME NEW c \in Create, Slots!RecheckBlank(c) PROVE SlotsTyped'
  BY <1>2 DEF Slots!RecheckBlank, Slots!GoC
<1>3. ASSUME NEW c \in Create, Slots!WantNew(c) PROVE SlotsTyped'
  BY <1>3 DEF Slots!WantNew, Slots!GoC
<1>4. ASSUME NEW c \in Create, Slots!TakeSlot(c) PROVE SlotsTyped'
  BY <1>4 DEF Slots!TakeSlot, Slots!GoC, Slots!AcquireSession
<1>5. ASSUME NEW c \in Create, Slots!ChooseVictim(c) PROVE SlotsTyped'
  BY <1>5 DEF Slots!ChooseVictim, Slots!GoC, Slots!AcquireSession, Slots!Evictable
<1>6. ASSUME NEW c \in Create, Slots!LimitReached(c) PROVE SlotsTyped'
  BY <1>6 DEF Slots!LimitReached, Slots!GoC, Slots!AcquireSession, Slots!Evictable
<1>7. ASSUME NEW c \in Create, Slots!MarkClosing(c) PROVE SlotsTyped'
  BY <1>7 DEF Slots!MarkClosing, Slots!GoC, Slots!Evictable
<1>8. ASSUME NEW c \in Create, Slots!ChooseAgain(c) PROVE SlotsTyped'
  BY <1>8 DEF Slots!ChooseAgain, Slots!GoC, Slots!Evictable
<1>9. ASSUME NEW c \in Create, Slots!StopVictim(c) PROVE SlotsTyped'
  BY <1>9 DEF Slots!StopVictim, Slots!GoC, Slots!stop
<1>10. ASSUME NEW c \in Create, Slots!RemoveVictim(c) PROVE SlotsTyped'
  BY <1>10 DEF Slots!RemoveVictim, Slots!GoC, Slots!remove, Slots!Removed
<1>11. ASSUME NEW c \in Create, Slots!ReleaseVictim(c) PROVE SlotsTyped'
  BY <1>11 DEF Slots!ReleaseVictim, Slots!GoC, Slots!ReleaseSession
<1>12. ASSUME NEW c \in Create, Slots!BuildFails(c) PROVE SlotsTyped'
  BY <1>12 DEF Slots!BuildFails, Slots!GoC, Slots!ReleaseSession
<1>13. ASSUME NEW c \in Create, Slots!Register(c) PROVE SlotsTyped'
  BY <1>13 DEF Slots!Register, Slots!GoC
<1>14. ASSUME NEW d \in Delete, Slots!FindTarget(d) PROVE SlotsTyped'
  BY <1>14 DEF Slots!FindTarget, Slots!GoD
<1>15. ASSUME NEW d \in Delete, Slots!StopTarget(d) PROVE SlotsTyped'
  BY <1>15 DEF Slots!StopTarget, Slots!GoD, Slots!stop
<1>16. ASSUME NEW d \in Delete, Slots!RemoveTarget(d) PROVE SlotsTyped'
  BY <1>16 DEF Slots!RemoveTarget, Slots!GoD, Slots!remove, Slots!Removed
<1>17. ASSUME NEW d \in Delete, Slots!ReleaseTarget(d) PROVE SlotsTyped'
  BY <1>17 DEF Slots!ReleaseTarget, Slots!GoD, Slots!ReleaseSession
<1>18. CASE Slots!Sweep
  BY <1>18 DEF Slots!Sweep, Slots!GoW
<1>19. CASE Slots!RemovePrey
  BY <1>19 DEF Slots!RemovePrey, Slots!GoW, Slots!remove, Slots!Removed, Slots!Back
<1>20. CASE Slots!ReleasePrey
  BY <1>20 DEF Slots!ReleasePrey, Slots!GoW, Slots!ReleaseSession, Slots!Back
<1>21. ASSUME NEW s \in Session, Slots!SweepOne(s) PROVE SlotsTyped'
  BY <1>21 DEF Slots!SweepOne, Slots!GoW, Slots!stop
<1>22. ASSUME NEW s \in Session, Slots!StartRun(s) PROVE SlotsTyped'
  BY <1>22 DEF Slots!StartRun
<1>23. ASSUME NEW s \in Session, Slots!EndRun(s) PROVE SlotsTyped'
  BY <1>23 DEF Slots!EndRun
<1>24. ASSUME NEW s \in Session, Slots!Attach(s) PROVE SlotsTyped'
  BY <1>24 DEF Slots!Attach
<1>25. ASSUME NEW s \in Session, Slots!Detach(s) PROVE SlotsTyped'
  BY <1>25 DEF Slots!Detach
<1>26. CASE UNCHANGED Slots!vars
  BY <1>26 DEF Slots!vars
<1> QED
  BY <1>1, <1>2, <1>3, <1>4, <1>5, <1>6, <1>7, <1>8, <1>9, <1>10, <1>11, <1>12,
     <1>13, <1>14, <1>15, <1>16, <1>17, <1>18, <1>19, <1>20, <1>21, <1>22, <1>23, <1>24,
     <1>25, <1>26
     DEF Slots!Next, Slots!CreateStep, Slots!DeleteStep, Slots!SweepStep, Slots!Use

\* Sessions stay stopped, and removers stop before they remove.
LEMMA KnownStep ==
  ASSUME SlotsTyped, SessionsKnown, [Slots!Next]_(Slots!vars)
  PROVE  SessionsKnown'
<1> USE DEF SlotsTyped, Slots!TypeOK, SessionsKnown, Slots!sessionVars, Slots!createVars,
            Slots!deleteVars, Slots!sweepVars
<1>1. ASSUME NEW c \in Create, Slots!ReuseBlank(c) PROVE SessionsKnown'
  BY <1>1 DEF Slots!ReuseBlank, Slots!GoC
<1>2. ASSUME NEW c \in Create, Slots!RecheckBlank(c) PROVE SessionsKnown'
  BY <1>2 DEF Slots!RecheckBlank, Slots!GoC
<1>3. ASSUME NEW c \in Create, Slots!WantNew(c) PROVE SessionsKnown'
  BY <1>3 DEF Slots!WantNew, Slots!GoC
<1>4. ASSUME NEW c \in Create, Slots!TakeSlot(c) PROVE SessionsKnown'
  BY <1>4 DEF Slots!TakeSlot, Slots!GoC, Slots!AcquireSession
<1>5. ASSUME NEW c \in Create, Slots!ChooseVictim(c) PROVE SessionsKnown'
  BY <1>5 DEF Slots!ChooseVictim, Slots!GoC, Slots!AcquireSession, Slots!Evictable
<1>6. ASSUME NEW c \in Create, Slots!LimitReached(c) PROVE SessionsKnown'
  BY <1>6 DEF Slots!LimitReached, Slots!GoC, Slots!AcquireSession, Slots!Evictable
<1>7. ASSUME NEW c \in Create, Slots!MarkClosing(c) PROVE SessionsKnown'
  BY <1>7 DEF Slots!MarkClosing, Slots!GoC, Slots!Evictable
<1>8. ASSUME NEW c \in Create, Slots!ChooseAgain(c) PROVE SessionsKnown'
  BY <1>8 DEF Slots!ChooseAgain, Slots!GoC, Slots!Evictable
<1>9. ASSUME NEW c \in Create, Slots!StopVictim(c) PROVE SessionsKnown'
  BY <1>9 DEF Slots!StopVictim, Slots!GoC, Slots!stop
<1>10. ASSUME NEW c \in Create, Slots!RemoveVictim(c) PROVE SessionsKnown'
  BY <1>10 DEF Slots!RemoveVictim, Slots!GoC, Slots!remove, Slots!Removed
<1>11. ASSUME NEW c \in Create, Slots!ReleaseVictim(c) PROVE SessionsKnown'
  BY <1>11 DEF Slots!ReleaseVictim, Slots!GoC, Slots!ReleaseSession
<1>12. ASSUME NEW c \in Create, Slots!BuildFails(c) PROVE SessionsKnown'
  BY <1>12 DEF Slots!BuildFails, Slots!GoC, Slots!ReleaseSession
<1>13. ASSUME NEW c \in Create, Slots!Register(c) PROVE SessionsKnown'
  BY <1>13 DEF Slots!Register, Slots!GoC
<1>14. ASSUME NEW d \in Delete, Slots!FindTarget(d) PROVE SessionsKnown'
  BY <1>14 DEF Slots!FindTarget, Slots!GoD
<1>15. ASSUME NEW d \in Delete, Slots!StopTarget(d) PROVE SessionsKnown'
  BY <1>15 DEF Slots!StopTarget, Slots!GoD, Slots!stop
<1>16. ASSUME NEW d \in Delete, Slots!RemoveTarget(d) PROVE SessionsKnown'
  BY <1>16 DEF Slots!RemoveTarget, Slots!GoD, Slots!remove, Slots!Removed
<1>17. ASSUME NEW d \in Delete, Slots!ReleaseTarget(d) PROVE SessionsKnown'
  BY <1>17 DEF Slots!ReleaseTarget, Slots!GoD, Slots!ReleaseSession
<1>18. CASE Slots!Sweep
  BY <1>18 DEF Slots!Sweep, Slots!GoW
<1>19. CASE Slots!RemovePrey
  BY <1>19 DEF Slots!RemovePrey, Slots!GoW, Slots!remove, Slots!Removed, Slots!Back
<1>20. CASE Slots!ReleasePrey
  BY <1>20 DEF Slots!ReleasePrey, Slots!GoW, Slots!ReleaseSession, Slots!Back
<1>21. ASSUME NEW s \in Session, Slots!SweepOne(s) PROVE SessionsKnown'
  BY <1>21 DEF Slots!SweepOne, Slots!GoW, Slots!stop
<1>22. ASSUME NEW s \in Session, Slots!StartRun(s) PROVE SessionsKnown'
  BY <1>22 DEF Slots!StartRun
<1>23. ASSUME NEW s \in Session, Slots!EndRun(s) PROVE SessionsKnown'
  BY <1>23 DEF Slots!EndRun
<1>24. ASSUME NEW s \in Session, Slots!Attach(s) PROVE SessionsKnown'
  BY <1>24 DEF Slots!Attach
<1>25. ASSUME NEW s \in Session, Slots!Detach(s) PROVE SessionsKnown'
  BY <1>25 DEF Slots!Detach
<1>26. CASE UNCHANGED Slots!vars
  BY <1>26 DEF Slots!vars
<1> QED
  BY <1>1, <1>2, <1>3, <1>4, <1>5, <1>6, <1>7, <1>8, <1>9, <1>10, <1>11, <1>12,
     <1>13, <1>14, <1>15, <1>16, <1>17, <1>18, <1>19, <1>20, <1>21, <1>22, <1>23, <1>24,
     <1>25, <1>26
     DEF Slots!Next, Slots!CreateStep, Slots!DeleteStep, Slots!SweepStep, Slots!Use

-----------------------------------------------------------------------------
\* A set that one element joins, leaves, or both stays finite; how its number of
\* elements changes.
LEMMA OneMore ==
  ASSUME NEW S, IsFiniteSet(S), NEW x, x \notin S
  PROVE  /\ IsFiniteSet(S \cup {x})
         /\ Cardinality(S \cup {x}) = Cardinality(S) + 1
         /\ Cardinality(S) \in Nat
  BY FS_AddElement, FS_CardinalityType

\* The set without one of its elements.
LEMMA OneLess ==
  ASSUME NEW S, IsFiniteSet(S), NEW x, x \in S
  PROVE  /\ IsFiniteSet(S \ {x})
         /\ Cardinality(S \ {x}) = Cardinality(S) - 1
         /\ Cardinality(S) \in Nat \ {0}
<1>1. Cardinality(S) # 0
  BY FS_EmptySet
<1> QED
  BY <1>1, FS_RemoveElement, FS_CardinalityType

\* The requests with a slot in hand, after a create or a delete moved on.
LEMMA CreateMoves ==
  ASSUME SlotsTyped, NEW c \in Create, NEW to, Slots!GoC(c, to)
  PROVE  /\ Creating' = IF to \in {"building", "removed"} THEN Creating \cup {c}
                                                       ELSE Creating \ {c}
         /\ Deleting' = Deleting
         /\ pcW' = pcW
         /\ c \in Creating <=> pcC[c] \in {"building", "removed"}
<1> USE DEF SlotsTyped, Slots!GoC, Creating, Deleting, Slots!deleteVars, Slots!sweepVars
<1>1. \A x \in Create : pcC'[x] = IF x = c THEN to ELSE pcC[x]
  OBVIOUS
<1> QED
  BY <1>1

\* The same after a step of a delete.
LEMMA DeleteMoves ==
  ASSUME SlotsTyped, NEW d \in Delete, NEW to, Slots!GoD(d, to)
  PROVE  /\ Deleting' = IF to = "removed" THEN Deleting \cup {d} ELSE Deleting \ {d}
         /\ Creating' = Creating
         /\ pcW' = pcW
         /\ d \in Deleting <=> pcD[d] = "removed"
<1> USE DEF SlotsTyped, Slots!GoD, Creating, Deleting, Slots!createVars, Slots!sweepVars
<1>1. \A x \in Delete : pcD'[x] = IF x = d THEN to ELSE pcD[x]
  OBVIOUS
<1> QED
  BY <1>1

\* A step of the sweeper moves nobody else.
LEMMA SweepMoves ==
  ASSUME NEW to, Slots!GoW(to)
  PROVE  Creating' = Creating /\ Deleting' = Deleting /\ pcW' = to
  BY DEF Slots!GoW, Creating, Deleting, Slots!createVars, Slots!deleteVars

-----------------------------------------------------------------------------
\* A step that moves no slot keeps the count.
LEMMA NoSlotMoves ==
  ASSUME Counted, Creating' = Creating, Deleting' = Deleting,
         used' = used, registered' = registered, pcW = "removed" <=> pcW' = "removed"
  PROVE  Counted'
  BY DEF Counted

\* ReleaseSession never finds the count at zero: the releaser's slot is counted.
LEMMA SlotIsCounted ==
  ASSUME Counted, Creating # {} \/ Deleting # {} \/ pcW = "removed", Slots!ReleaseSession
  PROVE  used' = used - 1 /\ registered' = registered
<1>1. /\ Cardinality(registered) \in Nat
      /\ Cardinality(Creating) \in Nat /\ (Cardinality(Creating) = 0 <=> Creating = {})
      /\ Cardinality(Deleting) \in Nat /\ (Cardinality(Deleting) = 0 <=> Deleting = {})
  BY FS_CardinalityType, FS_EmptySet DEF Counted
<1>2. used > 0
  BY <1>1 DEF Counted
<1> QED
  BY <1>2 DEF Slots!ReleaseSession

\* Slots move between the registry and the hands of the requests, and the
\* limiter counts them all.
LEMMA CountedStep ==
  ASSUME MaxSessions \in Nat, SlotsTyped, SessionsKnown, Counted, [Slots!Next]_(Slots!vars)
  PROVE  Counted'
<1> USE DEF Counted
<1>0. /\ Cardinality(registered) \in Nat
      /\ Cardinality(Creating) \in Nat
      /\ Cardinality(Deleting) \in Nat
  BY FS_CardinalityType
<1>a. ASSUME NEW c \in Create, NEW to, Slots!GoC(c, to), to \notin {"building", "removed"},
             pcC[c] \notin {"building", "removed"}, used' = used, registered' = registered
      PROVE  Counted'
  <2>1. Creating' = Creating /\ Deleting' = Deleting /\ pcW' = pcW
    BY <1>a, CreateMoves
  <2> QED
    BY <1>a, <2>1, NoSlotMoves
<1>1. ASSUME NEW c \in Create, Slots!ReuseBlank(c) PROVE Counted'
  BY <1>a, <1>1 DEF Slots!ReuseBlank
<1>2. ASSUME NEW c \in Create, Slots!RecheckBlank(c) PROVE Counted'
  BY <1>a, <1>2 DEF Slots!RecheckBlank
<1>3. ASSUME NEW c \in Create, Slots!WantNew(c) PROVE Counted'
  BY <1>a, <1>3 DEF Slots!WantNew
<1>4. ASSUME NEW c \in Create, Slots!ChooseVictim(c) PROVE Counted'
  BY <1>a, <1>4 DEF Slots!ChooseVictim
<1>5. ASSUME NEW c \in Create, Slots!LimitReached(c) PROVE Counted'
  BY <1>a, <1>5 DEF Slots!LimitReached
<1>6. ASSUME NEW c \in Create, Slots!MarkClosing(c) PROVE Counted'
  BY <1>a, <1>6 DEF Slots!MarkClosing
<1>7. ASSUME NEW c \in Create, Slots!ChooseAgain(c) PROVE Counted'
  BY <1>a, <1>7 DEF Slots!ChooseAgain
<1>8. ASSUME NEW c \in Create, Slots!StopVictim(c) PROVE Counted'
  BY <1>a, <1>8 DEF Slots!StopVictim, Slots!stop
<1>9. ASSUME NEW c \in Create, Slots!TakeSlot(c) PROVE Counted'
  <2>1. c \notin Creating /\ Creating' = Creating \cup {c} /\ Deleting' = Deleting /\ pcW' = pcW
    BY <1>9, CreateMoves DEF Slots!TakeSlot
  <2>2. registered' = registered /\ used' = used + 1 /\ used < MaxSessions
    BY <1>9 DEF Slots!TakeSlot, Slots!AcquireSession
  <2>3. IsFiniteSet(Creating') /\ Cardinality(Creating') = Cardinality(Creating) + 1
    BY <2>1, OneMore
  <2> QED
    BY <1>0, <2>1, <2>2, <2>3 DEF SlotsTyped, Slots!TypeOK
<1>10. ASSUME NEW c \in Create, Slots!RemoveVictim(c) PROVE Counted'
  <2>1. used' = used /\ registered' = registered \ {victim[c]}
    BY <1>10 DEF Slots!RemoveVictim, Slots!remove
  <2>2. CASE Slots!Removed(victim[c])
    <3>1. c \notin Creating /\ Creating' = Creating \cup {c} /\ Deleting' = Deleting /\ pcW' = pcW
      BY <1>10, <2>2, CreateMoves DEF Slots!RemoveVictim
    <3>2. IsFiniteSet(Creating') /\ Cardinality(Creating') = Cardinality(Creating) + 1
      BY <3>1, OneMore
    <3>3. IsFiniteSet(registered') /\ Cardinality(registered') = Cardinality(registered) - 1
      BY <2>1, <2>2, OneLess DEF Slots!Removed
    <3> QED
      BY <1>0, <2>1, <3>1, <3>2, <3>3
  <2>3. CASE ~Slots!Removed(victim[c])
    <3>1. c \notin Creating /\ Creating' = Creating \ {c} /\ Deleting' = Deleting /\ pcW' = pcW
      BY <1>10, <2>3, CreateMoves DEF Slots!RemoveVictim
    <3> QED
      BY <2>1, <2>3, <3>1, NoSlotMoves DEF Slots!Removed
  <2> QED
    BY <2>2, <2>3
<1>11. ASSUME NEW c \in Create, Slots!ReleaseVictim(c) \/ Slots!BuildFails(c) PROVE Counted'
  <2>1. c \in Creating /\ Creating' = Creating \ {c} /\ Deleting' = Deleting /\ pcW' = pcW
    BY <1>11, CreateMoves DEF Slots!ReleaseVictim, Slots!BuildFails
  <2>2. used' = used - 1 /\ registered' = registered
    BY <1>11, <2>1, SlotIsCounted DEF Slots!ReleaseVictim, Slots!BuildFails
  <2>3. IsFiniteSet(Creating') /\ Cardinality(Creating') = Cardinality(Creating) - 1
    BY <2>1, OneLess
  <2> QED
    BY <1>0, <2>1, <2>2, <2>3 DEF SlotsTyped, Slots!TypeOK
<1>12. ASSUME NEW c \in Create, Slots!Register(c) PROVE Counted'
  <2>1. c \in Creating /\ Creating' = Creating \ {c} /\ Deleting' = Deleting /\ pcW' = pcW
    BY <1>12, CreateMoves DEF Slots!Register
  <2>2. PICK s \in Session : state[s] = "none" /\ registered' = registered \cup {s}
    BY <1>12 DEF Slots!Register
  <2>3. s \notin registered /\ used' = used
    BY <1>12, <2>2 DEF Slots!Register, SessionsKnown
  <2>4. IsFiniteSet(Creating') /\ Cardinality(Creating') = Cardinality(Creating) - 1
    BY <2>1, OneLess
  <2>5. IsFiniteSet(registered') /\ Cardinality(registered') = Cardinality(registered) + 1
    BY <2>2, <2>3, OneMore
  <2> QED
    BY <1>0, <2>1, <2>3, <2>4, <2>5
<1>13. ASSUME NEW d \in Delete, Slots!FindTarget(d) \/ Slots!StopTarget(d) PROVE Counted'
  BY <1>13, DeleteMoves, NoSlotMoves DEF Slots!FindTarget, Slots!StopTarget, Slots!sessionVars,
       Slots!stop
<1>14. ASSUME NEW d \in Delete, Slots!RemoveTarget(d) PROVE Counted'
  <2>1. used' = used /\ registered' = registered \ {doomed[d]}
    BY <1>14 DEF Slots!RemoveTarget, Slots!remove
  <2>2. CASE Slots!Removed(doomed[d])
    <3>1. d \notin Deleting /\ Deleting' = Deleting \cup {d} /\ Creating' = Creating /\ pcW' = pcW
      BY <1>14, <2>2, DeleteMoves DEF Slots!RemoveTarget
    <3>2. IsFiniteSet(Deleting') /\ Cardinality(Deleting') = Cardinality(Deleting) + 1
      BY <3>1, OneMore
    <3>3. IsFiniteSet(registered') /\ Cardinality(registered') = Cardinality(registered) - 1
      BY <2>1, <2>2, OneLess DEF Slots!Removed
    <3> QED
      BY <1>0, <2>1, <3>1, <3>2, <3>3
  <2>3. CASE ~Slots!Removed(doomed[d])
    <3>1. d \notin Deleting /\ Deleting' = Deleting \ {d} /\ Creating' = Creating /\ pcW' = pcW
      BY <1>14, <2>3, DeleteMoves DEF Slots!RemoveTarget
    <3> QED
      BY <2>1, <2>3, <3>1, NoSlotMoves DEF Slots!Removed
  <2> QED
    BY <2>2, <2>3
<1>15. ASSUME NEW d \in Delete, Slots!ReleaseTarget(d) PROVE Counted'
  <2>1. d \in Deleting /\ Deleting' = Deleting \ {d} /\ Creating' = Creating /\ pcW' = pcW
    BY <1>15, DeleteMoves DEF Slots!ReleaseTarget
  <2>2. used' = used - 1 /\ registered' = registered
    BY <1>15, <2>1, SlotIsCounted DEF Slots!ReleaseTarget
  <2>3. IsFiniteSet(Deleting') /\ Cardinality(Deleting') = Cardinality(Deleting) - 1
    BY <2>1, OneLess
  <2> QED
    BY <1>0, <2>1, <2>2, <2>3 DEF SlotsTyped, Slots!TypeOK
<1>16. CASE Slots!Sweep
  BY <1>16, SweepMoves, NoSlotMoves DEF Slots!Sweep, Slots!sessionVars
<1>17. ASSUME NEW s \in Session, Slots!SweepOne(s) PROVE Counted'
  BY <1>17, SweepMoves, NoSlotMoves DEF Slots!SweepOne, Slots!sessionVars, Slots!stop
<1>18. CASE Slots!RemovePrey
  <2>1. /\ used' = used /\ registered' = registered \ {prey} /\ pcW = "stopped"
        /\ Creating' = Creating /\ Deleting' = Deleting
        /\ pcW' = "removed" <=> prey \in registered
    BY <1>18, SweepMoves DEF Slots!RemovePrey, Slots!remove, Slots!Removed, Slots!Back
  <2>2. CASE prey \in registered
    <3>1. IsFiniteSet(registered') /\ Cardinality(registered') = Cardinality(registered) - 1
      BY <2>1, <2>2, OneLess
    <3> QED
      BY <1>0, <2>1, <2>2, <3>1
  <2>3. CASE prey \notin registered
    BY <2>1, <2>3, NoSlotMoves
  <2> QED
    BY <2>2, <2>3
<1>19. CASE Slots!ReleasePrey
  <2>1. /\ pcW = "removed" /\ pcW' # "removed"
        /\ Creating' = Creating /\ Deleting' = Deleting
    BY <1>19, SweepMoves DEF Slots!ReleasePrey, Slots!Back
  <2>2. used' = used - 1 /\ registered' = registered
    BY <1>19, <2>1, SlotIsCounted DEF Slots!ReleasePrey
  <2> QED
    BY <1>0, <2>1, <2>2 DEF SlotsTyped, Slots!TypeOK
<1>20. ASSUME NEW s \in Session, Slots!Use(s) PROVE Counted'
  BY <1>20, NoSlotMoves DEF Slots!Use, Slots!StartRun, Slots!EndRun, Slots!Attach,
       Slots!Detach, Slots!createVars, Slots!deleteVars, Slots!sweepVars, Creating, Deleting
<1>21. CASE UNCHANGED Slots!vars
  BY <1>21, NoSlotMoves DEF Slots!vars, Slots!createVars, Slots!deleteVars, Slots!sweepVars,
       Creating, Deleting
<1> QED
  BY <1>1, <1>2, <1>3, <1>4, <1>5, <1>6, <1>7, <1>8, <1>9, <1>10, <1>11, <1>12, <1>13,
     <1>14, <1>15, <1>16, <1>17, <1>18, <1>19, <1>20, <1>21
     DEF Slots!Next, Slots!CreateStep, Slots!DeleteStep, Slots!SweepStep

-----------------------------------------------------------------------------
\* The invariant holds while there is no session, and every step keeps it.
LEMMA SlotsInductive ==
  ASSUME MaxSessions \in Nat
  PROVE  Slots!Spec => []SlotsInv
<1>1. Slots!Init => SlotsInv
  <2> SUFFICES ASSUME Slots!Init PROVE SlotsInv
    OBVIOUS
  <2>1. registered = {} /\ Creating = {} /\ Deleting = {}
    BY DEF Slots!Init, Creating, Deleting
  <2> QED
    BY <2>1, SlotsInitial, FS_EmptySet DEF SlotsInv, Counted, Slots!Init
<1>2. SlotsInv /\ [Slots!Next]_(Slots!vars) => SlotsInv'
  BY SlotsTypesStep, KnownStep, CountedStep DEF SlotsInv
<1> QED
  BY <1>1, <1>2, PTL DEF Slots!Spec

\* The registry, the sessions and the requests keep their types.
THEOREM SlotTypes ==
  ASSUME MaxSessions \in Nat
  PROVE  Slots!Spec => []Slots!TypeOK
<1>1. SlotsInv => Slots!TypeOK
  BY DEF SlotsInv, SlotsTyped
<1> QED
  BY <1>1, SlotsInductive, PTL

\* The number of elements, as the part has it.
LEMMA SlotsCardinality == \A S : Slots!Cardinality(S) = Cardinality(S)
  BY DEF Slots!Cardinality, Cardinality

\* "The evicted slot is released only if this call removed the session from the
\* registry, so DELETE and sweepIdle racing with it cannot double-release": the
\* limiter counts the registered sessions and the slots in hand, never beyond the
\* limit, and a session that is no longer registered was stopped.
THEOREM SlotCount ==
  ASSUME MaxSessions \in Nat
  PROVE  Slots!Spec => []Slots!SlotsAreCounted
<1>1. SlotsInv => Slots!SlotsAreCounted
  <2> SUFFICES ASSUME SlotsInv PROVE Slots!SlotsAreCounted
    OBVIOUS
  <2>1. /\ Cardinality(registered) \in Nat
        /\ Cardinality(Creating) \in Nat
        /\ Cardinality(Deleting) \in Nat
    BY FS_CardinalityType DEF SlotsInv, Counted
  <2>2. Slots!InHand = Cardinality(Creating) + Cardinality(Deleting)
                   + (IF pcW = "removed" THEN 1 ELSE 0)
    BY SlotsCardinality DEF Slots!InHand, Creating, Deleting
  <2>3. used = Cardinality(registered) + Slots!InHand
    BY <2>1, <2>2 DEF SlotsInv, Counted
  <2> QED
    BY <2>3, SlotsCardinality DEF Slots!SlotsAreCounted, SlotsInv, Counted, SessionsKnown
<1> QED
  BY <1>1, SlotsInductive, PTL

-----------------------------------------------------------------------------
(* Index.  As long as the process lives, every directory is empty or holds *)
(* one whole writing, except those the build under way has in hand:        *)
(*   IndexTyped   types;                                                   *)
(*   TruePlans    what is written, or about to be, holds each file's text  *)
(*                and the vector of that text;                             *)
(*   Shelved      what each directory holds, by the phase of the build;    *)
(*   Undisturbed  a retrieval beside which nothing was changed has read    *)
(*                parts of the manifest's own writing.                     *)

IndexAssumption == MaxWrites \in Nat /\ Content # {}

BuildPcs == {"idle", "embedding", "manifest", "records", "vectors", "moved", "in place",
             "written"}
ReadPcs == {"idle", "manifest", "records", "vectors", "served"}
Entry == [key : 0..MaxWrites, recs : 0..MaxWrites, vecs : 0..MaxWrites, beside : BOOLEAN]
Place == [manifest : 0..MaxWrites, records : 0..MaxWrites, vectors : 0..MaxWrites]

\* Types: of what is on the disk, where every manifest is of a writing, ...
StoreTyped ==
  /\ writes \in 0..MaxWrites
  /\ disk \in [Index!Dir -> Place] /\ \A d \in Index!Dir : disk[d].manifest \in 0..writes
  /\ DOMAIN written = 1..MaxWrites /\ \A n \in 1..writes : written[n].model \in Embedder
  /\ pcB \in BuildPcs /\ (pcB # "idle" => plan.model \in Embedder)
  /\ pcB \notin {"idle", "embedding"} => writes \in 1..MaxWrites

\* ... and of what is in memory, where a retrieval has a manifest to go by.
ReadersTyped ==
  /\ files \in [File -> Content \cup {"gone"}]
  /\ cache \in Entry /\ loaded \in [Retrieval -> Entry] /\ pcR \in [Retrieval -> ReadPcs]
  /\ \A r \in Retrieval : Index!Reading(r) => loaded[r].key \in 1..writes
  /\ clearing \in ({"ws"} \X Embedder) \cup {Index!NoDir} /\ beside \subseteq Retrieval
  /\ dead \in BOOLEAN

IndexTyped == StoreTyped /\ ReadersTyped

Whole(n) == [manifest |-> n, records |-> n, vectors |-> n]

\* A writing or a plan: every file with its own text and vector.
True(w) == w.recs = w.scan /\ w.vecs = Index!Embed(w.scan, w.model)

TruePlans ==
  /\ \A n \in 1..writes : True(written[n])
  /\ pcB # "idle" => True(plan)
  /\ pcB \notin {"idle", "embedding"} => written[writes] = plan

\* A directory of model m that nobody is writing.
Kept(d, m) ==
  disk[d] = Whole(0) \/ \E n \in 1..writes : disk[d] = Whole(n) /\ written[n].model = m

\* The one that is being written.
Underway ==
  CASE pcB = "manifest" -> [manifest |-> writes, records |-> 0, vectors |-> 0]
    [] pcB = "records" -> [manifest |-> writes, records |-> writes, vectors |-> 0]
    [] pcB \in {"vectors", "moved"} -> Whole(writes)
    [] OTHER -> Whole(0)

Shelved ==
  /\ \A m \in Embedder : Kept(<<"ws", m>>, m) /\ Kept(<<"old", m>>, m)
  /\ \A m \in Embedder : disk[<<"old", m>>] # Whole(0) =>
       pcB \in {"moved", "in place"} /\ m = plan.model
  /\ \A n \in 1..MaxWrites :
       disk[<<"tmp", n>>] = IF n = writes THEN Underway ELSE Whole(0)

Undisturbed ==
  /\ \A r \in Retrieval : Index!Reading(r) /\ r \notin beside =>
       /\ ~Index!Changing
       /\ disk[Index!Home(loaded[r].key)] = Whole(loaded[r].key)
       /\ pcR[r] \in {"records", "vectors"} => loaded[r].recs = loaded[r].key
       /\ pcR[r] = "vectors" => loaded[r].vecs = loaded[r].key
  /\ cache.beside \/ (cache.recs = cache.key /\ cache.vecs = cache.key)

IndexInv == IndexTyped /\ (~dead => TruePlans /\ Shelved /\ Undisturbed)

\* A bounded set of numbers has a greatest.
LEMMA HasGreatest ==
  ASSUME NEW N \in Nat, NEW S, S \subseteq 0..N, S # {}
  PROVE  \E n \in S : \A m \in S : n >= m
<1> DEFINE T == {N - m : m \in S}
<1>1. T \subseteq Nat /\ T # {}
  <2>1. \A m \in S : N - m \in Nat
    OBVIOUS
  <2> QED
    BY <2>1
<1>2. PICK x \in T : \A y \in T : ~(<<y, x>> \in OpToRel(<, Nat))
  <2> HIDE DEF T
  <2> QED
    BY <1>1, WFMin, NatLessThanWellFounded, Zenon
<1>3. PICK n \in S : x = N - n
  OBVIOUS
<1>4. ASSUME NEW m \in S PROVE n >= m
  <2>1. N - m \in T /\ N - m \in Nat /\ x \in Nat
    BY <1>1
  <2>2. ~(N - m < x)
    BY <1>2, <2>1 DEF OpToRel
  <2> QED
    BY <1>3, <2>2
<1> QED
  BY <1>4

\* LoadManifest finds one of the manifests, if there is any.
LEMMA Newest ==
  ASSUME IndexAssumption, StoreTyped, Index!LoadManifest # 0
  PROVE  /\ Index!LoadManifest \in 1..writes
         /\ \E d \in Index!Dir : disk[d].manifest = Index!LoadManifest
<1> DEFINE found == {disk[d].manifest : d \in Index!Dir} \ {0}
<1>1. found \subseteq 0..writes /\ writes \in Nat
  BY DEF StoreTyped, IndexAssumption
<1>2. found # {}
  BY DEF Index!LoadManifest
<1>3. \E n \in found : \A m \in found : n >= m
  BY <1>1, <1>2, HasGreatest
<1>4. Index!LoadManifest \in found
  <2>1. Index!LoadManifest = CHOOSE n \in found : \A m \in found : n >= m
    BY <1>2 DEF Index!LoadManifest
  <2> HIDE DEF found
  <2> QED
    BY <1>3, <2>1
<1> QED
  BY <1>1, <1>4

\* The directories a build touches.
LEMMA Touched ==
  ASSUME IndexAssumption, StoreTyped
  PROVE  /\ pcB \notin {"idle", "embedding"} =>
              Index!Tmp \in Index!Dir /\ Index!Ws \in Index!Dir /\ Index!Old \in Index!Dir
         /\ writes < MaxWrites => <<"tmp", writes + 1>> \in Index!Dir
         /\ \A n \in 1..writes :
              Index!Home(n) \in Index!Dir /\ Index!Home(n) \in {"ws"} \X Embedder
<1> USE DEF StoreTyped, Index!Dir
<1>1. ASSUME pcB \notin {"idle", "embedding"}
      PROVE  Index!Tmp \in Index!Dir /\ Index!Ws \in Index!Dir /\ Index!Old \in Index!Dir
  <2>1. writes \in 1..MaxWrites /\ plan.model \in Embedder
    BY <1>1
  <2> QED
    BY <2>1 DEF Index!Tmp, Index!Ws, Index!Old
<1>2. ASSUME writes < MaxWrites PROVE <<"tmp", writes + 1>> \in Index!Dir
  <2>1. writes + 1 \in 1..MaxWrites
    BY <1>2 DEF IndexAssumption
  <2> QED
    BY <2>1
<1>3. ASSUME NEW n \in 1..writes
      PROVE  Index!Home(n) \in Index!Dir /\ Index!Home(n) \in {"ws"} \X Embedder
  BY <1>3 DEF Index!Home
<1> QED
  BY <1>1, <1>2, <1>3

\* Every step leaves the disk in directories of whole numbers.
LEMMA StoreStep ==
  ASSUME IndexAssumption, StoreTyped, ReadersTyped, Index!Step
  PROVE  StoreTyped' /\ writes' \in Nat /\ writes <= writes'
<1> USE DEF Index!diskVars, Index!buildVars
<1>0. writes \in Nat /\ MaxWrites \in Nat
  BY DEF StoreTyped, IndexAssumption
<1>1. ASSUME NEW m \in Embedder, Index!StartBuild(m) \/ Index!StartRefresh(m)
      PROVE  StoreTyped' /\ writes' = writes
  <2>1. pcB' = "embedding" /\ plan'.model = m
    BY <1>1 DEF Index!StartBuild, Index!StartRefresh, Index!Builds, Index!Refreshes
  <2> QED
    BY <1>1, <2>1 DEF Index!StartBuild, Index!StartRefresh, StoreTyped, BuildPcs
<1>2. ASSUME Index!EmbedFails \/ Index!invalidateIndexCache \/ Index!Die
      PROVE  StoreTyped' /\ writes' = writes
  BY <1>2 DEF Index!EmbedFails, Index!invalidateIndexCache, Index!Die, StoreTyped, BuildPcs
<1>3. ASSUME Index!WriteManifest PROVE StoreTyped' /\ writes' = writes + 1
  <2>1. writes + 1 \in 1..MaxWrites /\ <<"tmp", writes + 1>> \in Index!Dir
    BY <1>0, <1>3, Touched DEF Index!WriteManifest
  <2>2. \A d \in Index!Dir : disk[d] \in Place /\ disk[d].manifest \in 0..(writes + 1)
    BY <1>0 DEF StoreTyped
  <2>3. /\ disk' \in [Index!Dir -> Place]
        /\ \A d \in Index!Dir : disk'[d].manifest \in 0..(writes + 1)
    <3> DEFINE t == <<"tmp", writes + 1>>
               e == [disk[t] EXCEPT !.manifest = writes + 1]
    <3>1. disk' = [disk EXCEPT ![t] = e]
      BY <1>3 DEF Index!WriteManifest
    <3>2. e \in Place /\ e.manifest \in 0..(writes + 1)
      BY <1>0, <2>1, <2>2 DEF Place
    <3>3. t \in Index!Dir /\ disk \in [Index!Dir -> Place]
      BY <2>1 DEF StoreTyped
    <3> HIDE DEF Index!Dir, t, e, Place
    <3> QED
      BY <2>2, <3>1, <3>2, <3>3
  <2>4. DOMAIN written' = 1..MaxWrites /\ \A n \in 1..(writes + 1) : written'[n].model \in Embedder
    BY <1>0, <1>3, <2>1 DEF Index!WriteManifest, StoreTyped
  <2>5. writes' = writes + 1 /\ pcB' = "manifest" /\ plan' = plan /\ pcB = "embedding"
    BY <1>3 DEF Index!WriteManifest
  <2> QED
    BY <2>1, <2>3, <2>4, <2>5 DEF StoreTyped, BuildPcs
<1>4. ASSUME NEW d \in Index!Dir, NEW p \in [Index!Dir -> Place],
             \A x \in Index!Dir : p[x].manifest \in 0..writes
      PROVE  /\ [p EXCEPT ![d] = Index!Empty] \in [Index!Dir -> Place]
             /\ \A x \in Index!Dir : [p EXCEPT ![d] = Index!Empty][x].manifest \in 0..writes
  BY <1>0, <1>4 DEF Index!Empty, Place
<1>5. ASSUME Index!WriteData \/ Index!WriteFails \/ Index!MoveOld \/ Index!MoveNew
               \/ Index!RemoveOld
      PROVE  StoreTyped' /\ writes' = writes
  <2>1. Index!Tmp \in Index!Dir /\ Index!Ws \in Index!Dir /\ Index!Old \in Index!Dir
    BY <1>5, Touched DEF Index!WriteData, Index!WriteFails, Index!MoveOld, Index!MoveNew,
       Index!RemoveOld
  <2>2. writes \in 0..MaxWrites /\ disk \in [Index!Dir -> Place]
        /\ \A d \in Index!Dir : disk[d].manifest \in 0..writes
    BY DEF StoreTyped
  <2>3. Index!Empty \in Place /\ Index!Empty.manifest \in 0..writes
    BY <1>0 DEF Index!Empty, Place
  <2>4. ASSUME NEW p \in [Index!Dir -> Place], NEW d \in Index!Dir, NEW e \in Place,
               \A x \in Index!Dir : p[x].manifest \in 0..writes, e.manifest \in 0..writes
        PROVE  /\ [p EXCEPT ![d] = e] \in [Index!Dir -> Place]
               /\ \A x \in Index!Dir : [p EXCEPT ![d] = e][x].manifest \in 0..writes
    BY <2>4
  <2>5. disk' \in [Index!Dir -> Place] /\ \A d \in Index!Dir : disk'[d].manifest \in 0..writes
    <3>1. CASE Index!WriteData
      <4> DEFINE t == Index!Tmp
                 o == Index!Old
      <4> HIDE DEF t, o
      <4>1. t \in Index!Dir /\ o \in Index!Dir
        BY <2>1 DEF t, o
      <4>2. \/ disk' = [disk EXCEPT ![t].records = writes]
            \/ disk' = [[disk EXCEPT ![t].vectors = writes] EXCEPT ![o] = Index!Empty]
        BY <3>1 DEF Index!WriteData, t, o
      <4>3. /\ [disk[t] EXCEPT !.records = writes] \in Place
            /\ [disk[t] EXCEPT !.records = writes].manifest \in 0..writes
            /\ [disk[t] EXCEPT !.vectors = writes] \in Place
            /\ [disk[t] EXCEPT !.vectors = writes].manifest \in 0..writes
        BY <2>2, <4>1 DEF Place
      <4>4. /\ [disk EXCEPT ![t].records = writes] =
                 [disk EXCEPT ![t] = [disk[t] EXCEPT !.records = writes]]
            /\ [disk EXCEPT ![t].vectors = writes] =
                 [disk EXCEPT ![t] = [disk[t] EXCEPT !.vectors = writes]]
        BY <2>2, <4>1
      <4> DEFINE e == [disk[t] EXCEPT !.records = writes]
                 f == [disk[t] EXCEPT !.vectors = writes]
                 p == [disk EXCEPT ![t] = f]
      <4>5. disk' = [disk EXCEPT ![t] = e] \/ disk' = [p EXCEPT ![o] = Index!Empty]
        BY <4>2, <4>4
      <4>6. p \in [Index!Dir -> Place] /\ \A d \in Index!Dir : p[d].manifest \in 0..writes
        <5> HIDE DEF f
        <5> QED
          BY <2>2, <2>4, <4>1, <4>3 DEF f
      <4>7. e \in Place /\ e.manifest \in 0..writes
        BY <4>3
      <4> HIDE DEF e, f, p
      <4>8. CASE disk' = [disk EXCEPT ![t] = e]
        BY <2>2, <2>4, <4>1, <4>7, <4>8
      <4>9. CASE disk' = [p EXCEPT ![o] = Index!Empty]
        BY <2>3, <2>4, <4>1, <4>6, <4>9
      <4> QED
        BY <4>5, <4>8, <4>9
    <3>2. CASE Index!WriteFails
      <4>1. disk[Index!Old] \in Place /\ disk[Index!Old].manifest \in 0..writes
        BY <2>1, <2>2
      <4>2. \/ disk' = [disk EXCEPT ![Index!Tmp] = Index!Empty]
            \/ disk' = [[[disk EXCEPT ![Index!Tmp] = Index!Empty]
                               EXCEPT ![Index!Ws] = disk[Index!Old]]
                               EXCEPT ![Index!Old] = Index!Empty]
        BY <3>2 DEF Index!WriteFails
      <4> QED
        BY <2>1, <2>2, <2>3, <2>4, <4>1, <4>2
    <3>3. CASE Index!MoveOld
      BY <2>1, <2>2, <2>3, <2>4, <3>3 DEF Index!MoveOld
    <3>4. CASE Index!MoveNew
      BY <2>1, <2>2, <2>3, <2>4, <3>4 DEF Index!MoveNew
    <3>5. CASE Index!RemoveOld
      BY <2>1, <2>2, <2>3, <2>4, <3>5 DEF Index!RemoveOld
    <3> QED
      BY <1>5, <3>1, <3>2, <3>3, <3>4, <3>5
  <2>6. /\ writes' = writes /\ written' = written /\ pcB' \in BuildPcs
        /\ pcB' # "idle" => plan' = plan
        /\ pcB \notin {"idle", "embedding"}
    BY <1>5 DEF Index!WriteData, Index!WriteFails, Index!MoveOld, Index!MoveNew,
       Index!RemoveOld, BuildPcs
  <2> QED
    BY <2>5, <2>6 DEF StoreTyped
<1>6. ASSUME Index!Cleared PROVE StoreTyped' /\ writes' = writes
  <2>1. clearing \in Index!Dir
    BY <1>6 DEF Index!Cleared, ReadersTyped, Index!Dir
  <2>2. disk' \in [Index!Dir -> Place] /\ \A d \in Index!Dir : disk'[d].manifest \in 0..writes
    BY <1>4, <1>6, <2>1 DEF Index!Cleared, StoreTyped
  <2> QED
    BY <1>6, <2>2 DEF Index!Cleared, StoreTyped
<1>7. ASSUME UNCHANGED <<Index!diskVars, Index!buildVars>> PROVE StoreTyped' /\ writes' = writes
  BY <1>7 DEF StoreTyped
<1>8. ASSUME Index!Clear \/ (\E r \in Retrieval : Index!Read(r))
               \/ (\E f \in File : Index!EditFile(f))
      PROVE  StoreTyped' /\ writes' = writes
  BY <1>7, <1>8 DEF Index!Clear, Index!Read, Index!ReadManifest, Index!LoadRecords,
     Index!LoadVectors, Index!ReadPart, Index!putCachedIndex, Index!Again, Index!EditFile
<1> QED
  BY <1>0, <1>1, <1>2, <1>3, <1>5, <1>6, <1>8 DEF Index!Step, Index!Write

\* What an entry becomes when one of its parts is put in.
LEMMA Refiled ==
  ASSUME NEW e \in Entry, NEW n \in 0..MaxWrites, NEW b \in BOOLEAN
  PROVE  /\ [e EXCEPT !.key = n] \in Entry /\ [e EXCEPT !.key = n].key = n
         /\ [e EXCEPT !.recs = n] \in Entry
         /\ [e EXCEPT !.recs = n].key = e.key /\ [e EXCEPT !.recs = n].recs = n
         /\ [e EXCEPT !.vecs = n] \in Entry /\ [e EXCEPT !.vecs = n].vecs = n
         /\ [e EXCEPT !.vecs = n].key = e.key /\ [e EXCEPT !.vecs = n].recs = e.recs
         /\ [e EXCEPT !.beside = b] \in Entry /\ [e EXCEPT !.beside = b].beside = b
         /\ [e EXCEPT !.beside = b].key = e.key /\ [e EXCEPT !.beside = b].recs = e.recs
         /\ [e EXCEPT !.beside = b].vecs = e.vecs
<1> USE DEF Entry
<1>1. [e EXCEPT !.key = n] \in Entry /\ [e EXCEPT !.key = n].key = n
  OBVIOUS
<1>2. /\ [e EXCEPT !.recs = n] \in Entry
      /\ [e EXCEPT !.recs = n].key = e.key /\ [e EXCEPT !.recs = n].recs = n
  OBVIOUS
<1>3. /\ [e EXCEPT !.vecs = n] \in Entry /\ [e EXCEPT !.vecs = n].vecs = n
      /\ [e EXCEPT !.vecs = n].key = e.key /\ [e EXCEPT !.vecs = n].recs = e.recs
  OBVIOUS
<1>4. /\ [e EXCEPT !.beside = b] \in Entry /\ [e EXCEPT !.beside = b].beside = b
      /\ [e EXCEPT !.beside = b].key = e.key /\ [e EXCEPT !.beside = b].recs = e.recs
      /\ [e EXCEPT !.beside = b].vecs = e.vecs
  OBVIOUS
<1> QED
  BY <1>1, <1>2, <1>3, <1>4

\* Every step leaves the retrievals and the cache their types.
LEMMA ReadersStep ==
  ASSUME IndexAssumption, IndexTyped, Index!Step, Index!Watch
  PROVE  ReadersTyped'
<1> USE DEF Index!diskVars, Index!buildVars, Index!readVars
<1>0. /\ beside' \subseteq Retrieval
      /\ writes \in Nat /\ writes' \in Nat /\ writes <= writes' /\ writes <= MaxWrites
      /\ MaxWrites \in Nat
  BY StoreStep DEF Index!Watch, IndexTyped, StoreTyped, IndexAssumption
<1>1. Index!NoEntry \in Entry
  BY <1>0 DEF Index!NoEntry, Entry
<1>2. ASSUME UNCHANGED Index!readVars,
             files' \in [File -> Content \cup {"gone"}], cache' \in Entry,
             clearing' \in ({"ws"} \X Embedder) \cup {Index!NoDir}, dead' \in BOOLEAN
      PROVE  ReadersTyped'
  BY <1>0, <1>2 DEF IndexTyped, ReadersTyped, Index!Reading
<1>3. ASSUME Index!Clear PROVE ReadersTyped'
  <2>1. Index!Home(Index!LoadManifest) \in {"ws"} \X Embedder
    BY <1>3, Newest, Touched DEF Index!Clear, IndexTyped
  <2> QED
    BY <1>2, <1>3, <2>1 DEF Index!Clear, IndexTyped, ReadersTyped
<1>4. ASSUME Index!Write, ~Index!Clear PROVE ReadersTyped'
  BY <1>1, <1>2, <1>4 DEF Index!Write, Index!StartBuild, Index!StartRefresh, Index!EmbedFails,
     Index!WriteManifest, Index!WriteData, Index!WriteFails, Index!MoveOld, Index!MoveNew,
     Index!RemoveOld, Index!invalidateIndexCache, Index!Cleared, IndexTyped, ReadersTyped
<1>5. ASSUME Index!Die PROVE ReadersTyped'
  BY <1>0, <1>1, <1>5 DEF Index!Die, IndexTyped, ReadersTyped, Index!Reading, ReadPcs
<1>6. ASSUME NEW f \in File, Index!EditFile(f) PROVE ReadersTyped'
  <2>1. files' \in [File -> Content \cup {"gone"}]
    BY <1>6 DEF Index!EditFile, IndexTyped, ReadersTyped, Index!Gone
  <2> QED
    BY <1>2, <1>6, <2>1 DEF Index!EditFile, IndexTyped, ReadersTyped
\* A retrieval's own step changes what that one has read.
<1>7. ASSUME NEW r \in Retrieval, NEW p \in ReadPcs, NEW e \in Entry,
             pcR' = [pcR EXCEPT ![r] = p], loaded' = [loaded EXCEPT ![r] = e],
             p \in {"manifest", "records", "vectors"} => e.key \in 1..writes,
             cache' \in Entry, UNCHANGED <<files, clearing, dead>>
      PROVE  ReadersTyped'
  BY <1>0, <1>7 DEF IndexTyped, ReadersTyped, Index!Reading
<1>8. ASSUME NEW r \in Retrieval, Index!ReadManifest(r) PROVE ReadersTyped'
  <2>1. Index!LoadManifest \in 1..writes
    BY <1>8, Newest DEF Index!ReadManifest, IndexTyped
  <2> DEFINE e == [Index!NoEntry EXCEPT !.key = Index!LoadManifest]
  <2>2. cache \in Entry /\ e \in Entry /\ e.key = Index!LoadManifest
    <3>1. Index!LoadManifest \in 0..MaxWrites
      BY <1>0, <2>1
    <3>2. cache \in Entry
      BY DEF IndexTyped, ReadersTyped
    <3> HIDE DEF Index!LoadManifest
    <3> QED
      BY <1>1, <3>1, <3>2, Refiled
  <2>3. /\ \/ pcR' = [pcR EXCEPT ![r] = "served"] /\ loaded' = [loaded EXCEPT ![r] = cache]
           \/ pcR' = [pcR EXCEPT ![r] = "manifest"] /\ loaded' = [loaded EXCEPT ![r] = e]
        /\ cache' = cache /\ UNCHANGED <<files, clearing, dead>>
    BY <1>8 DEF Index!ReadManifest
  <2> HIDE DEF e
  <2>4. "served" \in ReadPcs /\ "manifest" \in ReadPcs
    BY DEF ReadPcs
  <2>5. CASE pcR' = [pcR EXCEPT ![r] = "served"] /\ loaded' = [loaded EXCEPT ![r] = cache]
    BY <1>7, <2>2, <2>3, <2>4, <2>5
  <2>6. CASE pcR' = [pcR EXCEPT ![r] = "manifest"] /\ loaded' = [loaded EXCEPT ![r] = e]
    BY <1>7, <2>1, <2>2, <2>3, <2>4, <2>6
  <2> QED
    BY <2>3, <2>5, <2>6
<1>9. ASSUME NEW r \in Retrieval, Index!LoadRecords(r) \/ Index!LoadVectors(r)
      PROVE  ReadersTyped'
  <2> DEFINE k == loaded[r].key
             h == disk[Index!Home(k)]
  <2>1. k \in 1..writes /\ loaded[r] \in Entry /\ pcR[r] \in {"manifest", "records"}
    BY <1>9 DEF Index!LoadRecords, Index!LoadVectors, Index!ReadPart, IndexTyped, ReadersTyped,
       Index!Reading
  <2>2. h.records \in 0..MaxWrites /\ h.vectors \in 0..MaxWrites
    BY <2>1, Touched DEF IndexTyped, StoreTyped, Place
  <2>3. /\ [loaded[r] EXCEPT !.recs = h.records] \in Entry
        /\ [loaded[r] EXCEPT !.recs = h.records].key = k
        /\ [loaded[r] EXCEPT !.vecs = h.vectors] \in Entry
        /\ [loaded[r] EXCEPT !.vecs = h.vectors].key = k
    BY <2>1, <2>2 DEF Entry
  <2>4. \E p \in {"records", "vectors", "served"}, e \in Entry :
          /\ pcR' = [pcR EXCEPT ![r] = p] /\ loaded' = [loaded EXCEPT ![r] = e]
          /\ p # "served" => e.key = k
    <3>1. CASE Index!LoadRecords(r)
      <4>1. CASE Index!Loads(h.records, k)
        <5>1. pcR' = [pcR EXCEPT ![r] = "records"]
          BY <3>1, <4>1 DEF Index!LoadRecords, Index!ReadPart
        <5>2. loaded' = [loaded EXCEPT ![r] = [loaded[r] EXCEPT !.recs = h.records]]
          BY <3>1, <4>1 DEF Index!LoadRecords, IndexTyped, ReadersTyped
        <5> QED
          BY <2>3, <5>1, <5>2
      <4>2. CASE ~Index!Loads(h.records, k)
        BY <1>1, <3>1, <4>2 DEF Index!LoadRecords, Index!ReadPart, IndexTyped, ReadersTyped
      <4> QED
        BY <4>1, <4>2
    <3>2. CASE Index!LoadVectors(r)
      <4>1. CASE Index!Loads(h.vectors, k)
        <5>1. pcR' = [pcR EXCEPT ![r] = "vectors"]
          BY <3>2, <4>1 DEF Index!LoadVectors, Index!ReadPart
        <5>2. loaded' = [loaded EXCEPT ![r] = [loaded[r] EXCEPT !.vecs = h.vectors]]
          BY <3>2, <4>1 DEF Index!LoadVectors, IndexTyped, ReadersTyped
        <5> QED
          BY <2>3, <5>1, <5>2
      <4>2. CASE ~Index!Loads(h.vectors, k)
        BY <1>1, <3>2, <4>2 DEF Index!LoadVectors, Index!ReadPart, IndexTyped, ReadersTyped
      <4> QED
        BY <4>1, <4>2
    <3> QED
      BY <1>9, <3>1, <3>2
  <2>5. cache' \in Entry /\ UNCHANGED <<files, clearing, dead>>
    BY <1>9 DEF Index!LoadRecords, Index!LoadVectors, Index!ReadPart, IndexTyped, ReadersTyped
  <2>6. PICK p \in {"records", "vectors", "served"}, e \in Entry :
          /\ pcR' = [pcR EXCEPT ![r] = p] /\ loaded' = [loaded EXCEPT ![r] = e]
          /\ p # "served" => e.key = k
    BY <2>4
  <2>7. p \in ReadPcs /\ (p \in {"manifest", "records", "vectors"} => e.key \in 1..writes)
    BY <2>1, <2>6 DEF ReadPcs
  <2> HIDE DEF k, h
  <2> QED
    BY <1>7, <2>5, <2>6, <2>7
<1>10. ASSUME NEW r \in Retrieval, Index!putCachedIndex(r) PROVE ReadersTyped'
  <2>1. cache' \in Entry
    <3>1. (r \in beside) \in BOOLEAN
      OBVIOUS
    <3>2. loaded[r] \in Entry /\ 0 \in 0..MaxWrites
      BY <1>0 DEF IndexTyped, ReadersTyped
    <3> QED
      BY <1>0, <1>10, <3>1, <3>2, Refiled, Zenon DEF Index!putCachedIndex
  <2>2. loaded' = [loaded EXCEPT ![r] = loaded[r]] /\ loaded[r] \in Entry
    BY <1>10 DEF Index!putCachedIndex, IndexTyped, ReadersTyped
  <2> QED
    BY <1>7, <1>10, <2>1, <2>2 DEF Index!putCachedIndex, ReadPcs
<1>11. ASSUME NEW r \in Retrieval, Index!Again(r) PROVE ReadersTyped'
  <2>1. cache' \in Entry
    BY <1>11 DEF Index!Again, IndexTyped, ReadersTyped
  <2> QED
    BY <1>1, <1>7, <1>11, <2>1 DEF Index!Again, ReadPcs
<1> QED
  BY <1>3, <1>4, <1>5, <1>6, <1>8, <1>9, <1>10, <1>11 DEF Index!Step, Index!Read

-----------------------------------------------------------------------------
\* Whatever is about to be written is true: a refresh of a true writing is true.
LEMMA TruePlansStep ==
  ASSUME IndexAssumption, IndexTyped, TruePlans, Shelved, Index!Step
  PROVE  dead' \/ TruePlans'
<1> USE DEF Index!diskVars, Index!buildVars, Index!readVars
<1>1. ASSUME NEW m \in Embedder, Index!StartBuild(m) \/ Index!StartRefresh(m) PROVE TruePlans'
  <2>1. True(Index!Builds(m))
    BY DEF True, Index!Builds
  <2>2. ASSUME NEW n \in 1..writes, written[n].model = m
        PROVE  True(Index!Refreshes(n, n, m))
    <3> DEFINE old == written[n].recs
               kept == File \ Index!changed(old)
               w == Index!Refreshes(n, n, m)
    <3>1. old = written[n].scan /\ written[n].vecs = [f \in File |-> [of |-> old[f], by |-> m]]
      BY <2>2 DEF TruePlans, True, Index!Embed
    <3>2. \A f \in kept : old[f] = files[f]
      BY DEF Index!changed
    <3>3. /\ w.recs = [f \in File |-> IF f \in kept THEN old[f] ELSE files[f]]
          /\ w.vecs = [f \in File |-> IF f \in kept THEN written[n].vecs[f]
                                                    ELSE [of |-> files[f], by |-> m]]
          /\ w.scan = files /\ w.model = m
      BY DEF Index!Refreshes
    <3> HIDE DEF old, kept, w
    <3>4. files = [f \in File |-> files[f]]
      BY DEF IndexTyped, ReadersTyped
    <3>5. w.recs = w.scan
      BY <3>2, <3>3, <3>4
    <3>6. w.vecs = [f \in File |-> [of |-> files[f], by |-> m]]
      BY <3>1, <3>2, <3>3
    <3>7. True(w)
      BY <3>3, <3>5, <3>6 DEF True, Index!Embed
    <3> QED
      BY <3>7 DEF w
  <2>3. ASSUME Index!StartRefresh(m), plan' # Index!Builds(m)
        PROVE  \E n \in 1..writes : written[n].model = m /\ plan' = Index!Refreshes(n, n, m)
    <3> DEFINE k == Index!LoadManifest
               h == disk[Index!Home(k)]
    <3>1. /\ k # 0 /\ written[k].model = m /\ plan' = Index!Refreshes(h.records, h.vectors, m)
          /\ h.records # 0
      BY <2>3 DEF Index!StartRefresh, Index!Loads
    <3>2. Index!Home(k) = <<"ws", m>>
      BY <3>1 DEF Index!Home
    <3>3. h = Whole(0) \/ \E n \in 1..writes : h = Whole(n) /\ written[n].model = m
      BY <3>2 DEF Shelved, Kept
    <3> HIDE DEF h, k
    <3> QED
      BY <3>1, <3>3 DEF Whole
  <2>4. /\ UNCHANGED <<written, writes>> /\ pcB' = "embedding"
        /\ \/ plan' = Index!Builds(m)
           \/ \E n \in 1..writes : written[n].model = m /\ plan' = Index!Refreshes(n, n, m)
    BY <1>1, <2>3 DEF Index!StartBuild, Index!StartRefresh
  <2>5. True(plan')
    BY <2>1, <2>2, <2>4
  <2> QED
    BY <2>4, <2>5 DEF TruePlans, True, Index!Embed
<1>2. ASSUME Index!WriteManifest PROVE TruePlans'
  <2>1. writes \in Nat /\ writes < MaxWrites /\ MaxWrites \in Nat
    BY <1>2 DEF Index!WriteManifest, IndexTyped, StoreTyped, IndexAssumption
  <2>2. written'[writes + 1] = plan /\ \A n \in 1..writes : written'[n] = written[n]
    BY <1>2, <2>1 DEF Index!WriteManifest, IndexTyped, StoreTyped
  <2>3. writes' = writes + 1 /\ plan' = plan /\ pcB = "embedding" /\ pcB' = "manifest"
    BY <1>2 DEF Index!WriteManifest
  <2>4. \A n \in 1..writes' : n \in 1..writes \/ n = writes + 1
    BY <2>1, <2>3
  <2> QED
    BY <2>2, <2>3, <2>4 DEF TruePlans, True, Index!Embed
<1>3. ASSUME UNCHANGED <<written, writes>>, pcB' # "idle" => pcB # "idle" /\ plan' = plan,
             pcB' \notin {"idle", "embedding"} => pcB \notin {"idle", "embedding"}
      PROVE  TruePlans'
  BY <1>3 DEF TruePlans, True, Index!Embed
<1>4. ASSUME Index!Write, ~Index!WriteManifest,
             ~\E m \in Embedder : Index!StartBuild(m) \/ Index!StartRefresh(m)
      PROVE  TruePlans'
  BY <1>3, <1>4 DEF Index!Write, Index!EmbedFails, Index!WriteData, Index!WriteFails,
     Index!MoveOld, Index!MoveNew, Index!RemoveOld, Index!invalidateIndexCache, Index!Clear,
     Index!Cleared
<1>5. ASSUME (\E r \in Retrieval : Index!Read(r)) \/ (\E f \in File : Index!EditFile(f))
      PROVE  TruePlans'
  BY <1>3, <1>5 DEF Index!Read, Index!ReadManifest, Index!LoadRecords, Index!LoadVectors,
     Index!ReadPart, Index!putCachedIndex, Index!Again, Index!EditFile
<1>6. ASSUME Index!Die PROVE dead'
  BY <1>6 DEF Index!Die
<1> QED
  BY <1>1, <1>2, <1>4, <1>5, <1>6 DEF Index!Step

\* A directory that is not touched stays as it was, whatever is written elsewhere.
LEMMA KeptStays ==
  ASSUME writes \in Nat, writes' \in Nat, writes <= writes',
         \A n \in 1..writes : written'[n] = written[n],
         NEW d, NEW m, disk'[d] = disk[d], Kept(d, m)
  PROVE  Kept(d, m)'
<1>1. CASE disk[d] = Whole(0)
  BY <1>1 DEF Kept, Whole
<1>2. ASSUME NEW n \in 1..writes, disk[d] = Whole(n), written[n].model = m PROVE Kept(d, m)'
  BY <1>2 DEF Kept, Whole
<1> QED
  BY <1>1, <1>2 DEF Kept

\* No step leaves a directory mixed, but the one a build has in hand.
LEMMA ShelvedStep ==
  ASSUME IndexAssumption, IndexTyped, TruePlans, Shelved, Index!Step
  PROVE  dead' \/ Shelved'
<1> USE DEF Index!diskVars, Index!buildVars, Index!readVars
<1>0. /\ writes \in Nat /\ MaxWrites \in Nat /\ writes <= MaxWrites
      /\ \A m \in Embedder : <<"ws", m>> \in Index!Dir /\ <<"old", m>> \in Index!Dir
      /\ \A n \in 1..MaxWrites : <<"tmp", n>> \in Index!Dir
      /\ DOMAIN disk = Index!Dir /\ DOMAIN written = 1..MaxWrites
      /\ Index!Empty = Whole(0)
  BY DEF IndexTyped, StoreTyped, IndexAssumption, Index!Dir, Index!Empty, Whole
<1>1. ASSUME UNCHANGED Index!diskVars,
             \/ UNCHANGED <<pcB, plan>>
             \/ pcB \in {"idle", "embedding", "written"} /\ pcB' \in {"idle", "embedding"}
      PROVE  Shelved'
  <2>1. Underway' = Underway
    BY <1>1 DEF Underway, Whole
  <2>2. \A m \in Embedder : Kept(<<"ws", m>>, m)' /\ Kept(<<"old", m>>, m)'
    <3>1. ASSUME NEW m \in Embedder, NEW d, Kept(d, m) PROVE Kept(d, m)'
      BY <1>0, <1>1, <3>1, KeptStays
    <3> QED
      BY <3>1 DEF Shelved
  <2>3. \A m \in Embedder : disk'[<<"old", m>>] # Whole(0) =>
          pcB' \in {"moved", "in place"} /\ m = plan'.model
    BY <1>1 DEF Shelved
  <2> QED
    BY <1>1, <2>1, <2>2, <2>3 DEF Shelved, Whole
<1>2. ASSUME Index!WriteManifest PROVE Shelved'
  <2> DEFINE t == <<"tmp", writes + 1>>
  <2>1. /\ writes < MaxWrites /\ writes + 1 \in 1..MaxWrites /\ pcB = "embedding"
        /\ pcB' = "manifest" /\ writes' = writes + 1 /\ plan' = plan
        /\ written' = [written EXCEPT ![writes + 1] = plan]
        /\ disk' = [disk EXCEPT ![t].manifest = writes + 1]
    BY <1>0, <1>2 DEF Index!WriteManifest
  <2>2. disk[t] = Whole(0)
    BY <1>0, <2>1 DEF Shelved
  <2>3. disk'[t] = [manifest |-> writes + 1, records |-> 0, vectors |-> 0]
    BY <1>0, <2>1, <2>2 DEF Whole
  <2>4. \A d \in Index!Dir : d # t => disk'[d] = disk[d]
    BY <2>1, <1>0
  <2>5. \A m \in Embedder : Kept(<<"ws", m>>, m)' /\ Kept(<<"old", m>>, m)'
    <3>1. \A n \in 1..writes : written'[n] = written[n]
      BY <1>0, <2>1
    <3>2. ASSUME NEW m \in Embedder PROVE Kept(<<"ws", m>>, m)' /\ Kept(<<"old", m>>, m)'
      <4>1. disk'[<<"ws", m>>] = disk[<<"ws", m>>] /\ disk'[<<"old", m>>] = disk[<<"old", m>>]
        BY <1>0, <2>4
      <4>2. Kept(<<"ws", m>>, m) /\ Kept(<<"old", m>>, m)
        BY DEF Shelved
      <4> QED
        BY <1>0, <2>1, <3>1, <4>1, <4>2, KeptStays
    <3> QED
      BY <3>2
  <2>6. \A m \in Embedder : disk'[<<"old", m>>] = Whole(0)
    BY <1>0, <2>1, <2>4 DEF Shelved
  <2>7. \A n \in 1..MaxWrites :
          disk'[<<"tmp", n>>] = IF n = writes + 1 THEN Underway' ELSE Whole(0)
    <3>1. Underway' = [manifest |-> writes + 1, records |-> 0, vectors |-> 0]
      BY <2>1 DEF Underway
    <3>2. Underway = Whole(0)
      BY <2>1 DEF Underway
    <3>3. ASSUME NEW n \in 1..MaxWrites, n # writes + 1 PROVE disk'[<<"tmp", n>>] = Whole(0)
      <4>1. disk[<<"tmp", n>>] = Whole(0)
        BY <3>2 DEF Shelved
      <4>2. <<"tmp", n>> # t
        BY <3>3
      <4> QED
        BY <1>0, <2>4, <4>1, <4>2
    <3> QED
      BY <2>3, <3>1, <3>3
  <2> QED
    BY <2>1, <2>5, <2>6, <2>7 DEF Shelved, Whole
\* From here on nothing new is written.
<1>3. ASSUME UNCHANGED <<written, writes>>,
             \A m \in Embedder : Kept(<<"ws", m>>, m)' /\ Kept(<<"old", m>>, m)',
             \A m \in Embedder : disk'[<<"old", m>>] # Whole(0) =>
               pcB' \in {"moved", "in place"} /\ m = plan'.model,
             writes \in 1..MaxWrites => disk'[<<"tmp", writes>>] = Underway',
             \A n \in 1..MaxWrites : n # writes => disk'[<<"tmp", n>>] = disk[<<"tmp", n>>]
      PROVE  Shelved'
  BY <1>3 DEF Shelved, Whole
<1>4. ASSUME Index!WriteData \/ Index!WriteFails \/ Index!MoveOld \/ Index!MoveNew
               \/ Index!RemoveOld
      PROVE  Shelved'
  <2>1. /\ pcB \notin {"idle", "embedding"} /\ writes \in 1..MaxWrites /\ plan.model \in Embedder
        /\ written[writes].model = plan.model /\ UNCHANGED <<written, writes>>
    BY <1>4 DEF Index!WriteData, Index!WriteFails, Index!MoveOld, Index!MoveNew, Index!RemoveOld,
       IndexTyped, StoreTyped, TruePlans
  <2>0. PICK m \in Embedder, k \in 1..MaxWrites : m = plan.model /\ k = writes
    BY <2>1
  <2> DEFINE t == <<"tmp", k>>
             w == <<"ws", m>>
             o == <<"old", m>>
  <2>2. /\ t \in Index!Dir /\ w \in Index!Dir /\ o \in Index!Dir /\ t # w /\ t # o /\ w # o
        /\ Index!Tmp = t /\ Index!Ws = w /\ Index!Old = o
    BY <1>0, <2>0, <2>1 DEF Index!Tmp, Index!Ws, Index!Old
  <2>3. /\ \A e \in Embedder : e # m =>
              <<"ws", e>> \notin {t, w, o} /\ <<"old", e>> \notin {t, w, o}
        /\ \A n \in 1..MaxWrites : n # writes => <<"tmp", n>> \notin {t, w, o}
    BY <2>0, <2>1
  <2>4. /\ disk[t] = Underway /\ Kept(w, m) /\ Kept(o, m)
        /\ disk[o] # Whole(0) => pcB \in {"moved", "in place"}
    BY <2>0, <2>1 DEF Shelved
  <2> HIDE DEF t, w, o
  \* It is enough to look at the three directories.
  <2>5. ASSUME \A d \in Index!Dir : d \notin {t, w, o} => disk'[d] = disk[d],
               disk'[t] = Underway', Kept(w, m)', Kept(o, m)',
               disk'[o] # Whole(0) => pcB' \in {"moved", "in place"} /\ plan' = plan
        PROVE  Shelved'
    <3>1. ASSUME NEW e \in Embedder, e # m
          PROVE  Kept(<<"ws", e>>, e)' /\ Kept(<<"old", e>>, e)' /\ disk'[<<"old", e>>] = Whole(0)
      <4>1. disk'[<<"ws", e>>] = disk[<<"ws", e>>] /\ disk'[<<"old", e>>] = disk[<<"old", e>>]
        BY <1>0, <2>3, <2>5, <3>1
      <4>2. Kept(<<"ws", e>>, e) /\ Kept(<<"old", e>>, e) /\ disk[<<"old", e>>] = Whole(0)
        BY <2>0, <3>1 DEF Shelved
      <4> QED
        BY <1>0, <2>0, <2>1, <4>1, <4>2, KeptStays
    <3>2. \A n \in 1..MaxWrites : n # writes => disk'[<<"tmp", n>>] = disk[<<"tmp", n>>]
      BY <1>0, <2>3, <2>5
    <3>3. \A e \in Embedder : Kept(<<"ws", e>>, e)' /\ Kept(<<"old", e>>, e)'
      BY <2>5, <3>1 DEF w, o
    <3>4. \A e \in Embedder : disk'[<<"old", e>>] # Whole(0) =>
            pcB' \in {"moved", "in place"} /\ e = plan'.model
      BY <2>0, <2>5, <3>1 DEF o
    <3>5. disk'[<<"tmp", writes>>] = Underway'
      BY <2>0, <2>5 DEF t
    <3> QED
      BY <1>3, <2>0, <2>1, <3>2, <3>3, <3>4, <3>5
  <2>6. CASE Index!WriteData
    <3>1. CASE pcB = "manifest"
      <4>1. pcB' = "records" /\ disk' = [disk EXCEPT ![t].records = writes] /\ plan' = plan
        BY <2>2, <2>6, <3>1 DEF Index!WriteData
      <4>2. disk'[t] = Underway'
        BY <1>0, <2>0, <2>1, <2>2, <2>4, <3>1, <4>1 DEF Underway
      <4>3. \A d \in Index!Dir : d # t => disk'[d] = disk[d]
        BY <1>0, <4>1
      <4>4. Kept(w, m)' /\ Kept(o, m)' /\ disk'[o] = Whole(0)
        BY <2>0, <2>1, <2>2, <2>4, <3>1, <4>3 DEF Kept, Whole
      <4> QED
        BY <2>5, <4>2, <4>3, <4>4
    <3>2. CASE pcB = "records"
      <4>1. /\ pcB' = "vectors" /\ plan' = plan
            /\ disk' = [disk EXCEPT ![t].vectors = writes, ![o] = Index!Empty]
        BY <2>2, <2>6, <3>2 DEF Index!WriteData
      <4>2. disk'[t] = Underway'
        BY <1>0, <2>0, <2>1, <2>2, <2>4, <3>2, <4>1 DEF Underway, Whole
      <4>3. /\ disk'[o] = Whole(0)
            /\ \A d \in Index!Dir : d \notin {t, o} => disk'[d] = disk[d]
        BY <1>0, <2>2, <4>1
      <4>4. Kept(w, m)' /\ Kept(o, m)'
        BY <2>0, <2>1, <2>2, <2>4, <4>3 DEF Kept, Whole
      <4> QED
        BY <2>5, <4>2, <4>3, <4>4
    <3> QED
      BY <2>6, <3>1, <3>2 DEF Index!WriteData
  <2>7. CASE Index!WriteFails
    <3>1. pcB' = "idle" /\ Underway' = Whole(0)
      BY <2>7 DEF Index!WriteFails, Underway, Whole
    <3>2. CASE pcB \in {"manifest", "records", "vectors"}
      <4>1. disk' = [disk EXCEPT ![t] = Index!Empty]
        BY <2>2, <2>7, <3>2 DEF Index!WriteFails
      <4>2. /\ disk'[t] = Whole(0)
            /\ \A d \in Index!Dir : d # t => disk'[d] = disk[d]
        BY <1>0, <2>2, <4>1
      <4>3. Kept(w, m)' /\ Kept(o, m)' /\ disk'[o] = Whole(0)
        BY <2>0, <2>1, <2>2, <2>4, <3>2, <4>2 DEF Kept, Whole
      <4> QED
        BY <2>5, <3>1, <4>2, <4>3
    <3>3. CASE pcB = "moved"
      <4>1. disk' = [disk EXCEPT ![t] = Index!Empty, ![w] = disk[o], ![o] = Index!Empty]
        BY <2>2, <2>7, <3>3 DEF Index!WriteFails
      <4>2. /\ disk'[t] = Whole(0) /\ disk'[w] = disk[o] /\ disk'[o] = Whole(0)
            /\ \A d \in Index!Dir : d \notin {t, w, o} => disk'[d] = disk[d]
        BY <1>0, <2>2, <4>1
      <4>3. Kept(w, m)' /\ Kept(o, m)'
        BY <2>0, <2>1, <2>4, <4>2 DEF Kept, Whole
      <4> QED
        BY <2>5, <3>1, <4>2, <4>3
    <3> QED
      BY <2>7, <3>2, <3>3 DEF Index!WriteFails
  <2>8. CASE Index!MoveOld
    <3>1. /\ pcB = "vectors" /\ pcB' = "moved" /\ plan' = plan
          /\ disk' = [disk EXCEPT ![o] = disk[w], ![w] = Index!Empty]
      BY <2>2, <2>8 DEF Index!MoveOld
    <3>2. /\ disk'[o] = disk[w] /\ disk'[w] = Whole(0)
          /\ \A d \in Index!Dir : d \notin {w, o} => disk'[d] = disk[d]
      BY <1>0, <2>2, <3>1
    <3>3. Kept(w, m)' /\ Kept(o, m)'
      BY <2>0, <2>1, <2>4, <3>2 DEF Kept, Whole
    <3>4. disk'[t] = Underway'
      BY <2>0, <2>1, <2>2, <2>4, <3>1, <3>2 DEF Underway, Whole
    <3> QED
      BY <2>5, <3>1, <3>2, <3>3, <3>4
  <2>9. CASE Index!MoveNew
    <3>1. /\ pcB = "moved" /\ pcB' = "in place" /\ plan' = plan
          /\ disk' = [disk EXCEPT ![w] = disk[t], ![t] = Index!Empty]
      BY <2>2, <2>9 DEF Index!MoveNew
    <3>2. /\ disk'[w] = disk[t] /\ disk'[t] = Whole(0)
          /\ \A d \in Index!Dir : d \notin {w, t} => disk'[d] = disk[d]
      BY <1>0, <2>2, <3>1
    <3>3. disk[t] = Whole(writes) /\ Underway' = Whole(0)
      BY <2>4, <3>1 DEF Underway, Whole
    <3>4. Kept(w, m)' /\ Kept(o, m)'
      <4>1. disk'[w] = Whole(writes) /\ disk'[o] = disk[o]
        BY <2>2, <3>2, <3>3
      <4>2. writes \in 1..writes /\ written[writes].model = m
        BY <2>0, <2>1
      <4>3. Kept(w, m)'
        BY <2>1, <4>1, <4>2 DEF Kept, Whole
      <4>4. Kept(o, m)'
        BY <2>1, <2>4, <4>1 DEF Kept, Whole
      <4> QED
        BY <4>3, <4>4
    <3>5. /\ \A d \in Index!Dir : d \notin {t, w, o} => disk'[d] = disk[d]
          /\ disk'[t] = Underway'
          /\ pcB' \in {"moved", "in place"} /\ plan' = plan
      BY <3>1, <3>2, <3>3
    <3> QED
      BY <2>5, <3>4, <3>5
  <2>10. CASE Index!RemoveOld
    <3>1. /\ pcB = "in place" /\ pcB' = "written" /\ disk' = [disk EXCEPT ![o] = Index!Empty]
      BY <2>2, <2>10 DEF Index!RemoveOld
    <3>2. disk'[o] = Whole(0) /\ \A d \in Index!Dir : d # o => disk'[d] = disk[d]
      BY <1>0, <2>2, <3>1
    <3>3. disk[t] = Whole(0) /\ Underway' = Whole(0)
      BY <2>4, <3>1 DEF Underway, Whole
    <3>4. Kept(w, m)' /\ Kept(o, m)'
      BY <2>0, <2>1, <2>2, <2>4, <3>2 DEF Kept, Whole
    <3> QED
      BY <2>2, <2>5, <3>2, <3>3, <3>4
  <2> QED
    BY <1>4, <2>6, <2>7, <2>8, <2>9, <2>10
<1>5. ASSUME Index!Cleared PROVE Shelved'
  <2>1. PICK m \in Embedder : clearing = <<"ws", m>>
    BY <1>5 DEF Index!Cleared, IndexTyped, ReadersTyped
  <2>2. /\ disk' = [disk EXCEPT ![<<"ws", m>>] = Index!Empty]
        /\ UNCHANGED <<written, writes, pcB, plan>>
    BY <1>5, <2>1 DEF Index!Cleared
  <2>3. /\ disk'[<<"ws", m>>] = Whole(0)
        /\ \A d \in Index!Dir : d # <<"ws", m>> => disk'[d] = disk[d]
    BY <1>0, <2>2
  <2>4. ASSUME NEW e \in Embedder
        PROVE  /\ Kept(<<"ws", e>>, e)' /\ Kept(<<"old", e>>, e)'
               /\ disk'[<<"old", e>>] = disk[<<"old", e>>]
    <3>1. Kept(<<"ws", e>>, e) /\ Kept(<<"old", e>>, e)
      BY DEF Shelved
    <3>2. disk'[<<"old", e>>] = disk[<<"old", e>>]
      BY <1>0, <2>3
    <3>3. disk'[<<"ws", e>>] = Whole(0) \/ disk'[<<"ws", e>>] = disk[<<"ws", e>>]
      BY <1>0, <2>3
    <3>4. disk'[<<"ws", e>>] = Whole(0) => Kept(<<"ws", e>>, e)'
      BY DEF Kept, Whole
    <3> QED
      BY <1>0, <2>2, <3>1, <3>2, <3>3, <3>4, KeptStays
  <2>5. \A n \in 1..MaxWrites : disk'[<<"tmp", n>>] = disk[<<"tmp", n>>]
    BY <1>0, <2>3
  <2>6. Underway' = Underway
    BY <2>2 DEF Underway, Whole
  <2> QED
    BY <2>2, <2>4, <2>5, <2>6 DEF Shelved, Whole
<1>6. ASSUME \E m \in Embedder : Index!StartBuild(m) \/ Index!StartRefresh(m) PROVE Shelved'
  BY <1>1, <1>6 DEF Index!StartBuild, Index!StartRefresh
<1>7. ASSUME Index!EmbedFails \/ Index!invalidateIndexCache \/ Index!Clear PROVE Shelved'
  BY <1>1, <1>7 DEF Index!EmbedFails, Index!invalidateIndexCache, Index!Clear
<1>8. ASSUME (\E r \in Retrieval : Index!Read(r)) \/ (\E f \in File : Index!EditFile(f))
      PROVE  Shelved'
  BY <1>1, <1>8 DEF Index!Read, Index!ReadManifest, Index!LoadRecords, Index!LoadVectors,
     Index!ReadPart, Index!putCachedIndex, Index!Again, Index!EditFile
<1>9. ASSUME Index!Die PROVE dead'
  BY <1>9 DEF Index!Die
<1> QED
  BY <1>2, <1>4, <1>5, <1>6, <1>7, <1>8, <1>9 DEF Index!Step, Index!Write

\* When nothing is being changed, the newest manifest stands with its own data.
LEMMA AtRest ==
  ASSUME IndexAssumption, IndexTyped, Shelved, ~Index!Changing, Index!LoadManifest # 0
  PROVE  disk[Index!Home(Index!LoadManifest)] = Whole(Index!LoadManifest)
<1>1. PICK d \in Index!Dir, n \in 1..writes : n = Index!LoadManifest /\ disk[d].manifest = n
  BY Newest DEF IndexTyped
<1>2. pcB \in {"idle", "embedding"} /\ n # 0
  BY <1>1 DEF Index!Changing
<1>3. Underway = Whole(0) /\ Whole(0).manifest = 0
  BY <1>2 DEF Underway, Whole
<1>4. \A k \in 1..MaxWrites : d # <<"tmp", k>>
  BY <1>1, <1>2, <1>3 DEF Shelved
<1>5. \A m \in Embedder : d # <<"old", m>>
  BY <1>1, <1>2, <1>3 DEF Shelved
<1>6. PICK m \in Embedder : d = <<"ws", m>>
  BY <1>4, <1>5 DEF Index!Dir
<1>7. PICK k \in 1..writes : disk[d] = Whole(k) /\ written[k].model = m
  BY <1>1, <1>2, <1>3, <1>6 DEF Shelved, Kept
<1>8. k = n
  BY <1>1, <1>7 DEF Whole
<1> QED
  BY <1>1, <1>6, <1>7, <1>8 DEF Index!Home

\* A retrieval beside which nothing changes reads parts of one writing.
LEMMA UndisturbedStep ==
  ASSUME IndexAssumption, IndexTyped, Shelved, Undisturbed, Index!Step, Index!Watch
  PROVE  dead' \/ Undisturbed'
<1> USE DEF Index!diskVars, Index!buildVars, Index!readVars
<1> SUFFICES ASSUME ~dead' PROVE Undisturbed'
  OBVIOUS
<1>0. /\ ~Index!Die
      /\ loaded \in [Retrieval -> Entry] /\ pcR \in [Retrieval -> ReadPcs]
      /\ writes \in Nat
  BY DEF Index!Die, IndexTyped, ReadersTyped, StoreTyped
<1>1. ASSUME NEW r \in Retrieval, Index!Reading(r)', r \notin beside'
      PROVE  ~Index!Changing /\ ~Index!Changing' /\ r \notin beside
  BY <1>1 DEF Index!Watch
<1>2. ASSUME ~Index!Changing, ~Index!Changing' PROVE UNCHANGED Index!diskVars
  BY <1>0, <1>2 DEF Index!Changing, Index!Step, Index!Write, Index!Read, Index!StartBuild,
     Index!StartRefresh, Index!EmbedFails, Index!WriteManifest, Index!WriteData,
     Index!WriteFails, Index!MoveOld, Index!MoveNew, Index!RemoveOld,
     Index!invalidateIndexCache, Index!Clear, Index!Cleared, Index!ReadManifest,
     Index!LoadRecords, Index!LoadVectors, Index!ReadPart, Index!putCachedIndex, Index!Again,
     Index!EditFile
<1> DEFINE Holds(r) ==
      /\ disk[Index!Home(loaded[r].key)] = Whole(loaded[r].key)
      /\ pcR[r] \in {"records", "vectors"} => loaded[r].recs = loaded[r].key
      /\ pcR[r] = "vectors" => loaded[r].vecs = loaded[r].key
    FromOne == cache.beside \/ (cache.recs = cache.key /\ cache.vecs = cache.key)
<1>3. ASSUME NEW r \in Retrieval, UNCHANGED <<loaded[r], pcR[r]>>,
             Index!Reading(r)', r \notin beside'
      PROVE  Holds(r)'
  <2>1. Holds(r)
    BY <1>1, <1>3 DEF Undisturbed, Index!Reading
  <2> QED
    BY <1>1, <1>2, <1>3, <2>1 DEF Index!Home, Whole
<1>4. ASSUME FromOne', \A r \in Retrieval : Index!Reading(r)' /\ r \notin beside' => Holds(r)'
      PROVE  Undisturbed'
  BY <1>1, <1>4 DEF Undisturbed, Whole, Index!Home
<1>5. FromOne
  BY DEF Undisturbed
<1> HIDE DEF Holds
<1>6. ASSUME Index!Write \/ \E f \in File : Index!EditFile(f) PROVE Undisturbed'
  <2>1. UNCHANGED Index!readVars /\ (cache' = cache \/ cache' = Index!NoEntry)
    BY <1>6 DEF Index!Write, Index!StartBuild, Index!StartRefresh, Index!EmbedFails,
     Index!WriteManifest, Index!WriteData, Index!WriteFails, Index!MoveOld, Index!MoveNew,
     Index!RemoveOld, Index!invalidateIndexCache, Index!Clear, Index!Cleared, Index!EditFile
  <2>2. FromOne'
    BY <1>5, <2>1 DEF Index!NoEntry
  <2> QED
    BY <1>3, <1>4, <2>1, <2>2
<1>7. ASSUME NEW r \in Retrieval, Index!Read(r) PROVE Undisturbed'
  <2>1. \A q \in Retrieval : q # r => loaded'[q] = loaded[q] /\ pcR'[q] = pcR[q]
    BY <1>0, <1>7 DEF Index!Read, Index!ReadManifest, Index!LoadRecords, Index!LoadVectors,
       Index!ReadPart, Index!putCachedIndex, Index!Again
  <2>2. ASSUME FromOne', Index!Reading(r)' /\ r \notin beside' => Holds(r)' PROVE Undisturbed'
    <3>1. ASSUME NEW q \in Retrieval, Index!Reading(q)', q \notin beside' PROVE Holds(q)'
      BY <1>3, <2>1, <2>2, <3>1
    <3> QED
      BY <1>4, <2>2, <3>1
  <2>3. CASE Index!ReadManifest(r)
    <3>1. cache' = cache /\ UNCHANGED Index!diskVars
      BY <2>3 DEF Index!ReadManifest
    <3>2. ASSUME Index!Reading(r)', r \notin beside' PROVE Holds(r)'
      <4>1. pcR'[r] = "manifest" /\ loaded'[r].key = Index!LoadManifest
        BY <1>0, <2>3, <3>2 DEF Index!ReadManifest, Index!Reading, Index!NoEntry
      <4>2. disk[Index!Home(Index!LoadManifest)] = Whole(Index!LoadManifest)
        BY <1>1, <2>3, <3>2, AtRest DEF Index!ReadManifest
      <4> HIDE DEF Index!LoadManifest
      <4> QED
        BY <3>1, <4>1, <4>2 DEF Holds, Index!Home, Whole
    <3> QED
      BY <1>5, <2>2, <3>1, <3>2
  <2>4. CASE Index!LoadRecords(r) \/ Index!LoadVectors(r)
    <3>1. cache' = cache /\ UNCHANGED Index!diskVars
      BY <2>4 DEF Index!LoadRecords, Index!LoadVectors, Index!ReadPart
    <3>2. ASSUME Index!Reading(r)', r \notin beside' PROVE Holds(r)'
      <4> DEFINE e == loaded[r]
                 h == disk[Index!Home(e.key)]
      <4>1. e \in Entry /\ Index!Reading(r)
        BY <1>0, <2>4 DEF Index!LoadRecords, Index!LoadVectors, Index!ReadPart, Index!Reading
      <4>2. /\ h = Whole(e.key)
            /\ pcR[r] \in {"records", "vectors"} => e.recs = e.key
        BY <1>1, <3>2, <4>1 DEF Undisturbed
      <4>3. e.key \in 0..MaxWrites /\ h.records = e.key /\ h.vectors = e.key
        BY <4>1, <4>2 DEF Entry, Whole
      <4>4. CASE Index!LoadRecords(r)
        <5>1. Index!Loads(h.records, e.key) /\ pcR'[r] = "records"
          BY <1>0, <3>2, <4>4 DEF Index!LoadRecords, Index!ReadPart, Index!Reading
        <5>2. loaded'[r] = [e EXCEPT !.recs = h.records]
          BY <1>0, <4>4, <5>1 DEF Index!LoadRecords
        <5>3. loaded'[r].key = e.key /\ loaded'[r].recs = e.key
          BY <4>1, <4>3, <5>2, Refiled
        <5> QED
          BY <3>1, <4>2, <5>1, <5>3 DEF Holds, Index!Home, Whole
      <4>5. CASE Index!LoadVectors(r)
        <5>1. Index!Loads(h.vectors, e.key) /\ pcR'[r] = "vectors" /\ pcR[r] = "records"
          BY <1>0, <3>2, <4>5 DEF Index!LoadVectors, Index!ReadPart, Index!Reading
        <5>2. loaded'[r] = [e EXCEPT !.vecs = h.vectors]
          BY <1>0, <4>5, <5>1 DEF Index!LoadVectors
        <5>3. /\ loaded'[r].key = e.key /\ loaded'[r].vecs = e.key
              /\ loaded'[r].recs = e.recs
          BY <4>1, <4>3, <5>2, Refiled
        <5> QED
          BY <3>1, <4>2, <5>1, <5>3 DEF Holds, Index!Home, Whole
      <4> QED
        BY <2>4, <4>4, <4>5
    <3> QED
      BY <1>5, <2>2, <3>1, <3>2
  <2>5. CASE Index!putCachedIndex(r)
    <3>1. pcR[r] = "vectors" /\ pcR'[r] = "served" /\ ~Index!Reading(r)'
      BY <1>0, <2>5 DEF Index!putCachedIndex, Index!Reading
    <3>2. CASE r \in beside
      <4>1. cache' = [loaded[r] EXCEPT !.beside = TRUE]
        BY <2>5, <3>2, Zenon DEF Index!putCachedIndex
      <4>2. cache'.beside = TRUE
        BY <1>0, <4>1 DEF Entry
      <4> QED
        BY <2>2, <3>1, <4>2
    <3>3. CASE r \notin beside
      <4>1. loaded[r].recs = loaded[r].key /\ loaded[r].vecs = loaded[r].key
        BY <3>1, <3>3 DEF Undisturbed, Index!Reading
      <4>2. /\ cache'.key = loaded[r].key /\ cache'.recs = loaded[r].recs
            /\ cache'.vecs = loaded[r].vecs
        <5>1. (r \in beside) \in BOOLEAN /\ loaded[r] \in Entry
          BY <1>0
        <5>2. 0 \in 0..MaxWrites
          BY DEF IndexAssumption
        <5> QED
          BY <2>5, <5>1, <5>2, Refiled, Zenon DEF Index!putCachedIndex
      <4> QED
        BY <2>2, <3>1, <4>1, <4>2
    <3> QED
      BY <3>2, <3>3
  <2>6. CASE Index!Again(r)
    BY <1>0, <1>5, <2>2, <2>6 DEF Index!Again, Index!Reading
  <2> QED
    BY <1>7, <2>3, <2>4, <2>5, <2>6 DEF Index!Read
<1> QED
  BY <1>0, <1>6, <1>7 DEF Index!Step

\* The invariant holds of an empty index and is kept by every step.
LEMMA IndexInvariance ==
  ASSUME IndexAssumption
  PROVE  Index!Spec => []IndexInv
<1>1. Index!Init => IndexInv
  <2> SUFFICES ASSUME Index!Init PROVE IndexInv
    OBVIOUS
  <2>1. StoreTyped
    BY DEF Index!Init, IndexAssumption, StoreTyped, Place, Index!Empty, BuildPcs
  <2>2. ReadersTyped
    <3>1. Index!NoEntry \in Entry
      BY DEF Index!NoEntry, Entry, IndexAssumption
    <3>2. (CHOOSE c \in Content : TRUE) \in Content
      BY DEF IndexAssumption
    <3> QED
      BY <3>1, <3>2 DEF Index!Init, ReadersTyped, Index!Reading, ReadPcs
  <2>3. TruePlans
    BY DEF Index!Init, TruePlans
  <2>4. Shelved
    BY DEF Index!Init, Shelved, Kept, Underway, Whole, Index!Empty, Index!Dir
  <2>5. Undisturbed
    BY DEF Index!Init, Undisturbed, Index!Reading, Index!NoEntry
  <2> QED
    BY <2>1, <2>2, <2>3, <2>4, <2>5 DEF IndexInv, IndexTyped
<1>2. IndexInv /\ [Index!Next]_(Index!vars) => IndexInv'
  <2>1. ASSUME IndexInv, UNCHANGED Index!vars PROVE IndexInv'
    <3> USE <2>1 DEF Index!vars, Index!diskVars, Index!buildVars, Index!readVars
    <3>1. StoreTyped /\ ReadersTyped => StoreTyped' /\ ReadersTyped'
      BY DEF StoreTyped, ReadersTyped, Index!Reading
    <3>2. TruePlans => TruePlans'
      BY DEF TruePlans, True, Index!Embed
    <3>3. Shelved => Shelved'
      <4>1. ASSUME NEW d, NEW m, Kept(d, m) PROVE Kept(d, m)'
        BY <4>1 DEF Kept, Whole
      <4>2. Underway' = Underway
        BY DEF Underway, Whole
      <4> QED
        BY <4>1, <4>2 DEF Shelved, Whole
    <3>4. Undisturbed => Undisturbed'
      BY DEF Undisturbed, Index!Reading, Index!Changing, Index!Home, Whole
    <3>5. dead' = dead
      OBVIOUS
    <3> QED
      BY <3>1, <3>2, <3>3, <3>4, <3>5 DEF IndexInv, IndexTyped
  <2>2. ASSUME IndexInv, Index!Step, Index!Watch PROVE IndexInv'
    <3>1. IndexTyped'
      BY <2>2, StoreStep, ReadersStep DEF IndexInv, IndexTyped
    <3>2. dead => dead'
      BY <2>2 DEF Index!Step, Index!Die, Index!Write, Index!Read, Index!StartBuild,
         Index!StartRefresh, Index!EmbedFails, Index!WriteManifest, Index!WriteData,
         Index!WriteFails, Index!MoveOld, Index!MoveNew, Index!RemoveOld,
         Index!invalidateIndexCache, Index!Clear, Index!Cleared, Index!ReadManifest,
         Index!LoadRecords, Index!LoadVectors, Index!ReadPart, Index!putCachedIndex,
         Index!Again, Index!EditFile
    <3>3. ~dead' => TruePlans' /\ Shelved' /\ Undisturbed'
      BY <2>2, <3>2, TruePlansStep, ShelvedStep, UndisturbedStep DEF IndexInv
    <3> QED
      BY <3>1, <3>3 DEF IndexInv
  <2> QED
    BY <2>1, <2>2 DEF Index!Next
<1> QED
  BY <1>1, <1>2, PTL DEF Index!Spec

\* Every variable of the index keeps its type, deaths included (service.go, store.go).
THEOREM IndexTypes ==
  ASSUME IndexAssumption
  PROVE  Index!Spec => []Index!TypeOK
<1>1. IndexInv => Index!TypeOK
  BY DEF IndexInv, IndexTyped, StoreTyped, ReadersTyped, Index!TypeOK, Place, Entry, Index!Gone,
     Index!Dir
<1> QED
  BY <1>1, IndexInvariance, PTL

\* As long as the process has not died: what is written holds each file with the
\* vector of its own text, refreshed or built; the newest manifest stands with its
\* own data whenever nothing is being changed; and the cache holds the data of one
\* writing unless it was read while the index was changed (Build, Refresh, Replace,
\* Clear, Retrieve).
THEOREM IndexWhole ==
  ASSUME IndexAssumption
  PROVE  Index!Spec => []Index!IndexIsWhole
<1>1. IndexInv => Index!IndexIsWhole
  <2> SUFFICES ASSUME IndexInv, ~dead PROVE Index!IndexIsWhole
    BY DEF Index!IndexIsWhole
  <2>1. ~Index!Changing /\ Index!LoadManifest # 0 =>
          disk[Index!Home(Index!LoadManifest)] = Whole(Index!LoadManifest)
    BY AtRest DEF IndexInv
  <2>2. \A n \in 1..writes : /\ written[n].recs = written[n].scan
                             /\ written[n].vecs = Index!Embed(written[n].scan, written[n].model)
    BY DEF IndexInv, TruePlans, True
  <2>3. cache.beside \/ (cache.recs = cache.key /\ cache.vecs = cache.key)
    BY DEF IndexInv, Undisturbed
  <2> HIDE DEF Index!LoadManifest
  <2> QED
    BY <2>1, <2>2, <2>3 DEF Index!IndexIsWhole, Whole
<1> QED
  BY <1>1, IndexInvariance, PTL

-----------------------------------------------------------------------------
(* Eval.  The targets have nothing in common but the fixture and the       *)
(* command's context, so the invariant is one of each target, by where it  *)
(* is:                                                                     *)
(*   Tallied   its counters, against the limits and the recording;         *)
(*   Concluded why its agent ended, and what scoring may rely on;          *)
(*   Traced    what the agent touched shows in the workspace, and then in  *)
(*             the second snapshot;                                        *)
(*   Fair      the verdict on it.                                          *)

EvalAssumption ==
  /\ Repeat \in Nat /\ Turns \in Nat /\ MaxTurns \in Nat /\ MaxToolCalls \in Nat
  /\ MaxAttempts \in Nat /\ Tests \in Seq(BOOLEAN)

Phases == {"waits", "chat", "answer", "calls", "verify", "test", "command", "verdict", "judged",
           "done"}
Verdicts == {"passed", "failed", "error", "timeout", "canceled"}
Mark == {"a", "b", "c", "link", "none"}
Tree == [Eval!File -> Seq(Mark)]

FixtureTyped ==
  /\ strict \in BOOLEAN /\ recorded \in 0..Turns /\ allowUnexpected \in BOOLEAN
  /\ canceled \in BOOLEAN /\ exit \in {-2, -1, 0, 1, 3}
  /\ exit = -2 => \A t \in Eval!Target : phase[t] = "waits"
  /\ exit \in {0, 1, 3} => \A t \in Eval!Target : phase[t] = "done"

TargetsTyped ==
  /\ phase \in [Eval!Target -> Phases]
  /\ ctxErr \in [Eval!Target -> {"none", "deadline", "canceled"}]
  /\ workspace \in [Eval!Target -> Tree] /\ after \in [Eval!Target -> Tree]
  /\ nextTurn \in [Eval!Target -> Nat] /\ turns \in [Eval!Target -> Nat]
  /\ attempted \in [Eval!Target -> Nat]
  /\ replayErr \in [Eval!Target -> BOOLEAN] /\ limitExceeded \in [Eval!Target -> BOOLEAN]
  /\ runCanceled \in [Eval!Target -> BOOLEAN] /\ answered \in [Eval!Target -> BOOLEAN]
  /\ terminal \in [Eval!Target -> {"none", "aborted", "max_turns", "unrecoverable", "completed"}]
  /\ testResults \in [Eval!Target -> Seq({"passed", "failed", "timeout"})]
  /\ status \in [Eval!Target -> Verdicts \cup {"none"}]
  /\ reason \in [Eval!Target -> {"none", "harness", "recording", "link", "command", "verdict"}]
  /\ touched \in [Eval!Target -> SUBSET Eval!File]

Tallied(t) ==
  /\ nextTurn[t] <= recorded /\ turns[t] <= MaxTurns
  /\ phase[t] = "waits" => nextTurn[t] = 0
  /\ attempted[t] <= MaxAttempts /\ (limitExceeded[t] \/ attempted[t] <= MaxToolCalls)
  /\ runCanceled[t] => limitExceeded[t]
  /\ Len(testResults[t]) <= Len(Tests)
  /\ phase[t] = "command" => Len(testResults[t]) < Len(Tests)

Scoring == {"test", "command", "verdict"}

Concluded(t) ==
  /\ phase[t] \in {"waits", "chat", "answer", "calls"} => terminal[t] = "none"
  /\ phase[t] \in {"verify"} \cup Scoring => terminal[t] # "none"
  /\ terminal[t] = "aborted" => Eval!Stopped(t)
  /\ phase[t] \in Scoring => ~replayErr[t] /\ ~Eval!unusedTurns(t)
  /\ phase[t] \in {"judged", "done"} => status[t] # "none"

Traced(t) ==
  "other" \in touched[t] =>
    /\ phase[t] \in {"waits", "chat", "answer", "calls", "verify"} =>
         workspace[t]["other"] # Eval!Repo["other"]
    /\ phase[t] \in Scoring => after[t]["other"] # Eval!Repo["other"]

Passed(t) ==
  /\ terminal[t] = "completed" /\ attempted[t] <= MaxToolCalls /\ ctxErr[t] = "none"
  /\ ~replayErr[t] /\ (strict => nextTurn[t] = recorded)
  /\ touched[t] \subseteq {"golden"} \/ allowUnexpected
  /\ workspace[t]["golden"] = Eval!Expected

Apart(t) ==
  /\ status[t] \in {"passed", "failed"} => ~replayErr[t] /\ ctxErr[t] = "none"
  /\ status[t] = "timeout" => ctxErr[t] = "deadline"
  /\ replayErr[t] => status[t] = "error"
  /\ status[t] = "canceled" => ctxErr[t] = "canceled"
  /\ reason[t] = "command" =>
       status[t] = "error" /\ ~replayErr[t] /\ Len(testResults[t]) < Len(Tests)

Fair(t) == phase[t] = "judged" => (status[t] = "passed" => Passed(t)) /\ Apart(t)

Right(t) == Tallied(t) /\ Concluded(t) /\ Traced(t) /\ Fair(t)

EvalInv ==
  /\ FixtureTyped /\ TargetsTyped
  /\ \A t \in Eval!Target : Right(t)
  /\ Eval!SuccessIsOfAll

\* A new value at one place.
LEMMA SetAt ==
  ASSUME NEW S, NEW V, NEW f \in [S -> V], NEW t \in S, NEW v \in V
  PROVE  /\ [f EXCEPT ![t] = v] \in [S -> V] /\ [f EXCEPT ![t] = v][t] = v
         /\ \A u \in S : u # t => [f EXCEPT ![t] = v][u] = f[u]
OBVIOUS

\* What a target does leaves the others as they were.
Alone(u) ==
  /\ phase'[u] = phase[u] /\ ctxErr'[u] = ctxErr[u] /\ workspace'[u] = workspace[u]
  /\ after'[u] = after[u] /\ nextTurn'[u] = nextTurn[u] /\ turns'[u] = turns[u]
  /\ attempted'[u] = attempted[u] /\ replayErr'[u] = replayErr[u]
  /\ limitExceeded'[u] = limitExceeded[u] /\ runCanceled'[u] = runCanceled[u]
  /\ terminal'[u] = terminal[u] /\ testResults'[u] = testResults[u]
  /\ status'[u] = status[u] /\ reason'[u] = reason[u] /\ touched'[u] = touched[u]

LEMMA LeftAlone ==
  ASSUME NEW u \in Eval!Target, Right(u), Alone(u),
         UNCHANGED <<strict, recorded, allowUnexpected>>
  PROVE  Right(u)'
<1> USE DEF Alone
<1>1. Tallied(u)'
  BY DEF Right, Tallied
<1>2. Concluded(u)'
  BY DEF Right, Concluded, Eval!Stopped, Eval!unusedTurns, Scoring
<1>3. Traced(u)'
  BY DEF Right, Traced, Eval!Repo, Eval!File, Scoring
<1>4. Fair(u)'
  BY DEF Right, Fair, Passed, Apart, Eval!Expected
<1> QED
  BY <1>1, <1>2, <1>3, <1>4 DEF Right

Acts(t) ==
  \/ Eval!Take(t) \/ Eval!Return(t) \/ Eval!Deadline(t) \/ Eval!Fault(t)
  \/ Eval!Aborted(t) \/ Eval!OutOfTurns(t) \/ Eval!Served(t) \/ Eval!NotServed(t)
  \/ Eval!Answer(t) \/ Eval!NoCall(t) \/ Eval!ToolCall(t) \/ Eval!Verify(t) \/ Eval!StartTest(t)
  \/ Eval!EndTest(t) \/ Eval!TestError(t) \/ Eval!TestsDone(t) \/ Eval!Verdict(t)

\* The files the agent and the commands leave are trees.
LEMMA Trees ==
  /\ Eval!Repo \in Tree
  /\ \A w \in Eval!Writes : w.file \in Eval!File /\ w.to \in Seq(Mark)
  /\ [f \in Eval!File |-> <<"c">>] \in Tree
  /\ \A w \in Eval!Writes : w.file = "other" => w.to # Eval!Repo["other"]
<1>1. <<"a", "b">> \in Seq(Mark) /\ <<"a", "c">> \in Seq(Mark) /\ <<"b">> \in Seq(Mark)
      /\ <<"c">> \in Seq(Mark) /\ <<"link">> \in Seq(Mark) /\ <<"none">> \in Seq(Mark)
  BY DEF Mark
<1>2. Eval!Repo["other"] = <<"a", "b">>
  BY DEF Eval!Repo, Eval!File
<1>3. <<"b">> # <<"a", "b">> /\ <<"c">> # <<"a", "b">> /\ <<"link">> # <<"a", "b">>
  OBVIOUS
<1>4. Eval!Repo \in Tree /\ [f \in Eval!File |-> <<"c">>] \in Tree
  BY <1>1 DEF Eval!Repo, Tree
<1>5. ASSUME NEW w \in Eval!Writes
      PROVE  /\ w.file \in Eval!File /\ w.to \in Seq(Mark)
             /\ w.file = "other" => w.to # Eval!Repo["other"]
  <2>1. \/ w = [file |-> "golden", to |-> <<"a", "c">>]
        \/ w = [file |-> "golden", to |-> <<"none">>]
        \/ w = [file |-> "other", to |-> <<"b">>]
        \/ w = [file |-> "other", to |-> <<"c">>]
        \/ w = [file |-> "other", to |-> <<"link">>]
    BY DEF Eval!Writes, Eval!golden, Eval!Expected, Eval!NoFile, Eval!Link
  <2>2. w.file = "golden" => w.to \in {<<"a", "c">>, <<"none">>}
    BY <2>1
  <2>3. w.file = "other" => w.to \in {<<"b">>, <<"c">>, <<"link">>}
    BY <2>1
  <2>4. w.file \in {"golden", "other"}
    BY <2>1
  <2> QED
    BY <1>1, <1>2, <1>3, <2>2, <2>3, <2>4 DEF Eval!File, Eval!golden
<1> QED
  BY <1>4, <1>5

\* An error of the harness, or the tests are next.
LEMMA VerifyTypes ==
  ASSUME TargetsTyped, NEW t \in Eval!Target, Eval!Verify(t)
  PROVE  /\ phase' \in [Eval!Target -> Phases] /\ after' \in [Eval!Target -> Tree]
         /\ status' \in [Eval!Target -> Verdicts \cup {"none"}]
         /\ reason' \in [Eval!Target -> {"none", "harness", "recording", "link", "command",
                                         "verdict"}]
         /\ \A u \in Eval!Target :
              u # t => /\ phase'[u] = phase[u] /\ after'[u] = after[u]
                       /\ status'[u] = status[u] /\ reason'[u] = reason[u]
<1>1. \/ /\ phase' = [phase EXCEPT ![t] = "judged"]
         /\ status' = [status EXCEPT ![t] = "error"] /\ after' = after
         /\ \E why \in {"recording", "link"} : reason' = [reason EXCEPT ![t] = why]
      \/ /\ phase' = [phase EXCEPT ![t] = "test"] /\ status' = status /\ reason' = reason
         /\ after' = [after EXCEPT ![t] = workspace[t]]
  BY DEF Eval!Verify, Eval!Judged, Eval!Goto, Eval!Set, Eval!result
<1>2. /\ phase \in [Eval!Target -> Phases] /\ after \in [Eval!Target -> Tree]
      /\ workspace[t] \in Tree /\ status \in [Eval!Target -> Verdicts \cup {"none"}]
      /\ reason \in [Eval!Target -> {"none", "harness", "recording", "link", "command",
                                      "verdict"}]
  BY DEF TargetsTyped
<1>3. /\ phase' \in [Eval!Target -> Phases]
      /\ \A u \in Eval!Target : u # t => phase'[u] = phase[u]
  BY <1>1, <1>2 DEF Phases
<1>4. /\ after' \in [Eval!Target -> Tree]
      /\ \A u \in Eval!Target : u # t => after'[u] = after[u]
  BY <1>1, <1>2
<1>5. /\ status' \in [Eval!Target -> Verdicts \cup {"none"}]
      /\ \A u \in Eval!Target : u # t => status'[u] = status[u]
  BY <1>1, <1>2 DEF Verdicts
<1>6. /\ reason' \in [Eval!Target -> {"none", "harness", "recording", "link", "command",
                                      "verdict"}]
      /\ \A u \in Eval!Target : u # t => reason'[u] = reason[u]
  BY <1>1, <1>2
<1> QED
  BY <1>3, <1>4, <1>5, <1>6

\* Types, and that a target acts alone.
LEMMA TargetsStep ==
  ASSUME EvalAssumption, FixtureTyped, TargetsTyped, NEW t \in Eval!Target, Acts(t)
  PROVE  /\ TargetsTyped' /\ \A u \in Eval!Target : u # t => Alone(u)
         /\ UNCHANGED <<strict, recorded, allowUnexpected, canceled, exit>>
<1> USE DEF TargetsTyped, Phases, Verdicts, Alone, Eval!Set, Eval!Goto, Eval!env, Eval!config,
     Eval!runVars, Eval!agentVars, Eval!result
<1>1. CASE Eval!Take(t)
  BY <1>1 DEF Eval!Take
<1>2. CASE Eval!Return(t)
  <2>1. <<>> \in Seq({"passed", "failed", "timeout"}) /\ Eval!Repo \in Tree
    BY Trees
  <2> QED
    BY <1>2, <2>1 DEF Eval!Return
<1>3. CASE Eval!Deadline(t)
  BY <1>3 DEF Eval!Deadline
<1>4. CASE Eval!Fault(t)
  BY <1>4 DEF Eval!Fault, Eval!Judged
<1>5. CASE Eval!Aborted(t)
  <2>1. /\ phase' \in [Eval!Target -> Phases]
        /\ \A u \in Eval!Target : u # t => phase'[u] = phase[u]
    BY <1>5 DEF Eval!Aborted, Eval!Ended, Eval!agentRest
  <2>2. /\ terminal' \in [Eval!Target
                          -> {"none", "aborted", "max_turns", "unrecoverable", "completed"}]
        /\ \A u \in Eval!Target : u # t => terminal'[u] = terminal[u]
    BY <1>5 DEF Eval!Aborted, Eval!Ended, Eval!agentRest
  <2>3. UNCHANGED <<strict, recorded, allowUnexpected, canceled, exit, ctxErr, workspace, after,
                    nextTurn, turns, attempted, replayErr, limitExceeded, runCanceled, answered,
                    testResults, status, reason, touched>>
    BY <1>5 DEF Eval!Aborted, Eval!Ended, Eval!agentRest
  <2> QED
    BY <2>1, <2>2, <2>3
<1>16. CASE Eval!OutOfTurns(t)
  <2>1. /\ phase' \in [Eval!Target -> Phases]
        /\ \A u \in Eval!Target : u # t => phase'[u] = phase[u]
    BY <1>16 DEF Eval!OutOfTurns, Eval!Ended, Eval!agentRest
  <2>2. /\ terminal' \in [Eval!Target
                          -> {"none", "aborted", "max_turns", "unrecoverable", "completed"}]
        /\ \A u \in Eval!Target : u # t => terminal'[u] = terminal[u]
    BY <1>16 DEF Eval!OutOfTurns, Eval!Ended, Eval!agentRest
  <2>3. UNCHANGED <<strict, recorded, allowUnexpected, canceled, exit, ctxErr, workspace, after,
                    nextTurn, turns, attempted, replayErr, limitExceeded, runCanceled, answered,
                    testResults, status, reason, touched>>
    BY <1>16 DEF Eval!OutOfTurns, Eval!Ended, Eval!agentRest
  <2> QED
    BY <2>1, <2>2, <2>3
<1>6. CASE Eval!Served(t)
  BY <1>6 DEF Eval!Served, Eval!agentRest
<1>7. CASE Eval!NotServed(t)
  BY <1>7 DEF Eval!NotServed, Eval!Ended, Eval!agentRest
<1>8. CASE Eval!Answer(t)
  BY <1>8 DEF Eval!Answer, Eval!Ended, Eval!agentRest
<1>17. CASE Eval!NoCall(t)
  BY <1>17 DEF Eval!NoCall, Eval!agentRest
<1>9. CASE Eval!ToolCall(t)
  <2> DEFINE over == attempted[t] >= MaxToolCalls
  <2>1. over \in BOOLEAN
    OBVIOUS
  <2>2. /\ limitExceeded' = [limitExceeded EXCEPT ![t] = over]
        /\ runCanceled' = [runCanceled EXCEPT ![t] = over]
    BY <1>9 DEF Eval!ToolCall
  <2> HIDE DEF over
  <2>3. /\ limitExceeded' \in [Eval!Target -> BOOLEAN] /\ runCanceled' \in [Eval!Target -> BOOLEAN]
        /\ \A u \in Eval!Target : u # t => /\ limitExceeded'[u] = limitExceeded[u]
                                           /\ runCanceled'[u] = runCanceled[u]
    BY <2>1, <2>2, SetAt, Zenon
  <2>4. /\ workspace' \in [Eval!Target -> Tree] /\ touched' \in [Eval!Target -> SUBSET Eval!File]
        /\ \A u \in Eval!Target : u # t => workspace'[u] = workspace[u] /\ touched'[u] = touched[u]
    <3>1. CASE UNCHANGED <<workspace, touched>>
      BY <3>1
    <3>2. ASSUME NEW w \in Eval!Writes,
                 workspace' = [workspace EXCEPT ![t][w.file] = w.to],
                 touched' = [touched EXCEPT ![t] = @ \cup {w.file}]
          PROVE  <2>4
      BY <3>2, Trees DEF Tree
    <3> QED
      BY <1>9, <3>1, <3>2 DEF Eval!ToolCall
  <2>5. /\ attempted' = [attempted EXCEPT ![t] = @ + 1]
        /\ phase' = [phase EXCEPT ![t] = "chat"] \/ phase' = [phase EXCEPT ![t] = "calls"]
        /\ UNCHANGED <<strict, recorded, allowUnexpected, canceled, exit, ctxErr, after, nextTurn,
                       replayErr, turns, terminal, answered, testResults, status, reason>>
    BY <1>9 DEF Eval!ToolCall
  <2>6. /\ phase' \in [Eval!Target -> Phases]
        /\ \A u \in Eval!Target : u # t => phase'[u] = phase[u]
    BY <2>5
  <2>7. /\ attempted' \in [Eval!Target -> Nat]
        /\ \A u \in Eval!Target : u # t => attempted'[u] = attempted[u]
    BY <2>5
  <2>8. UNCHANGED <<strict, recorded, allowUnexpected, canceled, exit, ctxErr, after, nextTurn,
                    replayErr, turns, terminal, answered, testResults, status, reason>>
    BY <2>5
  <2> QED
    BY <2>3, <2>4, <2>6, <2>7, <2>8
<1>10. CASE Eval!Verify(t)
  <2>1. /\ phase' \in [Eval!Target -> Phases] /\ after' \in [Eval!Target -> Tree]
        /\ status' \in [Eval!Target -> Verdicts \cup {"none"}]
        /\ reason' \in [Eval!Target -> {"none", "harness", "recording", "link", "command",
                                        "verdict"}]
        /\ \A u \in Eval!Target :
             u # t => /\ phase'[u] = phase[u] /\ after'[u] = after[u]
                      /\ status'[u] = status[u] /\ reason'[u] = reason[u]
    <3> HIDE DEF TargetsTyped
    <3> QED
      BY <1>10, VerifyTypes
  <2>2. UNCHANGED <<strict, recorded, allowUnexpected, canceled, exit, ctxErr, workspace, nextTurn,
                    replayErr, turns, attempted, limitExceeded, runCanceled, terminal, answered,
                    testResults, touched>>
    BY <1>10 DEF Eval!Verify
  <2> QED
    BY <2>1, <2>2
<1>11. CASE Eval!StartTest(t)
  <2>1. /\ phase' \in [Eval!Target -> Phases]
        /\ \A u \in Eval!Target : u # t => phase'[u] = phase[u]
    BY <1>11 DEF Eval!StartTest
  <2>2. /\ testResults' \in [Eval!Target -> Seq({"passed", "failed", "timeout"})]
        /\ \A u \in Eval!Target : u # t => testResults'[u] = testResults[u]
    <3>1. Append(testResults[t], "timeout") \in Seq({"passed", "failed", "timeout"})
      OBVIOUS
    <3> QED
      BY <1>11, <3>1 DEF Eval!StartTest
  <2>3. UNCHANGED <<strict, recorded, allowUnexpected, canceled, exit, ctxErr, workspace, after,
                    nextTurn, replayErr, turns, attempted, limitExceeded, runCanceled, terminal,
                    answered, touched, status, reason>>
    BY <1>11 DEF Eval!StartTest
  <2> QED
    BY <2>1, <2>2, <2>3
<1>12. CASE Eval!EndTest(t)
  <2>1. Eval!Outcomes(t) \subseteq {"passed", "failed", "timeout"}
    BY DEF Eval!Outcomes
  <2>2. /\ workspace' \in [Eval!Target -> Tree]
        /\ \A u \in Eval!Target : u # t => workspace'[u] = workspace[u]
    BY <1>12, Trees DEF Eval!EndTest
  <2>3. /\ testResults' \in [Eval!Target -> Seq({"passed", "failed", "timeout"})]
        /\ \A u \in Eval!Target : u # t => testResults'[u] = testResults[u]
    BY <1>12, <2>1 DEF Eval!EndTest
  <2> QED
    BY <1>12, <2>2, <2>3 DEF Eval!EndTest
<1>13. CASE Eval!TestError(t)
  BY <1>13 DEF Eval!TestError, Eval!Judged
<1>14. CASE Eval!TestsDone(t)
  BY <1>14 DEF Eval!TestsDone
<1>15. CASE Eval!Verdict(t)
  <2>1. \A o \in BOOLEAN : Eval!verdict(t, o) \in Verdicts
    BY DEF Eval!verdict
  <2> QED
    BY <1>15, <2>1 DEF Eval!Verdict, Eval!Judged
<1> QED
  BY <1>1, <1>2, <1>3, <1>4, <1>5, <1>6, <1>7, <1>8, <1>9, <1>10, <1>11, <1>12, <1>13, <1>14,
     <1>15, <1>16, <1>17 DEF Acts

\* What holds of a target holds after each thing it does.
LEMMA ActsRight ==
  ASSUME EvalAssumption, FixtureTyped, TargetsTyped, NEW t \in Eval!Target, Right(t), Acts(t)
  PROVE  Right(t)'
<1> USE DEF Eval!Set, Eval!Goto, Eval!env, Eval!config, Eval!runVars, Eval!agentVars, Eval!result
<1>0. /\ TargetsTyped' /\ UNCHANGED <<strict, recorded, allowUnexpected, canceled, exit>>
      /\ MaxToolCalls \in Nat /\ MaxAttempts \in Nat /\ MaxTurns \in Nat /\ recorded \in Nat
  BY TargetsStep DEF EvalAssumption, FixtureTyped
<1>1. CASE Eval!Take(t)
  <2>1. /\ phase[t] = "waits" /\ phase'[t] = "chat"
        /\ UNCHANGED <<workspace[t], after[t], nextTurn[t], replayErr[t], turns[t], attempted[t],
                       limitExceeded[t], runCanceled[t], terminal[t], testResults[t], status[t],
                       reason[t], touched[t]>>
    BY <1>1 DEF TargetsTyped, Eval!Take
  <2> QED
    BY <1>0, <2>1 DEF TargetsTyped, Right, Tallied, Concluded, Traced, Fair, Passed,
       Apart, Scoring, Eval!Stopped, Eval!unusedTurns, Eval!Repo, Eval!File, Eval!Expected
<1>2. CASE Eval!Return(t)
  <2>1. /\ phase[t] = "judged" /\ phase'[t] = "done" /\ touched'[t] = {} /\ nextTurn'[t] = 0
        /\ turns'[t] = 0 /\ attempted'[t] = 0 /\ ~replayErr'[t] /\ ~limitExceeded'[t]
        /\ ~runCanceled'[t] /\ terminal'[t] = "none" /\ testResults'[t] = <<>>
        /\ UNCHANGED <<status[t]>>
    BY <1>2 DEF TargetsTyped, Eval!Return
  <2> QED
    BY <1>0, <2>1 DEF TargetsTyped, Right, Tallied, Concluded, Traced, Fair, Passed,
       Apart, Scoring, Eval!Stopped, Eval!unusedTurns, Eval!Repo, Eval!File, Eval!Expected
<1>3. CASE Eval!Deadline(t)
  <2>1. /\ phase[t] \notin {"waits", "judged", "done"} /\ phase'[t] = phase[t]
        /\ ctxErr'[t] = "deadline"
        /\ UNCHANGED <<workspace[t], after[t], nextTurn[t], replayErr[t], turns[t], attempted[t],
                       limitExceeded[t], runCanceled[t], terminal[t], testResults[t], status[t],
                       reason[t], touched[t]>>
    BY <1>3 DEF TargetsTyped, Eval!Deadline
  <2> QED
    BY <1>0, <2>1 DEF TargetsTyped, Right, Tallied, Concluded, Traced, Fair, Passed,
       Apart, Scoring, Eval!Stopped, Eval!unusedTurns, Eval!Repo, Eval!File, Eval!Expected
<1>4. CASE Eval!Fault(t)
  <2>1. /\ phase'[t] = "judged" /\ status'[t] = "error" /\ reason'[t] = "harness"
        /\ UNCHANGED <<ctxErr[t], workspace[t], after[t], nextTurn[t], replayErr[t], turns[t],
                       attempted[t], limitExceeded[t], runCanceled[t], terminal[t], testResults[t],
                       touched[t]>>
    BY <1>4 DEF TargetsTyped, Eval!Fault, Eval!Judged
  <2> QED
    BY <1>0, <2>1 DEF TargetsTyped, Right, Tallied, Concluded, Traced, Fair, Passed,
       Apart, Scoring, Eval!Stopped, Eval!unusedTurns, Eval!Repo, Eval!File, Eval!Expected
<1>5. CASE Eval!Aborted(t)
  <2>1. /\ phase'[t] = "verify" /\ terminal'[t] = "aborted" /\ Eval!Stopped(t)
        /\ phase[t] \in {"chat", "answer"}
        /\ UNCHANGED <<ctxErr[t], workspace[t], after[t], nextTurn[t], replayErr[t], turns[t],
                       attempted[t], limitExceeded[t], runCanceled[t], testResults[t], status[t],
                       reason[t], touched[t]>>
    BY <1>5 DEF TargetsTyped, Eval!Aborted, Eval!Ended, Eval!agentRest
  <2> QED
    BY <1>0, <2>1 DEF TargetsTyped, Right, Tallied, Concluded, Traced, Fair, Passed,
       Apart, Scoring, Eval!Stopped, Eval!unusedTurns, Eval!Repo, Eval!File, Eval!Expected
<1>6. CASE Eval!OutOfTurns(t)
  <2>1. /\ phase[t] = "chat" /\ phase'[t] = "verify" /\ terminal'[t] = "max_turns"
        /\ UNCHANGED <<ctxErr[t], workspace[t], after[t], nextTurn[t], replayErr[t], turns[t],
                       attempted[t], limitExceeded[t], runCanceled[t], testResults[t], status[t],
                       reason[t], touched[t]>>
    BY <1>6 DEF TargetsTyped, Eval!OutOfTurns, Eval!Ended, Eval!agentRest
  <2> QED
    BY <1>0, <2>1 DEF TargetsTyped, Right, Tallied, Concluded, Traced, Fair, Passed,
       Apart, Scoring, Eval!Stopped, Eval!unusedTurns, Eval!Repo, Eval!File, Eval!Expected
<1>7. CASE Eval!Served(t)
  <2>1. /\ phase[t] = "chat" /\ phase'[t] = "answer" /\ turns[t] < MaxTurns
        /\ nextTurn[t] < recorded /\ nextTurn'[t] = nextTurn[t] + 1 /\ turns'[t] = turns[t] + 1
        /\ UNCHANGED <<ctxErr[t], workspace[t], after[t], replayErr[t], attempted[t],
                       limitExceeded[t], runCanceled[t], terminal[t], testResults[t], status[t],
                       reason[t], touched[t]>>
    BY <1>7 DEF TargetsTyped, Eval!Served, Eval!agentRest
  <2> QED
    BY <1>0, <2>1 DEF TargetsTyped, Right, Tallied, Concluded, Traced, Fair, Passed,
       Apart, Scoring, Eval!Stopped, Eval!unusedTurns, Eval!Repo, Eval!File, Eval!Expected
<1>8. CASE Eval!NotServed(t)
  <2>1. /\ phase[t] = "chat" /\ phase'[t] = "verify" /\ terminal'[t] = "unrecoverable"
        /\ nextTurn'[t] = IF nextTurn[t] < recorded THEN nextTurn[t] + 1 ELSE nextTurn[t]
        /\ UNCHANGED <<ctxErr[t], workspace[t], after[t], turns[t], attempted[t], limitExceeded[t],
                       runCanceled[t], testResults[t], status[t], reason[t], touched[t]>>
    BY <1>8 DEF TargetsTyped, Eval!NotServed, Eval!Ended, Eval!agentRest
  <2> QED
    BY <1>0, <2>1 DEF TargetsTyped, Right, Tallied, Concluded, Traced, Fair, Passed,
       Apart, Scoring, Eval!Stopped, Eval!unusedTurns, Eval!Repo, Eval!File, Eval!Expected
<1>9. CASE Eval!Answer(t)
  <2>1. /\ phase[t] = "answer" /\ phase'[t] = "verify" /\ terminal'[t] = "completed"
        /\ UNCHANGED <<ctxErr[t], workspace[t], after[t], nextTurn[t], replayErr[t], turns[t],
                       attempted[t], limitExceeded[t], runCanceled[t], testResults[t], status[t],
                       reason[t], touched[t]>>
    BY <1>9 DEF TargetsTyped, Eval!Answer, Eval!Ended, Eval!agentRest
  <2> QED
    BY <1>0, <2>1 DEF TargetsTyped, Right, Tallied, Concluded, Traced, Fair, Passed,
       Apart, Scoring, Eval!Stopped, Eval!unusedTurns, Eval!Repo, Eval!File, Eval!Expected
<1>17. CASE Eval!NoCall(t)
  <2>1. /\ phase[t] = "answer" /\ phase'[t] = "chat"
        /\ UNCHANGED <<ctxErr[t], workspace[t], after[t], nextTurn[t], replayErr[t], turns[t],
                       attempted[t], limitExceeded[t], runCanceled[t], terminal[t],
                       testResults[t], status[t], reason[t], touched[t]>>
    BY <1>17 DEF TargetsTyped, Eval!NoCall, Eval!agentRest
  <2> QED
    BY <1>0, <2>1 DEF TargetsTyped, Right, Tallied, Concluded, Traced, Fair, Passed,
       Apart, Scoring, Eval!Stopped, Eval!unusedTurns, Eval!Repo, Eval!File, Eval!Expected
<1>10. CASE Eval!ToolCall(t)
  <2>1. /\ phase[t] \in {"answer", "calls"} /\ phase'[t] \in {"chat", "calls"}
        /\ attempted'[t] = attempted[t] + 1 /\ attempted[t] < MaxAttempts
        /\ UNCHANGED <<ctxErr[t], after[t], nextTurn[t], replayErr[t], turns[t], terminal[t],
                       testResults[t], status[t], reason[t]>>
    BY <1>10 DEF TargetsTyped, Eval!ToolCall
  <2>2. /\ limitExceeded'[t] <=> attempted[t] >= MaxToolCalls
        /\ runCanceled'[t] <=> attempted[t] >= MaxToolCalls
    <3> DEFINE over == attempted[t] >= MaxToolCalls
    <3>1. over \in BOOLEAN
      OBVIOUS
    <3>2. /\ limitExceeded' = [limitExceeded EXCEPT ![t] = over]
          /\ runCanceled' = [runCanceled EXCEPT ![t] = over]
      BY <1>10 DEF Eval!ToolCall
    <3>3. limitExceeded \in [Eval!Target -> BOOLEAN] /\ runCanceled \in [Eval!Target -> BOOLEAN]
      BY DEF TargetsTyped
    <3> HIDE DEF over
    <3>4. limitExceeded'[t] = over /\ runCanceled'[t] = over
      BY <3>1, <3>2, <3>3, SetAt, Zenon
    <3> QED
      BY <3>4 DEF over
  <2>3. "other" \in touched'[t] => workspace'[t]["other"] # Eval!Repo["other"]
    <3>1. CASE UNCHANGED <<workspace, touched>>
      BY <2>1, <3>1 DEF Right, Traced
    <3>2. ASSUME NEW w \in Eval!Writes,
                 workspace' = [workspace EXCEPT ![t][w.file] = w.to],
                 touched' = [touched EXCEPT ![t] = @ \cup {w.file}]
          PROVE  "other" \in touched'[t] => workspace'[t]["other"] # Eval!Repo["other"]
      <4>1. workspace[t] \in Tree /\ workspace \in [Eval!Target -> Tree]
        BY DEF TargetsTyped
      <4>2. w.file \in {"golden", "other"} /\ (w.file = "other" => w.to # Eval!Repo["other"])
        BY Trees DEF Eval!File, Eval!golden
      <4>3. workspace'[t] = [workspace[t] EXCEPT ![w.file] = w.to]
        BY <3>2, <4>1
      <4>4. touched'[t] = touched[t] \cup {w.file}
        BY <3>2 DEF TargetsTyped
      <4>5. DOMAIN workspace[t] = {"golden", "other"}
        BY <4>1 DEF Tree, Eval!File, Eval!golden
      <4>6. CASE w.file = "other"
        <5>1. workspace'[t]["other"] = w.to
          BY <4>3, <4>5, <4>6
        <5> QED
          BY <4>2, <4>6, <5>1
      <4>7. CASE w.file # "other"
        <5>1. workspace'[t]["other"] = workspace[t]["other"]
          BY <4>3, <4>5, <4>7
        <5>2. "other" \in touched'[t] => "other" \in touched[t]
          BY <4>4, <4>7
        <5> QED
          BY <2>1, <5>1, <5>2 DEF Right, Traced
      <4> QED
        BY <4>6, <4>7
    <3> QED
      BY <1>10, <3>1, <3>2 DEF Eval!ToolCall
  <2> QED
    BY <1>0, <2>1, <2>2, <2>3 DEF TargetsTyped, Right, Tallied, Concluded, Traced, Fair, Passed,
       Apart, Scoring, Eval!Stopped, Eval!unusedTurns, Eval!Repo, Eval!File, Eval!Expected
<1>11. CASE Eval!Verify(t)
  <2>1. phase[t] = "verify"
        /\ UNCHANGED <<ctxErr[t], workspace[t], nextTurn[t], replayErr[t], turns[t], attempted[t],
                       limitExceeded[t], runCanceled[t], terminal[t], testResults[t], touched[t]>>
    BY <1>11 DEF TargetsTyped, Eval!Verify
  <2>2. CASE replayErr[t] \/ Eval!unusedTurns(t) \/ Eval!Unreadable(t)
    <3>1. phase'[t] = "judged" /\ status'[t] = "error" /\ reason'[t] \in {"recording", "link"}
      BY <1>11, <2>2 DEF TargetsTyped, Eval!Verify, Eval!Judged
    <3> QED
      BY <1>0, <2>1, <3>1 DEF TargetsTyped, Right, Tallied, Concluded, Traced, Fair, Passed,
         Apart, Scoring, Eval!Stopped, Eval!unusedTurns, Eval!Repo, Eval!File, Eval!Expected
  <2>3. CASE ~replayErr[t] /\ ~Eval!unusedTurns(t) /\ ~Eval!Unreadable(t)
    <3>1. phase'[t] = "test" /\ after'[t] = workspace[t]
      BY <1>11, <2>3 DEF TargetsTyped, Eval!Verify
    <3> QED
      BY <1>0, <2>1, <2>3, <3>1 DEF TargetsTyped, Right, Tallied, Concluded, Traced, Fair, Passed,
         Apart, Scoring, Eval!Stopped, Eval!unusedTurns, Eval!Repo, Eval!File, Eval!Expected
  <2> QED
    BY <2>2, <2>3
<1>12. CASE Eval!StartTest(t)
  <2>1. phase[t] = "test" /\ phase'[t] \in {"test", "command"}
        /\ UNCHANGED <<ctxErr[t], workspace[t], after[t], nextTurn[t], replayErr[t], turns[t],
                       attempted[t], limitExceeded[t], runCanceled[t], terminal[t], status[t],
                       reason[t], touched[t]>>
    BY <1>12 DEF TargetsTyped, Eval!StartTest
  <2>2. /\ Len(testResults'[t]) <= Len(Tests)
        /\ phase'[t] = "command" => Len(testResults'[t]) < Len(Tests)
    BY <1>12 DEF TargetsTyped, Eval!StartTest, EvalAssumption, Right, Tallied
  <2> QED
    BY <1>0, <2>1, <2>2 DEF TargetsTyped, Right, Tallied, Concluded, Traced, Fair, Passed,
       Apart, Scoring, Eval!Stopped, Eval!unusedTurns, Eval!Repo, Eval!File, Eval!Expected
<1>13. CASE Eval!EndTest(t)
  <2>1. phase[t] = "command" /\ phase'[t] = "test"
        /\ UNCHANGED <<ctxErr[t], after[t], nextTurn[t], replayErr[t], turns[t], attempted[t],
                       limitExceeded[t], runCanceled[t], terminal[t], status[t], reason[t],
                       touched[t]>>
    BY <1>13 DEF TargetsTyped, Eval!EndTest
  <2>2. Len(testResults'[t]) <= Len(Tests)
    <3>1. PICK outcome \in Eval!Outcomes(t) :
            testResults' = [testResults EXCEPT ![t] = Append(@, outcome)]
      BY <1>13 DEF Eval!EndTest
    <3>2. outcome \in {"passed", "failed", "timeout"}
      BY DEF Eval!Outcomes, TargetsTyped
    <3>3. /\ testResults[t] \in Seq({"passed", "failed", "timeout"})
          /\ testResults'[t] = Append(testResults[t], outcome)
      BY <3>1 DEF TargetsTyped
    <3>4. Len(testResults'[t]) = Len(testResults[t]) + 1
      BY <3>2, <3>3
    <3> QED
      BY <2>1, <3>3, <3>4 DEF Right, Tallied, EvalAssumption
  <2> QED
    BY <1>0, <2>1, <2>2 DEF TargetsTyped, Right, Tallied, Concluded, Traced, Fair, Passed,
       Apart, Scoring, Eval!Stopped, Eval!unusedTurns, Eval!Repo, Eval!File, Eval!Expected
<1>14. CASE Eval!TestError(t)
  <2>1. /\ phase[t] \in {"command", "test"} /\ phase'[t] = "judged" 
        /\ Len(testResults[t]) < Len(Tests) /\ status'[t] = "error" /\ reason'[t] = "command"
        /\ UNCHANGED <<ctxErr[t], workspace[t], after[t], nextTurn[t], replayErr[t], turns[t],
                       attempted[t], limitExceeded[t], runCanceled[t], terminal[t], testResults[t],
                       touched[t]>>
    BY <1>14 DEF TargetsTyped, Eval!TestError, Eval!Judged, Right, Tallied
  <2> QED
    BY <1>0, <2>1 DEF TargetsTyped, Right, Tallied, Concluded, Traced, Fair, Passed,
       Apart, Scoring, Eval!Stopped, Eval!unusedTurns, Eval!Repo, Eval!File, Eval!Expected
<1>15. CASE Eval!TestsDone(t)
  <2>1. /\ phase[t] = "test" /\ phase'[t] = "verdict"
        /\ UNCHANGED <<ctxErr[t], workspace[t], after[t], nextTurn[t], replayErr[t], turns[t],
                       attempted[t], limitExceeded[t], runCanceled[t], terminal[t], testResults[t],
                       status[t], reason[t], touched[t]>>
    BY <1>15 DEF TargetsTyped, Eval!TestsDone
  <2> QED
    BY <1>0, <2>1 DEF TargetsTyped, Right, Tallied, Concluded, Traced, Fair, Passed,
       Apart, Scoring, Eval!Stopped, Eval!unusedTurns, Eval!Repo, Eval!File, Eval!Expected
<1>16. CASE Eval!Verdict(t)
  <2>1. PICK o \in BOOLEAN : Eval!Judged(t, Eval!verdict(t, o), "verdict")
    BY <1>16 DEF Eval!Verdict
  <2>2. /\ phase[t] = "verdict" /\ phase'[t] = "judged" /\ status'[t] = Eval!verdict(t, o)
        /\ reason'[t] = "verdict"
        /\ UNCHANGED <<ctxErr[t], workspace[t], after[t], nextTurn[t], replayErr[t], turns[t],
                       attempted[t], limitExceeded[t], runCanceled[t], terminal[t], testResults[t],
                       touched[t]>>
    BY <1>16, <2>1 DEF TargetsTyped, Eval!Verdict, Eval!Judged
  <2>3. /\ status'[t] = "passed" => ctxErr[t] = "none" /\ ~Eval!hardFailures(t, o)
        /\ status'[t] = "timeout" => ctxErr[t] = "deadline"
        /\ status'[t] = "canceled" => ctxErr[t] = "canceled"
        /\ status'[t] = "failed" => ctxErr[t] = "none"
        /\ status'[t] \in Verdicts \ {"error"}
    BY <2>2 DEF Eval!verdict, TargetsTyped, Verdicts
  <2>4. status'[t] = "passed" => Passed(t)
    <3> SUFFICES ASSUME status'[t] = "passed" PROVE Passed(t)
      OBVIOUS
    <3>1. /\ Eval!matches(t) /\ ~limitExceeded[t] /\ (Eval!unexpected(t) = {} \/ allowUnexpected)
          /\ terminal[t] \notin {"unrecoverable", "max_turns"}
      BY <2>3 DEF Eval!hardFailures
    <3>2. terminal[t] = "completed" /\ ~replayErr[t] /\ attempted[t] <= MaxToolCalls
      BY <2>2, <2>3, <3>1 DEF Right, Concluded, Tallied, Scoring, Eval!Stopped, TargetsTyped
    <3>3. strict => nextTurn[t] = recorded
      BY <1>0, <2>2, <3>1, <3>2 DEF Right, Concluded, Tallied, Scoring, Eval!unusedTurns,
         TargetsTyped
    <3>4. touched[t] \subseteq {"golden"} \/ allowUnexpected
      BY <2>2, <3>1 DEF Right, Traced, Scoring, Eval!unexpected, Eval!Changed, Eval!File,
         Eval!golden, TargetsTyped
    <3> QED
      BY <2>3, <3>1, <3>2, <3>3, <3>4 DEF Passed, Eval!matches, Eval!golden
  <2>5. ~replayErr[t]
    BY <2>2 DEF Right, Concluded, Scoring
  <2>6. Passed(t)' <=> Passed(t)
    BY <1>0, <2>2 DEF Passed, Eval!Expected
  <2>7. Fair(t)'
    BY <2>2, <2>3, <2>4, <2>5, <2>6 DEF Fair, Apart, Verdicts
  <2> QED
    BY <1>0, <2>2, <2>3, <2>7 DEF Right, Tallied, Concluded, Traced, Scoring, Eval!Stopped,
       Eval!unusedTurns, Verdicts, Eval!Repo, Eval!File
<1> QED
  BY <1>1, <1>2, <1>3, <1>4, <1>5, <1>6, <1>7, <1>8, <1>9, <1>10, <1>11, <1>12, <1>13, <1>14,
     <1>15, <1>16, <1>17 DEF Acts

\* The fixture is loaded before any target is taken, and reported when all are done.
LEMMA CommandStep ==
  ASSUME EvalAssumption, EvalInv, Eval!Load \/ Eval!Interrupt \/ Eval!Report
  PROVE  EvalInv'
<1> USE DEF Eval!config, Eval!env, Eval!agentVars, Eval!runVars, Eval!result, EvalInv
<1>1. CASE Eval!Load
  <2>1. /\ exit' = -1 /\ strict' \in BOOLEAN /\ recorded' \in 1..Turns
        /\ allowUnexpected' \in BOOLEAN /\ \A t \in Eval!Target : phase[t] = "waits"
        /\ UNCHANGED <<canceled, phase, ctxErr, workspace, after, nextTurn, replayErr, turns,
                       attempted, limitExceeded, runCanceled, terminal, answered, touched,
                       testResults, status, reason>>
    BY <1>1 DEF Eval!Load, FixtureTyped
  <2>2. FixtureTyped' /\ TargetsTyped'
    BY <2>1 DEF FixtureTyped, TargetsTyped
  <2>3. ASSUME NEW t \in Eval!Target PROVE Right(t)'
    BY <2>1 DEF EvalAssumption, Right, Tallied, Concluded, Traced, Fair, Scoring, Eval!Stopped,
       Eval!Repo, Eval!File
  <2> QED
    BY <2>1, <2>2, <2>3 DEF Eval!SuccessIsOfAll
<1>2. CASE Eval!Interrupt
  <2>1. /\ exit = -1 /\ exit' = -1
        /\ UNCHANGED <<strict, recorded, allowUnexpected, phase, workspace, after, nextTurn,
                       replayErr, turns, attempted, limitExceeded, runCanceled, terminal,
                       answered, touched, testResults, status, reason>>
        /\ canceled' \in BOOLEAN
    BY <1>2 DEF Eval!Interrupt
  <2>2. /\ ctxErr' \in [Eval!Target -> {"none", "deadline", "canceled"}]
        /\ \A t \in Eval!Target :
             IF phase[t] \notin {"waits", "judged", "done"} /\ ctxErr[t] = "none"
             THEN ctxErr'[t] = "canceled" ELSE ctxErr'[t] = ctxErr[t]
    BY <1>2 DEF Eval!Interrupt, TargetsTyped
  <2>3. FixtureTyped' /\ TargetsTyped'
    BY <2>1, <2>2 DEF FixtureTyped, TargetsTyped
  <2>4. ASSUME NEW t \in Eval!Target PROVE Right(t)'
    <3>1. Right(t)
      OBVIOUS
    <3>2. Tallied(t)' /\ Concluded(t)' /\ Traced(t)'
      BY <2>1, <2>2, <3>1 DEF Right, Tallied, Concluded, Traced, Scoring, Eval!Stopped,
         Eval!unusedTurns, Eval!Repo, Eval!File
    <3>3. Fair(t)'
      BY <2>1, <2>2, <3>1 DEF Right, Fair, Passed, Apart, Eval!Expected
    <3> QED
      BY <3>2, <3>3 DEF Right
  <2> QED
    BY <2>1, <2>3, <2>4 DEF Eval!SuccessIsOfAll
<1>3. CASE Eval!Report
  <2>1. /\ exit' \in {0, 1, 3} /\ \A t \in Eval!Target : phase[t] = "done"
        /\ UNCHANGED <<strict, recorded, allowUnexpected, canceled, phase, ctxErr, workspace,
                       after, nextTurn, replayErr, turns, attempted, limitExceeded, runCanceled,
                       terminal, answered, touched, testResults, status, reason>>
    BY <1>3 DEF Eval!Report
  <2>2. FixtureTyped' /\ TargetsTyped'
    BY <2>1 DEF FixtureTyped, TargetsTyped
  <2>3. \A t \in Eval!Target : Right(t)'
    BY <2>1 DEF Right, Tallied, Concluded, Traced, Fair, Scoring, Eval!Stopped, Eval!unusedTurns,
       Eval!Repo, Eval!File
  <2>4. ASSUME exit' = 0, NEW t \in Eval!Target PROVE status[t] = "passed"
    <3>1. ~(Eval!Results({"error"}) > 0) /\ ~(Eval!Results({"failed", "timeout", "canceled"}) > 0)
      BY <1>3, <2>4 DEF Eval!Report
    <3>2. ASSUME NEW S, status[t] \in S PROVE Eval!Results(S) > 0
      <4> DEFINE T == {u \in Eval!Target : status[u] \in S}
      <4>1. IsFiniteSet(T)
        <5>1. IsFiniteSet(1..Repeat)
          BY FS_Interval DEF EvalAssumption
        <5> QED
          BY <5>1, FS_Subset DEF Eval!Target
      <4>2. t \in T
        BY <3>2
      <4>3. Cardinality(T) \in Nat /\ Cardinality(T) # 0
        <5> HIDE DEF T
        <5> QED
          BY <4>1, <4>2, FS_CardinalityType, FS_EmptySet
      <4>4. Eval!Results(S) = Cardinality(T)
        BY DEF Eval!Results, Eval!Cardinality, Cardinality
      <4> QED
        BY <4>3, <4>4
    <3>3. status[t] \in Verdicts
      BY <2>1 DEF Right, Concluded, TargetsTyped
    <3> QED
      BY <3>1, <3>2, <3>3 DEF Verdicts
  <2> QED
    BY <2>1, <2>2, <2>3, <2>4 DEF Eval!SuccessIsOfAll
<1> QED
  BY <1>1, <1>2, <1>3

\* The invariant holds before anything is loaded and is kept by every step.
LEMMA EvalInvariance ==
  ASSUME EvalAssumption
  PROVE  Eval!Spec => []EvalInv
<1>1. Eval!Init => EvalInv
  <2> SUFFICES ASSUME Eval!Init PROVE EvalInv
    OBVIOUS
  <2>1. FixtureTyped
    <3>1. exit = -2 /\ recorded = 0 /\ \A t \in Eval!Target : phase[t] = "waits"
      BY DEF Eval!Init
    <3>2. strict = FALSE /\ allowUnexpected = FALSE /\ canceled = FALSE
      BY DEF Eval!Init
    <3>3. exit \in {-2, -1, 0, 1, 3} /\ exit \notin {0, 1, 3}
      BY <3>1
    <3>4. recorded \in 0..Turns
      BY <3>1 DEF EvalAssumption
    <3>5. strict \in BOOLEAN /\ allowUnexpected \in BOOLEAN /\ canceled \in BOOLEAN
      BY <3>2
    <3> QED
      BY <3>1, <3>3, <3>4, <3>5 DEF FixtureTyped
  <2>2. TargetsTyped
    BY Trees DEF Eval!Init, TargetsTyped, Phases, Verdicts
  <2>3. ASSUME NEW t \in Eval!Target PROVE Right(t)
    BY DEF Eval!Init, EvalAssumption, Right, Tallied, Concluded, Traced, Fair, Scoring,
       Eval!Stopped
  <2>4. Eval!SuccessIsOfAll
    BY DEF Eval!Init, Eval!SuccessIsOfAll
  <2> QED
    BY <2>1, <2>2, <2>3, <2>4 DEF EvalInv
<1>2. EvalInv /\ [Eval!Next]_(Eval!vars) => EvalInv'
  <2>1. ASSUME EvalInv, UNCHANGED Eval!vars PROVE EvalInv'
    <3> USE <2>1 DEF Eval!vars, Eval!env, Eval!config, Eval!runVars, Eval!agentVars, Eval!result
    <3>1. FixtureTyped' /\ TargetsTyped'
      BY DEF EvalInv, FixtureTyped, TargetsTyped
    <3>2. \A t \in Eval!Target : Alone(t)
      BY DEF Alone
    <3>3. \A t \in Eval!Target : Right(t)'
      BY <3>2, LeftAlone DEF EvalInv
    <3> QED
      BY <3>1, <3>3 DEF EvalInv, Eval!SuccessIsOfAll
  <2>2. ASSUME EvalInv, NEW t \in Eval!Target, Acts(t) PROVE EvalInv'
    <3>1. /\ TargetsTyped' /\ \A u \in Eval!Target : u # t => Alone(u)
          /\ UNCHANGED <<strict, recorded, allowUnexpected, canceled, exit>>
      BY <2>2, TargetsStep DEF EvalInv
    <3>2. Right(t)'
      BY <2>2, ActsRight DEF EvalInv
    <3>3. \A u \in Eval!Target : Right(u)'
      BY <2>2, <3>1, <3>2, LeftAlone DEF EvalInv
    <3>4. exit \notin {-2, 0, 1, 3}
      <4>1. phase[t] # "done"
        BY <2>2 DEF Acts, Eval!Take, Eval!Return, Eval!Deadline, Eval!Fault, Eval!Aborted,
           Eval!OutOfTurns, Eval!Served, Eval!NotServed, Eval!Answer, Eval!NoCall, Eval!ToolCall,
           Eval!Verify, Eval!StartTest, Eval!EndTest, Eval!TestError, Eval!TestsDone,
           Eval!Verdict
      <4>2. phase[t] = "waits" => exit = -1
        BY <2>2 DEF Acts, Eval!Take, Eval!Return, Eval!Deadline, Eval!Fault, Eval!Aborted,
           Eval!OutOfTurns, Eval!Served, Eval!NotServed, Eval!Answer, Eval!NoCall, Eval!ToolCall,
           Eval!Verify, Eval!StartTest, Eval!EndTest, Eval!TestError, Eval!TestsDone,
           Eval!Verdict
      <4> QED
        BY <2>2, <4>1, <4>2 DEF EvalInv, FixtureTyped
    <3>5. FixtureTyped' /\ Eval!SuccessIsOfAll'
      BY <2>2, <3>1, <3>4 DEF EvalInv, FixtureTyped, Eval!SuccessIsOfAll
    <3> QED
      BY <3>1, <3>3, <3>5 DEF EvalInv
  <2> QED
    BY <2>1, <2>2, CommandStep DEF Eval!Next, Acts
<1> QED
  BY <1>1, <1>2, PTL DEF Eval!Spec

\* Every variable of an evaluation keeps its type, no run takes more turns than it has,
\* and no test gives two results (runner.go, recorded_client.go).
THEOREM EvalTypes ==
  ASSUME EvalAssumption
  PROVE  Eval!Spec => []Eval!TypeOK
<1>1. EvalInv => Eval!TypeOK
  BY DEF EvalInv, FixtureTyped, TargetsTyped, Right, Tallied, Concluded, Eval!TypeOK, Phases,
     Verdicts, EvalAssumption
<1> QED
  BY <1>1, EvalInvariance, PTL

\* A fixture passes only on what its agent did in time and within its limits, what is
\* amiss with the harness is told of the harness, and the command succeeds only if
\* every repetition passed (runFixture, verdict, exit code).
THEOREM EvalVerdicts ==
  ASSUME EvalAssumption
  PROVE  Eval!Spec => []Eval!VerdictsAreTrue
<1>1. EvalInv => Eval!VerdictsAreTrue
  <2> SUFFICES ASSUME EvalInv PROVE Eval!VerdictsAreTrue
    OBVIOUS
  <2>1. ASSUME NEW t \in Eval!Target, phase[t] = "judged"
        PROVE  (status[t] = "passed" => Passed(t)) /\ Apart(t)
    BY <2>1 DEF EvalInv, Right, Fair
  <2>2. Eval!PassedMeansPassed
    BY <2>1 DEF Passed, Eval!PassedMeansPassed, Eval!golden
  <2>3. Eval!VerdictsKeepApart
    BY <2>1 DEF Apart, Eval!VerdictsKeepApart
  <2> QED
    BY <2>2, <2>3 DEF EvalInv, Eval!VerdictsAreTrue
<1> QED
  BY <1>1, EvalInvariance, PTL

-----------------------------------------------------------------------------
(* Auth.  As long as nothing went wrong that LoginLasts names, at most one *)
(* request is about the tokens (Single).  Before the first login there is  *)
(* no token anywhere (Fresh); after it the server takes the refresh token  *)
(* of the store, or that of the request that is about to save (Lasting).   *)

AuthAssumption == MaxTokens \in Nat /\ MaxFaults \in Nat

Pairs(n) == [access : 0..n, refresh : 0..n]
Errands == {"idle", "metadata", "refresh", "browser", "save", "done", "failed"}

AuthTypes ==
  /\ issued \in 0..MaxTokens /\ faults \in 0..MaxFaults /\ logins \in 0..issued
  /\ errand \in [Request -> Errands] /\ store \in Pairs(issued)
  /\ held \in [Request -> Pairs(issued)] /\ sent \in [Request -> 0..issued]
  /\ expired \subseteq 1..issued /\ live \subseteq 1..issued

Flags == stingy \in BOOLEAN /\ broken \in BOOLEAN /\ raced \in BOOLEAN

Clean == ~stingy /\ ~broken /\ ~raced

Single == \A q, r \in Request : Auth!busy(q) /\ Auth!busy(r) => q = r

Fresh ==
  logins = 0 => /\ store = Auth!NoToken
                /\ \A r \in Request : errand[r] \notin {"refresh", "save"}

Lasting ==
  logins # 0 =>
    /\ logins = 1
    /\ store.refresh \in live \/ \E r \in Request : errand[r] = "save"
    /\ \A r \in Request : errand[r] # "browser"
    /\ \A r \in Request : errand[r] \in {"refresh", "save"} => held[r].refresh \in live

Lasts == Single /\ Fresh /\ Lasting

AuthInv == AuthTypes /\ Flags /\ (Clean => Lasts)

\* The flags are flags.
LEMMA AuthFlags ==
  ASSUME Flags, [Auth!Next]_(Auth!vars)
  PROVE  Flags'
<1>1. stingy \in BOOLEAN /\ broken \in BOOLEAN /\ raced \in BOOLEAN
  BY DEF Flags
<1>2. stingy' \in {stingy, TRUE} /\ broken' \in {broken, TRUE}
  BY DEF Auth!Next, Auth!vars, Auth!LoadValid, Auth!LoadInvalid, Auth!Metadata,
     Auth!MetadataFails, Auth!ReloadFails, Auth!Refresh, Auth!RefreshShort,
     Auth!RefreshRefused, Auth!RefreshLost,
     Auth!Login, Auth!LoginFails, Auth!Save, Auth!SaveFails, Auth!Again, Auth!Expire,
     Auth!Fault, Auth!Go
<1>3. raced' \in BOOLEAN
  BY <1>1 DEF Auth!Next, Auth!vars, Auth!LoadValid, Auth!LoadInvalid, Auth!Metadata,
     Auth!MetadataFails, Auth!ReloadFails, Auth!Refresh, Auth!RefreshShort,
     Auth!RefreshRefused, Auth!RefreshLost,
     Auth!Login, Auth!LoginFails, Auth!Save, Auth!SaveFails, Auth!Again, Auth!Expire,
     Auth!Fault, Auth!Go
<1> QED
  BY <1>1, <1>2, <1>3 DEF Flags

\* What was of some pairs is of more.
LEMMA MorePairs ==
  ASSUME NEW m \in Nat, NEW n \in Nat, m <= n
  PROVE  Pairs(m) \subseteq Pairs(n) /\ 0..m \subseteq 0..n /\ 1..m \subseteq 1..n
<1>1. 0..m \subseteq 0..n /\ 1..m \subseteq 1..n
  OBVIOUS
<1> QED
  BY <1>1 DEF Pairs

\* Every variable keeps its type; a login costs a pair.
LEMMA AuthTyped ==
  ASSUME AuthAssumption, AuthTypes, [Auth!Next]_(Auth!vars)
  PROVE  AuthTypes'
<1>1. /\ MaxTokens \in Nat /\ MaxFaults \in Nat /\ issued \in Nat /\ logins \in Nat
      /\ issued <= MaxTokens /\ logins <= issued /\ faults \in 0..MaxFaults
  BY DEF AuthTypes, AuthAssumption
<1>2. /\ issued' \in 0..MaxTokens /\ issued <= issued' /\ logins' \in 0..issued'
      /\ faults' \in 0..MaxFaults
  BY <1>1 DEF Auth!Next, Auth!vars, Auth!LoadValid, Auth!LoadInvalid, Auth!Metadata,
     Auth!MetadataFails, Auth!ReloadFails, Auth!Refresh, Auth!RefreshShort,
     Auth!RefreshRefused, Auth!RefreshLost,
     Auth!Login, Auth!LoginFails, Auth!Save, Auth!SaveFails, Auth!Again, Auth!Expire, Auth!Fault
<1>3. Pairs(issued) \subseteq Pairs(issued') /\ 0..issued \subseteq 0..issued'
      /\ 1..issued \subseteq 1..issued' /\ issued' \in Nat
  BY <1>1, <1>2, MorePairs
<1>4. expired' \subseteq 1..issued' /\ live' \subseteq 1..issued'
  <2>1. /\ expired \subseteq 1..issued' /\ live \subseteq 1..issued'
        /\ issued' = issued + 1 => issued' \in 1..issued'
    BY <1>1, <1>3 DEF AuthTypes
  <2> QED
    BY <1>2, <2>1 DEF Auth!Next, Auth!vars, Auth!LoadValid, Auth!LoadInvalid, Auth!Metadata,
     Auth!MetadataFails, Auth!ReloadFails, Auth!Refresh, Auth!RefreshShort,
     Auth!RefreshRefused, Auth!RefreshLost,
     Auth!Login, Auth!LoginFails, Auth!Save, Auth!SaveFails, Auth!Again, Auth!Expire
<1>5. errand' \in [Request -> Errands]
  BY DEF AuthTypes, Errands, Auth!Next, Auth!vars, Auth!LoadValid, Auth!LoadInvalid,
     Auth!Metadata, Auth!MetadataFails, Auth!ReloadFails, Auth!Refresh, Auth!RefreshShort,
     Auth!RefreshRefused,
     Auth!RefreshLost, Auth!Login, Auth!LoginFails, Auth!Save, Auth!SaveFails, Auth!Again,
     Auth!Expire, Auth!Go
<1>6. /\ store' = store \/ \E r \in Request : store' = held[r]
      /\ \/ held' = held
         \/ \E r \in Request : held' = [held EXCEPT ![r] = store]
         \/ \E r \in Request : held' = [held EXCEPT ![r] = Auth!NoToken]
         \/ /\ issued' = issued + 1
            /\ \E r \in Request, n \in {0, issued'} :
                 held' = [held EXCEPT ![r] = [access |-> issued', refresh |-> n]]
      /\ \/ sent' = sent \/ \E r \in Request : sent' = [sent EXCEPT ![r] = 0]
         \/ \E r \in Request : sent' = [sent EXCEPT ![r] = store.access]
         \/ \E r \in Request : sent' = [sent EXCEPT ![r] = held[r].access]
  <2>1. ASSUME NEW r \in Request, Auth!LoadValid(r) PROVE <1>6
    BY <2>1 DEF Auth!LoadValid
  <2>2. ASSUME NEW r \in Request, Auth!Metadata(r) PROVE <1>6
    BY <2>2 DEF Auth!Metadata
  <2>3. ASSUME NEW r \in Request, Auth!Refresh(r) PROVE <1>6
    BY <2>3 DEF Auth!Refresh
  <2>4. ASSUME NEW r \in Request, Auth!Login(r) PROVE <1>6
    BY <2>4 DEF Auth!Login
  <2>5. ASSUME NEW r \in Request, Auth!Save(r) PROVE <1>6
    BY <2>5 DEF Auth!Save, Auth!Saved
  <2>6. ASSUME NEW r \in Request, Auth!Again(r) PROVE <1>6
    BY <2>6 DEF Auth!Again
  <2>7. CASE UNCHANGED <<store, held, sent>>
    BY <2>7
  <2> QED
    BY <2>1, <2>2, <2>3, <2>4, <2>5, <2>6, <2>7
       DEF Auth!Next, Auth!vars, Auth!LoadInvalid, Auth!MetadataFails, Auth!ReloadFails,
       Auth!RefreshShort,
       Auth!RefreshRefused, Auth!RefreshLost, Auth!LoginFails, Auth!SaveFails, Auth!Expire
<1>7. /\ store \in Pairs(issued') /\ held \in [Request -> Pairs(issued')]
      /\ sent \in [Request -> 0..issued'] /\ Auth!NoToken \in Pairs(issued')
      /\ store.access \in 0..issued' /\ \A r \in Request : held[r].access \in 0..issued'
  <2>1. /\ store \in Pairs(issued) /\ held \in [Request -> Pairs(issued)]
        /\ sent \in [Request -> 0..issued]
    BY DEF AuthTypes
  <2>2. /\ store \in Pairs(issued') /\ held \in [Request -> Pairs(issued')]
        /\ sent \in [Request -> 0..issued']
    BY <1>3, <2>1
  <2>3. \A p \in Pairs(issued') : p.access \in 0..issued'
    BY DEF Pairs
  <2>4. Auth!NoToken \in Pairs(issued')
    BY <1>3 DEF Pairs, Auth!NoToken
  <2> QED
    BY <2>2, <2>3, <2>4
<1>8. \A n \in {0, issued'} : [access |-> issued', refresh |-> n] \in Pairs(issued')
  BY <1>3 DEF Pairs
<1>9. store' \in Pairs(issued')
  BY <1>6, <1>7
<1>10. held' \in [Request -> Pairs(issued')]
  BY <1>6, <1>7, <1>8
<1>11. sent' \in [Request -> 0..issued']
  BY <1>3, <1>6, <1>7
<1> QED
  BY <1>2, <1>4, <1>5, <1>9, <1>10, <1>11 DEF AuthTypes

\* What LoginLasts excuses is never taken back.
LEMMA StaysClean ==
  ASSUME Flags, [Auth!Next]_(Auth!vars), Clean'
  PROVE  Clean
BY DEF Clean, Flags, Auth!Next, Auth!vars, Auth!LoadValid, Auth!LoadInvalid, Auth!Metadata,
   Auth!MetadataFails, Auth!ReloadFails, Auth!Refresh, Auth!RefreshShort,
   Auth!RefreshRefused, Auth!RefreshLost,
   Auth!Login, Auth!LoginFails, Auth!Save, Auth!SaveFails, Auth!Again, Auth!Expire

\* While nothing went wrong, at most one request is about the tokens.
LEMMA StaysSingle ==
  ASSUME AuthTypes, Single, [Auth!Next]_(Auth!vars), Clean'
  PROVE  Single'
<1> USE DEF Single, Auth!busy, Auth!Go, AuthTypes, Errands
<1>1. ASSUME NEW r \in Request, Auth!LoadInvalid(r) PROVE Single'
  BY <1>1 DEF Auth!LoadInvalid, Clean
<1>2. ASSUME NEW r \in Request,
             \/ Auth!LoadValid(r) \/ Auth!Metadata(r) \/ Auth!MetadataFails(r)
             \/ Auth!ReloadFails(r) \/ Auth!Refresh(r)
             \/ Auth!RefreshShort(r) \/ Auth!RefreshRefused(r) \/ Auth!RefreshLost(r)
             \/ Auth!Login(r) \/ Auth!LoginFails(r) \/ Auth!Save(r) \/ Auth!SaveFails(r)
             \/ Auth!Again(r)
      PROVE  Single'
  <2>1. /\ \A q \in Request \ {r} : errand'[q] = errand[q]
        /\ Auth!busy(r)' => Auth!busy(r)
    BY <1>2 DEF Auth!LoadValid, Auth!Metadata, Auth!MetadataFails, Auth!ReloadFails, Auth!Refresh,
       Auth!RefreshShort, Auth!RefreshRefused, Auth!RefreshLost, Auth!Login, Auth!LoginFails,
       Auth!Save, Auth!SaveFails, Auth!Again
  <2> QED
    BY <2>1
<1>3. CASE errand' = errand
  BY <1>3
<1> QED
  BY <1>1, <1>2, <1>3 DEF Auth!Next, Auth!Expire, Auth!vars

\* The login lasts through each step.
LEMMA StaysLasting ==
  ASSUME AuthAssumption, AuthTypes, Lasts, [Auth!Next]_(Auth!vars), Clean'
  PROVE  Fresh' /\ Lasting'
<1> USE DEF Lasts, Fresh, Lasting, Auth!Go, Auth!NoToken
<1>0. /\ errand \in [Request -> Errands] /\ held \in [Request -> Pairs(issued)]
      /\ store \in Pairs(issued) /\ store.refresh \in Nat
      /\ live \subseteq 1..issued /\ logins \in Nat /\ issued \in Nat
  BY DEF AuthTypes, Pairs, AuthAssumption
<1>1. ASSUME NEW r \in Request, Auth!LoadValid(r) \/ Auth!LoadInvalid(r) PROVE Fresh' /\ Lasting'
  BY <1>0, <1>1 DEF Auth!LoadValid, Auth!LoadInvalid
<1>2. ASSUME NEW r \in Request, Auth!Metadata(r) PROVE Fresh' /\ Lasting'
  <2>1. \A q \in Request : errand[q] # "save"
    BY <1>0, <1>2 DEF Auth!Metadata, Single, Auth!busy
  <2>2. CASE logins = 0
    BY <1>0, <1>2, <2>2 DEF Auth!Metadata
  <2>3. CASE logins # 0
    <3>1. store.refresh \in live /\ store.refresh # 0
      BY <1>0, <2>1, <2>3
    <3>2. errand' = [errand EXCEPT ![r] = "refresh"] /\ held' = [held EXCEPT ![r] = store]
      BY <1>2, <3>1 DEF Auth!Metadata
    <3> QED
      BY <1>0, <1>2, <2>3, <3>1, <3>2 DEF Auth!Metadata
  <2> QED
    BY <2>2, <2>3
<1>3. ASSUME NEW r \in Request, Auth!MetadataFails(r) \/ Auth!LoginFails(r) PROVE Fresh' /\ Lasting'
  BY <1>0, <1>3 DEF Auth!MetadataFails, Auth!LoginFails
<1>4. ASSUME NEW r \in Request, Auth!Refresh(r) PROVE Fresh' /\ Lasting'
  <2>1. \A q \in Request \ {r} : errand[q] \notin {"refresh", "save"}
    BY <1>0, <1>4 DEF Auth!Refresh, Single, Auth!busy
  <2>2. /\ errand' = [errand EXCEPT ![r] = "save"] /\ logins # 0 /\ UNCHANGED <<store, logins>>
        /\ held' = [held EXCEPT ![r] = [access |-> issued', refresh |-> issued']]
        /\ issued' \in live'
    BY <1>0, <1>4 DEF Auth!Refresh, Clean
  <2> QED
    BY <1>0, <2>1, <2>2
<1>5. ASSUME NEW r \in Request, Auth!RefreshShort(r) \/ Auth!RefreshLost(r) \/ Auth!SaveFails(r)
                                \/ Auth!ReloadFails(r)
      PROVE Fresh' /\ Lasting'
  BY <1>5 DEF Auth!ReloadFails, Auth!RefreshShort, Auth!RefreshLost, Auth!SaveFails, Clean
<1>6. ASSUME NEW r \in Request, Auth!RefreshRefused(r) PROVE Fresh' /\ Lasting'
  BY <1>6 DEF Auth!RefreshRefused
<1>7. ASSUME NEW r \in Request, Auth!Login(r) PROVE Fresh' /\ Lasting'
  <2>1. logins = 0 /\ \A q \in Request \ {r} : ~Auth!busy(q)
    BY <1>0, <1>7 DEF Auth!Login, Single, Auth!busy
  <2>2. /\ errand' = [errand EXCEPT ![r] = "save"] /\ logins' = 1
        /\ held' = [held EXCEPT ![r] = [access |-> issued', refresh |-> issued']]
        /\ issued' \in live'
    BY <1>7, <2>1 DEF Auth!Login, Clean
  <2> QED
    BY <1>0, <2>1, <2>2 DEF Auth!busy
<1>8. ASSUME NEW r \in Request, Auth!Save(r) PROVE Fresh' /\ Lasting'
  <2>1. logins # 0 /\ held[r].refresh \in live
    BY <1>8 DEF Auth!Save
  <2>2. /\ errand' = [errand EXCEPT ![r] = "done"] /\ store' = held[r]
        /\ UNCHANGED <<held, live, logins>>
    BY <1>8 DEF Auth!Save, Auth!Saved
  <2> QED
    BY <1>0, <2>1, <2>2
<1>9. ASSUME NEW r \in Request, Auth!Again(r) PROVE Fresh' /\ Lasting'
  BY <1>0, <1>9 DEF Auth!Again
<1>10. CASE UNCHANGED <<store, errand, held, live, logins>>
  BY <1>10
<1> QED
  BY <1>1, <1>2, <1>3, <1>4, <1>5, <1>6, <1>7, <1>8, <1>9, <1>10
     DEF Auth!Next, Auth!Expire, Auth!vars

\* A user who has logged in is not asked again, unless the server gave too little, a
\* refresh, a save or the load of the refresh token failed, or two requests were at it
\* at once (EnsureToken); to fail to read the access token is not enough.
THEOREM AuthLogins ==
  ASSUME AuthAssumption
  PROVE  Auth!Spec => [](Auth!TypeOK /\ Auth!LoginLasts)
<1>1. Auth!Init => AuthInv
  <2> SUFFICES ASSUME Auth!Init PROVE AuthInv
    OBVIOUS
  <2>1. AuthTypes
    BY DEF Auth!Init, AuthTypes, AuthAssumption, Pairs, Errands, Auth!NoToken
  <2>2. Flags
    BY DEF Auth!Init, Flags
  <2>3. Lasts
    BY DEF Auth!Init, Lasts, Single, Fresh, Lasting, Auth!busy
  <2> QED
    BY <2>1, <2>2, <2>3 DEF AuthInv
<1>2. AuthInv /\ [Auth!Next]_(Auth!vars) => AuthInv'
  <2> SUFFICES ASSUME AuthInv, [Auth!Next]_(Auth!vars) PROVE AuthInv'
    OBVIOUS
  <2>1. AuthTypes /\ AuthTypes' /\ Flags /\ Flags'
    BY AuthTyped, AuthFlags DEF AuthInv
  <2>2. ASSUME Clean' PROVE Lasts'
    <3>1. Lasts
      BY <2>1, <2>2, StaysClean DEF AuthInv
    <3> QED
      BY <2>1, <2>2, <3>1, StaysSingle, StaysLasting DEF Lasts
  <2> QED
    BY <2>1, <2>2 DEF AuthInv
<1>3. AuthInv => Auth!TypeOK /\ Auth!LoginLasts
  <2> SUFFICES ASSUME AuthInv PROVE Auth!TypeOK /\ Auth!LoginLasts
    OBVIOUS
  <2>1. logins \in 0..MaxTokens /\ logins \in Nat
    BY DEF AuthInv, AuthTypes, AuthAssumption
  <2>2. Auth!TypeOK
    BY <2>1 DEF AuthInv, AuthTypes, Flags, Pairs, Errands, Auth!TypeOK
  <2>3. Auth!LoginLasts
    BY <2>1 DEF AuthInv, Clean, Lasts, Lasting, Auth!LoginLasts
  <2> QED
    BY <2>2, <2>3
<1> QED
  BY <1>1, <1>2, <1>3, PTL DEF Auth!Spec

-----------------------------------------------------------------------------
(* Permit.  The mode of a child, and a save in the browser: every request  *)
(* is one of a finite table, so the property is proved case by case.       *)

Queries ==
  [mode : Permit!Mode \cup {""}, hook : Permit!Decision \cup {"none"},
   rules : SUBSET Permit!Decision, tool : Permit!Decision,
   prompt : {"none", "error", "allow", "deny"}, requested : Permit!Mode \cup {""},
   other : SUBSET Permit!Decision]

Queried == queried \in Queries

\* A mode that is not known is the default; a known one is itself.
LEMMA NormalizeKnown ==
  ASSUME NEW m
  PROVE  Permit!Normalize(m) \in Permit!Mode /\ (m \in Permit!Mode => Permit!Normalize(m) = m)
  BY DEF Permit!Normalize, Permit!Mode

\* Strictness is a number.
LEMMA StrictnessIsNat == \A m : Permit!strictness(m) \in 0..5
  BY DEF Permit!strictness

\* The result of ClampMode is a mode, never looser than the parent's, and clamping
\* again changes nothing.
LEMMA ClampIsStrict ==
  ASSUME NEW p, NEW r
  PROVE  /\ Permit!ClampMode(p, r) \in Permit!Mode
         /\ Permit!strictness(Permit!ClampMode(p, r)) >= Permit!strictness(Permit!Normalize(p))
         /\ Permit!ClampMode(p, Permit!ClampMode(p, r)) = Permit!ClampMode(p, r)
<1>1. Permit!Normalize(p) \in Permit!Mode
  BY NormalizeKnown
<1> QED
  BY <1>1, StrictnessIsNat DEF Permit!ClampMode


\* What the mode makes of the tool's opinion, case by case.
LEMMA ModeDecides ==
  ASSUME NEW m, NEW t \in Permit!Decision
  PROVE  LET result == Permit!applyMode(m, t) IN
         /\ t = "deny" => result = [decision |-> "deny", stage |-> "tool"]
         /\ t = "allow" => result = [decision |-> IF m = "bubble" THEN "ask" ELSE "allow",
                                     stage |-> "mode"]
         /\ t = "ask" => result = [decision |-> IF m = "bypass" THEN "allow"
                                                ELSE IF m \in {"dontAsk", "plan"} THEN "deny"
                                                ELSE "ask",
                                   stage |-> "mode"]
<1>1. CASE t = "deny"
  BY <1>1 DEF Permit!applyMode, Permit!Result
<1>2. CASE t = "allow"
  BY <1>2 DEF Permit!applyMode, Permit!Result
<1>3. CASE t = "ask"
  BY <1>3 DEF Permit!applyMode, Permit!Result
<1> QED
  BY <1>1, <1>2, <1>3 DEF Permit!Decision

\* And what a request comes to.
LEMMA RequestResolves ==
  ASSUME NEW r \in Queries
  PROVE  LET byMode == Permit!applyMode(Permit!Normalize(r.mode), r.tool)
             result == Permit!Resolve(r) IN
         /\ r.hook # "none" => result = [decision |-> r.hook, stage |-> "hook"]
         /\ r.hook = "none" /\ r.rules # {} =>
              result = [decision |-> Permit!FirstMatchingRule(r.rules), stage |-> "rule"]
         /\ r.hook = "none" /\ r.rules = {} =>
              IF byMode.decision = "ask" /\ r.prompt \in {"allow", "deny"}
              THEN result = [decision |-> r.prompt, stage |-> "prompt"] ELSE result = byMode
<1>1. CASE r.hook # "none"
  BY <1>1 DEF Permit!Resolve, Permit!Result
<1>2. CASE r.hook = "none" /\ r.rules # {}
  BY <1>2 DEF Permit!Resolve, Permit!Result
<1>3. CASE r.hook = "none" /\ r.rules = {}
  BY <1>3 DEF Permit!Resolve, Permit!Result
<1> QED
  BY <1>1, <1>2, <1>3

\* The mode of a child is a mode, and no looser than a parent's that was given one.
LEMMA ChildModeIsStrict ==
  ASSUME NEW p \in Permit!Mode, NEW r
  PROVE  /\ Permit!ChildMode(p, r) \in Permit!Mode
         /\ Permit!strictness(Permit!ChildMode(p, r)) >= Permit!strictness(p)
<1>1. Permit!Normalize(p) = p
  BY NormalizeKnown
<1>2. CASE p \in {"bypass", "dontAsk"}
  BY <1>2, StrictnessIsNat DEF Permit!ChildMode
<1>3. CASE p \notin {"bypass", "dontAsk"}
  <2>1. p # ""
    BY DEF Permit!Mode
  <2>2. Permit!ChildMode(p, r) = Permit!ClampMode(p, Permit!Normalize(r))
    BY <1>3, <2>1 DEF Permit!ChildMode
  <2> QED
    BY <1>1, <2>2, ClampIsStrict
<1> QED
  BY <1>2, <1>3

\* Only bypass is as loose as bypass.
LEMMA BypassIsLoosest ==
  ASSUME NEW m \in Permit!Mode, Permit!strictness("bypass") >= Permit!strictness(m)
  PROVE  m = "bypass"
<1>1. Permit!strictness("bypass") = 0
  BY DEF Permit!strictness
<1>2. m # "bypass" => Permit!strictness(m) \in 1..5
  BY DEF Permit!strictness
<1> QED
  BY <1>1, <1>2

\* Neither a child nor a save goes further than the agent, whatever is asked.
LEMMA QueryIsNoLooser ==
  ASSUME queried \in Queries
  PROVE  Permit!NothingIsLooser
<1>1. /\ queried.mode \in Permit!Mode \cup {""} /\ queried.requested \in Permit!Mode \cup {""}
      /\ queried.tool \in Permit!Decision /\ queried.hook \in Permit!Decision \cup {"none"}
      /\ queried.prompt \in {"none", "error", "allow", "deny"}
      /\ queried.rules \subseteq Permit!Decision /\ queried.other \subseteq Permit!Decision
  BY DEF Queries
<1>2. Permit!ChildIsNoLooser
  <2> DEFINE m == Permit!ChildMode(queried.mode, queried.requested)
             child == [queried EXCEPT !.mode = m]
  <2> SUFFICES ASSUME queried.mode # "", Permit!Unasked(Permit!Resolve(child))
               PROVE  \/ Permit!Unasked(Permit!Resolve(queried))
                      \/ queried.mode = "bubble" /\ queried.tool = "allow"
    BY DEF Permit!ChildIsNoLooser
  <2>1. /\ queried.mode \in Permit!Mode /\ m \in Permit!Mode
        /\ Permit!strictness(m) >= Permit!strictness(queried.mode)
    BY <1>1, ChildModeIsStrict
  <2>2. Permit!Normalize(queried.mode) = queried.mode /\ Permit!Normalize(m) = m
    BY <2>1, NormalizeKnown
  <2> HIDE DEF m
  <2>3. /\ child \in Queries /\ child.mode = m /\ child.tool = queried.tool
        /\ child.hook = queried.hook /\ child.rules = queried.rules
        /\ child.prompt = queried.prompt
    BY <2>1 DEF Queries
  <2> HIDE DEF child
  <2>4. CASE queried.hook # "none" \/ queried.rules # {}
    <3>1. Permit!Resolve(child) = Permit!Resolve(queried)
      BY <2>3, <2>4, RequestResolves
    <3> QED
      BY <3>1
  <2>5. CASE queried.hook = "none" /\ queried.rules = {}
    <3> DEFINE own == Permit!applyMode(queried.mode, queried.tool)
               its == Permit!applyMode(m, queried.tool)
    <3>1. /\ own.decision # "ask" => Permit!Resolve(queried) = own
          /\ IF its.decision = "ask" /\ queried.prompt \in {"allow", "deny"}
             THEN Permit!Resolve(child) = [decision |-> queried.prompt, stage |-> "prompt"]
             ELSE Permit!Resolve(child) = its
      BY <2>2, <2>3, <2>5, RequestResolves
    <3>2. /\ queried.tool = "deny" => its.decision = "deny"
          /\ queried.tool = "allow" /\ queried.mode # "bubble" =>
               own = [decision |-> "allow", stage |-> "mode"]
          /\ queried.tool = "ask" /\ its.decision = "allow" => m = "bypass"
          /\ queried.tool = "ask" /\ queried.mode = "bypass" =>
               own = [decision |-> "allow", stage |-> "mode"]
      <4>1. CASE queried.tool = "deny"
        <5>1. its = [decision |-> "deny", stage |-> "tool"]
          BY <4>1, ModeDecides DEF Permit!Decision
        <5> HIDE DEF own, its
        <5> QED
          BY <4>1, <5>1
      <4>2. CASE queried.tool = "allow"
        BY <4>2, ModeDecides DEF Permit!Decision
      <4>3. CASE queried.tool = "ask"
        <5>1. its = [decision |-> IF m = "bypass" THEN "allow"
                                  ELSE IF m \in {"dontAsk", "plan"} THEN "deny" ELSE "ask",
                     stage |-> "mode"]
          BY <4>3, ModeDecides DEF Permit!Decision
        <5>2. own = [decision |-> IF queried.mode = "bypass" THEN "allow"
                                  ELSE IF queried.mode \in {"dontAsk", "plan"} THEN "deny"
                                  ELSE "ask",
                     stage |-> "mode"]
          BY <4>3, ModeDecides DEF Permit!Decision
        <5> HIDE DEF own, its
        <5> QED
          BY <4>3, <5>1, <5>2
      <4> QED
        BY <1>1, <4>1, <4>2, <4>3 DEF Permit!Decision
    <3> HIDE DEF own, its
    <3>3. its.decision = "allow"
      <4>1. CASE its.decision = "ask" /\ queried.prompt \in {"allow", "deny"}
        <5>1. Permit!Resolve(child) = [decision |-> queried.prompt, stage |-> "prompt"]
          BY <3>1, <4>1
        <5>2. [decision |-> queried.prompt, stage |-> "prompt"].stage = "prompt"
          OBVIOUS
        <5>3. Permit!Resolve(child).stage = "prompt"
          BY <5>1, <5>2, Zenon
        <5> QED
          BY <5>3 DEF Permit!Unasked
      <4>2. CASE ~(its.decision = "ask" /\ queried.prompt \in {"allow", "deny"})
        <5>1. Permit!Resolve(child) = its
          BY <3>1, <4>2
        <5> QED
          BY <5>1 DEF Permit!Unasked
      <4> QED
        BY <4>1, <4>2
    <3>4. queried.tool = "ask" => queried.mode = "bypass"
      BY <2>1, <3>2, <3>3, BypassIsLoosest
    <3>5. queried.tool = "deny" => FALSE
      BY <3>2, <3>3
    <3>6. own = [decision |-> "allow", stage |-> "mode"] => Permit!Unasked(Permit!Resolve(queried))
      <4> SUFFICES ASSUME own = [decision |-> "allow", stage |-> "mode"]
                   PROVE  Permit!Unasked(Permit!Resolve(queried))
        OBVIOUS
      <4>1. Permit!Resolve(queried) = own /\ own.decision = "allow" /\ own.stage = "mode"
        BY <3>1
      <4> QED
        BY <4>1 DEF Permit!Unasked
    <3> QED
      BY <1>1, <3>2, <3>4, <3>5, <3>6 DEF Permit!Decision
  <2> QED
    BY <2>4, <2>5
<1>3. Permit!SaveIsNoLooser
  <2> DEFINE bare == [queried EXCEPT !.prompt = "none"]
             write == Permit!Resolve(bare)
             save == Permit!resolveSavePermission(queried, queried.other)
             inForce == Permit!Normalize(queried.mode)
             every == queried.rules \cup queried.other
             asked == IF write.decision = "allow" /\ "ask" \in every
                      THEN [decision |-> "ask", stage |-> "rule"] ELSE write
  <2>1. /\ bare \in Queries /\ bare.mode = queried.mode /\ bare.tool = queried.tool
        /\ bare.hook = queried.hook /\ bare.rules = queried.rules /\ bare.prompt = "none"
    BY DEF Queries
  <2>2. /\ "deny" \in every => save = [decision |-> "deny", stage |-> "rule"]
        /\ "deny" \notin every /\ inForce = "plan" /\ asked.decision = "allow" =>
             save = [decision |-> "deny", stage |-> "mode"]
        /\ "deny" \notin every /\ ~(inForce = "plan" /\ asked.decision = "allow")
             /\ inForce = "acceptEdits" /\ asked = [decision |-> "ask", stage |-> "mode"] =>
             save = [decision |-> "allow", stage |-> "mode"]
        /\ "deny" \notin every /\ ~(inForce = "plan" /\ asked.decision = "allow")
             /\ ~(inForce = "acceptEdits" /\ asked = [decision |-> "ask", stage |-> "mode"]) =>
             save = asked
    BY DEF Permit!resolveSavePermission, Permit!Result
  <2> SUFFICES ASSUME save.decision = "allow"
               PROVE  LET byAcceptEdits == /\ queried.mode = "acceptEdits"
                                           /\ write = [decision |-> "ask", stage |-> "mode"]
                      IN /\ inForce # "plan" /\ "deny" \notin every
                         /\ "ask" \in every => byAcceptEdits /\ "ask" \notin queried.rules
                         /\ write.decision = "allow" \/ byAcceptEdits
    BY DEF Permit!SaveIsNoLooser, Permit!Result
  <2>3. inForce = "acceptEdits" => queried.mode = "acceptEdits"
    BY DEF Permit!Normalize
  <2>4. write = [decision |-> "ask", stage |-> "mode"] => queried.rules = {}
    <3>1. queried.hook # "none" => write = [decision |-> queried.hook, stage |-> "hook"]
      BY <2>1, RequestResolves
    <3>2. queried.hook = "none" /\ queried.rules # {} =>
            write = [decision |-> Permit!FirstMatchingRule(queried.rules), stage |-> "rule"]
      BY <2>1, RequestResolves
    <3> HIDE DEF write
    <3>3. queried.hook # "none" => write.stage = "hook"
      BY <3>1
    <3>4. queried.hook = "none" /\ queried.rules # {} => write.stage = "rule"
      BY <3>2
    <3> QED
      BY <3>3, <3>4
  <2> HIDE DEF write, save, inForce
  <2> QED
    BY <2>2, <2>3, <2>4
<1> QED
  BY <1>2, <1>3 DEF Permit!NothingIsLooser

\* clamp.go, save_permission.go: neither of the two ways to act on the user's
\* behalf without a prompt of one's own goes further than the agent itself.
THEOREM PermitNoLooser == Permit!Spec => []Permit!NothingIsLooser
<1>1. Permit!Init => Queried
  <2>1. Permit!NoRequest \in Queries
    BY DEF Permit!NoRequest, Queries, Permit!Decision
  <2> QED
    BY <2>1 DEF Permit!Init, Queried
<1>2. Queried /\ [Permit!Next]_queried => Queried'
  <2> SUFFICES ASSUME Permit!Next PROVE queried' \in Queries
    BY DEF Queried
  <2>1. PICK mode_, requested \in Permit!Mode \cup {""}, hook \in Permit!Decision \cup {"none"},
             rules_, other \in SUBSET Permit!Decision, tool \in Permit!Decision,
             prompt \in {"none", "error", "allow", "deny"} :
          /\ other = {} \/ (requested = "" /\ prompt = "none")
          /\ queried' = [mode |-> mode_, hook |-> hook, rules |-> rules_, tool |-> tool,
                         prompt |-> prompt, requested |-> requested, other |-> other]
    BY DEF Permit!Next, Permit!Ask
  <2>2. {rules_, other} \subseteq SUBSET Permit!Decision
    OBVIOUS
  <2> QED
    BY <2>1, <2>2 DEF Queries
<1>3. Queried => Permit!NothingIsLooser
  BY QueryIsNoLooser DEF Queried
<1> QED
  BY <1>1, <1>2, <1>3, PTL DEF Permit!Spec

-----------------------------------------------------------------------------
(* Children.  Between the main run's own SetPrompt and the end of its      *)
(* batch, what the Agent tool holds is the main run's or that of one that  *)
(* crossed it; if it lacks rules, hooks or a prompt, a worker crossed.     *)
(* Every run, and so every policy the tool may hold, is as strict as the   *)
(* main run.                                                               *)

ChildrenAssumption == MaxAgents \in Nat \ {0} /\ MaxCalls \in Nat

Places == {"off", "new", "run", "policy", "resolve", "batch", "call", "wait", "ended",
           "dead"}

Main == Children!main

ActiveChild(c) == role[c] = "child" /\ station[c] \notin {"ended", "dead"}

Worked == \E w \in crossers[Main] : role[w] = "worker"

Batched == \/ station[Main] \in {"resolve", "call", "wait", "batch"}
           \/ station[Main] = "run" /\ pendingCalls[Main] > 0

\* Who is what, and where.
ChildrenKnown ==
  /\ \A i \in Children!Run : /\ role[i] = "main" <=> i = Main
                             /\ role[i] = "none" => station[i] \in {"off", "dead"}
                             /\ station[i] \in {"new", "call", "wait"} => i = Main
                             /\ role[i] = "child" => parent[i] = Main /\ asking[i] # "user"
                             /\ role[i] = "worker" => asking[i] = "none"
  /\ station[Main] = "new" => /\ \A i \in Children!Run : i # Main => role[i] = "none"
                              /\ toolPolicy.by = 0 /\ pendingCalls[Main] = 0
  /\ station[Main] # "new" => bound[Main] /\ asking[Main] = "user"
  /\ station[Main] = "dead" => \E w \in Children!Run : role[w] = "worker"
  /\ station[Main] \in {"call", "wait"} => pendingCalls[Main] > 0
  /\ \A i \in Children!Run : station[i] \in {"policy", "resolve"} => pendingCalls[i] < MaxCalls
  /\ \A c, d \in Children!Run : ActiveChild(c) /\ ActiveChild(d) => c = d
  /\ \A c \in Children!Run : ActiveChild(c) => station[Main] = "wait"

\* Nobody is looser than the main run.
ChildrenStrict ==
  /\ \A c \in Children!Run : role[c] # "none" =>
       Permit!strictness(mode[c]) >= Permit!strictness(mode[Main])
  /\ toolPolicy.by # 0 => Permit!strictness(toolPolicy.mode) >= Permit!strictness(mode[Main])
  /\ station[Main] = "call" =>
       Permit!strictness(policyRead[Main].mode) >= Permit!strictness(mode[Main])

\* Whose policy it is.
ChildrenAsked ==
  /\ Batched \/ station[Main] = "policy" => /\ toolPrompt = "user" \/ crossers[Main] # {}
                                            /\ toolPrompt = "none" => Worked
  /\ Batched => /\ toolPolicy.held \/ Worked
                /\ toolPolicy.by \in {Main} \cup crossers[Main]
  /\ station[Main] = "call" => /\ policyRead[Main].held \/ Worked
                               /\ policyRead[Main].by \in {Main} \cup crossers[Main]
  /\ \A c \in Children!Run : role[c] = "child" =>
       /\ bound[c] \/ \E w \in origin[c].past : role[w] = "worker"
       /\ origin[c].by \in {Main} \cup origin[c].past
  /\ \A c \in Children!Run : ActiveChild(c) => /\ origin[c].past \subseteq crossers[Main]
                                               /\ asking[c] = "none" => Worked

ChildrenInv == Children!TypeOK /\ ChildrenKnown /\ ChildrenStrict /\ ChildrenAsked

\* The main run is one of the runs; modes are modes.
LEMMA ChildrenRuns ==
  ASSUME ChildrenAssumption
  PROVE  /\ Main = 1 /\ Main \in Children!Run /\ 0 \in 0..MaxAgents
         /\ Children!Run \subseteq 0..MaxAgents /\ 0 \notin Children!Run
         /\ Children!Modes \subseteq Permit!Mode /\ 0 \in 0..MaxCalls
  BY DEF ChildrenAssumption, Main, Children!main, Children!Run, Children!Modes, Permit!Mode

\* The operators of the sub-agent's own instance of the permission module.
LEMMA SameResolution ==
  ASSUME NEW p, NEW r
  PROVE  /\ Children!Resolution!strictness(p) = Permit!strictness(p)
         /\ Children!Resolution!ClampMode(p, r) = Permit!ClampMode(p, r)
         /\ Children!Resolution!ChildMode(p, r) = Permit!ChildMode(p, r)
  BY DEF Children!Resolution!strictness, Permit!strictness, Children!Resolution!ClampMode,
     Permit!ClampMode, Children!Resolution!ChildMode, Permit!ChildMode,
     Children!Resolution!Normalize, Permit!Normalize, Children!Resolution!Mode, Permit!Mode

\* A child gets one of the modes of a run, as strict as its parent's policy.
LEMMA ChildGetsMode ==
  ASSUME NEW p \in Children!Modes, NEW r \in Children!Modes
  PROVE  /\ Children!ChildMode(p, r) \in Children!Modes
         /\ Permit!strictness(Children!ChildMode(p, r)) >= Permit!strictness(p)
<1>1. Children!ChildMode(p, r) = Permit!ChildMode(p, Permit!ClampMode(p, r))
  BY SameResolution DEF Children!ChildMode
<1>2. p \in Permit!Mode /\ r \in Permit!Mode
  BY DEF Children!Modes, Permit!Mode
<1>3. Permit!strictness(Children!ChildMode(p, r)) >= Permit!strictness(p)
  BY <1>1, <1>2, ChildModeIsStrict
<1>4. Permit!ClampMode(p, r) \in {p, r}
  BY <1>2, NormalizeKnown DEF Permit!ClampMode
<1>5. p # "" /\ Permit!ChildMode(p, Permit!ClampMode(p, r)) \in {p, r}
  <2>1. \A m \in {p, r} : Permit!Normalize(m) = m
    BY <1>2, NormalizeKnown
  <2>2. \A m \in {p, r} : Permit!ClampMode(p, m) \in {p, m}
    BY <1>2, <2>1 DEF Permit!ClampMode
  <2> QED
    BY <1>4, <2>1, <2>2 DEF Permit!ChildMode, Children!Modes
<1> QED
  BY <1>1, <1>3, <1>5

\* A worker's mode is as strict as the main run's.
LEMMA WorkerGetsMode ==
  ASSUME mode[Main] \in Children!Modes
  PROVE  /\ Children!workerPermissionMode \in Children!Modes
         /\ Permit!strictness(Children!workerPermissionMode) >= Permit!strictness(mode[Main])
  BY DEF Children!workerPermissionMode, Children!contextMode, Children!Modes, Main,
     Permit!strictness

\* Every variable keeps its type.
LEMMA ChildrenTyped ==
  ASSUME ChildrenAssumption, ChildrenInv, [Children!Next]_(Children!vars)
  PROVE  Children!TypeOK'
<1> USE ChildrenRuns DEF ChildrenInv
<1>0. Children!TypeOK
  OBVIOUS
<1>1. ASSUME NEW i \in Children!Run, NEW c \in Children!Run,
             Children!StartChild(i, c) \/ Children!StartWorker(i, c)
      PROVE  Children!TypeOK'
  <2>1. PICK k \in {"child", "worker"}, m \in Children!Modes, h \in BOOLEAN,
          ask \in Children!Prompts :
          Children!New(c, k, i, m, h, ask)
    <3>1. /\ policyRead[i].mode \in Children!Modes /\ policyRead[i].held \in BOOLEAN
          /\ toolPrompt \in Children!Prompts /\ mode[Main] \in Children!Modes
      BY <1>0 DEF Children!TypeOK, Children!Policy
    <3>2. CASE Children!StartChild(i, c)
      BY <3>1, <3>2, ChildGetsMode DEF Children!StartChild, Children!Prompts
    <3>3. CASE Children!StartWorker(i, c)
      BY <3>1, <3>3, WorkerGetsMode DEF Children!StartWorker, Children!Prompts
    <3> QED
      BY <1>1, <3>2, <3>3
  <2>2. /\ role' \in [Children!Run -> {"none", "main", "child", "worker"}]
        /\ parent' \in [Children!Run -> 0..MaxAgents] /\ mode' \in [Children!Run -> Children!Modes]
        /\ bound' \in [Children!Run -> BOOLEAN] /\ asking' \in [Children!Run -> Children!Prompts]
    <3>1. /\ role' = [role EXCEPT ![c] = k] /\ parent' = [parent EXCEPT ![c] = i]
          /\ mode' = [mode EXCEPT ![c] = m] /\ bound' = [bound EXCEPT ![c] = h]
          /\ asking' = [asking EXCEPT ![c] = ask]
      BY <2>1 DEF Children!New
    <3>2. /\ role \in [Children!Run -> {"none", "main", "child", "worker"}]
          /\ parent \in [Children!Run -> 0..MaxAgents] /\ mode \in [Children!Run -> Children!Modes]
          /\ bound \in [Children!Run -> BOOLEAN] /\ asking \in [Children!Run -> Children!Prompts]
      BY <1>0 DEF Children!TypeOK
    <3>3. i \in 0..MaxAgents /\ k \in {"none", "main", "child", "worker"}
      OBVIOUS
    <3>4. role' \in [Children!Run -> {"none", "main", "child", "worker"}]
      BY <3>1, <3>2, <3>3
    <3>5. parent' \in [Children!Run -> 0..MaxAgents]
      BY <3>1, <3>2, <3>3
    <3>6. mode' \in [Children!Run -> Children!Modes]
      BY <3>1, <3>2
    <3>7. bound' \in [Children!Run -> BOOLEAN]
      BY <3>1, <3>2
    <3>8. asking' \in [Children!Run -> Children!Prompts]
      BY <3>1, <3>2
    <3> QED
      BY <3>4, <3>5, <3>6, <3>7, <3>8
  <2>3. station' \in [Children!Run -> Places]
    <3>1. station \in [Children!Run -> Places]
      BY <1>0 DEF Children!TypeOK, Places
    <3>2. \/ station' = [station EXCEPT ![i] = "wait", ![c] = "run"]
          \/ station' = [station EXCEPT ![c] = "run"]
      BY <1>1 DEF Children!StartChild, Children!StartWorker, Children!Goto
    <3>3. {"wait", "run"} \subseteq Places
      BY DEF Places
    <3> QED
      BY <3>1, <3>2, <3>3
  <2>4. origin' \in [Children!Run -> [by : 0..MaxAgents, past : SUBSET Children!Run]]
    <3>1. /\ policyRead[i].by \in 0..MaxAgents /\ crossers[i] \in SUBSET Children!Run
          /\ origin \in [Children!Run -> [by : 0..MaxAgents, past : SUBSET Children!Run]]
      BY <1>0 DEF Children!TypeOK, Children!Policy
    <3>2. [by |-> policyRead[i].by, past |-> crossers[i]]
             \in [by : 0..MaxAgents, past : SUBSET Children!Run]
      BY <3>1
    <3>3. \/ origin' = origin
          \/ origin' = [origin EXCEPT ![c] = [by |-> policyRead[i].by, past |-> crossers[i]]]
      BY <1>1 DEF Children!StartChild, Children!StartWorker
    <3> DEFINE entry == [by |-> policyRead[i].by, past |-> crossers[i]]
               Entries == [by : 0..MaxAgents, past : SUBSET Children!Run]
    <3>4. entry \in Entries /\ origin \in [Children!Run -> Entries]
          /\ (origin' = origin \/ origin' = [origin EXCEPT ![c] = entry])
      BY <3>1, <3>2, <3>3
    <3> HIDE DEF entry, Entries
    <3>5. origin' \in [Children!Run -> Entries]
      BY <3>4
    <3> QED
      BY <3>5 DEF Entries
  <2> QED
    BY <1>0, <1>1, <2>2, <2>3, <2>4
       DEF Children!StartChild, Children!StartWorker, Children!TypeOK, Children!toolVars, Places
<1>2. ASSUME NEW i \in Children!Run,
             Children!SetPrompt(i) \/ Children!SetParentPolicy(i) \/ Children!ReadPolicy(i)
      PROVE  Children!TypeOK'
  <2>1. station' \in [Children!Run -> Places]
    <3>1. station \in [Children!Run -> Places]
      BY <1>0 DEF Children!TypeOK, Places
    <3>2. PICK to \in {"policy", "resolve", "call"} : station' = [station EXCEPT ![i] = to]
      BY <1>2 DEF Children!SetPrompt, Children!SetParentPolicy, Children!ReadPolicy,
         Children!Goto
    <3>3. to \in Places
      BY DEF Places
    <3> QED
      BY <3>1, <3>2, <3>3
  <2>2. toolPrompt' \in Children!Prompts /\ toolPolicy' \in Children!Policy
    BY <1>0, <1>2 DEF Children!SetPrompt, Children!SetParentPolicy, Children!ReadPolicy,
       Children!toolVars, Children!TypeOK, Children!Policy
  <2>3. crossers' \in [Children!Run -> SUBSET Children!Run]
    <3>1. crossers \in [Children!Run -> SUBSET Children!Run]
      BY <1>0 DEF Children!TypeOK
    <3>2. Children!Recorded(i) \in [Children!Run -> SUBSET Children!Run]
      BY <3>1 DEF Children!Recorded
    <3>3. crossers' \in {crossers, Children!Recorded(i), [Children!Recorded(i) EXCEPT ![i] = {}]}
      BY <1>2 DEF Children!SetPrompt, Children!SetParentPolicy, Children!ReadPolicy,
         Children!toolVars
    <3> HIDE DEF Children!Recorded
    <3> QED
      BY <3>1, <3>2, <3>3
  <2>4. policyRead' \in [Children!Run -> Children!Policy]
    <3>1. /\ policyRead \in [Children!Run -> Children!Policy] /\ toolPolicy \in Children!Policy
          /\ mode[i] \in Children!Modes
      BY <1>0 DEF Children!TypeOK
    <3>2. [Children!NoPolicy EXCEPT !.mode = mode[i]] \in Children!Policy
      BY <3>1 DEF Children!NoPolicy, Children!Policy
    <3>3. \/ policyRead' = policyRead \/ policyRead' = [policyRead EXCEPT ![i] = toolPolicy]
          \/ policyRead' = [policyRead EXCEPT ![i] = [Children!NoPolicy EXCEPT !.mode = mode[i]]]
      BY <1>2 DEF Children!SetPrompt, Children!SetParentPolicy, Children!ReadPolicy
    <3> QED
      BY <3>1, <3>2, <3>3
  <2> QED
    BY <1>0, <1>2, <2>1, <2>2, <2>3, <2>4 DEF Children!SetPrompt, Children!SetParentPolicy,
       Children!ReadPolicy, Children!runVars, Children!TypeOK, Places
<1>3. ASSUME NEW i \in Children!Run,
             \/ Children!Allowed(i) \/ Children!Refused(i) \/ Children!Recursion(i)
             \/ Children!StartFails(i) \/ Children!EndChild(i) \/ Children!EndWorker(i)
      PROVE  Children!TypeOK'
  <2>1. station' \in [Children!Run -> Places]
    <3>1. station \in [Children!Run -> Places]
      BY <1>0 DEF Children!TypeOK, Places
    <3>2. \/ \E to \in Places : station' = [station EXCEPT ![i] = to]
          \/ station' = station
          \/ Children!EndChild(i)
      BY <1>3 DEF Children!Allowed, Children!Refused, Children!Recursion,
         Children!StartFails, Children!EndWorker, Children!Goto, Children!After, Places
    <3>3. CASE Children!EndChild(i)
      BY <3>1, <3>3 DEF Children!EndChild, Children!Goto, Children!After, Places
    <3> QED
      BY <3>1, <3>2, <3>3
  <2>2. pendingCalls' \in [Children!Run -> 0..MaxCalls]
    <3>0. pendingCalls \in [Children!Run -> 0..MaxCalls] /\ MaxCalls \in Nat
      BY <1>0 DEF Children!TypeOK, ChildrenAssumption
    <3>1. \/ pendingCalls' = pendingCalls
          \/ \E j \in Children!Run : /\ pendingCalls[j] > 0
                                     /\ pendingCalls' = [pendingCalls EXCEPT ![j] = @ - 1]
          \/ /\ pendingCalls[i] < MaxCalls
             /\ pendingCalls' = [pendingCalls EXCEPT ![i] = @ + 1]
      <4>1. ASSUME Children!EndChild(i) PROVE <3>1
        BY <4>1 DEF Children!EndChild, Children!Called, ChildrenKnown, ActiveChild
      <4>2. ASSUME Children!StartFails(i) PROVE <3>1
        BY <4>2 DEF Children!StartFails, Children!Called, ChildrenKnown
      <4>3. ASSUME Children!Recursion(i) PROVE <3>1
        BY <4>3 DEF Children!Recursion, Children!NextCall, Children!Called
      <4>4. ASSUME Children!Allowed(i) PROVE <3>1
        BY <4>4 DEF Children!Allowed, ChildrenKnown
      <4> QED
        BY <1>3, <4>1, <4>2, <4>3, <4>4 DEF Children!Refused, Children!EndWorker
    <3> QED
      BY <3>0, <3>1
  <2> QED
    BY <1>0, <1>3, <2>1, <2>2 DEF Children!Allowed, Children!Refused, Children!Recursion,
       Children!StartFails, Children!EndChild, Children!EndWorker, Children!runVars,
       Children!toolVars, Children!TypeOK, Places
<1>4. ASSUME Children!Begin PROVE Children!TypeOK'
  BY <1>0, <1>4 DEF Children!Begin, Children!Goto, Children!toolVars, Children!TypeOK, Places,
     Children!Prompts, Main
<1>5. CASE UNCHANGED Children!vars
  BY <1>0, <1>5 DEF Children!vars, Children!runVars, Children!toolVars, Children!TypeOK,
     Children!Policy
<1>6. ASSUME NEW i \in Children!Run, Children!Crash(i) PROVE Children!TypeOK'
  BY <1>0, <1>6 DEF Children!Crash, Children!runVars, Children!toolVars, Children!TypeOK
<1> QED
  BY <1>1, <1>2, <1>3, <1>4, <1>5, <1>6 DEF Children!Next


\* Who is what and where stays so.
LEMMA ChildrenStayKnown ==
  ASSUME ChildrenAssumption, ChildrenInv, [Children!Next]_(Children!vars)
  PROVE  ChildrenKnown'
<1> USE ChildrenRuns DEF ChildrenKnown, ActiveChild
<1>0. /\ role \in [Children!Run -> {"none", "main", "child", "worker"}]
      /\ parent \in [Children!Run -> 0..MaxAgents] /\ bound \in [Children!Run -> BOOLEAN]
      /\ asking \in [Children!Run -> Children!Prompts] /\ station \in [Children!Run -> Places]
      /\ pendingCalls \in [Children!Run -> 0..MaxCalls] /\ MaxCalls \in Nat /\ MaxAgents \in Nat
      /\ ChildrenKnown
  BY DEF ChildrenInv, Children!TypeOK, Places, ChildrenAssumption
<1>1. ASSUME NEW i \in Children!Run,
             \/ Children!SetPrompt(i) \/ Children!SetParentPolicy(i) \/ Children!Allowed(i)
             \/ Children!Refused(i)
      PROVE  ChildrenKnown'
  <2>1. /\ station[i] \in {"run", "policy", "resolve"} /\ role[i] # "none"
        /\ station'[i] \in {"run", "policy", "resolve"}
        /\ station' = [station EXCEPT ![i] = station'[i]]
        /\ UNCHANGED <<role, parent, bound, asking>>
        /\ station'[i] \in {"policy", "resolve"} => pendingCalls'[i] < MaxCalls
        /\ pendingCalls' = [pendingCalls EXCEPT ![i] = pendingCalls'[i]]
        /\ toolPolicy' \in {toolPolicy, [by |-> i, mode |-> mode[i], held |-> bound[i]]}
    BY <1>0, <1>1 DEF Children!SetPrompt, Children!SetParentPolicy, Children!Allowed,
       Children!Refused, Children!Goto, Children!runVars, Children!toolVars
  <2> QED
    BY <1>0, <2>1
<1>2. ASSUME NEW i \in Children!Run,
             Children!Recursion(i) \/ Children!ReadPolicy(i) \/ Children!StartFails(i)
      PROVE  ChildrenKnown'
  <2>1. /\ station[i] \in {"run", "batch", "call"} /\ role[i] # "none"
        /\ \/ station'[i] \in {"run", "batch"}
           \/ station'[i] = "call" /\ i = Main /\ pendingCalls'[i] > 0
        /\ station' = [station EXCEPT ![i] = station'[i]]
        /\ UNCHANGED <<role, parent, bound, asking, toolPolicy>>
        /\ pendingCalls' = [pendingCalls EXCEPT ![i] = pendingCalls'[i]]
    BY <1>0, <1>2 DEF Children!Recursion, Children!ReadPolicy, Children!StartFails,
       Children!NextCall, Children!Called, Children!After,
       Children!Goto, Children!runVars, Children!toolVars
  <2> QED
    BY <1>0, <2>1
<1>3. ASSUME NEW i \in Children!Run, Children!EndChild(i) PROVE ChildrenKnown'
  <2>1. /\ role[i] = "child" /\ station[i] = "run" /\ i # Main /\ parent[i] = Main
        /\ UNCHANGED <<role, parent, bound, asking, toolPolicy>>
        /\ pendingCalls' = [pendingCalls EXCEPT ![Main] = @ - 1]
        /\ station' = [station EXCEPT ![i] = "ended", ![Main] = Children!After(Main)]
    BY <1>0, <1>3 DEF Children!EndChild, Children!Called, Children!runVars, Children!toolVars
  <2>2. Children!After(Main) \in {"run", "batch"}
    BY DEF Children!After
  <2>3. \A c \in Children!Run : ~ActiveChild(c)'
    BY <1>0, <2>1
  <2> QED
    BY <1>0, <2>1, <2>2, <2>3
<1>4. ASSUME NEW i \in Children!Run, Children!EndWorker(i) PROVE ChildrenKnown'
  BY <1>0, <1>4 DEF Children!EndWorker, Children!Goto, Children!runVars, Children!toolVars
<1>5. ASSUME Children!Begin PROVE ChildrenKnown'
  BY <1>0, <1>5 DEF Children!Begin, Children!Goto, Children!toolVars, Main
<1>6. ASSUME NEW i \in Children!Run, NEW c \in Children!Run, Children!StartChild(i, c)
      PROVE  ChildrenKnown'
  <2>1. /\ i = Main /\ c # Main /\ role[c] = "none" /\ station[Main] = "call"
        /\ role' = [role EXCEPT ![c] = "child"] /\ parent' = [parent EXCEPT ![c] = Main]
        /\ station' = [station EXCEPT ![Main] = "wait", ![c] = "run"]
        /\ \A j \in Children!Run : j # c => bound'[j] = bound[j] /\ asking'[j] = asking[j]
        /\ asking'[c] # "user"
        /\ UNCHANGED <<pendingCalls, toolPolicy>>
    BY <1>0, <1>6 DEF Children!StartChild, Children!New, Children!toolVars
  <2>2. \A d \in Children!Run : ~ActiveChild(d)
    BY <1>0, <2>1
  <2> QED
    BY <1>0, <2>1, <2>2
<1>7. ASSUME NEW i \in Children!Run, NEW c \in Children!Run, Children!StartWorker(i, c)
      PROVE  ChildrenKnown'
  <2>1. /\ station[i] = "run" /\ c # Main /\ role[c] = "none" /\ station[Main] # "new"
        /\ role' = [role EXCEPT ![c] = "worker"] /\ parent' = [parent EXCEPT ![c] = i]
        /\ station' = [station EXCEPT ![c] = "run"]
        /\ \A j \in Children!Run : j # c => bound'[j] = bound[j] /\ asking'[j] = asking[j]
        /\ asking'[c] = "none"
        /\ UNCHANGED <<pendingCalls, toolPolicy>>
    BY <1>0, <1>7 DEF Children!StartWorker, Children!New, Children!Goto, Children!toolVars
  <2> QED
    BY <1>0, <2>1
<1>8. CASE UNCHANGED Children!vars
  BY <1>0, <1>8 DEF Children!vars, Children!runVars, Children!toolVars
<1>9. ASSUME NEW i \in Children!Run, Children!Crash(i) PROVE ChildrenKnown'
  <2>1. /\ role[i] = "child" /\ station[i] \in {"run", "resolve"} /\ toolPrompt = "none"
        /\ UNCHANGED <<role, parent, bound, asking, toolPolicy, pendingCalls>>
        /\ station' = [j \in Children!Run |-> "dead"]
    BY <1>0, <1>9 DEF Children!Crash, Children!runVars, Children!toolVars
  <2>2. \E w \in Children!Run : role[w] = "worker"
    <3>1. Batched
      BY <1>0, <2>1 DEF Batched
    <3>2. Worked
      BY <2>1, <3>1 DEF ChildrenInv, ChildrenAsked
    <3>3. crossers[Main] \subseteq Children!Run
      BY DEF ChildrenInv, Children!TypeOK
    <3> QED
      BY <3>2, <3>3 DEF Worked
  <2> QED
    BY <1>0, <2>1, <2>2
<1> QED
  BY <1>1, <1>2, <1>3, <1>4, <1>5, <1>6, <1>7, <1>8, <1>9 DEF Children!Next

\* Nobody becomes looser than the main run.
LEMMA ChildrenStayStrict ==
  ASSUME ChildrenAssumption, ChildrenInv, [Children!Next]_(Children!vars)
  PROVE  ChildrenStrict'
<1> USE ChildrenRuns DEF ChildrenStrict
<1>0. /\ mode \in [Children!Run -> Children!Modes] /\ ChildrenKnown /\ ChildrenStrict
      /\ role \in [Children!Run -> {"none", "main", "child", "worker"}]
      /\ policyRead \in [Children!Run -> Children!Policy]
      /\ station \in [Children!Run -> Places]
      /\ \A m : Permit!strictness(m) \in 0..5
  BY StrictnessIsNat DEF ChildrenInv, Children!TypeOK, Places
<1>1. ASSUME Children!Begin PROVE ChildrenStrict'
  <2>1. /\ \A c \in Children!Run : role[c] # "none" => c = Main
        /\ toolPolicy.by = 0 /\ UNCHANGED <<role, toolPolicy>> /\ station'[Main] = "run"
    BY <1>0, <1>1 DEF Children!Begin, Children!Goto, Children!toolVars, ChildrenKnown, Main
  <2> QED
    BY <1>0, <2>1
<1>2. ASSUME NEW i \in Children!Run, Children!SetParentPolicy(i) PROVE ChildrenStrict'
  BY <1>0, <1>2 DEF Children!SetParentPolicy, Children!Goto, Children!runVars, ChildrenKnown
<1>3. ASSUME NEW i \in Children!Run, Children!ReadPolicy(i) PROVE ChildrenStrict'
  <2>1. /\ i = Main /\ UNCHANGED <<role, mode, toolPolicy>>
        /\ policyRead' = [policyRead EXCEPT ![i] = IF toolPolicy.by = 0
                            THEN [Children!NoPolicy EXCEPT !.mode = mode[i]] ELSE toolPolicy]
    BY <1>0, <1>3 DEF Children!ReadPolicy, Children!runVars, Children!toolVars, ChildrenKnown
  <2>2. [Children!NoPolicy EXCEPT !.mode = mode[i]].mode = mode[i]
    BY DEF Children!NoPolicy
  <2>3. policyRead'[Main].mode \in {mode[Main], toolPolicy.mode}
        /\ (toolPolicy.by = 0 => policyRead'[Main].mode = mode[Main])
    BY <1>0, <2>1, <2>2
  <2> QED
    BY <1>0, <2>1, <2>3
<1>4. ASSUME NEW i \in Children!Run, NEW c \in Children!Run,
             Children!StartChild(i, c) \/ Children!StartWorker(i, c)
      PROVE  ChildrenStrict'
  <2>1. mode[Main] \in Children!Modes /\ policyRead[i].mode \in Children!Modes
    BY <1>0 DEF Children!Policy
  <2>2. PICK m \in Children!Modes :
          /\ Permit!strictness(m) >= Permit!strictness(mode[Main])
          /\ mode' = [mode EXCEPT ![c] = m]
    <3>1. CASE Children!StartChild(i, c)
      <4>1. i = Main /\ Permit!strictness(policyRead[i].mode) >= Permit!strictness(mode[Main])
        BY <1>0, <3>1 DEF Children!StartChild, ChildrenKnown
      <4>2. PICK r \in Children!Modes :
              mode' = [mode EXCEPT ![c] = Children!ChildMode(policyRead[i].mode, r)]
        BY <3>1 DEF Children!StartChild, Children!New
      <4>3. /\ Children!ChildMode(policyRead[i].mode, r) \in Children!Modes
            /\ Permit!strictness(Children!ChildMode(policyRead[i].mode, r))
                 >= Permit!strictness(policyRead[i].mode)
        BY <2>1, ChildGetsMode
      <4> DEFINE m == Children!ChildMode(policyRead[i].mode, r)
      <4>4. m \in Children!Modes /\ Permit!strictness(m) >= Permit!strictness(policyRead[i].mode)
        BY <4>3
      <4>5. mode' = [mode EXCEPT ![c] = m]
        BY <4>2
      <4> HIDE DEF m
      <4>6. Permit!strictness(m) >= Permit!strictness(mode[Main])
        BY <1>0, <4>1, <4>4
      <4> QED
        BY <4>4, <4>5, <4>6
    <3>2. CASE Children!StartWorker(i, c)
      BY <2>1, <3>2, WorkerGetsMode DEF Children!StartWorker, Children!New
    <3> QED
      BY <1>4, <3>1, <3>2
  <2>3. /\ c # Main /\ UNCHANGED <<toolPolicy, policyRead>>
        /\ \A d \in Children!Run : role'[d] # "none" => d = c \/ role[d] # "none"
        /\ station'[Main] = "call" => station[Main] = "call"
    BY <1>0, <1>4 DEF Children!StartChild, Children!StartWorker, Children!New, Children!Goto,
       Children!toolVars, ChildrenKnown
  <2> QED
    BY <1>0, <2>2, <2>3
<1>5. CASE /\ UNCHANGED <<role, mode, toolPolicy, policyRead>>
           /\ station'[Main] = "call" => station[Main] = "call"
  BY <1>0, <1>5
<1>6. ASSUME NEW i \in Children!Run,
             \/ Children!SetPrompt(i) \/ Children!Allowed(i) \/ Children!Refused(i)
             \/ Children!Recursion(i) \/ Children!StartFails(i) \/ Children!EndChild(i)
             \/ Children!EndWorker(i) \/ Children!Crash(i)
      PROVE  ChildrenStrict'
  <2>1. /\ UNCHANGED <<role, mode, toolPolicy, policyRead>>
        /\ station'[Main] = "call" => station[Main] = "call"
    BY <1>0, <1>6 DEF Children!SetPrompt, Children!Allowed, Children!Refused,
       Children!Recursion, Children!StartFails, Children!EndChild, Children!EndWorker,
       Children!Crash, Children!Goto, Children!After, Children!runVars, Children!toolVars
  <2> QED
    BY <1>5, <2>1
<1>7. CASE UNCHANGED Children!vars
  BY <1>5, <1>7 DEF Children!vars, Children!runVars, Children!toolVars
<1> QED
  BY <1>1, <1>2, <1>3, <1>4, <1>6, <1>7 DEF Children!Next


\* A worker stays one, and what a child got stays its own.
LEMMA ChildrenKeepOrigin ==
  ASSUME ChildrenAssumption, ChildrenInv, [Children!Next]_(Children!vars)
  PROVE  /\ \A w \in Children!Run : role[w] = "worker" => role'[w] = "worker"
         /\ \A c \in Children!Run : role[c] # "none" =>
              /\ role'[c] = role[c] /\ origin'[c] = origin[c]
              /\ (bound[c] => bound'[c]) /\ (role[c] = "child" => asking'[c] = asking[c])
         /\ \A c \in Children!Run : role[c] # "none" /\ ActiveChild(c)' => ActiveChild(c)
<1> USE ChildrenRuns DEF ActiveChild
<1>0. /\ role \in [Children!Run -> {"none", "main", "child", "worker"}]
      /\ bound \in [Children!Run -> BOOLEAN] /\ asking \in [Children!Run -> Children!Prompts]
      /\ station \in [Children!Run -> Places] /\ ChildrenKnown
      /\ origin \in [Children!Run -> [by : 0..MaxAgents, past : SUBSET Children!Run]]
  BY DEF ChildrenInv, Children!TypeOK, Places
<1>1. ASSUME NEW i \in Children!Run, NEW c \in Children!Run,
             Children!StartChild(i, c) \/ Children!StartWorker(i, c)
      PROVE  /\ role[c] = "none" /\ \A d \in Children!Run : d # c => role'[d] = role[d]
             /\ \A d \in Children!Run : d # c => /\ bound'[d] = bound[d] /\ asking'[d] = asking[d]
                                                 /\ origin'[d] = origin[d]
             /\ \A d \in Children!Run :
                  d # c /\ station'[d] # station[d] => d = i /\ station[i] = "call"
  BY <1>0, <1>1 DEF Children!StartChild, Children!StartWorker, Children!New, Children!Goto
<1>2. ASSUME Children!Begin
      PROVE  /\ UNCHANGED <<role, origin>>
             /\ bound' = [bound EXCEPT ![Main] = TRUE] /\ asking' = [asking EXCEPT ![Main] = "user"]
             /\ \A d \in Children!Run : station'[d] # station[d] => d = Main
  BY <1>0, <1>2 DEF Children!Begin, Children!Goto, Main
<1>3. ASSUME NEW i \in Children!Run,
             \/ Children!SetPrompt(i) \/ Children!SetParentPolicy(i) \/ Children!Allowed(i)
             \/ Children!Refused(i) \/ Children!Recursion(i) \/ Children!ReadPolicy(i)
             \/ Children!StartFails(i) \/ Children!EndChild(i) \/ Children!EndWorker(i)
             \/ Children!Crash(i)
      PROVE  /\ UNCHANGED <<role, bound, asking, origin>>
             /\ \A d \in Children!Run :
                  station[d] \in {"ended", "dead"} => station'[d] \in {"ended", "dead"}
  BY <1>0, <1>3 DEF Children!SetPrompt, Children!SetParentPolicy, Children!Allowed,
     Children!Refused, Children!Recursion, Children!ReadPolicy, Children!StartFails,
     Children!EndChild, Children!EndWorker, Children!Crash, Children!NextCall, Children!Goto,
     Children!runVars, ChildrenKnown, ActiveChild
<1>4. CASE UNCHANGED Children!vars
  BY <1>4 DEF Children!vars, Children!runVars
<1>5. CASE Children!Begin
  <2>1. \A c \in Children!Run : role[c] # "none" => c = Main /\ role[c] # "child"
    BY <1>0, <1>5 DEF Children!Begin, ChildrenKnown, Main
  <2>2. bound'[Main] = TRUE
    BY <1>0, <1>2, <1>5, Zenon
  <2>3. UNCHANGED <<role, origin>>
    BY <1>2, <1>5
  <2>4. \A c \in Children!Run : role[c] # "none" => bound'[c]
    BY <2>1, <2>2
  <2>5. \A c \in Children!Run : role[c] # "none" => ~ActiveChild(c)'
    BY <2>1, <2>3
  <2> QED
    BY <2>1, <2>3, <2>4, <2>5
<1>6. ASSUME NEW i \in Children!Run, NEW c \in Children!Run,
             Children!StartChild(i, c) \/ Children!StartWorker(i, c)
      PROVE  /\ \A w \in Children!Run : role[w] = "worker" => role'[w] = "worker"
             /\ \A d \in Children!Run : role[d] # "none" =>
                  /\ role'[d] = role[d] /\ origin'[d] = origin[d]
                  /\ (bound[d] => bound'[d]) /\ (role[d] = "child" => asking'[d] = asking[d])
             /\ \A d \in Children!Run : role[d] # "none" /\ ActiveChild(d)' => ActiveChild(d)
  BY <1>0, <1>1, <1>6
<1>7. ASSUME NEW i \in Children!Run,
             \/ Children!SetPrompt(i) \/ Children!SetParentPolicy(i) \/ Children!Allowed(i)
             \/ Children!Refused(i) \/ Children!Recursion(i) \/ Children!ReadPolicy(i)
             \/ Children!StartFails(i) \/ Children!EndChild(i) \/ Children!EndWorker(i)
             \/ Children!Crash(i)
      PROVE  /\ \A w \in Children!Run : role[w] = "worker" => role'[w] = "worker"
             /\ \A c \in Children!Run : role[c] # "none" =>
                  /\ role'[c] = role[c] /\ origin'[c] = origin[c]
                  /\ (bound[c] => bound'[c]) /\ (role[c] = "child" => asking'[c] = asking[c])
             /\ \A c \in Children!Run : role[c] # "none" /\ ActiveChild(c)' => ActiveChild(c)
  BY <1>0, <1>3, <1>7
<1> QED
  BY <1>4, <1>5, <1>6, <1>7 DEF Children!Next

\* What the main run's calls may be given stays so.
LEMMA ChildrenStayAsked ==
  ASSUME ChildrenAssumption, ChildrenInv, [Children!Next]_(Children!vars)
  PROVE  ChildrenAsked'
<1> USE ChildrenRuns
<1>0. /\ role \in [Children!Run -> {"none", "main", "child", "worker"}]
      /\ bound \in [Children!Run -> BOOLEAN] /\ asking \in [Children!Run -> Children!Prompts]
      /\ station \in [Children!Run -> Places] /\ ChildrenKnown /\ ChildrenAsked
      /\ pendingCalls \in [Children!Run -> 0..MaxCalls] /\ MaxCalls \in Nat
      /\ toolPrompt \in Children!Prompts /\ toolPolicy \in Children!Policy
      /\ policyRead \in [Children!Run -> Children!Policy]
      /\ crossers \in [Children!Run -> SUBSET Children!Run]
      /\ origin \in [Children!Run -> [by : 0..MaxAgents, past : SUBSET Children!Run]]
  BY DEF ChildrenInv, Children!TypeOK, Places, ChildrenAssumption
<1>a. \A w \in Children!Run : role[w] = "worker" => role'[w] = "worker"
  BY ChildrenKeepOrigin
<1>b. \A c \in Children!Run : role[c] = "child" =>
        /\ role'[c] = role[c] /\ origin'[c] = origin[c]
        /\ (bound[c] => bound'[c]) /\ (role[c] = "child" => asking'[c] = asking[c])
  BY ChildrenKeepOrigin
<1>c. \A c \in Children!Run : role[c] # "none" /\ ActiveChild(c)' => ActiveChild(c)
  BY ChildrenKeepOrigin
<1>d. ASSUME \A c \in Children!Run : role[c] = "none" => role'[c] # "child" PROVE
        /\ \A c \in Children!Run : role'[c] = "child" => role[c] = "child"
        /\ \A c \in Children!Run : role'[c] = "child" =>
             /\ bound'[c] \/ \E w \in origin'[c].past : role'[w] = "worker"
             /\ origin'[c].by \in {Main} \cup origin'[c].past
  <2>1. \A c \in Children!Run : role'[c] = "child" => role[c] = "child"
    BY <1>d, ChildrenKeepOrigin
  <2>2. \A c \in Children!Run : origin[c].past \subseteq Children!Run
    BY <1>0
  <2> QED
    BY <1>0, <1>a, <1>b, <2>1, <2>2 DEF ChildrenAsked
<1>1. ASSUME NEW i \in Children!Run, Children!SetPrompt(i) PROVE ChildrenAsked'
  <2>1. /\ UNCHANGED <<role, bound, asking, policyRead, origin, toolPolicy, pendingCalls>>
        /\ station[i] = "run" /\ station' = [station EXCEPT ![i] = "policy"]
        /\ toolPrompt' = asking[i] /\ role[i] # "none"
        /\ i # Main => crossers'[Main] = crossers[Main] \cup {i}
    BY <1>0, <1>1 DEF Children!SetPrompt, Children!Goto, Children!runVars, Children!Recorded,
       ChildrenKnown
  <2>2. CASE i = Main
    <3>1. ~Batched' /\ station'[Main] = "policy" /\ asking[Main] = "user"
      BY <1>0, <2>1, <2>2 DEF Batched, ChildrenKnown
    <3>2. \A c \in Children!Run : ~ActiveChild(c)'
      BY <1>0, <2>1, <2>2 DEF ActiveChild, ChildrenKnown
    <3> QED
      BY <1>0, <1>d, <2>1, <2>2, <3>1, <3>2 DEF ChildrenAsked
  <2>3. CASE i # Main
    <3>1. station'[Main] = station[Main] /\ (Batched' <=> Batched)
      BY <1>0, <2>1, <2>3 DEF Batched
    <3>2. Worked => Worked'
      BY <1>0, <2>1, <2>3 DEF Worked
    <3>3. crossers'[Main] # {} /\ (asking[i] = "none" => Worked')
      <4>1. CASE role[i] = "worker"
        BY <2>1, <2>3, <4>1 DEF Worked
      <4>2. CASE role[i] = "child"
        <5>1. ActiveChild(i)
          BY <2>1, <4>2 DEF ActiveChild
        <5>2. asking[i] = "none" => Worked
          BY <1>0, <5>1 DEF ChildrenAsked
        <5> QED
          BY <2>1, <2>3, <3>2, <5>2
      <4> QED
        BY <1>0, <2>1, <2>3, <4>1, <4>2 DEF ChildrenKnown
    <3> QED
      BY <1>0, <1>c, <1>d, <2>1, <2>3, <3>1, <3>2, <3>3 DEF ChildrenAsked, ActiveChild
  <2> QED
    BY <2>2, <2>3
<1>2. ASSUME NEW i \in Children!Run, Children!SetParentPolicy(i) PROVE ChildrenAsked'
  <2>1. /\ UNCHANGED <<role, bound, asking, policyRead, origin, toolPrompt, pendingCalls>>
        /\ station[i] = "policy" /\ station' = [station EXCEPT ![i] = "resolve"]
        /\ toolPolicy' = [by |-> i, mode |-> mode[i], held |-> bound[i]] /\ role[i] # "none"
        /\ crossers'[Main] = crossers[Main] \cup ({i} \ {Main})
    BY <1>0, <1>2 DEF Children!SetParentPolicy, Children!Goto, Children!runVars,
       Children!Recorded, ChildrenKnown
  <2>2. toolPolicy'.by = i /\ toolPolicy'.held = bound[i]
    BY <2>1
  <2>3. Worked => Worked'
    BY <1>0, <2>1 DEF Worked
  <2>4. CASE i = Main
    <3>1. /\ station'[Main] = "resolve" /\ bound[Main]
          /\ toolPrompt = "user" \/ crossers'[Main] # {}
          /\ toolPrompt = "none" => Worked
      <4>1. crossers[Main] \subseteq crossers'[Main] /\ station[Main] # "new"
        BY <2>1, <2>4
      <4> QED
        BY <1>0, <2>1, <2>4, <4>1 DEF ChildrenKnown, ChildrenAsked
    <3>2. \A c \in Children!Run : ~ActiveChild(c)'
      BY <1>0, <2>1, <2>4 DEF ActiveChild, ChildrenKnown
    <3> QED
      BY <1>0, <1>d, <2>1, <2>2, <2>3, <2>4, <3>1, <3>2 DEF ChildrenAsked
  <2>5. CASE i # Main
    <3>1. station'[Main] = station[Main] /\ (Batched' <=> Batched)
      BY <1>0, <2>1, <2>5 DEF Batched
    <3>2. bound[i] \/ Worked'
      <4>1. CASE role[i] = "worker"
        BY <2>1, <2>5, <4>1 DEF Worked
      <4>2. CASE role[i] = "child"
        <5>1. ActiveChild(i)
          BY <2>1, <4>2 DEF ActiveChild
        <5>2. origin[i].past \subseteq crossers[Main]
          BY <1>0, <5>1 DEF ChildrenAsked
        <5>3. bound[i] \/ \E w \in origin[i].past : role[w] = "worker"
          BY <1>0, <4>2 DEF ChildrenAsked
        <5>4. bound[i] \/ Worked
          BY <5>2, <5>3 DEF Worked
        <5> QED
          BY <2>3, <5>4
      <4> QED
        BY <1>0, <2>1, <2>5, <4>1, <4>2 DEF ChildrenKnown
    <3> QED
      BY <1>0, <1>c, <1>d, <2>1, <2>2, <2>3, <2>5, <3>1, <3>2 DEF ChildrenAsked, ActiveChild
  <2> QED
    BY <2>4, <2>5
<1>3. ASSUME UNCHANGED <<role, toolPrompt, toolPolicy, crossers, policyRead>>,
             Batched' => Batched, station'[Main] = "policy" => station[Main] = "policy",
             station'[Main] = "call" => station[Main] = "call"
      PROVE  ChildrenAsked'
  <2>1. Worked' <=> Worked
    BY <1>3 DEF Worked
  <2>2. \A c \in Children!Run : ActiveChild(c)' => ActiveChild(c) /\ role[c] = "child"
    BY <1>3, <1>c DEF ActiveChild
  <2> QED
    BY <1>0, <1>3, <1>b, <1>d, <2>1, <2>2 DEF ChildrenAsked
<1>4. ASSUME NEW i \in Children!Run, Children!Allowed(i) \/ Children!Refused(i)
      PROVE  ChildrenAsked'
  <2>1. /\ UNCHANGED <<role, toolPrompt, toolPolicy, crossers, policyRead>>
        /\ station[i] = "resolve" /\ station' = [station EXCEPT ![i] = "run"]
        /\ \A j \in Children!Run : j # i => pendingCalls'[j] = pendingCalls[j]
    BY <1>0, <1>4 DEF Children!Allowed, Children!Refused, Children!Goto, Children!runVars,
       Children!toolVars
  <2>2. Batched' => Batched
    BY <1>0, <2>1 DEF Batched
  <2> QED
    BY <1>0, <1>3, <2>1, <2>2
<1>5. ASSUME NEW i \in Children!Run,
             \/ Children!Recursion(i) \/ Children!StartFails(i) \/ Children!EndWorker(i)
             \/ Children!EndChild(i) \/ Children!Crash(i)
      PROVE  ChildrenAsked'
  <2>1. /\ UNCHANGED <<role, toolPrompt, toolPolicy, crossers, policyRead>>
        /\ station'[Main] # station[Main] =>
             \/ station[Main] \in {"call", "wait"} /\ station'[Main] \in {"run", "batch"}
             \/ station'[Main] = "dead"
        /\ station'[Main] = station[Main] => pendingCalls'[Main] = pendingCalls[Main]
    BY <1>0, <1>5 DEF Children!Recursion, Children!StartFails, Children!EndWorker,
       Children!EndChild, Children!Crash, Children!NextCall, Children!Called, Children!After,
       Children!Goto, Children!runVars, Children!toolVars, ChildrenKnown, ActiveChild
  <2>2. Batched' => Batched
    BY <1>0, <2>1 DEF Batched
  <2> QED
    BY <1>0, <1>3, <2>1, <2>2
<1>6. ASSUME NEW i \in Children!Run, Children!ReadPolicy(i) PROVE ChildrenAsked'
  <2>1. /\ i = Main /\ Batched /\ station'[Main] = "call"
        /\ UNCHANGED <<role, bound, asking, toolPrompt, toolPolicy, crossers, origin>>
    BY <1>0, <1>6 DEF Children!ReadPolicy, Children!NextCall, Children!Goto, Children!runVars,
       Children!toolVars, ChildrenKnown, Batched
  <2>2. policyRead'[Main] = toolPolicy
    <3>1. toolPolicy.by # 0
      BY <1>0, <2>1 DEF ChildrenAsked
    <3> QED
      BY <1>0, <1>6, <2>1, <3>1 DEF Children!ReadPolicy
  <2>3. Worked' <=> Worked
    BY <2>1 DEF Worked
  <2> QED
    BY <1>0, <1>c, <1>d, <2>1, <2>2, <2>3 DEF ChildrenAsked, ActiveChild
<1>7. ASSUME Children!Begin PROVE ChildrenAsked'
  <2>1. /\ station'[Main] = "run" /\ pendingCalls'[Main] = 0 /\ UNCHANGED <<role, origin>>
        /\ \A c \in Children!Run : role[c] # "child"
    BY <1>0, <1>7 DEF Children!Begin, Children!Goto, ChildrenKnown, Main
  <2> QED
    BY <2>1 DEF ChildrenAsked, Batched, ActiveChild
<1>8. ASSUME NEW i \in Children!Run, NEW c \in Children!Run, Children!StartWorker(i, c)
      PROVE  ChildrenAsked'
  <2>1. /\ UNCHANGED <<toolPrompt, toolPolicy, crossers, policyRead, pendingCalls, origin>>
        /\ station'[Main] = station[Main] /\ role' = [role EXCEPT ![c] = "worker"]
    BY <1>0, <1>8 DEF Children!StartWorker, Children!New, Children!Goto, Children!toolVars,
       ChildrenKnown
  <2>2. (Worked => Worked') /\ (Batched' <=> Batched)
    BY <1>0, <1>a, <2>1 DEF Worked, Batched
  <2>3. \A d \in Children!Run : role[d] = "none" => role'[d] # "child"
    BY <1>0, <2>1
  <2>4. \A d \in Children!Run : ActiveChild(d)' => ActiveChild(d) /\ role[d] = "child"
    BY <1>0, <1>c, <1>d, <2>3 DEF ActiveChild
  <2>5. \A d \in Children!Run : role'[d] = "child" =>
          /\ bound'[d] \/ \E w \in origin'[d].past : role'[w] = "worker"
          /\ origin'[d].by \in {Main} \cup origin'[d].past
    BY <1>d, <2>3
  <2>6. \A d \in Children!Run : ActiveChild(d)' => /\ origin'[d].past \subseteq crossers'[Main]
                                                   /\ asking'[d] = "none" => Worked'
    BY <1>0, <1>b, <2>1, <2>2, <2>4 DEF ChildrenAsked
  <2>7. Batched' \/ station'[Main] = "policy" => /\ toolPrompt' = "user" \/ crossers'[Main] # {}
                                                 /\ toolPrompt' = "none" => Worked'
    BY <1>0, <2>1, <2>2 DEF ChildrenAsked
  <2>8. Batched' => /\ toolPolicy'.held \/ Worked'
                    /\ toolPolicy'.by \in {Main} \cup crossers'[Main]
    BY <1>0, <2>1, <2>2 DEF ChildrenAsked
  <2>9. station'[Main] = "call" => /\ policyRead'[Main].held \/ Worked'
                                   /\ policyRead'[Main].by \in {Main} \cup crossers'[Main]
    BY <1>0, <2>1, <2>2 DEF ChildrenAsked
  <2> QED
    BY <2>5, <2>6, <2>7, <2>8, <2>9 DEF ChildrenAsked
<1>9. ASSUME NEW i \in Children!Run, NEW c \in Children!Run, Children!StartChild(i, c)
      PROVE  ChildrenAsked'
  <2>1. /\ i = Main /\ c # Main /\ station[Main] = "call" /\ role[c] = "none"
        /\ UNCHANGED <<toolPrompt, toolPolicy, crossers, policyRead>>
        /\ role' = [role EXCEPT ![c] = "child"] /\ station'[Main] = "wait"
        /\ origin' = [origin EXCEPT ![c] = [by |-> policyRead[i].by, past |-> crossers[i]]]
        /\ bound' = [bound EXCEPT ![c] = policyRead[i].held]
        /\ asking' = [asking EXCEPT ![c] = IF toolPrompt = "none" THEN "none" ELSE "tool"]
    BY <1>0, <1>9 DEF Children!StartChild, Children!New, Children!toolVars, ChildrenKnown
  <2>2. Batched /\ ~(\E d \in Children!Run : ActiveChild(d)) /\ (Worked => Worked')
    BY <1>0, <1>a, <2>1 DEF Worked, Batched, ChildrenKnown
  <2>3. /\ origin'[c].by = policyRead[Main].by /\ origin'[c].past = crossers[Main]
        /\ bound'[c] = policyRead[Main].held /\ (asking'[c] = "none" => toolPrompt = "none")
    BY <1>0, <2>1
  <2>4. \A d \in Children!Run : d # c => role'[d] = role[d]
    BY <1>0, <2>1
  <2>5. \A d \in Children!Run : ActiveChild(d)' => d = c
    BY <1>0, <1>c, <2>1, <2>2, <2>4 DEF ActiveChild
  <2>6. \A d \in Children!Run : d # c /\ role'[d] = "child" =>
          /\ bound'[d] \/ \E w \in origin'[d].past : role'[w] = "worker"
          /\ origin'[d].by \in {Main} \cup origin'[d].past
    <3>1. \A d \in Children!Run : origin[d].past \subseteq Children!Run
      BY <1>0
    <3> QED
      BY <1>0, <1>a, <1>b, <2>4, <3>1 DEF ChildrenAsked
  <2>7. /\ bound'[c] \/ Worked'
        /\ asking'[c] = "none" => Worked'
        /\ origin'[c].by \in {Main} \cup origin'[c].past
        /\ Worked' => \E w \in origin'[c].past : role'[w] = "worker"
    BY <1>0, <2>1, <2>2, <2>3 DEF ChildrenAsked, Worked
  <2> QED
    BY <1>0, <2>1, <2>2, <2>3, <2>5, <2>6, <2>7 DEF ChildrenAsked
<1>10. CASE UNCHANGED Children!vars
  <2>1. Batched' <=> Batched
    BY <1>10 DEF Batched, Children!vars
  <2> QED
    BY <1>3, <1>10, <2>1 DEF Children!vars, Children!runVars, Children!toolVars
<1> QED
  BY <1>1, <1>2, <1>4, <1>5, <1>6, <1>7, <1>8, <1>9, <1>10 DEF Children!Next

\* agenttool.go: no sub-agent is looser than its parent; it has its parent's rules and
\* hooks unless a worker crossed its call, and is held to the policy of its parent or of
\* one that crossed.  Its questions reach the user, whatever it looks up when it asks,
\* unless a run has called the Agent tool since its parent did; only a worker's call
\* leaves it nobody.  No worker is looser than the main run.
THEOREM ChildrenHeld ==
  ASSUME ChildrenAssumption
  PROVE  Children!Spec => [](Children!TypeOK /\ Children!ChildrenAreHeld)
<1>1. Children!Init => ChildrenInv
  <2> SUFFICES ASSUME Children!Init PROVE ChildrenInv
    OBVIOUS
  <2> USE ChildrenRuns DEF Children!Init, Main
  <2>1. Children!TypeOK
    BY DEF Children!TypeOK, Children!Policy, Children!NoPolicy, Children!Modes, Children!Prompts
  <2>2. ChildrenKnown
    BY DEF ChildrenKnown, ActiveChild, Children!NoPolicy, ChildrenAssumption
  <2>3. ChildrenStrict
    BY StrictnessIsNat DEF ChildrenStrict, Children!NoPolicy
  <2>4. ChildrenAsked
    BY DEF ChildrenAsked, Batched, ActiveChild
  <2> QED
    BY <2>1, <2>2, <2>3, <2>4 DEF ChildrenInv
<1>2. ChildrenInv /\ [Children!Next]_(Children!vars) => ChildrenInv'
  BY ChildrenTyped, ChildrenStayKnown, ChildrenStayStrict, ChildrenStayAsked DEF ChildrenInv
<1>3. ChildrenInv => Children!TypeOK /\ Children!ChildrenAreHeld
  <2> SUFFICES ASSUME ChildrenInv PROVE Children!ChildrenAreHeld
    BY DEF ChildrenInv
  <2>1. \A m : Children!Strictness(m) = Permit!strictness(m)
    BY SameResolution DEF Children!Strictness
  <2>2. /\ Main = Children!main /\ Main \in Children!Run
        /\ ChildrenKnown /\ ChildrenStrict /\ ChildrenAsked
    BY ChildrenRuns DEF ChildrenInv, Main
  <2>3. ASSUME NEW c \in Children!Run, role[c] = "child",
               station[c] \in {"run", "policy", "resolve", "batch"}
        PROVE  /\ Children!Asked(c) = "user" \/ crossers[Main] # {}
               /\ Children!Asked(c) = "none" => Worked
    <3>1. ActiveChild(c)
      BY <2>3 DEF ActiveChild
    <3>2. Batched /\ asking[c] # "user"
      BY <2>2, <2>3, <3>1 DEF ChildrenKnown, Batched
    <3>3. CASE asking[c] = "tool"
      BY <2>2, <3>2, <3>3 DEF ChildrenAsked, Children!Asked
    <3>4. CASE asking[c] # "tool"
      <4>1. asking[c] = "none" /\ Worked
        BY <2>2, <2>3, <3>1, <3>2, <3>4 DEF ChildrenInv, Children!TypeOK, Children!Prompts,
           ChildrenAsked
      <4> QED
        BY <4>1 DEF Children!Asked, Worked
    <3> QED
      BY <3>3, <3>4
  <2>4. ASSUME NEW c \in Children!Run, role[c] = "child"
        PROVE  /\ parent[c] = Main /\ role[Main] = "main"
               /\ bound[c] \/ \E w \in origin[c].past : role[w] = "worker"
               /\ origin[c].by \in {Main} \cup origin[c].past
    BY <2>2, <2>4 DEF ChildrenKnown, ChildrenAsked
  <2> QED
    BY <2>1, <2>2, <2>3, <2>4 DEF ChildrenKnown, ChildrenStrict, Worked, Children!ChildrenAreHeld
<1> QED
  BY <1>1, <1>2, <1>3, PTL DEF Children!Spec

=============================================================================
