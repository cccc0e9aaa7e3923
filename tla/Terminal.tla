------------------------------ MODULE Terminal ------------------------------
(***************************************************************************)
(* The terminal interface (internal/tui/app.go): prompts, the queue of     *)
(* prompts typed during a run, side questions (/btw), model switches that  *)
(* return later, the credential dialog and the end of a run.  Update runs  *)
(* one message at a time; agent runs and model switches are commands whose *)
(* messages come back in any order.                                        *)
(***************************************************************************)
EXTENDS Naturals, Sequences

CONSTANTS Prompt,       \* prompts the user will type
          Listing,      \* those that expand to "Directory tree data:"
          Question,     \* side questions
          Model,        \* model names
          FirstModel,   \* the configured one
          Cloud,        \* those that need a credential
          MaxCommands   \* bounds cancels, /clear, /compact and /model

VARIABLES
  messages,     \* app.Messages: prompts, and what runs added after them
  activeRun,    \* app.ActiveRun
  current,      \* the kind of the controller's run, or None
  kind,         \* activeRunKind
  cancelled,    \* the run's context is done
  ended,        \* the agent's events are drained: agentDoneMsg is due
  queue,        \* app.QueuedPrompts
  pendingBTW,
  dream,        \* a dream is alive
  activeModel,
  resolvedModel, \* resolvedActiveModel
  switches,     \* startModelSwitchCmd's that have not returned
  credential,   \* cloudCredentialPrompt
  typed,        \* prompts and questions the user has yet to type
  accepted,     \* history: prompts put into messages, in that order
  given,        \* history: the prompts each main run was given, run by run
  gone,         \* history: prompts that /clear or /compact took out of messages
  commands

runVars == <<activeRun, current, kind, cancelled, ended, given>>
modelVars == <<activeModel, resolvedModel, switches, credential>>
vars == <<messages, gone, runVars, queue, pendingBTW, dream, modelVars, typed, accepted, commands>>

None == "none"
Reply == "reply"
NoModal == [model |-> None, for |-> None]

Init ==
  /\ messages = <<>> /\ activeRun = FALSE /\ current = None /\ kind = "main"
  /\ cancelled = FALSE /\ ended = FALSE /\ given = <<>> /\ gone = {}
  /\ queue = <<>> /\ pendingBTW = None /\ dream = FALSE
  /\ activeModel = FirstModel /\ resolvedModel = None
  /\ switches = {} /\ credential = NoModal
  /\ typed = Prompt \cup Question /\ accepted = <<>> /\ commands = 0

-----------------------------------------------------------------------------
(* Starting runs.                                                          *)

Prompts(ms) == {p \in Prompt : \E i \in 1..Len(ms) : ms[i] = p}

Begin(k) ==
  /\ activeRun' = TRUE /\ current' = k /\ kind' = k
  /\ cancelled' = FALSE /\ ended' = FALSE

\* A run of the prompt just accepted: some prompts are sent without the history.
BeginDirect(p) ==
  /\ Begin("main")
  /\ \E input \in {Prompts(messages'), {p}} : given' = Append(given, input)

\* startQueuedPrompt: the text that was queued is dropped.  The run is given the
\* whole history, with prompts queued after it, or a listing that ends it alone.
BeginQueued ==
  LET last == messages[Len(messages)]
      alone == messages # <<>> /\ last \in Listing
  IN  /\ Begin("main")
      /\ given' = Append(given, IF alone THEN {last} ELSE Prompts(messages))

\* Defect: only the flag that Terminal clears is looked at.
busyFlag == activeRun

busy == activeRun \/ current # None

\* submitPrompt, its last part.  With a busy flag that is down while the
\* controller still has a run, BeginKind fails and the prompt is not run.
AcceptPrompt(p, isBusy) ==
  /\ messages' = Append(messages, p) /\ UNCHANGED gone
  /\ accepted' = Append(accepted, p)
  /\ IF isBusy
       THEN queue' = Append(queue, p) /\ UNCHANGED <<runVars, dream>>
       ELSE /\ dream' = FALSE /\ UNCHANGED queue
            /\ IF current # None
                 THEN activeRun' = FALSE /\ kind' = "main"
                      /\ UNCHANGED <<current, cancelled, ended, given>>
                 ELSE BeginDirect(p)

\* turnprep.Prepare may refuse the prompt (a mention that cannot be read,
\* evidence that is too large).
RunOrQueue(p) ==
  \/ AcceptPrompt(p, busy)
  \/ UNCHANGED <<messages, gone, accepted, runVars, queue, dream>>

-----------------------------------------------------------------------------
(* The user.  The credential dialog takes every key.                       *)

AtPrompt == credential = NoModal

Switch(m, p, key) == [model |-> m, for |-> p, key |-> key]

SubmitPrompt(p) ==
  /\ AtPrompt /\ p \in typed \cap Prompt
  /\ typed' = typed \ {p}
  /\ IF resolvedModel # activeModel
       THEN /\ switches' = switches \cup {Switch(activeModel, p, FALSE)}
            /\ UNCHANGED <<messages, gone, accepted, runVars, queue, dream>>
       ELSE RunOrQueue(p) /\ UNCHANGED switches
  /\ UNCHANGED <<pendingBTW, activeModel, resolvedModel, credential, commands>>

\* One question waits: a second one takes its place.
handleBTWCommand(q) ==
  /\ AtPrompt /\ q \in typed \cap Question
  /\ typed' = typed \ {q}
  /\ IF busy THEN pendingBTW' = q /\ UNCHANGED runVars
             ELSE Begin("btw") /\ UNCHANGED <<pendingBTW, given>>
  /\ UNCHANGED <<messages, gone, queue, dream, modelVars, accepted, commands>>

Command == commands < MaxCommands /\ commands' = commands + 1

CtrlC ==
  /\ AtPrompt /\ Command
  /\ current # None /\ ~cancelled
  /\ cancelled' = TRUE
  /\ UNCHANGED <<messages, gone, activeRun, current, kind, ended, given, queue, pendingBTW,
                 dream, modelVars, typed, accepted>>

\* /clear is taken at any time, and leaves the queue alone.
Clear ==
  /\ AtPrompt /\ Command
  /\ messages # <<>> /\ messages' = <<>>
  /\ gone' = gone \cup Prompts(messages)
  /\ UNCHANGED <<runVars, queue, pendingBTW, dream, modelVars, typed, accepted>>

\* /compact of the stored history; while a run is active its agent is asked
\* instead, and compacts its own copy.
handleCompactCommand ==
  /\ AtPrompt /\ Command
  /\ ~activeRun
  /\ \E n \in 2..Len(messages) : messages' = SubSeq(messages, n, Len(messages))
  /\ gone' = gone \cup (Prompts(messages) \ Prompts(messages'))
  /\ UNCHANGED <<runVars, queue, pendingBTW, dream, modelVars, typed, accepted>>

SwitchCommand(m) ==
  /\ AtPrompt /\ Command
  /\ ~activeRun
  /\ switches' = switches \cup {Switch(m, None, FALSE)}
  /\ UNCHANGED <<messages, gone, runVars, queue, pendingBTW, dream, activeModel, resolvedModel,
                 credential, typed, accepted>>

-----------------------------------------------------------------------------
(* The messages of a model switch.                                         *)

Completed(s) ==
  /\ s \in switches /\ (s.model \in Cloud => s.key)
  /\ switches' = switches \ {s}
  /\ activeModel' = s.model /\ resolvedModel' = s.model
  /\ IF s.for # None THEN RunOrQueue(s.for)
                     ELSE UNCHANGED <<messages, gone, accepted, runVars, queue, dream>>
  /\ UNCHANGED <<pendingBTW, credential, typed, commands>>

\* A dialog that is already open is replaced, with the prompt that waits in it.
NeedsCredential(s) ==
  /\ s \in switches /\ s.model \in Cloud /\ ~s.key
  /\ switches' = switches \ {s}
  /\ credential' = [model |-> s.model, for |-> s.for]
  /\ UNCHANGED <<messages, gone, runVars, queue, pendingBTW, dream, activeModel, resolvedModel,
                 typed, accepted, commands>>

\* The input comes back to the user with the error.
Back(p) == typed' = IF p = None THEN typed ELSE typed \cup {p}

Failed(s) ==
  /\ s \in switches
  /\ switches' = switches \ {s} /\ Back(s.for)
  /\ UNCHANGED <<messages, gone, runVars, queue, pendingBTW, dream, activeModel, resolvedModel,
                 credential, accepted, commands>>

CredentialGiven ==
  /\ credential # NoModal
  /\ switches' = switches \cup {Switch(credential.model, credential.for, TRUE)}
  /\ credential' = NoModal
  /\ UNCHANGED <<messages, gone, runVars, queue, pendingBTW, dream, activeModel, resolvedModel,
                 typed, accepted, commands>>

CredentialCancelled ==
  /\ credential # NoModal
  /\ Back(credential.for) /\ credential' = NoModal
  /\ UNCHANGED <<messages, gone, runVars, queue, pendingBTW, dream, activeModel, resolvedModel,
                 switches, accepted, commands>>

-----------------------------------------------------------------------------
(* The agent.                                                              *)

\* ApplyTerminal appends what the run added, unless it is a side question.
TerminalEvent ==
  /\ current # None /\ ~ended
  /\ ended' = TRUE
  /\ activeRun' = FALSE /\ kind' = "main"
  /\ \/ /\ kind = "main"
        /\ messages' = Append(messages, Reply)
     \/ UNCHANGED messages
  /\ UNCHANGED <<gone, current, cancelled, given, queue, pendingBTW, dream, modelVars, typed,
                 accepted, commands>>

\* drainAgentEvents returns when the context is done, whatever is to come.
TerminalLost ==
  /\ current # None /\ ~ended /\ cancelled
  /\ ended' = TRUE
  /\ UNCHANGED <<messages, gone, activeRun, current, kind, cancelled, given, queue,
                 pendingBTW, dream, modelVars, typed, accepted, commands>>

agentDone ==
  /\ ended
  /\ \/ /\ pendingBTW # None /\ kind = "main"
        /\ pendingBTW' = None
        /\ Begin("btw")
        /\ UNCHANGED <<given, queue, dream>>
     \/ /\ ~(pendingBTW # None /\ kind = "main") /\ queue # <<>>
        /\ queue' = Tail(queue)
        /\ BeginQueued
        /\ UNCHANGED <<pendingBTW, dream>>
     \/ /\ ~(pendingBTW # None /\ kind = "main") /\ queue = <<>>
        /\ activeRun' = FALSE /\ current' = None /\ cancelled' = FALSE /\ ended' = FALSE
        /\ dream' \in {dream, TRUE}
        /\ UNCHANGED <<kind, given, queue, pendingBTW>>
  /\ UNCHANGED <<messages, gone, modelVars, typed, accepted, commands>>

-----------------------------------------------------------------------------
Next == \/ \E p \in Prompt : SubmitPrompt(p)
        \/ \E q \in Question : handleBTWCommand(q)
        \/ CtrlC \/ Clear \/ handleCompactCommand
        \/ \E m \in Model : SwitchCommand(m)
        \/ \E s \in switches : Completed(s) \/ NeedsCredential(s) \/ Failed(s)
        \/ CredentialGiven \/ CredentialCancelled
        \/ TerminalEvent \/ TerminalLost \/ agentDone

Spec == Init /\ [][Next]_vars

-----------------------------------------------------------------------------
TypeOK ==
  /\ messages \in Seq(Prompt \cup {Reply}) /\ gone \subseteq Prompt
  /\ activeRun \in BOOLEAN /\ cancelled \in BOOLEAN /\ ended \in BOOLEAN /\ dream \in BOOLEAN
  /\ current \in {"main", "btw", None} /\ kind \in {"main", "btw"}
  /\ queue \in Seq(Prompt) /\ accepted \in Seq(Prompt) /\ given \in Seq(SUBSET Prompt)
  /\ pendingBTW \in Question \cup {None} /\ typed \subseteq Prompt \cup Question
  /\ activeModel \in Model /\ resolvedModel \in Model \cup {None}
  /\ switches \subseteq [model : Model, for : Prompt \cup {None}, key : BOOLEAN]
  /\ commands \in 0..MaxCommands

\* The n-th main run is given the n-th prompt.  If not, /clear or /compact took it
\* away, or a listing accepted later ended the history and was sent alone.
GivenItsPrompt(n) ==
  \/ accepted[n] \in given[n] \cup gone
  \/ \E later \in n + 1..Len(accepted) :
       accepted[later] \in Listing /\ given[n] = {accepted[later]}

\* app_runctl_test.go: a prompt between the Terminal event and agentDoneMsg is
\* queued and not lost; docs/plans/REGRESSION-AND-LOAD-TEST-PLAN.md: queued
\* prompts drain after the active run and cannot leave ActiveRun set for ever.
\* Every prompt taken into the history has a run of its own, begun or still to
\* come, that is given it; none waits, and no run is shown as active, without a
\* run whose end will see to it.
PromptsGetTheirRuns ==
  /\ Len(given) + Len(queue) = Len(accepted)
  /\ \A n \in 1..Len(given) : GivenItsPrompt(n)
  /\ (activeRun \/ queue # <<>>) => current # None
=============================================================================
