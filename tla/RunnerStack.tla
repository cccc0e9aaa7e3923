----------------------------- MODULE RunnerStack -----------------------------
(***************************************************************************)
(* One run through the runners around the agent: hooks.Runner over         *)
(* memory.Runner over agent.Agent (session_runtime.go, repl.go), each a    *)
(* goroutine that forwards events.  The agent calls back into the hooks    *)
(* for its tools; those calls send their notices past the other events.    *)
(* What the agent does between its callbacks is AgentLoop's.               *)
(***************************************************************************)
EXTENDS Naturals, Sequences, FiniteSets

CONSTANTS Calls,     \* tool calls of the run
          Hooks,     \* hooks 1..Hooks of the snapshot match every event
          Parallel,  \* those that are ParallelSafe
          Cap        \* slots of each channel

VARIABLES
  cancelled,
  hpc, mpc, apc,   \* hooks.Runner, memory.Runner, the agent
  task, verdict,   \* the event that is dispatched, its call, and what each hook said
  state,           \* of every call
  ending,          \* the reason of the agent's Terminal
  fromAgent, fromMemory, out,  \* the channels
  told,            \* history: <<event, call>> dispatched to the end
  said,            \* history: [call -> verdicts of its PreToolUse hooks]
  agreed,          \* history: calls the user allowed
  others,          \* history: calls that rules, tool and mode allowed
  terminals, last, \* what the caller has read: how many Terminals, and last of all
  extracted        \* extractPending has started

hookVars == <<task, verdict, told, said>>
callVars == <<state, agreed, others>>
pipeVars == <<fromAgent, fromMemory, out>>
readVars == <<terminals, last>>
vars == <<cancelled, hpc, mpc, apc, hookVars, callVars, ending, pipeVars, readVars, extracted>>

Call == 1..Calls
Hook == 1..Hooks
Reasons == {"completed", "stop_hook", "aborted", "failed"}
Idle == [event |-> "none", call |-> 0]
Blocks(event) == event \in {"PreToolUse", "UserPromptSubmit", "Stop"}

Init ==
  /\ cancelled = FALSE /\ hpc = "start" /\ mpc = "off" /\ apc = "off"
  /\ task = Idle /\ verdict = [h \in Hook |-> "todo"] /\ told = {}
  /\ said = [c \in Call |-> {}] /\ state = [c \in Call |-> "new"] /\ agreed = {} /\ others = {}
  /\ ending = "none" /\ fromAgent = <<>> /\ fromMemory = <<>> /\ out = <<>>
  /\ terminals = 0 /\ last = "nothing" /\ extracted = FALSE

-----------------------------------------------------------------------------
(* Dispatcher.                                                             *)

Dispatch(event, call) ==
  /\ task = Idle /\ task' = [event |-> event, call |-> call]
  /\ UNCHANGED <<verdict, told, said>>

\* Hooks that are not ParallelSafe come first, in order.
mayRun(h) ==
  /\ task # Idle /\ verdict[h] = "todo"
  /\ \A g \in Hook \ Parallel : verdict[g] = "todo" => h \notin Parallel /\ h <= g

\* A hook that fails, is late or is cut off by the cancelled context says nothing;
\* what one says of an event that is over counts for nothing.
HookAnswers(h) ==
  /\ mayRun(h)
  /\ \E v \in {"none"} \cup IF cancelled \/ ~Blocks(task.event) THEN {}
                                                             ELSE {"allow", "ask", "deny"} :
       /\ verdict' = [verdict EXCEPT ![h] = v]
       /\ said' = IF task.event = "PreToolUse" THEN [said EXCEPT ![task.call] = @ \cup {v}]
                                               ELSE said
  /\ UNCHANGED <<cancelled, hpc, mpc, apc, task, told, callVars, ending, pipeVars, readVars,
                 extracted>>

\* deny over ask over allow.
aggregate(v) ==
  LET spoken == {v[h] : h \in Hook}
  IN CASE "deny" \in spoken -> "deny"
       [] "ask" \in spoken /\ "deny" \notin spoken -> "ask"
       [] "allow" \in spoken /\ {"deny", "ask"} \cap spoken = {} -> "allow"
       [] OTHER -> "none"

Answered(event) == task.event = event /\ \A h \in Hook : verdict[h] # "todo"

\* sendNotice and sendStageTiming; a cancelled run need not wait for the reader.
\* Then the dispatch is over.
Over ==
  /\ \/ Len(out) < Cap /\ out' = Append(out, "note")
     \/ cancelled /\ UNCHANGED out
  /\ task' = Idle /\ told' = told \cup {<<task.event, task.call>>}
  /\ verdict' = [h \in Hook |-> "todo"] /\ UNCHANGED said

-----------------------------------------------------------------------------
(* hooks.Runner.                                                           *)

StartSession ==
  /\ hpc = "start" /\ Dispatch("SessionStart", 0) /\ hpc' = "starting"
  /\ UNCHANGED <<cancelled, mpc, apc, callVars, ending, pipeVars, readVars, extracted>>

SessionStarted ==
  /\ Answered("SessionStart") /\ Over /\ hpc' = "prompt"
  /\ UNCHANGED <<cancelled, mpc, apc, callVars, ending, fromAgent, fromMemory, readVars,
                 extracted>>

SubmitPrompt ==
  /\ hpc = "prompt" /\ Dispatch("UserPromptSubmit", 0) /\ hpc' = "submitting"
  /\ UNCHANGED <<cancelled, mpc, apc, callVars, ending, pipeVars, readVars, extracted>>

\* A prompt that is denied goes no further.
PromptAnswered ==
  /\ Answered("UserPromptSubmit") /\ Over
  /\ IF aggregate(verdict) = "deny" THEN hpc' = "blocked" /\ UNCHANGED mpc
                                    ELSE hpc' = "forward" /\ mpc' = "recall"
  /\ UNCHANGED <<cancelled, apc, callVars, ending, fromAgent, fromMemory, readVars, extracted>>

Block ==
  /\ hpc = "blocked" /\ Len(out) < Cap /\ out' = Append(out, "stop_hook") /\ hpc' = "closed"
  /\ UNCHANGED <<cancelled, mpc, apc, hookVars, callVars, ending, fromAgent, fromMemory,
                 readVars, extracted>>

\* Events are passed on without a look at the context; a Terminal only once the end
\* of the session has been told.
PassOn ==
  /\ hpc = "forward" /\ fromMemory # <<>> /\ Head(fromMemory) \notin Reasons
  /\ Len(out) < Cap /\ out' = Append(out, Head(fromMemory)) /\ fromMemory' = Tail(fromMemory)
  /\ UNCHANGED <<cancelled, hpc, mpc, apc, hookVars, callVars, ending, fromAgent, readVars,
                 extracted>>

EndSession ==
  /\ hpc = "forward" /\ fromMemory # <<>> /\ Head(fromMemory) \in Reasons
  /\ Dispatch("SessionEnd", 0) /\ hpc' = "ending"
  /\ UNCHANGED <<cancelled, mpc, apc, callVars, ending, pipeVars, readVars, extracted>>

SessionEnded ==
  /\ Answered("SessionEnd") /\ Over /\ hpc' = "last"
  /\ UNCHANGED <<cancelled, mpc, apc, callVars, ending, fromAgent, fromMemory, readVars,
                 extracted>>

PassTerminal ==
  /\ hpc = "last" /\ Len(out) < Cap /\ hpc' = "forward"
  /\ out' = Append(out, Head(fromMemory)) /\ fromMemory' = Tail(fromMemory)
  /\ UNCHANGED <<cancelled, mpc, apc, hookVars, callVars, ending, fromAgent, readVars,
                 extracted>>

CloseHooks ==
  /\ hpc = "forward" /\ mpc = "closed" /\ fromMemory = <<>> /\ hpc' = "closed"
  /\ UNCHANGED <<cancelled, mpc, apc, hookVars, callVars, ending, pipeVars, readVars, extracted>>

-----------------------------------------------------------------------------
(* memory.Runner.                                                          *)

\* Recall changes the system prompt alone; without a scope, or disabled, there is none.
Recall ==
  /\ mpc = "recall"
  /\ \/ Len(fromMemory) < Cap /\ fromMemory' = Append(fromMemory, "event")
     \/ UNCHANGED fromMemory
  /\ mpc' = "forward" /\ apc' = "think"
  /\ UNCHANGED <<cancelled, hpc, hookVars, callVars, ending, fromAgent, out, readVars, extracted>>

\* The timing of the recall and the cancelled context are one select: the run may
\* end here without a Terminal.
RecallCancelled ==
  /\ mpc = "recall" /\ cancelled /\ mpc' = "closed"
  /\ UNCHANGED <<cancelled, hpc, apc, hookVars, callVars, ending, pipeVars, readVars, extracted>>

\* Memories are looked for after a finished run, without its context, unless there
\* is no conversation or it is switched off.
MemoryPassesOn ==
  /\ mpc = "forward" /\ fromAgent # <<>> /\ Len(fromMemory) < Cap
  /\ fromMemory' = Append(fromMemory, Head(fromAgent)) /\ fromAgent' = Tail(fromAgent)
  /\ extracted' \in IF Head(fromAgent) = "completed" THEN BOOLEAN ELSE {extracted}
  /\ UNCHANGED <<cancelled, hpc, mpc, apc, hookVars, callVars, ending, out, readVars>>

CloseMemory ==
  /\ mpc = "forward" /\ apc = "closed" /\ fromAgent = <<>> /\ mpc' = "closed"
  /\ UNCHANGED <<cancelled, hpc, apc, hookVars, callVars, ending, pipeVars, readVars, extracted>>

-----------------------------------------------------------------------------
(* The agent, seen from its callbacks.                                     *)

send(event) ==
  \/ Len(fromAgent) < Cap /\ fromAgent' = Append(fromAgent, event)
  \/ cancelled /\ UNCHANGED fromAgent

\* Calls are checked one after the other before any of them runs.
Earlier(c) == 1..(c - 1)
Checked(c) == state[c] \in {"permitted", "refused", "done"}
AllSettled == \A c \in Call : state[c] \in {"new", "refused", "done"}

CheckCall(c) ==
  /\ apc = "think" /\ state[c] = "new" /\ \A d \in Earlier(c) : Checked(d)
  /\ Dispatch("PreToolUse", c) /\ state' = [state EXCEPT ![c] = "checking"]
  /\ UNCHANGED <<cancelled, hpc, mpc, apc, agreed, others, ending, pipeVars, readVars, extracted>>

\* preToolDecision: "ask" is the user's, if a prompt can be shown; what hooks do not
\* decide is left to rules, tool and mode, which may ask the user too.
CallChecked(c) ==
  /\ Answered("PreToolUse") /\ task.call = c /\ Over
  /\ LET decision == aggregate(verdict)
     IN \E allowed \in BOOLEAN :
          /\ decision = "allow" => allowed
          /\ decision = "deny" => ~allowed
          /\ state' = [state EXCEPT ![c] = IF allowed THEN "permitted" ELSE "denied"]
          /\ agreed' = IF allowed /\ decision = "ask" THEN agreed \cup {c} ELSE agreed
          /\ others' = IF allowed /\ decision = "none" THEN others \cup {c} ELSE others
  /\ UNCHANGED <<cancelled, hpc, mpc, apc, ending, fromAgent, fromMemory, readVars, extracted>>

TellDenied(c) ==
  /\ state[c] = "denied" /\ Dispatch("PermissionDenied", c)
  /\ UNCHANGED <<cancelled, hpc, mpc, apc, callVars, ending, pipeVars, readVars, extracted>>

DeniedTold(c) ==
  /\ Answered("PermissionDenied") /\ task.call = c /\ Over
  /\ state' = [state EXCEPT ![c] = "refused"]
  /\ UNCHANGED <<cancelled, hpc, mpc, apc, agreed, others, ending, fromAgent, fromMemory,
                 readVars, extracted>>

RunCalls ==
  /\ apc = "think" /\ ~AllSettled /\ task = Idle
  /\ \A c \in Call : Checked(c) \/ state[c] = "new"
  /\ apc' = "tools"
  /\ UNCHANGED <<cancelled, hpc, mpc, hookVars, callVars, ending, pipeVars, readVars, extracted>>

\* They run, also in a run that was cancelled, alone or in a batch of safe ones.
RunCall(c) ==
  /\ apc = "tools" /\ state[c] = "permitted" /\ send("event")
  /\ \E end \in {"ran", "failed"} : state' = [state EXCEPT ![c] = end]
  /\ UNCHANGED <<cancelled, hpc, mpc, apc, hookVars, agreed, others, ending, fromMemory, out,
                 readVars, extracted>>

\* The results of a batch are told in order.
TellResult(c) ==
  /\ state[c] \in {"ran", "failed"} /\ \A d \in Earlier(c) : state[d] \in {"refused", "done"}
  /\ Dispatch("PostToolUse", c)
  /\ UNCHANGED <<cancelled, hpc, mpc, apc, callVars, ending, pipeVars, readVars, extracted>>

ResultTold(c) ==
  /\ Answered("PostToolUse") /\ task.call = c /\ Over
  /\ state' = [state EXCEPT ![c] = IF @ = "failed" THEN "failure" ELSE "done"]
  /\ UNCHANGED <<cancelled, hpc, mpc, apc, agreed, others, ending, fromAgent, fromMemory,
                 readVars, extracted>>

TellFailure(c) ==
  /\ state[c] = "failure" /\ Dispatch("PostToolUseFailure", c)
  /\ UNCHANGED <<cancelled, hpc, mpc, apc, callVars, ending, pipeVars, readVars, extracted>>

FailureTold(c) ==
  /\ Answered("PostToolUseFailure") /\ task.call = c /\ Over
  /\ state' = [state EXCEPT ![c] = "done"]
  /\ UNCHANGED <<cancelled, hpc, mpc, apc, agreed, others, ending, fromAgent, fromMemory,
                 readVars, extracted>>

Finish(reason) == ending' = reason /\ apc' = "terminal"

NextTurn ==
  /\ apc = "tools" /\ AllSettled /\ task = Idle /\ apc' = "think"
  /\ UNCHANGED <<cancelled, hpc, mpc, hookVars, callVars, ending, pipeVars, readVars, extracted>>

\* An answer that stays incomplete completes the run without a Stop.
AgentEnds ==
  /\ apc = "think" /\ AllSettled /\ task = Idle
  /\ Finish("completed") \/ Finish("failed") \/ (cancelled /\ Finish("aborted"))
  /\ UNCHANGED <<cancelled, hpc, mpc, hookVars, callVars, pipeVars, readVars, extracted>>

Stop ==
  /\ apc = "think" /\ AllSettled /\ Dispatch("Stop", 0) /\ apc' = "stop"
  /\ UNCHANGED <<cancelled, hpc, mpc, callVars, ending, pipeVars, readVars, extracted>>

StopAnswered ==
  /\ Answered("Stop") /\ Over
  /\ Finish(IF aggregate(verdict) = "deny" THEN "stop_hook" ELSE "completed")
  /\ UNCHANGED <<cancelled, hpc, mpc, callVars, fromAgent, fromMemory, readVars, extracted>>

\* sendTerminal gives up on a cancelled run's slow reader.
SendTerminal ==
  /\ apc = "terminal" /\ send(ending) /\ apc' = "closed"
  /\ UNCHANGED <<cancelled, hpc, mpc, hookVars, callVars, ending, fromMemory, out, readVars,
                 extracted>>

-----------------------------------------------------------------------------
(* The caller.                                                             *)

Read ==
  /\ out # <<>> /\ out' = Tail(out) /\ last' = Head(out)
  /\ terminals' = IF Head(out) \in Reasons THEN terminals + 1 ELSE terminals
  /\ UNCHANGED <<cancelled, hpc, mpc, apc, hookVars, callVars, ending, fromAgent, fromMemory,
                 extracted>>

Cancel ==
  /\ ~cancelled /\ hpc # "closed" /\ cancelled' = TRUE
  /\ UNCHANGED <<hpc, mpc, apc, hookVars, callVars, ending, pipeVars, readVars, extracted>>

Next ==
  \/ \E h \in Hook : HookAnswers(h)
  \/ StartSession \/ SessionStarted \/ SubmitPrompt \/ PromptAnswered \/ Block
  \/ PassOn \/ EndSession \/ SessionEnded \/ PassTerminal \/ CloseHooks
  \/ Recall \/ RecallCancelled \/ MemoryPassesOn \/ CloseMemory
  \/ RunCalls \/ NextTurn \/ AgentEnds \/ Stop \/ StopAnswered \/ SendTerminal
  \/ \E c \in Call : \/ CheckCall(c) \/ CallChecked(c) \/ TellDenied(c) \/ DeniedTold(c)
                     \/ RunCall(c) \/ TellResult(c) \/ ResultTold(c) \/ TellFailure(c)
                     \/ FailureTold(c)
  \/ Read \/ Cancel

Spec == Init /\ [][Next]_vars

-----------------------------------------------------------------------------
Message == Reasons \cup {"event", "note"}

TypeOK ==
  /\ cancelled \in BOOLEAN /\ extracted \in BOOLEAN
  /\ hpc \in {"start", "starting", "prompt", "submitting", "blocked", "forward", "ending",
              "last", "closed"}
  /\ mpc \in {"off", "recall", "forward", "closed"}
  /\ apc \in {"off", "think", "tools", "stop", "terminal", "closed"}
  /\ task.call \in 0..Calls /\ verdict \in [Hook -> {"todo", "none", "allow", "ask", "deny"}]
  /\ state \in [Call -> {"new", "checking", "denied", "permitted", "refused", "ran", "failed",
                         "failure", "done"}]
  /\ agreed \subseteq Call /\ others \subseteq Call /\ ending \in Reasons \cup {"none"}
  /\ fromAgent \in Seq(Message) /\ fromMemory \in Seq(Message) /\ out \in Seq(Message)
  /\ Len(fromAgent) <= Cap /\ Len(fromMemory) <= Cap /\ Len(out) <= Cap
  /\ terminals \in Nat /\ last \in Message \cup {"nothing"}

\* runner.go: the caller reads one Terminal, last of all, unless the run was
\* cancelled; before it the end of the session was told, but for a denied prompt.
Framed ==
  /\ terminals <= 1 /\ (terminals = 1 => last \in Reasons)
  /\ hpc = "closed" /\ out = <<>> /\ ~cancelled => terminals = 1
  /\ terminals = 1 => \/ <<"SessionEnd", 0>> \in told
                      \/ last = "stop_hook" /\ apc = "off"

\* runner.go, dispatch.go, result.go: no call that a hook denies runs; one that a
\* hook asks about and none denies runs if the user allows it; each is told to the
\* hooks when it has run or was refused.
HooksAreHeard ==
  /\ \A c \in Call : state[c] \in {"permitted", "ran", "failed", "failure", "done"} =>
       /\ "deny" \notin said[c]
       /\ "ask" \in said[c] => c \in agreed
       /\ said[c] \subseteq {"none"} => c \in others
  /\ terminals = 1 => \A c \in Call : state[c] \in {"new", "refused", "done"}
  /\ \A c \in Call : /\ state[c] = "refused" => <<"PermissionDenied", c>> \in told
                     /\ state[c] = "done" => <<"PostToolUse", c>> \in told

\* memory/runner.go: only a finished run is looked through for memories.
OnlyFinishedRunsAreRemembered == extracted => ending = "completed"

StackKeepsItsOrder == Framed /\ HooksAreHeard /\ OnlyFinishedRunsAreRemembered
=============================================================================
