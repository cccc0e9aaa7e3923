------------------------------- MODULE SubAgent -------------------------------
(***************************************************************************)
(* Sub-agents and background workers of one terminal session: the agent    *)
(* loop records prompt and policy of the calling run on the one Agent tool *)
(* before it resolves the call's permission, and the tool reads them when  *)
(* it is called (agent.go, agenttool.go, subagent.go, supervisor.go).      *)
(***************************************************************************)
EXTENDS Naturals, FiniteSets

CONSTANTS MaxAgents,  \* runs: the main one, children and workers
          MaxCalls    \* calls of the Agent tool in one answer of a model

VARIABLES
  kind, parent, mode, \* of every run
  held,       \* it has the rules and hooks of the main run
  prompt,     \* its prompt function: the user's dialog, the tool's wrapper, or none
  pc, calls,  \* where it is in its batch, and its calls still to run
  toolPrompt, toolPolicy, \* what the Agent tool holds: [by, mode, held]
  taken,      \* the policy a call has read
  crossed,    \* history: who recorded anything since the run itself began to
  origin      \* history: of a child, whose policy it got and who had crossed its parent

runVars == <<kind, parent, mode, held, prompt>>
toolVars == <<toolPrompt, toolPolicy, crossed>>
vars == <<runVars, pc, calls, toolVars, taken, origin>>

Run == 1..MaxAgents
main == 1
Modes == {"bypass", "acceptEdits", "default", "dontAsk", "plan"}
Prompts == {"user", "tool", "none"}
Resolution == INSTANCE PermissionResolution WITH request <- toolPolicy
NoPolicy == [by |-> 0, mode |-> "default", held |-> FALSE]

Init ==
  /\ kind = [i \in Run |-> IF i = main THEN "main" ELSE "none"] /\ parent = [i \in Run |-> 0]
  /\ mode = [i \in Run |-> "default"] /\ held = [i \in Run |-> FALSE]
  /\ prompt = [i \in Run |-> "none"]
  /\ pc = [i \in Run |-> IF i = main THEN "new" ELSE "off"] /\ calls = [i \in Run |-> 0]
  /\ toolPrompt = "none" /\ toolPolicy = NoPolicy /\ taken = [i \in Run |-> NoPolicy]
  /\ crossed = [i \in Run |-> {}] /\ origin = [i \in Run |-> [by |-> 0, past |-> {}]]

Goto(i, to) == pc' = [pc EXCEPT ![i] = to]

\* A run of the user, with rules, hooks and a dialog.
Begin ==
  /\ pc[main] = "new" /\ Goto(main, "run")
  /\ \E m \in Modes : mode' = [mode EXCEPT ![main] = m]
  /\ held' = [held EXCEPT ![main] = TRUE] /\ prompt' = [prompt EXCEPT ![main] = "user"]
  /\ UNCHANGED <<kind, parent, calls, toolVars, taken, origin>>

-----------------------------------------------------------------------------
(* executeToolCallsConcurrent: every call is checked before any runs.      *)

Recorded(i) == [j \in Run |-> crossed[j] \cup ({i} \ {j})]

SetPrompt(i) ==
  /\ pc[i] = "run" /\ calls[i] < MaxCalls /\ toolPrompt' = prompt[i] /\ Goto(i, "policy")
  /\ crossed' = [Recorded(i) EXCEPT ![i] = {}]
  /\ UNCHANGED <<runVars, calls, toolPolicy, taken, origin>>

SetParentPolicy(i) ==
  /\ pc[i] = "policy" /\ Goto(i, "resolve")
  /\ toolPolicy' = [by |-> i, mode |-> mode[i], held |-> held[i]]
  /\ crossed' = Recorded(i)
  /\ UNCHANGED <<runVars, calls, toolPrompt, taken, origin>>

\* Whom a run asks.  wrapPermissionPrompt looks up what the tool holds on every ask;
\* if that is a wrapper, it calls itself until its time is up, and denies.
Asked(i) == IF prompt[i] = "tool" THEN toolPrompt ELSE prompt[i]

\* The modes that ask what no rule and no hook has decided.
Asks(i) == mode[i] \in {"default", "acceptEdits"}

\* The Agent and TaskCreate tools ask; a user, a rule, a hook or the mode may allow.
MayBeAllowed(i) == held[i] \/ mode[i] = "bypass" \/ (Asks(i) /\ Asked(i) = "user")

Allowed(i) ==
  /\ pc[i] = "resolve" /\ MayBeAllowed(i) /\ Goto(i, "run")
  /\ calls' = [calls EXCEPT ![i] = @ + 1] /\ UNCHANGED <<runVars, toolVars, taken, origin>>

Refused(i) ==
  /\ pc[i] = "resolve" /\ (held[i] \/ mode[i] # "bypass") /\ Goto(i, "run")
  /\ UNCHANGED <<runVars, calls, toolVars, taken, origin>>

\* Any tool of a child may ask.  A worker has left the tool no prompt, and to call it
\* is a panic on a goroutine that nobody recovers: the process ends.
Crash(c) ==
  /\ pc[c] \in {"run", "resolve"} /\ Asks(c) /\ prompt[c] = "tool" /\ toolPrompt = "none"
  /\ pc' = [i \in Run |-> "dead"]
  /\ UNCHANGED <<runVars, calls, toolVars, taken, origin>>

-----------------------------------------------------------------------------
(* Tool.Call.                                                              *)

NextCall(i) == pc[i] \in {"run", "batch"} /\ calls[i] > 0
Called(i) == calls' = [calls EXCEPT ![i] = @ - 1]
After(i) == IF calls[i] > 1 THEN "batch" ELSE "run"

Recursion(i) ==
  /\ NextCall(i) /\ kind[i] # "main" /\ Called(i) /\ Goto(i, After(i))
  /\ UNCHANGED <<runVars, toolVars, taken, origin>>

ReadPolicy(i) ==
  /\ NextCall(i) /\ kind[i] = "main" /\ Goto(i, "call")
  /\ taken' = [taken EXCEPT ![i] = IF toolPolicy.by = 0 THEN [NoPolicy EXCEPT !.mode = mode[i]]
                                                        ELSE toolPolicy]
  /\ UNCHANGED <<runVars, calls, toolVars, origin>>

New(c, k, p, m, h, ask) ==
  /\ kind[c] = "none" /\ \A d \in Run : d < c => kind[d] # "none"
  /\ kind' = [kind EXCEPT ![c] = k] /\ parent' = [parent EXCEPT ![c] = p]
  /\ mode' = [mode EXCEPT ![c] = m] /\ held' = [held EXCEPT ![c] = h]
  /\ prompt' = [prompt EXCEPT ![c] = ask]

\* The tool clamps the mode that is asked for, and runSubagent clamps it again.
ChildMode(parentMode, requested) ==
  Resolution!ChildMode(parentMode, Resolution!ClampMode(parentMode, requested))

\* The child's prompt wraps the tool's, unless it has none at this moment.
StartChild(i, c) ==
  /\ pc[i] = "call"
  /\ \E requested \in Modes :
       New(c, "child", i, ChildMode(taken[i].mode, requested), taken[i].held,
           IF toolPrompt = "none" THEN "none" ELSE "tool")
  /\ pc' = [pc EXCEPT ![i] = "wait", ![c] = "run"]
  /\ origin' = [origin EXCEPT ![c] = [by |-> taken[i].by, past |-> crossed[i]]]
  /\ UNCHANGED <<calls, toolVars, taken>>

\* Start refuses, or the child has no agent.
StartFails(i) ==
  /\ pc[i] = "call" /\ Called(i) /\ Goto(i, After(i))
  /\ UNCHANGED <<runVars, toolVars, taken, origin>>

\* The caller blocks until the child ends, whatever its Terminal says.
EndChild(c) ==
  /\ kind[c] = "child" /\ pc[c] = "run" /\ calls[c] = 0 /\ Called(parent[c])
  /\ pc' = [pc EXCEPT ![c] = "ended", ![parent[c]] = After(parent[c])]
  /\ UNCHANGED <<runVars, toolVars, taken, origin>>

-----------------------------------------------------------------------------
(* TaskCreate: a worker in the background.                                 *)

\* ToToolsMode and back: the context of every run has the mode of the main one.
contextMode == IF mode[main] = "acceptEdits" THEN "default" ELSE mode[main]

workerPermissionMode == IF contextMode = "bypass" THEN "dontAsk" ELSE contextMode

StartWorker(i, c) ==
  /\ pc[i] = "run" /\ calls[i] = 0 /\ MayBeAllowed(i)
  /\ New(c, "worker", i, workerPermissionMode, FALSE, "none")
  /\ Goto(c, "run") /\ UNCHANGED <<calls, toolVars, taken, origin>>

EndWorker(c) ==
  /\ kind[c] = "worker" /\ pc[c] = "run" /\ Goto(c, "ended")
  /\ UNCHANGED <<runVars, calls, toolVars, taken, origin>>

Next ==
  \/ Begin
  \/ \E i \in Run : \/ SetPrompt(i) \/ SetParentPolicy(i) \/ Allowed(i) \/ Refused(i)
                    \/ Recursion(i) \/ ReadPolicy(i) \/ StartFails(i) \/ EndChild(i)
                    \/ EndWorker(i) \/ Crash(i)
  \/ \E i, c \in Run : StartChild(i, c) \/ StartWorker(i, c)

Spec == Init /\ [][Next]_vars

-----------------------------------------------------------------------------
Policy == [by : 0..MaxAgents, mode : Modes, held : BOOLEAN]

TypeOK ==
  /\ kind \in [Run -> {"none", "main", "child", "worker"}] /\ parent \in [Run -> 0..MaxAgents]
  /\ mode \in [Run -> Modes] /\ held \in [Run -> BOOLEAN] /\ prompt \in [Run -> Prompts]
  /\ pc \in [Run -> {"off", "new", "run", "policy", "resolve", "batch", "call", "wait", "ended",
                     "dead"}]
  /\ calls \in [Run -> 0..MaxCalls] /\ toolPrompt \in Prompts /\ toolPolicy \in Policy
  /\ taken \in [Run -> Policy] /\ crossed \in [Run -> SUBSET Run]
  /\ origin \in [Run -> [by : 0..MaxAgents, past : SUBSET Run]]

Strictness(m) == Resolution!strictness(m)

\* agenttool.go: "A sub-agent can never be looser than its parent": its mode is not,
\* even where another run's policy was read.  It has its parent's rules and hooks
\* unless a worker, which has none, crossed the call, and it is held to its parent's
\* policy if no run crossed.  While it runs its questions reach the user unless a run
\* has called the Agent tool since its parent did, the child itself included; only a
\* worker's call leaves it nobody to ask, and the process dies of nothing else.
\* Neither a child nor a worker has children, and no worker is looser than the main run.
ChildrenAreHeld ==
  /\ \A c \in Run :
       /\ kind[c] = "child" =>
            /\ kind[parent[c]] = "main" /\ Strictness(mode[c]) >= Strictness(mode[parent[c]])
            /\ held[c] \/ \E w \in origin[c].past : kind[w] = "worker"
            /\ origin[c].by \in {parent[c]} \cup origin[c].past
            /\ pc[c] \in {"run", "policy", "resolve", "batch"} =>
                 /\ Asked(c) = "user" \/ crossed[parent[c]] # {}
                 /\ Asked(c) = "none" => \E w \in crossed[parent[c]] : kind[w] = "worker"
       /\ kind[c] = "worker" => Strictness(mode[c]) >= Strictness(mode[main])
  /\ pc[main] = "dead" => \E w \in Run : kind[w] = "worker"
=============================================================================
