-------------------------- MODULE TerminalPrompts ---------------------------
(***************************************************************************)
(* Permission prompts in the terminal (internal/tui/permission.go and the  *)
(* dialog of app.go).  Several agents may ask at once: the run's own and   *)
(* its workers, whose prompt has a deadline (cli/bubble_escalation.go).    *)
(* There is one dialog: a later prompt takes its place.                    *)
(***************************************************************************)
EXTENDS Naturals, Sequences, FiniteSets

CONSTANTS Ask,     \* prompts, by id
          Worker   \* those of a worker, with a deadline

VARIABLES
  pcA,         \* where the asking goroutine is
  pending,     \* b.pending
  channel,     \* channel[a]: the decision sent to a
  told,        \* told[a]: what the agent was told
  inbox,       \* messages on their way to Update: [kind, id, answer]
  shown,       \* app.PermissionPrompt
  pressed,     \* history: [id, answer] of the dialogs the user answered
  rules        \* app.PermissionRules.AlwaysAllow, by the prompt that led to it

vars == <<pcA, pending, channel, told, inbox, shown, pressed, rules>>

None == "none"
Decision == {"allow", "deny", "always"}

Init ==
  /\ pcA = [a \in Ask |-> "idle"] /\ pending = {}
  /\ channel = [a \in Ask |-> None] /\ told = [a \in Ask |-> None]
  /\ inbox = {} /\ shown = None /\ pressed = {} /\ rules = {}

Msg(k, a, d) == [kind |-> k, id |-> a, answer |-> d]

-----------------------------------------------------------------------------
(* PromptFunc.                                                             *)

AskUser(a) ==
  /\ pcA[a] = "idle"
  /\ pcA' = [pcA EXCEPT ![a] = "sending"] /\ pending' = pending \cup {a}
  /\ UNCHANGED <<channel, told, inbox, shown, pressed, rules>>

SendPrompt(a) ==
  /\ pcA[a] = "sending"
  /\ pcA' = [pcA EXCEPT ![a] = "waiting"]
  /\ inbox' = inbox \cup {Msg("prompt", a, None)}
  /\ UNCHANGED <<pending, channel, told, shown, pressed, rules>>

\* The run is cancelled, or the worker's deadline has passed.  The goroutine
\* may have an answer at hand as well: select takes either.
Cancelled(a) ==
  /\ pcA[a] = "waiting"
  /\ pcA' = [pcA EXCEPT ![a] = "leaving"]
  /\ pending' = pending \ {a}
  /\ UNCHANGED <<channel, told, inbox, shown, pressed, rules>>

SendCancelled(a) ==
  /\ pcA[a] = "leaving"
  /\ pcA' = [pcA EXCEPT ![a] = "done"]
  /\ inbox' = inbox \cup {Msg("cancelled", a, None)}
  /\ told' = [told EXCEPT ![a] = IF @ = None THEN "deny" ELSE @]
  /\ UNCHANGED <<pending, channel, shown, pressed, rules>>

\* A worker's wrapper answers for itself when its deadline passes.
EscalationTimeout(a) ==
  /\ a \in Worker /\ pcA[a] \in {"sending", "waiting", "leaving"} /\ told[a] = None
  /\ told' = [told EXCEPT ![a] = "deny"]
  /\ UNCHANGED <<pcA, pending, channel, inbox, shown, pressed, rules>>

TakeDecision(a) ==
  /\ pcA[a] = "waiting" /\ channel[a] # None
  /\ pcA' = [pcA EXCEPT ![a] = "done"]
  /\ told' = [told EXCEPT ![a] = IF @ # None THEN @
                                 ELSE IF channel[a] = "deny" THEN "deny" ELSE "allow"]
  /\ UNCHANGED <<pending, channel, inbox, shown, pressed, rules>>

-----------------------------------------------------------------------------
(* Update.  What one goroutine sends arrives in its order: the prompt       *)
(* before its cancellation.                                                *)

Take(m) == inbox' = inbox \ {m}

ShowPrompt(a) ==
  /\ Msg("prompt", a, None) \in inbox
  /\ Take(Msg("prompt", a, None))
  /\ shown' = a
  /\ UNCHANGED <<pcA, pending, channel, told, pressed, rules>>

HidePrompt(a) ==
  /\ Msg("cancelled", a, None) \in inbox /\ Msg("prompt", a, None) \notin inbox
  /\ Take(Msg("cancelled", a, None))
  /\ shown' = IF shown = a THEN None ELSE shown
  /\ UNCHANGED <<pcA, pending, channel, told, pressed, rules>>

\* handlePermissionKeyMsg: the key names the prompt it was pressed for; the
\* decision itself is a message.  "A" writes the rule at once.  The dialog
\* stays, and takes further keys, until the message is handled.
PressKey(d) ==
  /\ shown # None /\ [id |-> shown, answer |-> d] \notin pressed
  /\ pressed' = pressed \cup {[id |-> shown, answer |-> d]}
  /\ inbox' = inbox \cup {Msg("resolved", shown, d)}
  /\ rules' = IF d = "always" THEN rules \cup {shown} ELSE rules
  /\ UNCHANGED <<pcA, pending, channel, told, shown>>

\* Defect: the decision goes to the prompt that is shown by now.
resolvedShown(m) == IF shown = None THEN m.id ELSE shown

resolvedID(m) == m.id

Resolve(m) ==
  /\ m \in inbox /\ m.kind = "resolved"
  /\ Take(m)
  /\ LET a == resolvedID(m) IN
       /\ pending' = pending \ {a}
       /\ channel' = IF a \in pending THEN [channel EXCEPT ![a] = m.answer] ELSE channel
       /\ shown' = IF shown = a THEN None ELSE shown
  /\ UNCHANGED <<pcA, told, pressed, rules>>

\* /quit: every outstanding prompt is denied.
CancelAll ==
  /\ shown = None /\ pending # {}
  /\ channel' = [a \in Ask |-> IF a \in pending THEN "deny" ELSE channel[a]]
  /\ pending' = {}
  /\ UNCHANGED <<pcA, told, inbox, shown, pressed, rules>>

-----------------------------------------------------------------------------
AskStep(a) == AskUser(a) \/ SendPrompt(a) \/ Cancelled(a) \/ SendCancelled(a)
              \/ EscalationTimeout(a) \/ TakeDecision(a)
Update == \/ \E a \in Ask : ShowPrompt(a) \/ HidePrompt(a)
          \/ \E d \in Decision : PressKey(d)
          \/ \E m \in inbox : Resolve(m)
          \/ CancelAll

Next == Update \/ \E a \in Ask : AskStep(a)

Spec == Init /\ [][Next]_vars

-----------------------------------------------------------------------------
TypeOK ==
  /\ pcA \in [Ask -> {"idle", "sending", "waiting", "leaving", "done"}]
  /\ pending \subseteq Ask /\ rules \subseteq Ask
  /\ channel \in [Ask -> Decision \cup {None}] /\ told \in [Ask -> {None, "allow", "deny"}]
  /\ inbox \subseteq [kind : {"prompt", "cancelled", "resolved"}, id : Ask,
                      answer : Decision \cup {None}]
  /\ shown \in Ask \cup {None}
  /\ pressed \subseteq [id : Ask, answer : Decision]

\* What an agent is told is what the user pressed in the dialog of that very
\* prompt, however the dialogs replaced each other; a refusal needs no key.  An
\* agent that waits has its prompt pending, or its answer at hand.
DecisionIsTheUsers ==
  \A a \in Ask :
    /\ told[a] = "allow" => \E d \in {"allow", "always"} : [id |-> a, answer |-> d] \in pressed
    /\ a \in rules => [id |-> a, answer |-> "always"] \in pressed
    /\ pcA[a] \in {"sending", "waiting"} => a \in pending \/ channel[a] # None
=============================================================================
