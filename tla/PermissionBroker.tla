--------------------------- MODULE PermissionBroker ---------------------------
(***************************************************************************)
(* internal/server/permission.go and events_permission.go: a tool call of  *)
(* the agent asks for permission, the browser answers over HTTP, and the   *)
(* answer races the prompt's timeout and the end of its context.  Prompts  *)
(* of a sub-agent come through agenttool's wrapPermissionPrompt, which     *)
(* waits for the same answer under a deadline of its own.                  *)
(***************************************************************************)
EXTENDS Naturals, Sequences

CONSTANTS Prompt,   \* prompts the run may raise
          Request,  \* HTTP requests that answer prompts
          Call,     \* tool calls, as (tool, target) pairs
          Nameless  \* the calls SessionAllowRule refuses: no tool or no target

ASSUME NamelessAssumption == Nameless \subseteq Call

VARIABLES
  via,      \* via[p]: who asked, "run" or "subagent"
  call,     \* call[p]: the tool call p is about
  pcP,      \* the broker's PromptFunc for p; "deny" and "timeout": expire
            \* claimed p and is about to emit that decision
  pending,  \* b.pending
  done,     \* prompts whose context is done
  ch,       \* ch[p]: the buffered channel of capacity one
  answer,   \* what PromptFunc returned
  told,     \* what the asking agent was told
  rules,    \* s.permRules.AlwaysAllow
  pcA,      \* the handler of each HTTP request
  aim,      \* aim[a]: the prompt a answers
  choice,   \* choice[a]: the decision a carries
  events    \* events[p]: permission_request and permission_resolved of p

promptVars == <<via, call, answer, told>>
requestVars == <<pcA, aim, choice>>
vars == <<promptVars, pcP, pending, done, ch, rules, requestVars, events>>

Approvals == {"allow", "always_allow"}
Decisions == Approvals \cup {"deny"}
Shown     == Decisions \cup {"request", "timeout"}
NoPrompt  == "none"

Init ==
  /\ via = [p \in Prompt |-> "run"]
  /\ call \in [Prompt -> Call]
  /\ pcP = [p \in Prompt |-> "idle"]
  /\ pending = {} /\ done = {} /\ rules = {}
  /\ ch = [p \in Prompt |-> "empty"]
  /\ answer = [p \in Prompt |-> "none"]
  /\ told = [p \in Prompt |-> "none"]
  /\ pcA = [a \in Request |-> "idle"]
  /\ aim = [a \in Request |-> NoPrompt]
  /\ choice = [a \in Request |-> "none"]
  /\ events = [p \in Prompt |-> <<>>]

Emit(p, what) == events' = [events EXCEPT ![p] = Append(@, what)]

-----------------------------------------------------------------------------
(* PromptFunc.                                                             *)

Ask(p) ==
  /\ pcP[p] = "idle"
  /\ \E v \in {"run", "subagent"} : via' = [via EXCEPT ![p] = v]
  /\ pending' = pending \cup {p}
  /\ pcP' = [pcP EXCEPT ![p] = "asked"]
  /\ UNCHANGED <<call, answer, told, done, ch, rules, requestVars, events>>

EmitRequest(p) ==
  /\ pcP[p] = "asked"
  /\ Emit(p, "request")
  /\ pcP' = [pcP EXCEPT ![p] = "waiting"]
  /\ UNCHANGED <<promptVars, pending, done, ch, rules, requestVars>>

\* Defect: the decision of the channel is returned as it is.
ReturnRaw(p, decision) ==
  /\ answer' = [answer EXCEPT ![p] = decision]
  /\ told' = [told EXCEPT ![p] = IF via[p] = "run" THEN decision ELSE @]
  /\ pcP' = [pcP EXCEPT ![p] = "returned"]

\* PromptFunc returns: the run hears it at once, a sub-agent through the
\* wrapper's channel.
Return(p, decision) ==
  LET verdict == IF decision \in Approvals THEN "allow" ELSE "deny" IN
    /\ answer' = [answer EXCEPT ![p] = verdict]
    /\ told' = [told EXCEPT ![p] = IF via[p] = "run" THEN verdict ELSE @]
    /\ pcP' = [pcP EXCEPT ![p] = "returned"]

\* case res := <-ch; the deferred delete follows.
TakeAnswer(p) ==
  /\ pcP[p] = "waiting"
  /\ ch[p] # "empty"
  /\ Return(p, ch[p])
  /\ ch' = [ch EXCEPT ![p] = "empty"]
  /\ pending' = pending \ {p}
  /\ UNCHANGED <<via, call, done, rules, requestVars, events>>

\* Defect: expire does not look whether an answer claimed the prompt.
ExpireUnclaimed(p, decision) ==
  /\ pcP[p] = "waiting"
  /\ decision = "deny" => p \in done
  /\ pending' = pending \ {p}
  /\ pcP' = [pcP EXCEPT ![p] = decision]
  /\ UNCHANGED <<via, call, answer, told, done, ch, rules, requestVars, events>>

\* case <-ctx.Done() and case <-time.After: expire claims the prompt if no
\* answer did.  A ready channel does not stop select from choosing these.
Expire(p, decision) ==
  /\ pcP[p] = "waiting"
  /\ decision = "deny" => p \in done
  /\ pending' = pending \ {p}
  /\ pcP' = [pcP EXCEPT ![p] = IF p \in pending THEN decision ELSE "beaten"]
  /\ UNCHANGED <<via, call, answer, told, done, ch, rules, requestVars, events>>

EmitExpired(p) ==
  /\ pcP[p] \in {"deny", "timeout"}
  /\ Emit(p, pcP[p])
  /\ Return(p, pcP[p])
  /\ UNCHANGED <<via, call, pending, done, ch, rules, requestVars>>

\* Defect: a claimed prompt is denied without waiting for the answer.
TakeClaimedAnswerDeny(p) ==
  /\ pcP[p] = "beaten"
  /\ Return(p, "deny")
  /\ UNCHANGED <<via, call, pending, done, ch, rules, requestVars, events>>

\* expire found the prompt claimed: it waits for the answer on its way.
TakeClaimedAnswer(p) ==
  /\ pcP[p] = "beaten"
  /\ ch[p] # "empty"
  /\ Return(p, ch[p])
  /\ ch' = [ch EXCEPT ![p] = "empty"]
  /\ UNCHANGED <<via, call, pending, done, rules, requestVars, events>>

\* The run is cancelled, or the deadline of a sub-agent's prompt passes.
ContextDone(p) ==
  /\ pcP[p] # "idle"
  /\ p \notin done
  /\ done' = done \cup {p}
  /\ UNCHANGED <<promptVars, pcP, pending, ch, rules, requestVars, events>>

-----------------------------------------------------------------------------
(* wrapPermissionPrompt: forwards the answer, or gives up on its context;  *)
(* when both are ready select may choose either.                           *)

Forward(p) ==
  /\ via[p] = "subagent" /\ told[p] = "none"
  /\ answer[p] # "none"
  /\ told' = [told EXCEPT ![p] = answer[p]]
  /\ UNCHANGED <<via, call, answer, pcP, pending, done, ch, rules, requestVars, events>>

GiveUp(p) ==
  /\ via[p] = "subagent" /\ told[p] = "none"
  /\ p \in done
  /\ told' = [told EXCEPT ![p] = "deny"]
  /\ UNCHANGED <<via, call, answer, pcP, pending, done, ch, rules, requestVars, events>>

-----------------------------------------------------------------------------
(* Resolve, called by handleResolvePermission for a prompt the browser was *)
(* shown.  A request that claims nothing is answered 404.                  *)

\* Defect: Resolve leaves the deletion to PromptFunc.
ClaimKeepsPending(a, p, d) ==
  /\ pcA[a] = "idle"
  /\ events[p] # <<>>
  /\ aim' = [aim EXCEPT ![a] = p]
  /\ choice' = [choice EXCEPT ![a] = d]
  /\ pcA' = [pcA EXCEPT ![a] = IF p \in pending THEN "claimed" ELSE "refused"]
  /\ UNCHANGED <<promptVars, pcP, pending, done, ch, rules, events>>

Claim(a, p, d) ==
  /\ pcA[a] = "idle"
  /\ events[p] # <<>>
  /\ aim' = [aim EXCEPT ![a] = p]
  /\ choice' = [choice EXCEPT ![a] = d]
  /\ pending' = pending \ {p}
  /\ pcA' = [pcA EXCEPT ![a] = IF p \in pending THEN "claimed" ELSE "refused"]
  /\ UNCHANGED <<promptVars, pcP, done, ch, rules, events>>

\* Defect: the rule is left to be recorded after the agent is released.
RecordRuleLater(a) ==
  /\ pcA[a] = "claimed"
  /\ pcA' = [pcA EXCEPT ![a] = "recorded"]
  /\ UNCHANGED <<promptVars, pcP, pending, done, ch, rules, aim, choice, events>>

\* AllowSession, for always_allow only.
RecordRule(a) ==
  /\ pcA[a] = "claimed"
  /\ rules' = IF choice[a] = "always_allow" THEN rules \cup ({call[aim[a]]} \ Nameless)
                                            ELSE rules
  /\ pcA' = [pcA EXCEPT ![a] = "recorded"]
  /\ UNCHANGED <<promptVars, pcP, pending, done, ch, aim, choice, events>>

EmitAnswer(a) ==
  /\ pcA[a] = "recorded"
  /\ Emit(aim[a], choice[a])
  /\ pcA' = [pcA EXCEPT ![a] = "emitted"]
  /\ UNCHANGED <<promptVars, pcP, pending, done, ch, rules, aim, choice>>

\* Defect: the answer is not sent to a prompt whose context is done.
SendAnswerUnlessDone(a) ==
  /\ pcA[a] = "emitted"
  /\ ch' = [ch EXCEPT ![aim[a]] = IF aim[a] \in done THEN @ ELSE choice[a]]
  /\ pcA' = [pcA EXCEPT ![a] = "replied"]
  /\ UNCHANGED <<promptVars, pcP, pending, done, rules, aim, choice, events>>

\* The send never blocks: a full channel drops it.
SendAnswer(a) ==
  /\ pcA[a] = "emitted"
  /\ ch' = [ch EXCEPT ![aim[a]] = IF @ = "empty" THEN choice[a] ELSE @]
  /\ pcA' = [pcA EXCEPT ![a] = "replied"]
  /\ UNCHANGED <<promptVars, pcP, pending, done, rules, aim, choice, events>>

-----------------------------------------------------------------------------
PromptStep(p) ==
  \/ EmitRequest(p) \/ TakeAnswer(p) \/ (\E d \in {"deny", "timeout"} : Expire(p, d))
  \/ EmitExpired(p) \/ TakeClaimedAnswer(p)

WrapperStep(p) == Forward(p) \/ GiveUp(p)
RequestStep(a) == RecordRule(a) \/ EmitAnswer(a) \/ SendAnswer(a)

Next ==
  \/ \E p \in Prompt : Ask(p) \/ PromptStep(p) \/ ContextDone(p) \/ WrapperStep(p)
  \/ \E a \in Request : \/ RequestStep(a)
                        \/ \E p \in Prompt, d \in Decisions : Claim(a, p, d)

\* Goroutines that can run do run, and the prompt's timer fires.  Nobody has
\* to answer a prompt, and no context has to end.
Fairness == /\ \A p \in Prompt : WF_vars(PromptStep(p)) /\ WF_vars(WrapperStep(p))
            /\ \A a \in Request : WF_vars(RequestStep(a))

Spec == Init /\ [][Next]_vars
FairSpec == Spec /\ Fairness

-----------------------------------------------------------------------------
(* Properties.                                                             *)

TypeOK ==
  /\ via \in [Prompt -> {"run", "subagent"}]
  /\ call \in [Prompt -> Call]
  /\ pcP \in [Prompt -> {"idle", "asked", "waiting", "deny", "timeout", "beaten", "returned"}]
  /\ pending \in SUBSET Prompt
  /\ done \in SUBSET Prompt
  /\ ch \in [Prompt -> Decisions \cup {"empty"}]
  /\ answer \in [Prompt -> {"none", "allow", "deny"}]
  /\ told \in [Prompt -> {"none", "allow", "deny"}]
  /\ rules \in SUBSET Call
  /\ pcA \in [Request -> {"idle", "claimed", "recorded", "emitted", "replied", "refused"}]
  /\ aim \in [Request -> Prompt \cup {NoPrompt}]
  /\ choice \in [Request -> Decisions \cup {"none"}]
  /\ events \in [Prompt -> Seq(Shown)]

Accepted(a) == pcA[a] \notin {"idle", "refused"}
Closed(p) == Len(events[p]) = 2
Verdict(p) == events[p][2]

\* permission.go and events_permission.go: Resolve and expire race for the
\* prompt, and the browser sees one permission_resolved for it at most, only
\* after its permission_request.
OneVerdictPerPrompt ==
  \A p \in Prompt : /\ Len(events[p]) <= 2
                    /\ events[p] # <<>> => events[p][1] = "request"
                    /\ Closed(p) => Verdict(p) # "request"

\* The agent acts on what the browser shows: a run hears exactly the verdict,
\* and hears it after the browser does; a sub-agent is never told "allow"
\* without an approval on the screen.
AgentHearsTheVerdict ==
  \A p \in Prompt :
    /\ answer[p] # "none" =>
         /\ Closed(p)
         /\ answer[p] = "allow" <=> Verdict(p) \in Approvals
    /\ via[p] = "run" => told[p] = answer[p]
    /\ told[p] = "allow" => answer[p] = "allow"

\* handleResolvePermission: of the requests that answer one prompt at most one
\* is accepted.
OneAnswerAccepted ==
  \A a, b \in Request : (Accepted(a) /\ Accepted(b) /\ aim[a] = aim[b]) => a = b

\* "Record the rule before releasing the agent so the next run sees it": once
\* an agent acts on an always_allow its rule is in the session.
RuleBeforeRelease ==
  \A p \in Prompt :
    (told[p] = "allow" /\ Verdict(p) = "always_allow" /\ call[p] \notin Nameless)
      => call[p] \in rules

\* PromptFunc returns and its caller is told something: expire's receive after
\* a lost race does not wait for ever.
EveryPromptReturns ==
  \A p \in Prompt : (pcP[p] = "asked") ~> (pcP[p] = "returned" /\ told[p] # "none")

\* What the browser last showed of p, and what its asker has heard.
LastShown(p) == IF events[p] = <<>> THEN "nothing" ELSE events[p][Len(events[p])]
Heard(p)     == IF told[p] = "none" THEN "nothing" ELSE told[p]

Contract == INSTANCE PermissionContract WITH
              Refusals <- {"deny", "timeout"},
              shown <- [p \in Prompt |-> LastShown(p)],
              heard <- [p \in Prompt |-> Heard(p)]
ContractKept == Contract!Spec
=============================================================================
