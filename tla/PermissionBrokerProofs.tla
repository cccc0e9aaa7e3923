------------------------ MODULE PermissionBrokerProofs ------------------------
(***************************************************************************)
(* The permission broker, for any number of prompts and requests.  The     *)
(* invariant is built in layers, each inductive on top of the earlier:     *)
(*   Owner     who owns a prompt that left `pending': the one request that *)
(*             claimed it, or PromptFunc through expire;                   *)
(*   History   how far the events of a prompt have got, by the state of    *)
(*             its owner;                                                  *)
(*   Recorded  an always_allow is a rule before it is a verdict;           *)
(*   ToldOK    what the asker was told agrees with the verdict.            *)
(***************************************************************************)
EXTENDS PermissionBroker, TLAPS

-----------------------------------------------------------------------------
\* What one event of p changes: p's history grows by it, the others stay.
EmitDone(p, what) ==
  /\ Len(events'[p]) = Len(events[p]) + 1
  /\ events'[p][Len(events[p]) + 1] = what
  /\ \A i \in 1..Len(events[p]) : events'[p][i] = events[p][i]
  /\ \A q \in Prompt \ {p} : events'[q] = events[q]

\* Emit does that, and leaves the histories sequences of shown events.
LEMMA EmitEffect ==
  ASSUME events \in [Prompt -> Seq(Shown)], NEW p \in Prompt, NEW what \in Shown,
         Emit(p, what)
  PROVE  events' \in [Prompt -> Seq(Shown)] /\ EmitDone(p, what)
<1>1. events[p] \in Seq(Shown)
  OBVIOUS
<1>2. events' = [events EXCEPT ![p] = Append(events[p], what)]
  BY DEF Emit
<1>3. Append(events[p], what) \in Seq(Shown)
  BY <1>1
<1> QED
  BY <1>1, <1>2, <1>3 DEF EmitDone

\* Recording at most one call leaves a set of calls.
LEMMA RuleAdded ==
  ASSUME NEW C, NEW R \in SUBSET C, NEW c \in C, NEW N
  PROVE  R \cup ({c} \ N) \in SUBSET C
  OBVIOUS

\* What an accepted request aims at and carries.
Aimed == \A a \in Request : Accepted(a) => aim[a] \in Prompt /\ choice[a] \in Decisions

\* Every variable keeps its type, because an accepted request aims at a prompt.
LEMMA Typing == Spec => [](TypeOK /\ Aimed)
<1> USE NamelessAssumption DEF TypeOK, Decisions, Approvals, Aimed, Accepted
<1>1. Init => TypeOK /\ Aimed
  BY DEF Init
<1>2. TypeOK /\ Aimed /\ [Next]_vars => TypeOK' /\ Aimed'
  <2> SUFFICES ASSUME TypeOK, Aimed, [Next]_vars PROVE TypeOK' /\ Aimed'
    OBVIOUS
  <2>1. ASSUME NEW p \in Prompt, Ask(p) PROVE TypeOK' /\ Aimed'
    BY <2>1 DEF Ask, requestVars
  <2>2. ASSUME NEW p \in Prompt, EmitRequest(p) PROVE TypeOK' /\ Aimed'
    <3>1. events' \in [Prompt -> Seq(Shown)]
      BY <2>2, EmitEffect DEF EmitRequest, Shown
    <3> QED
      BY <2>2, <3>1 DEF EmitRequest, promptVars, requestVars
  <2>3. ASSUME NEW p \in Prompt, TakeAnswer(p) PROVE TypeOK' /\ Aimed'
    BY <2>3 DEF TakeAnswer, Return, requestVars
  <2>4. ASSUME NEW p \in Prompt, NEW d \in {"deny", "timeout"}, Expire(p, d)
        PROVE  TypeOK' /\ Aimed'
    BY <2>4 DEF Expire, requestVars
  <2>5. ASSUME NEW p \in Prompt, EmitExpired(p) PROVE TypeOK' /\ Aimed'
    <3>1. events' \in [Prompt -> Seq(Shown)]
      BY <2>5, EmitEffect DEF EmitExpired, Shown
    <3> QED
      BY <2>5, <3>1 DEF EmitExpired, Return, requestVars
  <2>6. ASSUME NEW p \in Prompt, TakeClaimedAnswer(p) PROVE TypeOK' /\ Aimed'
    BY <2>6 DEF TakeClaimedAnswer, Return, requestVars
  <2>7. ASSUME NEW p \in Prompt, ContextDone(p) PROVE TypeOK' /\ Aimed'
    BY <2>7 DEF ContextDone, promptVars, requestVars
  <2>8. ASSUME NEW p \in Prompt, WrapperStep(p) PROVE TypeOK' /\ Aimed'
    <3>1. CASE Forward(p)
      BY <3>1 DEF Forward, requestVars
    <3>2. CASE GiveUp(p)
      BY <3>2 DEF GiveUp, requestVars
    <3> QED
      BY <2>8, <3>1, <3>2 DEF WrapperStep
  <2>9. ASSUME NEW a \in Request, NEW p \in Prompt, NEW d \in Decisions, Claim(a, p, d)
        PROVE  TypeOK' /\ Aimed'
    BY <2>9 DEF Claim, promptVars
  <2>10. ASSUME NEW a \in Request, RecordRule(a) PROVE TypeOK' /\ Aimed'
    <3>1. call[aim[a]] \in Call
      BY <2>10 DEF RecordRule
    <3>2. rules' \in SUBSET Call
      <4>1. rules' = rules \cup ({call[aim[a]]} \ Nameless) \/ rules' = rules
        BY <2>10 DEF RecordRule
      <4>2. rules \in SUBSET Call
        OBVIOUS
      <4>3. rules \cup ({call[aim[a]]} \ Nameless) \in SUBSET Call
        BY <3>1, <4>2, RuleAdded
      <4> QED
        BY <4>1, <4>2, <4>3
    <3> QED
      BY <2>10, <3>2 DEF RecordRule, promptVars
  <2>11. ASSUME NEW a \in Request, EmitAnswer(a) PROVE TypeOK' /\ Aimed'
    <3>1. aim[a] \in Prompt /\ choice[a] \in Shown
      BY <2>11 DEF EmitAnswer, Shown
    <3>2. events' \in [Prompt -> Seq(Shown)]
      BY <2>11, <3>1, EmitEffect DEF EmitAnswer
    <3> QED
      BY <2>11, <3>2 DEF EmitAnswer, promptVars
  <2>12. ASSUME NEW a \in Request, SendAnswer(a) PROVE TypeOK' /\ Aimed'
    BY <2>12 DEF SendAnswer, promptVars
  <2>13. CASE UNCHANGED vars
    BY <2>13 DEF vars, promptVars, requestVars
  <2> QED
    BY <2>1, <2>2, <2>3, <2>4, <2>5, <2>6, <2>7, <2>8, <2>9, <2>10, <2>11, <2>12, <2>13
       DEF Next, PromptStep, RequestStep
<1> QED
  BY <1>1, <1>2, PTL DEF Spec

\* The state functions are functions on prompts and on requests.
Tables ==
  /\ pcP = [p \in Prompt |-> pcP[p]] /\ ch = [p \in Prompt |-> ch[p]]
  /\ answer = [p \in Prompt |-> answer[p]] /\ told = [p \in Prompt |-> told[p]]
  /\ via = [p \in Prompt |-> via[p]]
  /\ pcA = [a \in Request |-> pcA[a]] /\ aim = [a \in Request |-> aim[a]]
  /\ choice = [a \in Request |-> choice[a]]

\* The type invariant makes them so.
LEMMA TypesAreFunctions == TypeOK => Tables
  BY DEF TypeOK, Tables

-----------------------------------------------------------------------------
\* A prompt in `pending' is claimed by nobody; a prompt a request claimed is
\* claimed by that request alone, and expire did not claim it.
Owner ==
  /\ \A p \in Prompt : p \in pending => pcP[p] \in {"asked", "waiting"}
  /\ \A a \in Request : Accepted(a) =>
       aim[a] \notin pending /\ pcP[aim[a]] \notin {"idle", "deny", "timeout"}
  /\ OneAnswerAccepted

\* Resolve, expire and the deferred delete keep every prompt with one owner.
LEMMA OwnerStep ==
  ASSUME Tables, Aimed, Owner, [Next]_vars
  PROVE  Owner'
<1> USE DEF Tables, Aimed, Accepted
<1>1. ASSUME NEW p \in Prompt, Ask(p) PROVE Owner'
  BY <1>1 DEF Ask, requestVars, Owner, OneAnswerAccepted
<1>2. ASSUME NEW p \in Prompt, EmitRequest(p) PROVE Owner'
  BY <1>2 DEF EmitRequest, promptVars, requestVars, Owner, OneAnswerAccepted
<1>3. ASSUME NEW p \in Prompt, TakeAnswer(p) PROVE Owner'
  BY <1>3 DEF TakeAnswer, Return, requestVars, Owner, OneAnswerAccepted
<1>4. ASSUME NEW p \in Prompt, NEW d \in {"deny", "timeout"}, Expire(p, d) PROVE Owner'
  BY <1>4 DEF Expire, requestVars, Owner, OneAnswerAccepted
<1>5. ASSUME NEW p \in Prompt, EmitExpired(p) PROVE Owner'
  BY <1>5 DEF EmitExpired, Return, requestVars, Owner, OneAnswerAccepted
<1>6. ASSUME NEW p \in Prompt, TakeClaimedAnswer(p) PROVE Owner'
  BY <1>6 DEF TakeClaimedAnswer, Return, requestVars, Owner, OneAnswerAccepted
<1>7. ASSUME NEW p \in Prompt, ContextDone(p) PROVE Owner'
  BY <1>7 DEF ContextDone, promptVars, requestVars, Owner, OneAnswerAccepted
<1>8. ASSUME NEW p \in Prompt, Forward(p) PROVE Owner'
  BY <1>8 DEF Forward, requestVars, Owner, OneAnswerAccepted
<1>9. ASSUME NEW p \in Prompt, GiveUp(p) PROVE Owner'
  BY <1>9 DEF GiveUp, requestVars, Owner, OneAnswerAccepted
<1>10. ASSUME NEW a \in Request, NEW p \in Prompt, NEW d \in Decisions, Claim(a, p, d)
       PROVE  Owner'
  <2>1. /\ \A b \in Request \ {a} : pcA'[b] = pcA[b] /\ aim'[b] = aim[b]
        /\ aim'[a] = p
        /\ pcA'[a] = IF p \in pending THEN "claimed" ELSE "refused"
    BY <1>10 DEF Claim
  <2>2. pending' = pending \ {p} /\ pcP' = pcP
    BY <1>10 DEF Claim
  <2>3. \A q \in Prompt : q \in pending' => pcP'[q] \in {"asked", "waiting"}
    BY <2>2 DEF Owner
  <2>4. ASSUME NEW b \in Request, Accepted(b)'
        PROVE  aim'[b] \notin pending' /\ pcP'[aim'[b]] \notin {"idle", "deny", "timeout"}
    BY <2>1, <2>2, <2>4 DEF Owner
  <2>5. ASSUME NEW b \in Request, b # a, Accepted(a)', Accepted(b)' PROVE aim'[b] # aim'[a]
    BY <2>1, <2>5 DEF Owner
  <2>6. OneAnswerAccepted'
    BY <2>1, <2>5 DEF Owner, OneAnswerAccepted
  <2> QED
    BY <2>3, <2>4, <2>6 DEF Owner
<1>11. ASSUME NEW a \in Request, RecordRule(a) PROVE Owner'
  BY <1>11 DEF RecordRule, promptVars, requestVars, Owner, OneAnswerAccepted
<1>12. ASSUME NEW a \in Request, EmitAnswer(a) PROVE Owner'
  BY <1>12 DEF EmitAnswer, promptVars, requestVars, Owner, OneAnswerAccepted
<1>13. ASSUME NEW a \in Request, SendAnswer(a) PROVE Owner'
  BY <1>13 DEF SendAnswer, promptVars, requestVars, Owner, OneAnswerAccepted
<1>14. CASE UNCHANGED vars
  BY <1>14 DEF vars, promptVars, requestVars, Owner, OneAnswerAccepted
<1> QED
  BY <1>1, <1>2, <1>3, <1>4, <1>5, <1>6, <1>7, <1>8, <1>9, <1>10, <1>11, <1>12, <1>13, <1>14
     DEF Next, PromptStep, WrapperStep, RequestStep

-----------------------------------------------------------------------------
\* How far the history of a prompt has got, by the state of the prompt ...
HistoryOK(p) ==
  /\ pcP[p] \in {"idle", "asked"} => Len(events[p]) = 0
  /\ pcP[p] \notin {"idle", "asked"} => Len(events[p]) \in {1, 2} /\ events[p][1] = "request"
  /\ p \in pending /\ pcP[p] = "waiting" => Len(events[p]) = 1
  /\ pcP[p] \in {"deny", "timeout"} => Len(events[p]) = 1
  /\ pcP[p] = "returned" => Len(events[p]) = 2
  /\ Len(events[p]) = 2 => events[p][2] # "request"
  /\ ch[p] # "empty" => Len(events[p]) = 2 /\ events[p][2] = ch[p]

\* ... and by the state of the request that claimed it.
ClaimedOK(a) ==
  /\ pcA[a] \in {"claimed", "recorded"} => Len(events[aim[a]]) = 1
  /\ pcA[a] \in {"emitted", "replied"} =>
       Len(events[aim[a]]) = 2 /\ events[aim[a]][2] = choice[a]

History == (\A p \in Prompt : HistoryOK(p)) /\ (\A a \in Request : ClaimedOK(a))

-----------------------------------------------------------------------------
(* What the three steps that emit do to the histories.                     *)

\* The request for p is the first thing the browser sees of it.
LEMMA RequestShown ==
  ASSUME TypeOK, History, NEW p \in Prompt, EmitRequest(p)
  PROVE  /\ Len(events[p]) = 0
         /\ Len(events'[p]) = 1 /\ events'[p][1] = "request"
         /\ \A q \in Prompt \ {p} : events'[q] = events[q]
<1>1. EmitDone(p, "request")
  BY EmitEffect DEF EmitDone, TypeOK, Shown, EmitRequest
<1>2. Len(events[p]) = 0
  BY DEF EmitRequest, History, HistoryOK
<1> QED
  BY <1>1, <1>2 DEF EmitDone

\* A claimed expiry closes p, whose channel nobody has filled.
LEMMA ExpiryShown ==
  ASSUME TypeOK, History, NEW p \in Prompt, EmitExpired(p)
  PROVE  /\ Len(events[p]) = 1 /\ ch[p] = "empty"
         /\ Len(events'[p]) = 2 /\ events'[p][1] = "request" /\ events'[p][2] = pcP[p]
         /\ \A q \in Prompt \ {p} : events'[q] = events[q]
<1>1. EmitDone(p, pcP[p])
  BY EmitEffect DEF EmitDone, TypeOK, Shown, Decisions, EmitExpired
<1>2. Len(events[p]) = 1 /\ events[p][1] = "request" /\ ch[p] = "empty"
  BY DEF EmitExpired, History, HistoryOK
<1> QED
  BY <1>1, <1>2 DEF EmitDone

\* An accepted answer closes the prompt it claimed.
LEMMA AnswerShown ==
  ASSUME TypeOK, Aimed, Owner, History, NEW a \in Request, EmitAnswer(a)
  PROVE  LET p == aim[a] IN
         /\ p \in Prompt /\ choice[a] \in Decisions /\ Accepted(a)
         /\ p \notin pending /\ pcP[p] \in {"waiting", "beaten"}
         /\ Len(events[p]) = 1 /\ ch[p] = "empty"
         /\ Len(events'[p]) = 2 /\ events'[p][1] = "request" /\ events'[p][2] = choice[a]
         /\ \A q \in Prompt \ {p} : events'[q] = events[q]
<1> DEFINE p == aim[a]
<1>1. p \in Prompt /\ choice[a] \in Decisions /\ Accepted(a)
  BY DEF EmitAnswer, Aimed, Accepted
<1>2. EmitDone(p, choice[a])
  BY <1>1, EmitEffect DEF EmitDone, TypeOK, Shown, EmitAnswer
<1>3. Len(events[p]) = 1
  BY DEF EmitAnswer, History, ClaimedOK
<1>4. events[p][1] = "request" /\ ch[p] = "empty" /\ p \notin pending
      /\ pcP[p] \in {"waiting", "beaten"}
  <2>1. p \notin pending /\ pcP[p] \notin {"idle", "deny", "timeout"}
    BY <1>1 DEF Owner
  <2>2. HistoryOK(p)
    BY <1>1 DEF History
  <2>3. pcP[p] \in {"idle", "asked", "waiting", "deny", "timeout", "beaten", "returned"}
    BY <1>1 DEF TypeOK
  <2> QED
    BY <1>3, <2>1, <2>2, <2>3 DEF HistoryOK
<1>5. Len(events'[p]) = 2 /\ events'[p][1] = "request" /\ events'[p][2] = choice[a]
      /\ \A q \in Prompt \ {p} : events'[q] = events[q]
  BY <1>2, <1>3, <1>4 DEF EmitDone
<1> QED
  BY <1>1, <1>3, <1>4, <1>5

\* Every step leaves each history where its owner says it is.
LEMMA HistoryStep ==
  ASSUME TypeOK, Tables, Aimed, Owner, History, [Next]_vars
  PROVE  History'
<1>1. ASSUME NEW p \in Prompt, Ask(p) PROVE History'
  <2>1. ASSUME NEW q \in Prompt PROVE HistoryOK(q)'
    BY <1>1 DEF Ask, requestVars, History, HistoryOK, ClaimedOK, Owner, Tables, Aimed, Accepted
  <2>2. ASSUME NEW b \in Request PROVE ClaimedOK(b)'
    BY <1>1
       DEF Ask, requestVars, History, HistoryOK, ClaimedOK, Owner, OneAnswerAccepted, Tables,
           Aimed, Accepted
  <2> QED
    BY <2>1, <2>2 DEF History
<1>2. ASSUME NEW p \in Prompt, EmitRequest(p) PROVE History'
  <2>1. Len(events[p]) = 0 /\ Len(events'[p]) = 1 /\ events'[p][1] = "request"
    BY <1>2, RequestShown
  <2>2. \A q \in Prompt \ {p} : events'[q] = events[q]
    BY <1>2, RequestShown
  <2>3. pcP[p] = "asked" /\ pcP' = [pcP EXCEPT ![p] = "waiting"]
    BY <1>2 DEF EmitRequest
  <2>4. UNCHANGED <<pending, ch, pcA, aim, choice>>
    BY <1>2 DEF EmitRequest, requestVars
  <2>5. ASSUME NEW q \in Prompt PROVE HistoryOK(q)'
    <3>1. CASE q = p
      BY <2>1, <2>3, <2>4, <3>1 DEF History, HistoryOK, Tables
    <3>2. CASE q # p
      BY <2>2, <2>3, <2>4, <3>2 DEF History, HistoryOK, Tables
    <3> QED
      BY <3>1, <3>2
  <2>6. ASSUME NEW b \in Request PROVE ClaimedOK(b)'
    <3>1. Accepted(b) => aim[b] \in Prompt /\ aim[b] # p
      <4>1. Accepted(b) => pcA[b] \in {"claimed", "recorded", "emitted", "replied"}
        BY DEF TypeOK, Accepted
      <4> QED
        BY <2>1, <4>1 DEF Aimed, History, ClaimedOK
    <3> QED
      BY <2>2, <2>4, <3>1 DEF History, ClaimedOK, Accepted
  <2> QED
    BY <2>5, <2>6 DEF History
<1>3. ASSUME NEW p \in Prompt, TakeAnswer(p) PROVE History'
  <2>1. ASSUME NEW q \in Prompt PROVE HistoryOK(q)'
    BY <1>3
       DEF TakeAnswer, Return, requestVars, History, HistoryOK, ClaimedOK, Owner, Tables, Aimed,
           Accepted
  <2>2. ASSUME NEW b \in Request PROVE ClaimedOK(b)'
    BY <1>3
       DEF TakeAnswer, Return, requestVars, History, HistoryOK, ClaimedOK, Owner,
           OneAnswerAccepted, Tables, Aimed, Accepted
  <2> QED
    BY <2>1, <2>2 DEF History
<1>4. ASSUME NEW p \in Prompt, NEW d \in {"deny", "timeout"}, Expire(p, d) PROVE History'
  <2>1. ASSUME NEW q \in Prompt PROVE HistoryOK(q)'
    BY <1>4
       DEF Expire, requestVars, History, HistoryOK, ClaimedOK, Owner, Tables, Aimed, Accepted
  <2>2. ASSUME NEW b \in Request PROVE ClaimedOK(b)'
    BY <1>4
       DEF Expire, requestVars, History, HistoryOK, ClaimedOK, Owner, OneAnswerAccepted, Tables,
           Aimed, Accepted
  <2> QED
    BY <2>1, <2>2 DEF History
<1>5. ASSUME NEW p \in Prompt, EmitExpired(p) PROVE History'
  <2>1. /\ ch[p] = "empty" /\ Len(events'[p]) = 2
        /\ events'[p][1] = "request" /\ events'[p][2] = pcP[p]
    BY <1>5, ExpiryShown
  <2>2. \A q \in Prompt \ {p} : events'[q] = events[q]
    BY <1>5, ExpiryShown
  <2>3. pcP[p] \in {"deny", "timeout"} /\ pcP' = [pcP EXCEPT ![p] = "returned"]
    BY <1>5 DEF EmitExpired, Return
  <2>4. UNCHANGED <<pending, ch, pcA, aim, choice>>
    BY <1>5 DEF EmitExpired, requestVars
  <2>5. ASSUME NEW q \in Prompt PROVE HistoryOK(q)'
    <3>1. CASE q = p
      BY <2>1, <2>3, <2>4, <3>1 DEF History, HistoryOK, Tables
    <3>2. CASE q # p
      BY <2>2, <2>3, <2>4, <3>2 DEF History, HistoryOK, Tables
    <3> QED
      BY <3>1, <3>2
  <2>6. ASSUME NEW b \in Request PROVE ClaimedOK(b)'
    <3>1. Accepted(b) => aim[b] \in Prompt /\ aim[b] # p
      BY <2>3 DEF Aimed, Owner
    <3> QED
      BY <2>2, <2>4, <3>1 DEF History, ClaimedOK, Accepted
  <2> QED
    BY <2>5, <2>6 DEF History
<1>6. ASSUME NEW p \in Prompt, TakeClaimedAnswer(p) PROVE History'
  <2>1. ASSUME NEW q \in Prompt PROVE HistoryOK(q)'
    BY <1>6
       DEF TakeClaimedAnswer, Return, requestVars, History, HistoryOK, ClaimedOK, Owner, Tables,
           Aimed, Accepted
  <2>2. ASSUME NEW b \in Request PROVE ClaimedOK(b)'
    BY <1>6
       DEF TakeClaimedAnswer, Return, requestVars, History, HistoryOK, ClaimedOK, Owner,
           OneAnswerAccepted, Tables, Aimed, Accepted
  <2> QED
    BY <2>1, <2>2 DEF History
<1>7. ASSUME NEW p \in Prompt, ContextDone(p) PROVE History'
  <2>1. ASSUME NEW q \in Prompt PROVE HistoryOK(q)'
    BY <1>7
       DEF ContextDone, promptVars, requestVars, History, HistoryOK, ClaimedOK, Owner, Tables,
           Aimed, Accepted
  <2>2. ASSUME NEW b \in Request PROVE ClaimedOK(b)'
    BY <1>7
       DEF ContextDone, promptVars, requestVars, History, HistoryOK, ClaimedOK, Owner,
           OneAnswerAccepted, Tables, Aimed, Accepted
  <2> QED
    BY <2>1, <2>2 DEF History
<1>8. ASSUME NEW p \in Prompt, Forward(p) PROVE History'
  <2>1. ASSUME NEW q \in Prompt PROVE HistoryOK(q)'
    BY <1>8
       DEF Forward, requestVars, History, HistoryOK, ClaimedOK, Owner, Tables, Aimed, Accepted
  <2>2. ASSUME NEW b \in Request PROVE ClaimedOK(b)'
    BY <1>8
       DEF Forward, requestVars, History, HistoryOK, ClaimedOK, Owner, OneAnswerAccepted,
           Tables, Aimed, Accepted
  <2> QED
    BY <2>1, <2>2 DEF History
<1>9. ASSUME NEW p \in Prompt, GiveUp(p) PROVE History'
  <2>1. ASSUME NEW q \in Prompt PROVE HistoryOK(q)'
    BY <1>9
       DEF GiveUp, requestVars, History, HistoryOK, ClaimedOK, Owner, Tables, Aimed, Accepted
  <2>2. ASSUME NEW b \in Request PROVE ClaimedOK(b)'
    BY <1>9
       DEF GiveUp, requestVars, History, HistoryOK, ClaimedOK, Owner, OneAnswerAccepted, Tables,
           Aimed, Accepted
  <2> QED
    BY <2>1, <2>2 DEF History
<1>10. ASSUME NEW a \in Request, NEW p \in Prompt, NEW d \in Decisions, Claim(a, p, d)
       PROVE  History'
  <2>1. Len(events[p]) # 0
    BY <1>10 DEF Claim, TypeOK
  <2>2. p \in pending => Len(events[p]) = 1
    BY <2>1 DEF Owner, History, HistoryOK
  <2>3. ASSUME NEW q \in Prompt PROVE HistoryOK(q)'
    BY <1>10 DEF Claim, promptVars, History, HistoryOK
  <2>4. ASSUME NEW b \in Request PROVE ClaimedOK(b)'
    <3>1. CASE b = a
      BY <1>10, <2>2, <3>1 DEF Claim, ClaimedOK, Tables
    <3>2. CASE b # a
      BY <1>10, <3>2 DEF Claim, ClaimedOK, Tables, History
    <3> QED
      BY <3>1, <3>2
  <2> QED
    BY <2>3, <2>4 DEF History
<1>11. ASSUME NEW a \in Request, RecordRule(a) PROVE History'
  <2>1. ASSUME NEW q \in Prompt PROVE HistoryOK(q)'
    BY <1>11
       DEF RecordRule, promptVars, requestVars, History, HistoryOK, ClaimedOK, Owner, Tables,
           Aimed, Accepted
  <2>2. ASSUME NEW b \in Request PROVE ClaimedOK(b)'
    BY <1>11
       DEF RecordRule, promptVars, requestVars, History, HistoryOK, ClaimedOK, Owner,
           OneAnswerAccepted, Tables, Aimed, Accepted
  <2> QED
    BY <2>1, <2>2 DEF History
<1>12. ASSUME NEW a \in Request, EmitAnswer(a) PROVE History'
  <2> DEFINE p == aim[a]
  <2>1. /\ p \in Prompt /\ choice[a] \in Decisions /\ Accepted(a)
        /\ p \notin pending /\ pcP[p] \in {"waiting", "beaten"} /\ ch[p] = "empty"
    BY <1>12, AnswerShown
  <2>2. Len(events'[p]) = 2 /\ events'[p][1] = "request" /\ events'[p][2] = choice[a]
    BY <1>12, AnswerShown
  <2>3. \A q \in Prompt \ {p} : events'[q] = events[q]
    BY <1>12, AnswerShown
  <2>4. pcA[a] = "recorded" /\ pcA' = [pcA EXCEPT ![a] = "emitted"]
    BY <1>12 DEF EmitAnswer
  <2>5. UNCHANGED <<pending, ch, pcP, aim, choice>>
    BY <1>12 DEF EmitAnswer, promptVars
  <2>6. ASSUME NEW q \in Prompt PROVE HistoryOK(q)'
    <3>1. CASE q = p
      BY <2>1, <2>2, <2>5, <3>1 DEF HistoryOK, Decisions, Approvals
    <3>2. CASE q # p
      BY <2>3, <2>5, <3>2 DEF History, HistoryOK
    <3> QED
      BY <3>1, <3>2
  <2>7. ASSUME NEW b \in Request PROVE ClaimedOK(b)'
    <3>1. CASE b = a
      BY <2>2, <2>4, <2>5, <3>1 DEF ClaimedOK, Tables
    <3>2. CASE b # a
      <4>1. Accepted(b) => aim[b] \in Prompt /\ aim[b] # p
        BY <2>1, <3>2 DEF Aimed, Owner, OneAnswerAccepted
      <4>2. pcA'[b] = pcA[b]
        BY <2>4, <3>2 DEF Tables
      <4> QED
        BY <2>3, <2>5, <4>1, <4>2 DEF History, ClaimedOK, Accepted
    <3> QED
      BY <3>1, <3>2
  <2> QED
    BY <2>6, <2>7 DEF History
<1>13. ASSUME NEW a \in Request, SendAnswer(a) PROVE History'
  <2>1. ASSUME NEW q \in Prompt PROVE HistoryOK(q)'
    BY <1>13
       DEF SendAnswer, promptVars, requestVars, History, HistoryOK, ClaimedOK, Owner, Tables,
           Aimed, Accepted
  <2>2. ASSUME NEW b \in Request PROVE ClaimedOK(b)'
    BY <1>13
       DEF SendAnswer, promptVars, requestVars, History, HistoryOK, ClaimedOK, Owner,
           OneAnswerAccepted, Tables, Aimed, Accepted
  <2> QED
    BY <2>1, <2>2 DEF History
<1>14. CASE UNCHANGED vars
  BY <1>14 DEF vars, promptVars, requestVars, History, HistoryOK, ClaimedOK
<1> QED
  BY <1>1, <1>2, <1>3, <1>4, <1>5, <1>6, <1>7, <1>8, <1>9, <1>10, <1>11, <1>12, <1>13, <1>14
     DEF Next, PromptStep, WrapperStep, RequestStep

-----------------------------------------------------------------------------
\* No step changes the history of a prompt that has its verdict.
LEMMA VerdictStays ==
  ASSUME TypeOK, Aimed, Owner, History, [Next]_vars
  PROVE  \A q \in Prompt : Len(events[q]) = 2 => events'[q] = events[q]
<1>1. CASE UNCHANGED events
  BY <1>1
<1>2. ASSUME NEW p \in Prompt, EmitRequest(p)
      PROVE  \A q \in Prompt : Len(events[q]) = 2 => events'[q] = events[q]
  BY <1>2, RequestShown
<1>3. ASSUME NEW p \in Prompt, EmitExpired(p)
      PROVE  \A q \in Prompt : Len(events[q]) = 2 => events'[q] = events[q]
  BY <1>3, ExpiryShown
<1>4. ASSUME NEW a \in Request, EmitAnswer(a)
      PROVE  \A q \in Prompt : Len(events[q]) = 2 => events'[q] = events[q]
  BY <1>4, AnswerShown
<1> QED
  BY <1>1, <1>2, <1>3, <1>4
     DEF Next, vars, PromptStep, WrapperStep, RequestStep, Ask, TakeAnswer, Expire,
         TakeClaimedAnswer, ContextDone, Forward, GiveUp, Claim, RecordRule, SendAnswer

-----------------------------------------------------------------------------
\* An always_allow is recorded by the request that carries it, and so before
\* it is the verdict the browser shows.
Recorded ==
  /\ \A a \in Request :
       (/\ pcA[a] \in {"recorded", "emitted", "replied"}
        /\ choice[a] = "always_allow"
        /\ call[aim[a]] \notin Nameless) => call[aim[a]] \in rules
  /\ \A p \in Prompt :
       (/\ Len(events[p]) = 2
        /\ events[p][2] = "always_allow"
        /\ call[p] \notin Nameless) => call[p] \in rules

\* Every step keeps the rules ahead of the verdicts.
LEMMA RecordedStep ==
  ASSUME TypeOK, Tables, Aimed, Owner, History, Recorded, [Next]_vars
  PROVE  Recorded'
<1>0. \A q \in Prompt : Len(events[q]) = 2 => events'[q] = events[q]
  BY VerdictStays
<1>1. ASSUME NEW p \in Prompt, Ask(p) PROVE Recorded'
  BY <1>0, <1>1 DEF Ask, requestVars, Recorded, Tables
<1>2. ASSUME NEW p \in Prompt, EmitRequest(p) PROVE Recorded'
  <2>1. Len(events'[p]) = 1 /\ \A q \in Prompt \ {p} : events'[q] = events[q]
    BY <1>2, RequestShown
  <2> QED
    BY <1>2, <2>1 DEF EmitRequest, promptVars, requestVars, Recorded
<1>3. ASSUME NEW p \in Prompt, TakeAnswer(p) PROVE Recorded'
  BY <1>0, <1>3 DEF TakeAnswer, Return, requestVars, Recorded, Tables
<1>4. ASSUME NEW p \in Prompt, NEW d \in {"deny", "timeout"}, Expire(p, d) PROVE Recorded'
  BY <1>0, <1>4 DEF Expire, requestVars, Recorded, Tables
<1>5. ASSUME NEW p \in Prompt, EmitExpired(p) PROVE Recorded'
  <2>1. events'[p][2] = pcP[p] /\ \A q \in Prompt \ {p} : events'[q] = events[q]
    BY <1>5, ExpiryShown
  <2>2. pcP[p] \in {"deny", "timeout"}
    BY <1>5 DEF EmitExpired
  <2> QED
    BY <1>5, <2>1, <2>2 DEF EmitExpired, requestVars, Recorded
<1>6. ASSUME NEW p \in Prompt, TakeClaimedAnswer(p) PROVE Recorded'
  BY <1>0, <1>6 DEF TakeClaimedAnswer, Return, requestVars, Recorded, Tables
<1>7. ASSUME NEW p \in Prompt, ContextDone(p) PROVE Recorded'
  BY <1>0, <1>7 DEF ContextDone, promptVars, requestVars, Recorded, Tables
<1>8. ASSUME NEW p \in Prompt, Forward(p) PROVE Recorded'
  BY <1>0, <1>8 DEF Forward, requestVars, Recorded, Tables
<1>9. ASSUME NEW p \in Prompt, GiveUp(p) PROVE Recorded'
  BY <1>0, <1>9 DEF GiveUp, requestVars, Recorded, Tables
<1>10. ASSUME NEW a \in Request, NEW p \in Prompt, NEW d \in Decisions, Claim(a, p, d)
       PROVE  Recorded'
  BY <1>0, <1>10 DEF Claim, promptVars, requestVars, Recorded, Tables
<1>11. ASSUME NEW a \in Request, RecordRule(a) PROVE Recorded'
  BY <1>0, <1>11 DEF RecordRule, promptVars, requestVars, Recorded, Tables
<1>12. ASSUME NEW a \in Request, EmitAnswer(a) PROVE Recorded'
  <2>1. events'[aim[a]][2] = choice[a] /\ \A q \in Prompt \ {aim[a]} : events'[q] = events[q]
    BY <1>12, AnswerShown
  <2>2. pcA[a] = "recorded" /\ pcA' = [pcA EXCEPT ![a] = "emitted"]
    BY <1>12 DEF EmitAnswer
  <2>3. UNCHANGED <<call, rules, aim, choice>>
    BY <1>12 DEF EmitAnswer, promptVars
  <2>4. ASSUME NEW p \in Prompt, Len(events'[p]) = 2, events'[p][2] = "always_allow",
               call[p] \notin Nameless
        PROVE  call[p] \in rules
    <3>1. CASE p = aim[a]
      BY <2>1, <2>2, <2>4, <3>1 DEF Recorded
    <3>2. CASE p # aim[a]
      BY <2>1, <2>4, <3>2 DEF Recorded
    <3> QED
      BY <3>1, <3>2
  <2>5. ASSUME NEW b \in Request, pcA'[b] \in {"recorded", "emitted", "replied"}
        PROVE  pcA[b] \in {"recorded", "emitted", "replied"}
    BY <2>2, <2>5 DEF Tables
  <2> QED
    BY <2>3, <2>4, <2>5 DEF Recorded
<1>13. ASSUME NEW a \in Request, SendAnswer(a) PROVE Recorded'
  BY <1>0, <1>13 DEF SendAnswer, promptVars, requestVars, Recorded, Tables
<1>14. CASE UNCHANGED vars
  BY <1>14 DEF vars, promptVars, requestVars, Recorded
<1> QED
  BY <1>1, <1>2, <1>3, <1>4, <1>5, <1>6, <1>7, <1>8, <1>9, <1>10, <1>11, <1>12, <1>13, <1>14
     DEF Next, PromptStep, WrapperStep, RequestStep

-----------------------------------------------------------------------------
\* What the asker was told, against the verdict the browser was shown.
ToldOK(p) ==
  /\ answer[p] # "none" <=> pcP[p] = "returned"
  /\ answer[p] # "none" => (answer[p] = "allow" <=> events[p][2] \in Approvals)
  /\ via[p] = "run" => told[p] = answer[p]
  /\ told[p] = "allow" => answer[p] = "allow"
  /\ pcP[p] = "idle" => told[p] = "none" /\ p \notin done

\* Every step tells the asker no more than the verdict allows.
LEMMA ToldStep ==
  ASSUME TypeOK, Tables, Aimed, Owner, History, \A p \in Prompt : ToldOK(p), [Next]_vars
  PROVE  \A p \in Prompt : ToldOK(p)'
<1> SUFFICES ASSUME NEW q \in Prompt PROVE ToldOK(q)'
  OBVIOUS
<1>0. Len(events[q]) = 2 => events'[q] = events[q]
  BY VerdictStays
<1>1. ASSUME NEW p \in Prompt, Ask(p) PROVE ToldOK(q)'
  BY <1>0, <1>1 DEF Ask, requestVars, History, HistoryOK, ToldOK, Tables, Approvals
<1>2. ASSUME NEW p \in Prompt, EmitRequest(p) PROVE ToldOK(q)'
  BY <1>0, <1>2
     DEF EmitRequest, promptVars, requestVars, History, HistoryOK, ToldOK, Tables, Approvals
<1>3. ASSUME NEW p \in Prompt, TakeAnswer(p) PROVE ToldOK(q)'
  <2>1. ch[p] \in Decisions /\ Len(events[p]) = 2 /\ events[p][2] = ch[p]
    BY <1>3 DEF TakeAnswer, TypeOK, History, HistoryOK
  <2>2. CASE q = p
    BY <1>0, <1>3, <2>1, <2>2 DEF TakeAnswer, Return, ToldOK, Tables, Approvals, Decisions
  <2>3. CASE q # p
    BY <1>0, <1>3, <2>3 DEF TakeAnswer, Return, ToldOK, Tables
  <2> QED
    BY <2>2, <2>3
<1>4. ASSUME NEW p \in Prompt, NEW d \in {"deny", "timeout"}, Expire(p, d) PROVE ToldOK(q)'
  BY <1>0, <1>4 DEF Expire, requestVars, History, HistoryOK, ToldOK, Tables, Approvals
<1>5. ASSUME NEW p \in Prompt, EmitExpired(p) PROVE ToldOK(q)'
  <2>1. events'[p][2] = pcP[p] /\ \A r \in Prompt \ {p} : events'[r] = events[r]
    BY <1>5, ExpiryShown
  <2>2. CASE q = p
    BY <1>5, <2>1, <2>2 DEF EmitExpired, Return, ToldOK, Tables, Approvals
  <2>3. CASE q # p
    BY <1>5, <2>1, <2>3 DEF EmitExpired, Return, ToldOK, Tables
  <2> QED
    BY <2>2, <2>3
<1>6. ASSUME NEW p \in Prompt, TakeClaimedAnswer(p) PROVE ToldOK(q)'
  <2>1. ch[p] \in Decisions /\ Len(events[p]) = 2 /\ events[p][2] = ch[p]
    BY <1>6 DEF TakeClaimedAnswer, TypeOK, History, HistoryOK
  <2>2. CASE q = p
    BY <1>0, <1>6, <2>1, <2>2
       DEF TakeClaimedAnswer, Return, ToldOK, Tables, Approvals, Decisions
  <2>3. CASE q # p
    BY <1>0, <1>6, <2>3 DEF TakeClaimedAnswer, Return, ToldOK, Tables
  <2> QED
    BY <2>2, <2>3
<1>7. ASSUME NEW p \in Prompt, ContextDone(p) PROVE ToldOK(q)'
  BY <1>0, <1>7
     DEF ContextDone, promptVars, requestVars, History, HistoryOK, ToldOK, Tables, Approvals
<1>8. ASSUME NEW p \in Prompt, Forward(p) PROVE ToldOK(q)'
  BY <1>0, <1>8 DEF Forward, requestVars, History, HistoryOK, ToldOK, Tables, Approvals
<1>9. ASSUME NEW p \in Prompt, GiveUp(p) PROVE ToldOK(q)'
  BY <1>0, <1>9 DEF GiveUp, requestVars, History, HistoryOK, ToldOK, Tables, Approvals
<1>10. ASSUME NEW a \in Request, NEW p \in Prompt, NEW d \in Decisions, Claim(a, p, d)
       PROVE  ToldOK(q)'
  BY <1>0, <1>10
     DEF Claim, promptVars, requestVars, History, HistoryOK, ToldOK, Tables, Approvals
<1>11. ASSUME NEW a \in Request, RecordRule(a) PROVE ToldOK(q)'
  BY <1>0, <1>11
     DEF RecordRule, promptVars, requestVars, History, HistoryOK, ToldOK, Tables, Approvals
<1>12. ASSUME NEW a \in Request, EmitAnswer(a) PROVE ToldOK(q)'
  BY <1>0, <1>12
     DEF EmitAnswer, promptVars, requestVars, History, HistoryOK, ToldOK, Tables, Approvals
<1>13. ASSUME NEW a \in Request, SendAnswer(a) PROVE ToldOK(q)'
  BY <1>0, <1>13
     DEF SendAnswer, promptVars, requestVars, History, HistoryOK, ToldOK, Tables, Approvals
<1>14. CASE UNCHANGED vars
  BY <1>14 DEF vars, promptVars, requestVars, ToldOK
<1> QED
  BY <1>1, <1>2, <1>3, <1>4, <1>5, <1>6, <1>7, <1>8, <1>9, <1>10, <1>11, <1>12, <1>13, <1>14
     DEF Next, PromptStep, WrapperStep, RequestStep

-----------------------------------------------------------------------------
(* The theorems.                                                           *)

IInv ==
  /\ TypeOK /\ Aimed /\ Owner
  /\ History
  /\ Recorded
  /\ \A p \in Prompt : ToldOK(p)

\* Every state of the broker satisfies the layers together.
LEMMA Invariance == Spec => []IInv
<1>1. Init => Owner /\ History /\ Recorded /\ \A p \in Prompt : ToldOK(p)
  <2> SUFFICES ASSUME Init PROVE Owner /\ History /\ Recorded /\ \A p \in Prompt : ToldOK(p)
    OBVIOUS
  <2>0. \A p \in Prompt : events[p] = <<>> /\ Len(<<>>) = 0
    BY DEF Init
  <2>1. \A p \in Prompt : Len(events[p]) = 0 /\ pcP[p] = "idle" /\ ch[p] = "empty"
    <3>1. \A p \in Prompt : Len(events[p]) = 0
      BY <2>0
    <3>2. \A p \in Prompt : pcP[p] = "idle" /\ ch[p] = "empty"
      BY DEF Init
    <3> QED
      BY <3>1, <3>2
  <2>2. pending = {} /\ \A a \in Request : pcA[a] = "idle"
    BY DEF Init
  <2>3. Owner
    BY <2>2 DEF Owner, OneAnswerAccepted, Accepted
  <2>4. History
    BY <2>1, <2>2 DEF History, HistoryOK, ClaimedOK
  <2>5. Recorded
    BY <2>1, <2>2 DEF Recorded
  <2>6. \A p \in Prompt : ToldOK(p)
    <3>1. \A p \in Prompt : answer[p] = "none" /\ told[p] = "none" /\ pcP[p] = "idle" /\ p \notin done
      BY DEF Init
    <3> QED
      BY <3>1 DEF ToldOK
  <2> QED
    BY <2>3, <2>4, <2>5, <2>6
<1>2. ASSUME TypeOK, TypeOK', Aimed, Owner, History, Recorded,
             \A p \in Prompt : ToldOK(p), [Next]_vars
      PROVE  Owner' /\ History' /\ Recorded' /\ \A p \in Prompt : ToldOK(p)'
  BY <1>2, TypesAreFunctions, OwnerStep, HistoryStep, RecordedStep, ToldStep
<1>3. ASSUME TypeOK, TypeOK', Aimed, Owner, History, Recorded,
             \A p \in Prompt : ToldOK(p), [Next]_vars
      PROVE  (\A p \in Prompt : ToldOK(p))'
  BY <1>2, <1>3
<1> QED
  BY <1>1, <1>2, <1>3, Typing, PTL DEF Spec, IInv

\* Every variable of the broker keeps its type.
THEOREM TypeCorrect == Spec => []TypeOK
  BY Typing, PTL

\* However answers, timeouts and cancelled contexts race, the browser is
\* shown one verdict of a prompt at most, and only after the request for it.
THEOREM VerdictOnce == Spec => []OneVerdictPerPrompt
<1>1. IInv => OneVerdictPerPrompt
  <2> SUFFICES ASSUME IInv
               PROVE  \A p \in Prompt : /\ Len(events[p]) <= 2
                                        /\ events[p] # <<>> => events[p][1] = "request"
                                        /\ Closed(p) => Verdict(p) # "request"
    BY Zenon DEF OneVerdictPerPrompt
  <2> TAKE p \in Prompt
  <2>1. HistoryOK(p) /\ events[p] \in Seq(Shown)
    BY DEF IInv, History, TypeOK
  <2>2. Len(events[p]) \in {0, 1, 2}
    BY <2>1 DEF HistoryOK
  <2>3. events[p] # <<>> => Len(events[p]) # 0
    BY <2>1
  <2>4. Len(events[p]) <= 2
    <3>1. \A n \in {0, 1, 2} : n <= 2
      OBVIOUS
    <3> QED
      BY <2>2, <3>1, Zenon
  <2>5. events[p] # <<>> => events[p][1] = "request"
    BY <2>1, <2>3 DEF HistoryOK
  <2>6. Closed(p) => Verdict(p) # "request"
    BY <2>1 DEF HistoryOK, Closed, Verdict
  <2> QED
    BY <2>4, <2>5, <2>6
<1> QED
  BY <1>1, Invariance, PTL

\* A prompt is answered by one accepted request at most.
THEOREM AnswerOnce == Spec => []OneAnswerAccepted
<1>1. IInv => OneAnswerAccepted
  BY DEF IInv, Owner
<1> QED
  BY <1>1, Invariance, PTL

\* What the agent is told agrees with what the browser was shown.
THEOREM VerdictHeard == Spec => []AgentHearsTheVerdict
<1>1. IInv => AgentHearsTheVerdict
  <2> SUFFICES ASSUME IInv
               PROVE  \A p \in Prompt :
                        /\ answer[p] # "none" =>
                             /\ Closed(p)
                             /\ answer[p] = "allow" <=> Verdict(p) \in Approvals
                        /\ via[p] = "run" => told[p] = answer[p]
                        /\ told[p] = "allow" => answer[p] = "allow"
    BY Zenon DEF AgentHearsTheVerdict
  <2> TAKE p \in Prompt
  <2>1. HistoryOK(p) /\ ToldOK(p)
    BY DEF IInv, History
  <2> QED
    BY <2>1 DEF HistoryOK, ToldOK, Closed, Verdict
<1> QED
  BY <1>1, Invariance, PTL

\* The rule of an always_allow is in the session before an agent acts on it.
THEOREM RuleFirst == Spec => []RuleBeforeRelease
<1>1. IInv => RuleBeforeRelease
  BY DEF IInv, History, HistoryOK, ToldOK, Recorded, RuleBeforeRelease, Verdict
<1> QED
  BY <1>1, Invariance, PTL

-----------------------------------------------------------------------------
(* The broker implements the contract.                                     *)

\* What the browser last saw, by how much it saw.
LEMMA LastShownByLength ==
  ASSUME TypeOK, NEW p \in Prompt
  PROVE  /\ Len(events[p]) = 0 => LastShown(p) = "nothing"
         /\ Len(events[p]) = 1 => LastShown(p) = events[p][1]
         /\ Len(events[p]) = 2 => LastShown(p) = events[p][2]
<1>1. events[p] \in Seq(Shown)
  BY DEF TypeOK
<1>2. events[p] = <<>> <=> Len(events[p]) = 0
  BY <1>1
<1> QED
  BY <1>2 DEF LastShown

\* The same of the next state.
LEMMA LastShownByLengthNext ==
  ASSUME TypeOK', NEW p \in Prompt
  PROVE  /\ Len(events'[p]) = 1 => LastShown(p)' = events'[p][1]
         /\ Len(events'[p]) = 2 => LastShown(p)' = events'[p][2]
<1>1. events'[p] \in Seq(Shown)
  BY DEF TypeOK
<1>2. events'[p] = <<>> <=> Len(events'[p]) = 0
  BY <1>1
<1> QED
  BY <1>2 DEF LastShown

\* The asker of p hears an answer, and nobody else hears anything.
Hears(p, said) ==
  /\ told[p] = "none" /\ said \in {"allow", "deny"}
  /\ said = "allow" => LastShown(p) \in Approvals
  /\ told' = [told EXCEPT ![p] = said]

\* That is the Hear step of the contract.
LEMMA HearingIsHear ==
  ASSUME TypeOK, NEW p \in Prompt, NEW said, Hears(p, said), UNCHANGED events
  PROVE  Contract!Next
<1>1. Contract!Hear(p, said)
  <2>1. \A q \in Prompt : LastShown(q)' = LastShown(q)
    BY DEF LastShown
  <2>2. \A q \in Prompt : Heard(q)' = IF q = p THEN said ELSE Heard(q)
    BY DEF Hears, Heard, TypeOK
  <2>3. Heard(p) = "nothing"
    BY DEF Hears, Heard
  <2> QED
    BY <2>1, <2>2, <2>3 DEF Hears, Contract!Hear
<1> QED
  BY <1>1 DEF Hears, Contract!Next

\* A step that shows and tells nothing is no step of the contract.
LEMMA QuietIsStutter ==
  ASSUME UNCHANGED <<told, events>>
  PROVE  UNCHANGED Contract!vars
  BY DEF Contract!vars, LastShown, Heard

\* Every step of the broker is a step of the contract or a stutter.
LEMMA ContractStep ==
  ASSUME IInv, TypeOK', [Next]_vars
  PROVE  [Contract!Next]_(Contract!vars)
<1> USE DEF IInv
<1>1. CASE UNCHANGED <<told, events>>
  BY <1>1, QuietIsStutter
<1>2. ASSUME NEW p \in Prompt, EmitRequest(p) PROVE Contract!Next
  <2>1. LastShown(p) = "nothing" /\ LastShown(p)' = "request"
    BY <1>2, RequestShown, LastShownByLength, LastShownByLengthNext
  <2>2. \A q \in Prompt : q # p => LastShown(q)' = LastShown(q)
    BY <1>2, RequestShown DEF LastShown
  <2>3. \A q \in Prompt : Heard(q)' = Heard(q)
    BY <1>2 DEF EmitRequest, promptVars, Heard
  <2>4. Contract!Raise(p)
    BY <2>1, <2>2, <2>3 DEF Contract!Raise
  <2> QED
    BY <2>4 DEF Contract!Next
<1>3. ASSUME NEW a \in Request, EmitAnswer(a) PROVE Contract!Next
  <2>1. PICK p \in Prompt : p = aim[a]
    BY <1>3, AnswerShown
  <2>2. /\ Len(events[p]) = 1 /\ Len(events'[p]) = 2 /\ events'[p][2] = choice[a]
        /\ \A q \in Prompt \ {p} : events'[q] = events[q]
        /\ choice[a] \in Decisions
    BY <1>3, <2>1, AnswerShown
  <2>3. events[p][1] = "request"
    BY <2>2 DEF History, HistoryOK
  <2>4. LastShown(p) = "request" /\ LastShown(p)' = choice[a]
    BY <2>2, <2>3, LastShownByLength, LastShownByLengthNext
  <2>5. \A q \in Prompt : q # p => LastShown(q)' = LastShown(q)
    BY <2>2 DEF LastShown
  <2>6. \A q \in Prompt : Heard(q)' = Heard(q)
    BY <1>3 DEF EmitAnswer, promptVars, Heard
  <2>7. choice[a] \in Approvals \cup {"deny", "timeout"}
    BY <2>2 DEF Decisions
  <2>8. Contract!Show(p)
    BY <2>4, <2>5, <2>6, <2>7 DEF Contract!Show
  <2> QED
    BY <2>8 DEF Contract!Next
<1>4. ASSUME NEW p \in Prompt, EmitExpired(p) PROVE Contract!Next
  <2>1. LastShown(p) = "request" /\ LastShown(p)' = pcP[p]
    BY <1>4, ExpiryShown, LastShownByLength, LastShownByLengthNext
       DEF History, HistoryOK, EmitExpired
  <2>2. pcP[p] \in {"deny", "timeout"}
    BY <1>4 DEF EmitExpired
  <2>3. \A q \in Prompt : q # p => LastShown(q)' = LastShown(q)
    BY <1>4, ExpiryShown DEF LastShown
  <2>4. told' = [told EXCEPT ![p] = IF via[p] = "run" THEN "deny" ELSE @]
    BY <1>4, <2>2 DEF EmitExpired, Return, Approvals
  <2>5. CASE via[p] = "run"
    <3>1. told[p] = "none"
      BY <2>2, <2>5 DEF ToldOK
    <3>2. Heard(p) = "nothing" /\ Heard(p)' = "deny"
      BY <2>4, <2>5, <3>1 DEF Heard, TypeOK
    <3>3. \A q \in Prompt : q # p => Heard(q)' = Heard(q)
      BY <2>4 DEF Heard, TypeOK
    <3>4. Contract!ShowAndHear(p)
      BY <2>1, <2>2, <2>3, <3>2, <3>3 DEF Contract!ShowAndHear
    <3> QED
      BY <3>4 DEF Contract!Next
  <2>6. CASE via[p] # "run"
    <3>1. \A q \in Prompt : Heard(q)' = Heard(q)
      BY <2>4, <2>6 DEF Heard, TypeOK
    <3>2. Contract!Show(p)
      BY <2>1, <2>2, <2>3, <3>1 DEF Contract!Show
    <3> QED
      BY <3>2 DEF Contract!Next
  <2> QED
    BY <2>5, <2>6
<1>5. ASSUME NEW p \in Prompt, TakeAnswer(p) PROVE [Contract!Next]_(Contract!vars)
  <2> DEFINE verdict == IF ch[p] \in Approvals THEN "allow" ELSE "deny"
  <2>1. LastShown(p) = ch[p]
    BY <1>5, LastShownByLength DEF TakeAnswer, History, HistoryOK
  <2>2. told' = [told EXCEPT ![p] = IF via[p] = "run" THEN verdict ELSE @] /\ UNCHANGED events
    BY <1>5 DEF TakeAnswer, Return
  <2>3. CASE via[p] = "run"
    <3>1. told[p] = "none"
      BY <1>5, <2>3 DEF TakeAnswer, ToldOK
    <3>2. Hears(p, verdict)
      BY <2>1, <2>2, <2>3, <3>1 DEF Hears
    <3> QED
      BY <2>2, <3>2, HearingIsHear
  <2>4. CASE via[p] # "run"
    <3>1. told' = told
      BY <2>2, <2>4 DEF TypeOK
    <3> QED
      BY <2>2, <3>1, QuietIsStutter
  <2> QED
    BY <2>3, <2>4
<1>6. ASSUME NEW p \in Prompt, TakeClaimedAnswer(p) PROVE [Contract!Next]_(Contract!vars)
  <2> DEFINE verdict == IF ch[p] \in Approvals THEN "allow" ELSE "deny"
  <2>1. LastShown(p) = ch[p]
    BY <1>6, LastShownByLength DEF TakeClaimedAnswer, History, HistoryOK
  <2>2. told' = [told EXCEPT ![p] = IF via[p] = "run" THEN verdict ELSE @] /\ UNCHANGED events
    BY <1>6 DEF TakeClaimedAnswer, Return
  <2>3. CASE via[p] = "run"
    <3>1. told[p] = "none"
      BY <1>6, <2>3 DEF TakeClaimedAnswer, ToldOK
    <3>2. Hears(p, verdict)
      BY <2>1, <2>2, <2>3, <3>1 DEF Hears
    <3> QED
      BY <2>2, <3>2, HearingIsHear
  <2>4. CASE via[p] # "run"
    <3>1. told' = told
      BY <2>2, <2>4 DEF TypeOK
    <3> QED
      BY <2>2, <3>1, QuietIsStutter
  <2> QED
    BY <2>3, <2>4
<1>7. ASSUME NEW p \in Prompt, Forward(p) PROVE Contract!Next
  <2>1. LastShown(p) \in Approvals <=> answer[p] = "allow"
    BY <1>7, LastShownByLength DEF Forward, History, HistoryOK, ToldOK
  <2>2. Hears(p, answer[p]) /\ UNCHANGED events
    BY <1>7, <2>1 DEF Forward, Hears, TypeOK
  <2> QED
    BY <2>2, HearingIsHear
<1>8. ASSUME NEW p \in Prompt, GiveUp(p) PROVE Contract!Next
  <2>1. Hears(p, "deny") /\ UNCHANGED events
    BY <1>8 DEF GiveUp, Hears
  <2> QED
    BY <2>1, HearingIsHear
<1> QED
  BY <1>1, <1>2, <1>3, <1>4, <1>5, <1>6, <1>7, <1>8
     DEF Next, vars, promptVars, PromptStep, WrapperStep, RequestStep, Ask, Expire, ContextDone,
         Claim, RecordRule, SendAnswer

\* The broker, its HTTP handlers and the sub-agents' wrapper together keep the
\* contract of a permission prompt.
THEOREM KeepsContract == Spec => ContractKept
<1>1. Init => Contract!Init
  <2> SUFFICES ASSUME Init
               PROVE  \A p \in Prompt : LastShown(p) = "nothing" /\ Heard(p) = "nothing"
    BY DEF Contract!Init
  <2> QED
    <3>1. \A p \in Prompt : events[p] = <<>> /\ told[p] = "none"
      BY DEF Init
    <3> QED
      BY <3>1 DEF LastShown, Heard
<1>2. IInv /\ TypeOK' /\ [Next]_vars => [Contract!Next]_(Contract!vars)
  BY ContractStep
<1> QED
  BY <1>1, <1>2, Invariance, TypeCorrect, PTL DEF Spec, ContractKept, Contract!Spec
===============================================================================
