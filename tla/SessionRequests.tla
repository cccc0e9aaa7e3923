-------------------------- MODULE SessionRequests --------------------------
(***************************************************************************)
(* Messages and model changes posted to one session, up to the start of a  *)
(* run: handlePostMessage and handleUpdateModel (internal/server/          *)
(* handler.go), RecentIDs, the session's model switch (session.go), the    *)
(* switching service (internal/llm/modelruntime), and the page: composer,  *)
(* model menu and key dialog (server/web/js/features).  Every request is   *)
(* handled in steps between which the others take theirs.                  *)
(***************************************************************************)
EXTENDS Naturals, Sequences

CONSTANTS Message,     \* message ids
          Post,        \* posts of a message; two may have one id
          Update,      \* choices in the model menu
          Model, Cloud, \* models, and those served by the cloud
          FirstModel,  \* the model of a new session
          FirstKey,    \* whether a key is in the environment or the keychain
          IdCap        \* 128 in the code

VARIABLES
  recent,      \* RecentIDs.order
  activeModel, switchedModel, \* of the session; "none" is the empty string
  route,       \* the side RuntimeClient sends requests to
  keyKnown,    \* whether credentials.Resolver finds a key
  running,
  runModel,    \* the model of the last run that was started
  id,          \* id[p]: the message of post p, or "none"
  pc,          \* where the handler of a request is, or how it was answered
  target,      \* target[q]: the model that request is switching to
  dialog,      \* the request whose retry the key dialog holds, or "none"
  runs,        \* history: runs[m] counts the runs of message m
  dropped,     \* history: ids that left recent
  crossed      \* history: a switch was under way when another switch, or a run, began

serverVars == <<recent, activeModel, switchedModel, route, keyKnown, running, runModel>>
pageVars == <<dialog, id>>
history == <<runs, dropped, crossed>>
vars == <<serverVars, pageVars, history, pc, target>>

Request == Post \cup Update
Side(m) == IF m \in Cloud THEN "cloud" ELSE "local"
Settled == {"new", "queued", "duplicate", "conflict", "failed", "keyless", "set"}
Switching(q) == pc[q] \in {"activate", "apply"}

Init ==
  /\ recent = <<>> /\ activeModel = FirstModel /\ switchedModel = "none"
  /\ route = "local" /\ keyKnown = FirstKey
  /\ running = FALSE /\ runModel = "none"
  /\ pc = [q \in Request |-> "new"] /\ target = [q \in Request |-> "none"]
  /\ dialog = "none" /\ id = [p \in Post |-> "none"]
  /\ runs = [m \in Message |-> 0] /\ dropped = {} /\ crossed = FALSE

Goto(q, label) == pc' = [pc EXCEPT ![q] = label]

-----------------------------------------------------------------------------
(* The page.                                                               *)

NextPost == CHOOSE p \in Post : pc[p] = "new" \* posts are named as they come

\* The composer makes a new id.  A client of the API that has not read an answer
\* may post the message again under its id, while the first is being handled too.
Send(p, m) ==
  /\ p \in Post /\ pc[p] = "new" /\ p = NextPost
  /\ id' = [id EXCEPT ![p] = m] /\ Goto(p, "posted")
  /\ UNCHANGED <<serverVars, dialog, history, target>>

Choose(u, model) ==
  /\ u \in Update /\ pc[u] = "new"
  /\ target' = [target EXCEPT ![u] = model] /\ Goto(u, "posted")
  /\ UNCHANGED <<serverVars, pageVars, history>>

\* The key dialog posts the key, which the cloud has to accept, and repeats the
\* request it was opened for: a message under the id it had.
SaveKey ==
  /\ dialog # "none"
  /\ keyKnown' = TRUE /\ dialog' = "none" /\ Goto(dialog, "posted")
  /\ UNCHANGED <<recent, activeModel, switchedModel, route, running, runModel, id, history,
                 target>>

CancelKey ==
  /\ dialog # "none" /\ dialog' = "none"
  /\ UNCHANGED <<serverVars, id, history, pc, target>>

-----------------------------------------------------------------------------
(* handlePostMessage.                                                      *)

\* Defect: an id counts only while a run is going on.
seenRunning(m) == running /\ \E i \in DOMAIN recent : recent[i] = m

seen(m) == \E i \in DOMAIN recent : recent[i] = m
Full == Len(recent) = IdCap

\* allowMessageID: the id is kept whatever becomes of the message.
SeenOrAdd(p) ==
  /\ p \in Post /\ pc[p] = "posted"
  /\ IF seen(id[p])
       THEN Goto(p, "duplicate") /\ UNCHANGED <<recent, dropped>>
       ELSE /\ recent' = Append(IF Full THEN Tail(recent) ELSE recent, id[p])
            /\ dropped' = IF Full THEN dropped \cup ({Head(recent)} \ {id[p]}) ELSE dropped
            /\ Goto(p, "recorded")
  /\ UNCHANGED <<activeModel, switchedModel, route, keyKnown, running, runModel, pageVars,
                 runs, crossed, target>>

modelSwitchCurrent == switchedModel # "none" /\ switchedModel = activeModel

CheckModel(p) ==
  /\ p \in Post /\ pc[p] = "recorded"
  /\ Goto(p, IF modelSwitchCurrent THEN "ready" ELSE "stale")
  /\ UNCHANGED <<serverVars, pageVars, history, target>>

\* The model is read again for Activate.
ReadModel(p) ==
  /\ p \in Post /\ pc[p] = "stale"
  /\ target' = [target EXCEPT ![p] = activeModel] /\ Goto(p, "activate")
  /\ crossed' = (crossed \/ \E q \in Request \ {p} : Switching(q))
  /\ UNCHANGED <<serverVars, pageVars, runs, dropped>>

StartRun(p) ==
  /\ p \in Post /\ pc[p] = "ready"
  /\ IF running
       THEN Goto(p, "conflict") /\ UNCHANGED <<running, runModel, runs, crossed>>
       ELSE /\ running' = TRUE /\ runModel' = activeModel
            /\ runs' = [runs EXCEPT ![id[p]] = @ + 1]
            /\ crossed' = (crossed \/ \E q \in Request : Switching(q))
            /\ Goto(p, "queued")
  /\ UNCHANGED <<recent, activeModel, switchedModel, route, keyKnown, pageVars, dropped,
                 target>>

FinishRun ==
  /\ running /\ running' = FALSE
  /\ UNCHANGED <<recent, activeModel, switchedModel, route, keyKnown, runModel, pageVars,
                 history, pc, target>>

-----------------------------------------------------------------------------
(* handleUpdateModel up to Activate.                                       *)

mayChange == ~running

CheckIdle(u) ==
  /\ u \in Update /\ pc[u] = "posted"
  /\ Goto(u, IF mayChange THEN "activate" ELSE "conflict")
  /\ crossed' = (crossed \/ (mayChange /\ \E q \in Request \ {u} : Switching(q)))
  /\ UNCHANGED <<serverVars, pageVars, runs, dropped, target>>

-----------------------------------------------------------------------------
(* Activate, for both.                                                     *)

\* Without a key nothing is switched: 428, which opens the dialog.
NeedKey(q) ==
  /\ pc[q] = "activate" /\ target[q] \in Cloud /\ ~keyKnown
  /\ dialog' = q /\ Goto(q, "keyless")
  /\ UNCHANGED <<serverVars, id, history, target>>

\* The catalog, or the key's validation, fails.
FailActivate(q) ==
  /\ pc[q] = "activate" /\ Goto(q, "failed")
  /\ UNCHANGED <<serverVars, pageVars, history, target>>

SwitchRuntime(q) ==
  /\ pc[q] = "activate" /\ (target[q] \in Cloud => keyKnown)
  /\ route' = Side(target[q]) /\ Goto(q, "apply")
  /\ UNCHANGED <<recent, activeModel, switchedModel, keyKnown, running, runModel, pageVars,
                 history, target>>

\* After ShowModel has answered or failed: applyActivation.
ApplyActivation(q) ==
  /\ pc[q] = "apply"
  /\ activeModel' = target[q] /\ switchedModel' = target[q]
  /\ Goto(q, IF q \in Post THEN "ready" ELSE "set")
  /\ UNCHANGED <<recent, route, keyKnown, running, runModel, pageVars, history, target>>

Next ==
  \/ \E p \in Post : \/ \E m \in Message : Send(p, m)
                      \/ SeenOrAdd(p) \/ CheckModel(p) \/ ReadModel(p) \/ StartRun(p)
  \/ \E u \in Update : (\E model \in Model : Choose(u, model)) \/ CheckIdle(u)
  \/ \E q \in Request : NeedKey(q) \/ FailActivate(q) \/ SwitchRuntime(q) \/ ApplyActivation(q)
  \/ SaveKey \/ CancelKey \/ FinishRun

Spec == Init /\ [][Next]_vars

-----------------------------------------------------------------------------
TypeOK ==
  /\ recent \in Seq(Message) /\ Len(recent) <= IdCap
  /\ activeModel \in Model /\ switchedModel \in Model \cup {"none"}
  /\ route \in {"local", "cloud"} /\ runModel \in Model \cup {"none"}
  /\ {keyKnown, running, crossed} \subseteq BOOLEAN
  /\ pc \in [Request -> Settled \cup {"posted", "recorded", "stale", "ready", "activate",
                                      "apply"}]
  /\ target \in [Request -> Model \cup {"none"}]
  /\ dialog \in Request \cup {"none"} /\ id \in [Post -> Message \cup {"none"}]
  /\ runs \in [Message -> Nat] /\ dropped \subseteq Message

\* RecentIDs (handler.go:107): a message is run a second time only after its id
\* has been pushed out by newer ones, however requests and resends interleave.
IdsRunOnce == \A m \in Message : runs[m] > 1 => m \in dropped

\* handler.go:114-126, 246-271: a run's requests go where its model is, unless a
\* switch was under way while another was, or while a run was started.
RunsReachTheirModel == running => crossed \/ route = Side(runModel)

\* What a session promises of the messages and model changes it is posted.
RequestsRunAsAsked == IdsRunOnce /\ RunsReachTheirModel

\* The page takes a 202 for "will be run", and message_id is for "duplicate-safe
\* retry" (docs/plans/WEB-UI-UX-PRODUCT-PLAN.md:430): a message that was answered
\* so, and that nobody handles any more, has been run.
Handled(m) == \E p \in Post : id[p] = m /\ pc[p] \notin Settled
AcceptedPromptRuns ==
  \A p \in Post : pc[p] \in {"queued", "duplicate"} => runs[id[p]] > 0 \/ Handled(id[p])
=============================================================================
