--------------------------- MODULE TaskSupervisor ---------------------------
(***************************************************************************)
(* internal/tasks: the supervisor of background tasks, together with the   *)
(* code that launches them (agenttool, tasktool, the server's resume       *)
(* function) and the senders of mailbox messages (sendmessage).            *)
(*                                                                         *)
(* One action is one critical section of Supervisor.mu, or one call to the *)
(* worker observer under emitMu.  Every task has a launcher (pcL), a run   *)
(* goroutine (pcR); every message has a sender (pcM).                      *)
(*                                                                         *)
(***************************************************************************)
EXTENDS Naturals, Sequences, FiniteSets

CONSTANTS Task, Name, Msg,
          NoName,         \* no name asked for, or none registered
          Capacity,       \* DefaultMailboxCapacity
          MaxWorkers,     \* CoordinatorConfig.MaxWorkers
          LaunchesAtOnce, \* bound: launches in progress at the same time
          MaxReports,     \* bound: progress reports per task
          LaunchKinds,    \* bound: the kinds of launch explored
          MailTo          \* bound: the tasks messages are sent to

ASSUME CapacityAssumption == Capacity \in Nat \ {0}
ASSUME MaxWorkersAssumption == MaxWorkers \in Nat
ASSUME NoNameAssumption == NoName \notin Name

VARIABLES
  kind,       \* kind[t]: how t was launched; "none" before the launch
  wanted,     \* wanted[t]: the name asked for t
  status,     \* s.tasks[t]; "none": not in the map
  cancels,    \* the tasks in s.cancels
  cancelled,  \* the tasks whose context is done
  registry,   \* s.agentNameRegistry
  meta,       \* s.workerMeta: "untracked", "live" or "finished"
  mail,       \* AgentMeta.Mailbox of each task
  journal,    \* the task's mailbox.jsonl
  drained,    \* what the task's agent loop took out of its mailbox
  handed,     \* the tasks whose id was sent on taskIDCh
  outcome,    \* how run returned: "none", "ok", "error" or "panic"
  reports,    \* progress reports made so far
  app,        \* the status in state.App.Tasks
  emitMu,     \* [owner, due]: holder of emitMu and the events it must deliver
  log,        \* what the worker observer was told about each task
  pcL, pcR, pcM,
  target      \* target[m]: the task m was sent to

taskVars == <<status, cancels, cancelled, registry>>
mailVars == <<mail, journal, drained, target, pcM>>
runVars  == <<pcR, handed, outcome, reports>>
vars == <<kind, wanted, taskVars, meta, mailVars, runVars, app, emitMu, log, pcL>>

Kinds     == {"worker", "resumed", "tracked", "plain", "bash"}
Agents    == Kinds \ {"bash"}                 \* types.KindAgent
Announced == {"worker", "resumed", "tracked"} \* kinds SetWorkerMeta is called for
Terminal  == {"completed", "failed", "killed"}
Live      == {"pending", "running"}

NoTask  == "no task"
Nobody  == <<"nobody">>
Launcher(t) == <<"launcher", t>>
Runner(t)   == <<"runner", t>>
Sender(m)   == <<"sender", m>>

ASSUME BoundsAssumption ==
  MaxReports \in Nat /\ LaunchKinds \subseteq Kinds /\ MailTo \subseteq Task
ASSUME NoTaskAssumption == NoTask \notin Task

EmptyBox == [made |-> FALSE, queue |-> <<>>, seen |-> {}]

Init ==
  /\ kind = [t \in Task |-> "none"]
  /\ wanted = [t \in Task |-> NoName]
  /\ status = [t \in Task |-> "none"]
  /\ cancels = {} /\ cancelled = {} /\ handed = {}
  /\ registry = [n \in Name |-> NoTask]
  /\ meta = [t \in Task |-> "untracked"]
  /\ mail = [t \in Task |-> EmptyBox]
  /\ journal = [t \in Task |-> <<>>]
  /\ drained = [t \in Task |-> <<>>]
  /\ outcome = [t \in Task |-> "none"]
  /\ reports = [t \in Task |-> 0]
  /\ app = [t \in Task |-> "none"]
  /\ emitMu = [owner |-> Nobody, due |-> <<>>]
  /\ log = [t \in Task |-> <<>>]
  /\ pcL = [t \in Task |-> "idle"]
  /\ pcR = [t \in Task |-> "none"]
  /\ pcM = [m \in Msg |-> "idle"]
  /\ target = [m \in Msg |-> NoTask]

GoL(t, to) == pcL' = [pcL EXCEPT ![t] = to]
GoR(t, to) == pcR' = [pcR EXCEPT ![t] = to]
GoM(m, to) == pcM' = [pcM EXCEPT ![m] = to]

-----------------------------------------------------------------------------
(* emitMu.  An emitter takes emitMu, fixes its events under s.mu, releases *)
(* s.mu and then calls the observer, still holding emitMu.  It goes on     *)
(* only when its last event is delivered.                                  *)

EmitFree == emitMu.owner = Nobody
Owes(p)  == emitMu.owner = p

\* Defect: the snapshot is taken from the store instead of the task map.
EventFromStore(t, what) == [task |-> t, type |-> what, status |-> app[t]]

Event(t, what) == [task |-> t, type |-> what, status |-> status[t]]

Emit(p, events) ==
  emitMu' = IF events = <<>> THEN emitMu ELSE [owner |-> p, due |-> events]

\* fn(WorkerEvent{...}): the observer is called outside s.mu.
Observe ==
  /\ ~EmitFree
  /\ LET e == Head(emitMu.due) IN
       /\ log' = [log EXCEPT ![e.task] = Append(@, e)]
       /\ emitMu' = IF Len(emitMu.due) = 1
                    THEN [owner |-> Nobody, due |-> <<>>]
                    ELSE [emitMu EXCEPT !.due = Tail(@)]
  /\ UNCHANGED <<kind, wanted, taskVars, meta, mailVars, runVars, app, pcL>>

-----------------------------------------------------------------------------
(* Launching.                                                              *)

LiveWorkers == {t \in Task : kind[t] \in Agents /\ status[t] \in Live}

InUse(n, t) == /\ registry[n] \notin {NoTask, t}
               /\ status[registry[n]] \in Live

Launching == {t \in Task : pcL[t] \notin {"idle", "refused", "done"}}

\* Agent tool in coordinator mode: the limit and CheckName are asked before
\* anything starts; the other launchers go straight to Start.
Launch(t, k, n) ==
  /\ pcL[t] = "idle"
  /\ Cardinality(Launching) < LaunchesAtOnce
  /\ k # "worker" => n = NoName
  /\ kind' = [kind EXCEPT ![t] = k]
  /\ wanted' = [wanted EXCEPT ![t] = n]
  /\ IF k = "worker" /\ \/ Cardinality(LiveWorkers) >= MaxWorkers
                        \/ n # NoName /\ InUse(n, t)
     THEN GoL(t, "refused")
     ELSE GoL(t, "start")
  /\ UNCHANGED <<taskVars, meta, mailVars, runVars, app, emitMu, log>>

\* Start: what can fail is done before the task becomes visible.
StartFails(t) ==
  /\ pcL[t] = "start"
  /\ GoL(t, "refused")
  /\ UNCHANGED <<kind, wanted, taskVars, meta, mailVars, runVars, app, emitMu, log>>

StartPending(t) ==
  /\ pcL[t] = "start"
  /\ status' = [status EXCEPT ![t] = "pending"]
  /\ cancels' = cancels \cup {t}
  /\ GoL(t, "publish pending")
  /\ UNCHANGED <<kind, wanted, cancelled, registry, meta, mailVars, runVars, app, emitMu, log>>

StartRunning(t) ==
  /\ pcL[t] = "run"
  /\ status' = [status EXCEPT ![t] = "running"]
  /\ GoL(t, "publish running")
  /\ UNCHANGED <<kind, wanted, cancels, cancelled, registry, meta, mailVars, runVars, app, emitMu, log>>

\* What the launcher does once Start returned: register a name, announce the
\* worker, or nothing more.
AfterStart(t) ==
  CASE wanted[t] # NoName       -> "register"
    [] wanted[t] = NoName /\ kind[t] \in Announced -> "announce"
    [] OTHER                    -> "done"

\* publish(p.ToSummary()) and publish(r.ToSummary()), the latter followed by
\* the go statement.
PublishLaunch(t) ==
  \/ /\ pcL[t] = "publish pending"
     /\ app' = [app EXCEPT ![t] = "pending"]
     /\ GoL(t, "run")
     /\ UNCHANGED <<kind, wanted, taskVars, meta, mailVars, runVars, emitMu, log>>
  \/ /\ pcL[t] = "publish running"
     /\ app' = [app EXCEPT ![t] = "running"]
     /\ GoL(t, AfterStart(t))
     /\ GoR(t, IF kind[t] \in Announced THEN "wait id" ELSE "work")
     /\ UNCHANGED <<kind, wanted, taskVars, meta, mailVars, handed, outcome, reports, emitMu, log>>

\* Defect: RegisterName trusts the earlier CheckName.
RegisterNameUnchecked(t) ==
  /\ pcL[t] = "register"
  /\ registry' = [registry EXCEPT ![wanted[t]] = t]
  /\ GoL(t, "announce")
  /\ UNCHANGED <<kind, wanted, status, cancels, cancelled, meta, mailVars, runVars, app, emitMu, log>>

RegisterName(t) ==
  /\ pcL[t] = "register"
  /\ IF InUse(wanted[t], t)
     THEN /\ GoL(t, "lost")
          /\ UNCHANGED registry
     ELSE /\ registry' = [registry EXCEPT ![wanted[t]] = t]
          /\ GoL(t, "announce")
  /\ UNCHANGED <<kind, wanted, status, cancels, cancelled, meta, mailVars, runVars, app, emitMu, log>>

\* The name was lost to another launch: stop the task, return the error.
StopLost(t) ==
  /\ pcL[t] = "lost"
  /\ cancelled' = IF t \in cancels THEN cancelled \cup {t} ELSE cancelled
  /\ GoL(t, "refused")
  /\ UNCHANGED <<kind, wanted, status, cancels, registry, meta, mailVars, runVars, app, emitMu, log>>

\* Defect: SetWorkerMeta does not look whether the task already ended.
SetWorkerMetaBlindly(t) ==
  /\ pcL[t] = "announce"
  /\ EmitFree
  /\ meta' = [meta EXCEPT ![t] = "live"]
  /\ Emit(Launcher(t), <<Event(t, "started")>>)
  /\ GoL(t, "hand over id")
  /\ UNCHANGED <<kind, wanted, taskVars, mailVars, runVars, app, log>>

\* SetWorkerMeta: a task that already ended is announced and finished at once.
SetWorkerMeta(t) ==
  /\ pcL[t] = "announce"
  /\ EmitFree
  /\ LET ended == status[t] \in Terminal IN
       /\ meta' = [meta EXCEPT ![t] = IF ended THEN "finished" ELSE "live"]
       /\ Emit(Launcher(t), IF ended THEN <<Event(t, "started"), Event(t, "finished")>>
                                     ELSE <<Event(t, "started")>>)
  /\ GoL(t, "hand over id")
  /\ UNCHANGED <<kind, wanted, taskVars, mailVars, runVars, app, log>>

\* taskIDCh <- id: the channel is buffered, the send never blocks.
HandOverID(t) ==
  /\ pcL[t] = "hand over id"
  /\ ~Owes(Launcher(t))
  /\ handed' = handed \cup {t}
  /\ GoL(t, "done")
  /\ UNCHANGED <<kind, wanted, taskVars, meta, mailVars, pcR, outcome, reports, app, emitMu, log>>

-----------------------------------------------------------------------------
(* The run goroutine.                                                      *)

AwaitID(t) ==
  /\ pcR[t] = "wait id"
  /\ \/ /\ t \in handed
        /\ GoR(t, "work")
        /\ UNCHANGED outcome
     \/ /\ t \in cancelled
        /\ GoR(t, "end")
        /\ outcome' = [outcome EXCEPT ![t] = "error"]
  /\ UNCHANGED <<kind, wanted, taskVars, meta, mailVars, handed, reports, app, emitMu, log, pcL>>

Working(t) == pcR[t] = "work" /\ ~Owes(Runner(t))

\* ReportWorkerProgress, for the kinds that know their own id.
ReportProgress(t) ==
  /\ Working(t)
  /\ kind[t] \in Announced
  /\ reports[t] < MaxReports
  /\ EmitFree
  /\ reports' = [reports EXCEPT ![t] = @ + 1]
  /\ Emit(Runner(t), IF meta[t] = "live" THEN <<Event(t, "progress")>> ELSE <<>>)
  /\ UNCHANGED <<kind, wanted, taskVars, meta, mailVars, pcR, handed, outcome, app, log, pcL>>

\* The agent's Terminal event: usage is reported, then run returns.
ReportUsage(t) ==
  /\ Working(t)
  /\ kind[t] \in Announced
  /\ EmitFree
  /\ Emit(Runner(t), IF meta[t] = "live" THEN <<Event(t, "usage")>> ELSE <<>>)
  /\ GoR(t, "return")
  /\ UNCHANGED <<kind, wanted, taskVars, meta, mailVars, handed, outcome, reports, app, log, pcL>>

\* run returns, or panics anywhere in its work.
RunEnds(t, how) ==
  /\ \/ Working(t) /\ (kind[t] \in Announced => how # "ok")
     \/ pcR[t] = "return" /\ ~Owes(Runner(t)) /\ how # "panic"
  /\ outcome' = [outcome EXCEPT ![t] = how]
  /\ GoR(t, "end")
  /\ UNCHANGED <<kind, wanted, taskVars, meta, mailVars, handed, reports, app, emitMu, log, pcL>>

Verdict(t) == CASE outcome[t] = "panic" -> "failed"
                [] outcome[t] # "panic" /\ t \in cancelled -> "killed"
                [] outcome[t] = "error" /\ t \notin cancelled -> "failed"
                [] OTHER -> "completed"

Settle(t) ==
  /\ pcR[t] = "end"
  /\ cancels' = cancels \ {t}
  /\ IF status[t] = "running"
     THEN /\ status' = [status EXCEPT ![t] = Verdict(t)]
          /\ GoR(t, IF kind[t] \in Agents THEN "report finished" ELSE "publish")
     ELSE /\ GoR(t, "done")
          /\ UNCHANGED status
  /\ UNCHANGED <<kind, wanted, cancelled, registry, meta, mailVars, handed, outcome, reports, app, emitMu, log, pcL>>

\* Defect: reportWorkerFinished does not look whether finished was sent.
ReportFinishedTwice(t) ==
  /\ pcR[t] = "report finished"
  /\ EmitFree
  /\ IF meta[t] # "untracked"
     THEN /\ meta' = [meta EXCEPT ![t] = "finished"]
          /\ Emit(Runner(t), <<Event(t, "finished")>>)
     ELSE UNCHANGED <<meta, emitMu>>
  /\ GoR(t, "publish")
  /\ UNCHANGED <<kind, wanted, taskVars, mailVars, handed, outcome, reports, app, log, pcL>>

\* publish, first half: reportWorkerFinished.
ReportFinished(t) ==
  /\ pcR[t] = "report finished"
  /\ EmitFree
  /\ IF meta[t] = "live"
     THEN /\ meta' = [meta EXCEPT ![t] = "finished"]
          /\ Emit(Runner(t), <<Event(t, "finished")>>)
     ELSE UNCHANGED <<meta, emitMu>>
  /\ GoR(t, "publish")
  /\ UNCHANGED <<kind, wanted, taskVars, mailVars, handed, outcome, reports, app, log, pcL>>

\* Defect: the run's own result is published instead of the task's status.
PublishEndResult(t) ==
  /\ pcR[t] = "publish"
  /\ ~Owes(Runner(t))
  /\ app' = [app EXCEPT ![t] = outcome[t]]
  /\ cancelled' = cancelled \cup {t}
  /\ GoR(t, "done")
  /\ UNCHANGED <<kind, wanted, status, cancels, registry, meta, mailVars, handed, outcome, reports, emitMu, log, pcL>>

\* publish, second half: the store; then the deferred cancel().
PublishEnd(t) ==
  /\ pcR[t] = "publish"
  /\ ~Owes(Runner(t))
  /\ app' = [app EXCEPT ![t] = status[t]]
  /\ cancelled' = cancelled \cup {t}
  /\ GoR(t, "done")
  /\ UNCHANGED <<kind, wanted, status, cancels, registry, meta, mailVars, handed, outcome, reports, emitMu, log, pcL>>

-----------------------------------------------------------------------------
(* Stopping.  Stop reads the cancel function under s.mu and calls it after *)
(* the lock is released, so the call can land at any later time; so can    *)
(* the cancel of the context Start was given, even before Start is called. *)

Stop(t) ==
  /\ pcL[t] # "idle"
  /\ t \notin cancelled
  /\ cancelled' = cancelled \cup {t}
  /\ UNCHANGED <<kind, wanted, status, cancels, registry, meta, mailVars, runVars, app, emitMu, log, pcL>>

-----------------------------------------------------------------------------
(* Mailboxes.                                                              *)

\* Defect: only the messages still queued are looked at.
DuplicateInQueue(t, m) == \E i \in 1..Len(mail[t].queue) : mail[t].queue[i] = m
Duplicate(t, m) == m \in mail[t].seen
BoxFull(t)      == Len(mail[t].queue) >= Capacity

PutMail(t, m) == mail' = [mail EXCEPT ![t] = [made  |-> TRUE,
                                              queue |-> Append(@.queue, m),
                                              seen  |-> @.seen \cup {m}]]

\* Defect: the failed message leaves the queue but stays in seenIDs.
AppendFailedHalfUndone(t, m) ==
  mail' = [mail EXCEPT ![t].seen = IF mail[t].made THEN @ \cup {m} ELSE @]

\* The JSONL append failed: a mailbox that was just made is dropped with the
\* copy of the task; an older one keeps the message although the caller gets
\* an error.
AppendFailed(t, m) == IF mail[t].made THEN PutMail(t, m) ELSE UNCHANGED mail

\* QueueMessage, called by SendMessage.  The first message makes the mailbox
\* in a copy of the task that is stored only if the JSONL append succeeds.
QueueMessage(m, t) ==
  /\ pcM[m] \in {"idle", "failed", "ok"}
  /\ target[m] \in {NoTask, t}
  /\ status[t] # "none"
  /\ target' = [target EXCEPT ![m] = t]
  /\ \/ /\ status[t] # "running" \/ (~Duplicate(t, m) /\ BoxFull(t))
        /\ GoM(m, "failed")
        /\ UNCHANGED <<mail, journal>>
     \/ /\ status[t] = "running" /\ Duplicate(t, m)
        /\ GoM(m, "ok")
        /\ UNCHANGED <<mail, journal>>
     \/ /\ status[t] = "running" /\ ~Duplicate(t, m) /\ ~BoxFull(t)
        /\ \/ /\ PutMail(t, m)
              /\ journal' = [journal EXCEPT ![t] = Append(@, m)]
              /\ GoM(m, "report")
           \/ /\ AppendFailed(t, m)
              /\ GoM(m, "failed")
              /\ UNCHANGED journal
  /\ UNCHANGED <<kind, wanted, taskVars, meta, drained, runVars, app, emitMu, log, pcL>>

\* reportWorkerMessage, after QueueMessage released s.mu.
ReportMessage(m) ==
  /\ pcM[m] = "report"
  /\ EmitFree
  /\ LET t == target[m] IN
       Emit(Sender(m), IF meta[t] = "live" THEN <<Event(t, "message")>> ELSE <<>>)
  /\ GoM(m, "reported")
  /\ UNCHANGED <<kind, wanted, taskVars, meta, mail, journal, drained, target, runVars, app, log, pcL>>

MessageQueued(m) ==
  /\ pcM[m] = "reported"
  /\ ~Owes(Sender(m))
  /\ GoM(m, "ok")
  /\ UNCHANGED <<kind, wanted, taskVars, meta, mail, journal, drained, target, runVars, app, emitMu, log, pcL>>

\* DrainMessages, called between turns by the loops given a mailbox.
DrainMessages(t) ==
  /\ Working(t)
  /\ kind[t] \in {"worker", "resumed"}
  /\ status[t] = "running"
  /\ mail[t].queue # <<>>
  /\ drained' = [drained EXCEPT ![t] = @ \o mail[t].queue]
  /\ mail' = [mail EXCEPT ![t].queue = <<>>]
  /\ UNCHANGED <<kind, wanted, taskVars, meta, journal, target, pcM, runVars, app, emitMu, log, pcL>>

-----------------------------------------------------------------------------
LauncherStep(t) ==
  \/ StartFails(t) \/ StartPending(t) \/ StartRunning(t) \/ PublishLaunch(t)
  \/ RegisterName(t) \/ StopLost(t) \/ SetWorkerMeta(t) \/ HandOverID(t)

RunnerStep(t) ==
  \/ AwaitID(t) \/ ReportUsage(t) \/ (\E how \in {"ok", "error"} : RunEnds(t, how))
  \/ Settle(t) \/ ReportFinished(t) \/ PublishEnd(t)

SenderStep(m) == ReportMessage(m) \/ MessageQueued(m)

Next ==
  \/ Observe
  \/ \E t \in Task :
       \/ \E k \in LaunchKinds, n \in Name \cup {NoName} : Launch(t, k, n)
       \/ LauncherStep(t) \/ RunnerStep(t)
       \/ ReportProgress(t) \/ RunEnds(t, "panic") \/ DrainMessages(t)
       \/ Stop(t)
  \/ \E m \in Msg : SenderStep(m) \/ \E t \in MailTo : QueueMessage(m, t)

\* The scheduler runs every goroutine that can run and sync.Mutex hands emitMu
\* to a waiter in the end; a worker's run returns, because its loop is bounded
\* in turns and its model calls in time.
Fairness ==
  /\ WF_vars(Observe)
  /\ \A t \in Task : /\ WF_vars(LauncherStep(t))
                     /\ SF_vars(SetWorkerMeta(t))
                     /\ WF_vars(RunnerStep(t))
                     /\ SF_vars(ReportUsage(t))
                     /\ SF_vars(ReportFinished(t))

Spec == Init /\ [][Next]_vars
FairSpec == Spec /\ Fairness

-----------------------------------------------------------------------------
(* Properties.                                                             *)

EventTypes == {"started", "progress", "usage", "message", "finished"}

TypeOK ==
  /\ kind \in [Task -> Kinds \cup {"none"}]
  /\ wanted \in [Task -> Name \cup {NoName}]
  /\ status \in [Task -> Live \cup Terminal \cup {"none"}]
  /\ cancels \in SUBSET Task /\ cancelled \in SUBSET Task /\ handed \in SUBSET Task
  /\ registry \in [Name -> Task \cup {NoTask}]
  /\ meta \in [Task -> {"untracked", "live", "finished"}]
  /\ mail \in [Task -> [made : BOOLEAN, queue : Seq(Msg), seen : SUBSET Msg]]
  /\ journal \in [Task -> Seq(Msg)]
  /\ drained \in [Task -> Seq(Msg)]
  /\ outcome \in [Task -> {"none", "ok", "error", "panic"}]
  /\ reports \in [Task -> 0..MaxReports]
  /\ app \in [Task -> Live \cup Terminal \cup {"none"}]
  /\ log \in [Task -> Seq([task : Task, type : EventTypes, status : Live \cup Terminal])]
  /\ pcL \in [Task -> {"idle", "refused", "start", "publish pending", "run",
                        "publish running", "register", "lost", "announce",
                        "hand over id", "done"}]
  /\ pcR \in [Task -> {"none", "wait id", "work", "return", "end",
                        "report finished", "publish", "done"}]
  /\ pcM \in [Msg -> {"idle", "failed", "report", "reported", "ok"}]
  /\ target \in [Msg -> Task \cup {NoTask}]
  /\ emitMu.due \in Seq([task : Task, type : EventTypes, status : Live \cup Terminal])
  /\ emitMu.owner \in {Nobody} \cup {Launcher(t) : t \in Task}
                     \cup {Runner(t) : t \in Task} \cup {Sender(m) : m \in Msg}

\* worker_events.go: "started precedes everything and nothing follows
\* finished", one finished for every started, whatever order the launcher, the
\* run goroutine and the senders take emitMu in.
Stream == INSTANCE WorkerStream WITH
            stream  <- [t \in Task |-> [i \in 1..Len(log[t]) |-> log[t][i].type]],
            fate    <- [t \in Task |-> IF status[t] \in Terminal THEN status[t] ELSE "none"],
            Outcome <- Terminal,
            Chatter <- {"progress", "usage", "message"}
WorkerStreamKept == Stream!Spec

\* reportWorkerFinished and SetWorkerMeta take their snapshots apart from the
\* transition, and publish writes the store apart from it too: however late they
\* come, the finished event carries the outcome the task has, and a run that is
\* over has left the same outcome in the map and in the store.
OutcomeIsTold ==
  \A t \in Task :
    /\ \A i \in 1..Len(log[t]) :
         log[t][i].type = "finished" => log[t][i].status = status[t]
    /\ pcR[t] = "done" => /\ status[t] \in Terminal
                          /\ app[t] = status[t]
                          /\ t \notin cancels

\* RegisterName: a live worker that was launched under a name is the one the
\* name resolves to, however launches and endings interleave.
NamesResolve ==
  \A t \in Task :
    (pcL[t] \in {"announce", "hand over id", "done"} /\ wanted[t] # NoName
        /\ status[t] \in Live) => registry[wanted[t]] = t

\* SetWorkerMeta and publish: an announced worker is reported finished in the
\* end, also when it was stopped before it was announced.
EveryAnnouncedWorkerFinishes ==
  \A t \in Task : (log[t] # <<>>) ~> (\E i \in 1..Len(log[t]) : log[t][i].type = "finished")

Received(t) == drained[t] \o mail[t].queue
Elements(s) == {s[i] : i \in 1..Len(s)}

\* Mailbox.Enqueue, retries and failed appends: no message reaches the worker
\* twice, and the JSONL file lists only messages the worker was given, in the
\* order it was given them.
MailOnceInOrder ==
  \A t \in Task :
    /\ \A i, j \in 1..Len(Received(t)) : Received(t)[i] = Received(t)[j] => i = j
    /\ Elements(journal[t]) \subseteq Elements(Received(t))
    /\ \A i, j \in 1..Len(journal[t]), k, l \in 1..Len(Received(t)) :
         (i < j /\ journal[t][i] = Received(t)[k] /\ journal[t][j] = Received(t)[l]) => k < l

\* QueueMessage returned nil, at the first call or at a retry: while the worker
\* runs the message is in its mailbox or in its conversation.
AcknowledgedMailIsKept ==
  \A m \in Msg :
    (pcM[m] = "ok" /\ status[target[m]] = "running") => m \in Elements(Received(target[m]))
=============================================================================
