------------------------- MODULE TaskSupervisorProofs -------------------------
(***************************************************************************)
(* The task supervisor, for any number of tasks, names and messages.  The  *)
(* invariant has these parts:                                              *)
(*   Emitting   emitMu: whoever holds it owes one event, or the pair       *)
(*              started, finished, about one task;                         *)
(*   Phases     how far launcher and run goroutine of a task are, against  *)
(*              the task's status, its worker's state and the store;       *)
(*   Streaming  what the observer was told about a task, and is owed;      *)
(*   NamesResolve                                                          *)
(*   Mailing    the mailbox's seen ids are the messages it ever held.      *)
(***************************************************************************)
EXTENDS TaskSupervisor, SequenceTheorems, TLAPS

Statuses == Live \cup Terminal
Events == [task : Task, type : EventTypes, status : Statuses]
Owners == {Nobody} \cup {Launcher(t) : t \in Task} \cup {Runner(t) : t \in Task}
                   \cup {Sender(m) : m \in Msg}

\* emitMu is free exactly when no event is due.
Emitting ==
  /\ emitMu \in [owner : Owners, due : Seq(Events)]
  /\ EmitFree <=> emitMu.due = <<>>

Unlaunched == {"idle", "start", "publish pending", "run", "publish running"}
Launched   == {"register", "lost", "announce", "hand over id", "done"}

\* One task: its launcher, its run goroutine, its status.
Phase(t) ==
  /\ pcL[t] \in {"idle", "start"} => status[t] = "none"
  /\ pcL[t] \in {"publish pending", "run"} => status[t] = "pending"
  /\ pcL[t] = "publish running" => status[t] = "running"
  /\ pcL[t] \in Unlaunched => pcR[t] = "none"
  /\ pcL[t] \in Launched => pcR[t] # "none"
  /\ pcL[t] = "register" => wanted[t] # NoName
  /\ pcR[t] \in {"wait id", "work", "return", "end"} => status[t] = "running"
  /\ pcR[t] \in {"report finished", "publish", "done"} => status[t] \in Terminal /\ t \notin cancels
  /\ pcR[t] = "done" => app[t] = status[t]
  /\ meta[t] # "untracked" => pcL[t] \in {"hand over id", "done"}

\* One message: a sender has a task once it queued.
Sending(m) ==
  /\ target[m] # NoTask => status[target[m]] # "none"
  /\ pcM[m] \in {"report", "reported", "ok"} => target[m] # NoTask

Phases == (\A t \in Task : Phase(t)) /\ (\A m \in Msg : Sending(m))

Typed == TypeOK /\ Emitting /\ Phases

\* An event tells the outcome if it tells an ending.
Honest(e) == e.type = "finished" => status[e.task] \in Terminal /\ e.status = status[e.task]

\* What was told about t: announced first and only then, finished last.
Told(t) ==
  /\ \A i \in 1..Len(log[t]) : /\ log[t][i].type = "started" <=> i = 1
                               /\ log[t][i].type = "finished" => i = Len(log[t])
                               /\ log[t][i].task = t /\ Honest(log[t][i])
  /\ \A i \in 1..Len(log[t]) : log[t][i].type = "finished" => meta[t] = "finished"
  /\ meta[t] = "untracked" => log[t] = <<>>
  /\ (meta[t] # "untracked" /\ EmitFree) => log[t] # <<>>

\* What is due: an announcement, perhaps with its ending, or one event of a
\* worker that was announced and not reported finished.
AtMostAPair ==
  /\ Len(emitMu.due) <= 2
  /\ Len(emitMu.due) = 2 => emitMu.due[1].type = "started" /\ emitMu.due[2].type = "finished"

Due ==
  /\ AtMostAPair
  /\ emitMu.due # <<>> =>
       LET e == emitMu.due[1] IN
         /\ \A i \in 1..Len(emitMu.due) : emitMu.due[i].task = e.task /\ Honest(emitMu.due[i])
         /\ \A t \in Task \ {e.task} : meta[t] # "untracked" => log[t] # <<>>
         /\ meta[e.task] # "untracked"
         /\ IF e.type = "started"
            THEN log[e.task] = <<>>
            ELSE /\ log[e.task] # <<>> /\ Len(emitMu.due) = 1
                 /\ \A i \in 1..Len(log[e.task]) : log[e.task][i].type # "finished"
         /\ \A i \in 1..Len(emitMu.due) :
              emitMu.due[i].type = "finished" => meta[e.task] = "finished"

Streaming == (\A t \in Task : Told(t)) /\ Due

\* A mailbox remembers the messages it ever got, and got each once; the file
\* lists some of them, in their order; who was told the message is queued finds it.
Kept(seen, got, file) ==
  /\ seen = Elements(got)
  /\ \A i, j \in 1..Len(got) : got[i] = got[j] => i = j
  /\ Elements(file) \subseteq Elements(got)
  /\ \A i, j \in 1..Len(file), k, l \in 1..Len(got) :
       (i < j /\ file[i] = got[k] /\ file[j] = got[l]) => k < l

Boxed(t) == Kept(mail[t].seen, Received(t), journal[t])

Mailing ==
  /\ \A t \in Task : Boxed(t)
  /\ \A m \in Msg : pcM[m] \in {"report", "reported", "ok"} => m \in mail[target[m]].seen

IInv == Typed /\ Streaming /\ NamesResolve /\ Mailing

-----------------------------------------------------------------------------
\* The state functions are functions.
Tables ==
  /\ kind = [t \in Task |-> kind[t]] /\ wanted = [t \in Task |-> wanted[t]]
  /\ status = [t \in Task |-> status[t]] /\ meta = [t \in Task |-> meta[t]]
  /\ mail = [t \in Task |-> mail[t]] /\ journal = [t \in Task |-> journal[t]]
  /\ drained = [t \in Task |-> drained[t]] /\ outcome = [t \in Task |-> outcome[t]]
  /\ reports = [t \in Task |-> reports[t]] /\ app = [t \in Task |-> app[t]]
  /\ log = [t \in Task |-> log[t]]
  /\ pcL = [t \in Task |-> pcL[t]] /\ pcR = [t \in Task |-> pcR[t]]
  /\ registry = [n \in Name |-> registry[n]]
  /\ pcM = [m \in Msg |-> pcM[m]] /\ target \in [Msg -> Task \cup {NoTask}]

\* The type invariant makes them so.
LEMMA TypesAreFunctions == TypeOK => Tables
<1> SUFFICES ASSUME TypeOK PROVE Tables
  OBVIOUS
<1>1. mail = [t \in Task |-> mail[t]] /\ log = [t \in Task |-> log[t]]
  BY DEF TypeOK
<1>2. /\ kind = [t \in Task |-> kind[t]] /\ wanted = [t \in Task |-> wanted[t]]
      /\ status = [t \in Task |-> status[t]] /\ meta = [t \in Task |-> meta[t]]
      /\ journal = [t \in Task |-> journal[t]] /\ drained = [t \in Task |-> drained[t]]
  BY ZenonT(60) DEF TypeOK
<1>3. /\ outcome = [t \in Task |-> outcome[t]] /\ reports = [t \in Task |-> reports[t]]
      /\ app = [t \in Task |-> app[t]]
      /\ pcL = [t \in Task |-> pcL[t]] /\ pcR = [t \in Task |-> pcR[t]]
  BY ZenonT(60) DEF TypeOK
<1>4. /\ registry = [n \in Name |-> registry[n]] /\ pcM = [m \in Msg |-> pcM[m]]
      /\ target \in [Msg -> Task \cup {NoTask}]
  BY DEF TypeOK
<1> QED
  BY <1>1, <1>2, <1>3, <1>4 DEF Tables

\* Launchers, run goroutines and senders are not nobody.
LEMMA SomebodyOwes ==
  /\ \A t \in Task : Launcher(t) \in Owners \ {Nobody} /\ Runner(t) \in Owners \ {Nobody}
  /\ \A m \in Msg : Sender(m) \in Owners \ {Nobody}
  BY DEF Owners, Launcher, Runner, Sender, Nobody

\* Emit hands emitMu, if there is anything to say, to who says it.
LEMMA EmitTypes ==
  ASSUME Emitting, EmitFree, NEW p \in Owners \ {Nobody}, NEW events \in Seq(Events),
         Emit(p, events)
  PROVE  Emitting' /\ emitMu'.due = events
  BY DEF Emitting, EmitFree, Emit

\* A task nobody moved stays in its phase.
LEMMA PhaseStays ==
  ASSUME NEW u \in Task, Phase(u), u \in cancels' => u \in cancels,
         pcL'[u] = pcL[u], pcR'[u] = pcR[u], status'[u] = status[u], meta'[u] = meta[u],
         app'[u] = app[u], wanted'[u] = wanted[u]
  PROVE  Phase(u)'
  BY DEF Phase, Unlaunched, Launched, Terminal

\* A message keeps its task, and a task stays in the map.
LEMMA SendingStays ==
  ASSUME Tables, NEW m \in Msg, Sending(m), pcM' = pcM, target' = target,
         \A t \in Task : status[t] # "none" => status'[t] # "none"
  PROVE  Sending(m)'
  BY DEF Sending, Tables

\* Statuses and the program counters move along together.
LEMMA PhasesStep ==
  ASSUME Tables, Phases, [Next]_vars
  PROVE  Phases'
<1> USE NoTaskAssumption, BoundsAssumption
    DEF Tables, Phases, Phase, Sending, Terminal, Unlaunched, Launched
<1>1. CASE Observe
  BY <1>1 DEF Observe, taskVars, mailVars, runVars
<1>2. ASSUME NEW t \in Task, NEW k \in LaunchKinds, NEW n \in Name \cup {NoName}, Launch(t,
        k, n) PROVE Phases'
  BY ZenonT(60), <1>2 DEF Launch, GoL, taskVars, mailVars, runVars
<1>3. ASSUME NEW t \in Task, StartFails(t) PROVE Phases'
  BY <1>3 DEF StartFails, GoL, taskVars, mailVars, runVars
<1>4. ASSUME NEW t \in Task, StartPending(t) PROVE Phases'
  <2>1. Phase(t)'
    BY <1>4 DEF StartPending, GoL, mailVars, runVars
  <2>2. ASSUME NEW u \in Task \ {t} PROVE Phase(u)'
    BY <1>4, PhaseStays DEF StartPending, GoL, mailVars, runVars
  <2>3. ASSUME NEW m \in Msg PROVE Sending(m)'
    BY <1>4, SendingStays DEF StartPending, GoL, mailVars, runVars
  <2> QED
    BY ZenonT(60), <2>1, <2>2, <2>3
<1>5. ASSUME NEW t \in Task, StartRunning(t) PROVE Phases'
  <2>1. Phase(t)'
    BY <1>5 DEF StartRunning, GoL, mailVars, runVars
  <2>2. ASSUME NEW u \in Task \ {t} PROVE Phase(u)'
    BY <1>5, PhaseStays DEF StartRunning, GoL, mailVars, runVars
  <2>3. ASSUME NEW m \in Msg PROVE Sending(m)'
    BY <1>5, SendingStays DEF StartRunning, GoL, mailVars, runVars
  <2> QED
    BY ZenonT(60), <2>1, <2>2, <2>3
<1>6. ASSUME NEW t \in Task, PublishLaunch(t) PROVE Phases'
  <2>1. Phase(t)'
    BY <1>6 DEF PublishLaunch, GoL, GoR, AfterStart, taskVars, mailVars, runVars
  <2>2. ASSUME NEW u \in Task \ {t} PROVE Phase(u)'
    BY <1>6, PhaseStays DEF PublishLaunch, GoL, GoR, taskVars, mailVars, runVars
  <2>3. ASSUME NEW m \in Msg PROVE Sending(m)'
    BY <1>6, SendingStays DEF PublishLaunch, GoL, GoR, taskVars, mailVars, runVars
  <2> QED
    BY ZenonT(60), <2>1, <2>2, <2>3
<1>7. ASSUME NEW t \in Task, RegisterName(t) PROVE Phases'
  BY ZenonT(60), <1>7 DEF RegisterName, GoL, mailVars, runVars
<1>8. ASSUME NEW t \in Task, StopLost(t) PROVE Phases'
  BY <1>8 DEF StopLost, GoL, mailVars, runVars
<1>9. ASSUME NEW t \in Task, SetWorkerMeta(t) PROVE Phases'
  BY <1>9 DEF SetWorkerMeta, GoL, taskVars, mailVars, runVars
<1>10. ASSUME NEW t \in Task, HandOverID(t) PROVE Phases'
  BY <1>10 DEF HandOverID, GoL, taskVars, mailVars
<1>11. ASSUME NEW t \in Task, AwaitID(t) PROVE Phases'
  <2>1. Phase(t)'
    BY <1>11 DEF AwaitID, GoR, taskVars, mailVars
  <2>2. ASSUME NEW u \in Task \ {t} PROVE Phase(u)'
    BY <1>11, PhaseStays DEF AwaitID, GoR, taskVars, mailVars
  <2>3. ASSUME NEW m \in Msg PROVE Sending(m)'
    BY <1>11, SendingStays DEF AwaitID, GoR, taskVars, mailVars
  <2> QED
    BY ZenonT(60), <2>1, <2>2, <2>3
<1>12. ASSUME NEW t \in Task, ReportUsage(t) PROVE Phases'
  BY <1>12 DEF ReportUsage, GoR, Working, taskVars, mailVars
<1>13. ASSUME NEW t \in Task, NEW how \in {"ok", "error", "panic"}, RunEnds(t, how) PROVE
        Phases'
  BY <1>13 DEF RunEnds, GoR, Working, taskVars, mailVars
<1>14. ASSUME NEW t \in Task, Settle(t) PROVE Phases'
  <2>1. Phase(t)'
    BY <1>14 DEF Settle, GoR, Verdict, mailVars
  <2>2. ASSUME NEW u \in Task \ {t} PROVE Phase(u)'
    BY <1>14, PhaseStays DEF Settle, GoR, mailVars
  <2>3. ASSUME NEW m \in Msg PROVE Sending(m)'
    <3>1. Verdict(t) # "none"
      BY DEF Verdict
    <3> QED
      BY ZenonT(60), <1>14, <3>1, SendingStays DEF Settle, GoR, mailVars
  <2> QED
    BY ZenonT(60), <2>1, <2>2, <2>3
<1>15. ASSUME NEW t \in Task, ReportFinished(t) PROVE Phases'
  <2>1. Phase(t)'
    BY <1>15 DEF ReportFinished, GoR, taskVars, mailVars
  <2>2. ASSUME NEW u \in Task \ {t} PROVE Phase(u)'
    BY <1>15, PhaseStays DEF ReportFinished, GoR, taskVars, mailVars
  <2>3. ASSUME NEW m \in Msg PROVE Sending(m)'
    BY <1>15, SendingStays DEF ReportFinished, GoR, taskVars, mailVars
  <2> QED
    BY ZenonT(60), <2>1, <2>2, <2>3
<1>16. ASSUME NEW t \in Task, PublishEnd(t) PROVE Phases'
  BY <1>16 DEF PublishEnd, GoR, mailVars
<1>17. ASSUME NEW t \in Task, ReportProgress(t) PROVE Phases'
  BY <1>17 DEF ReportProgress, Working, taskVars, mailVars
<1>18. ASSUME NEW t \in Task, DrainMessages(t) PROVE Phases'
  BY <1>18 DEF DrainMessages, Working, taskVars, runVars
<1>19. ASSUME NEW t \in Task, Stop(t) PROVE Phases'
  BY <1>19 DEF Stop, mailVars, runVars
<1>20. ASSUME NEW m \in Msg, ReportMessage(m) PROVE Phases'
  BY <1>20 DEF ReportMessage, GoM, taskVars, runVars
<1>21. ASSUME NEW m \in Msg, MessageQueued(m) PROVE Phases'
  BY <1>21 DEF MessageQueued, GoM, taskVars, runVars
<1>22. ASSUME NEW m \in Msg, NEW t \in MailTo, QueueMessage(m, t) PROVE Phases'
  BY ZenonT(60), <1>22 DEF QueueMessage, GoM, taskVars, runVars
<1>23. CASE UNCHANGED vars
  BY <1>23 DEF vars, taskVars, mailVars, runVars
<1> QED
  BY <1>1, <1>2, <1>3, <1>4, <1>5, <1>6, <1>7, <1>8, <1>9, <1>10, <1>11, <1>12,
     <1>13, <1>14, <1>15, <1>16, <1>17, <1>18, <1>19, <1>20, <1>21, <1>22, <1>23
     DEF Next, LauncherStep, RunnerStep, SenderStep

\* What is due at once fits a sequence of events.
LEMMA FewEvents ==
  ASSUME NEW S, NEW a \in S, NEW b \in S
  PROVE  <<>> \in Seq(S) /\ <<a>> \in Seq(S) /\ <<a, b>> \in Seq(S)
  OBVIOUS

\* The events of a task in the map are events.
LEMMA EventTypesOK ==
  ASSUME Typed, NEW t \in Task, status[t] # "none", NEW what \in EventTypes
  PROVE  Event(t, what) \in Events
<1>1. status[t] \in Statuses
  BY ZenonT(60) DEF Typed, TypeOK, Statuses
<1> QED
  BY <1>1 DEF Event, Events

\* Whoever takes emitMu owes events, and the observer hears them one by one.
LEMMA EmittingStep ==
  ASSUME Typed, [Next]_vars
  PROVE  Emitting'
<1>1. CASE Observe
  <2>1. emitMu.due \in Seq(Events) /\ emitMu.due # <<>>
    BY <1>1 DEF Typed, Emitting, Observe
  <2>2. CASE Len(emitMu.due) = 1
    <3>1. emitMu' = [owner |-> Nobody, due |-> <<>>]
      BY <1>1, <2>2 DEF Observe
    <3>2. Nobody \in Owners /\ <<>> \in Seq(Events)
      BY DEF Owners
    <3> QED
      BY <3>1, <3>2 DEF Emitting, EmitFree
  <2>3. CASE Len(emitMu.due) # 1
    <3>1. emitMu' = [emitMu EXCEPT !.due = Tail(emitMu.due)]
      BY <1>1, <2>3 DEF Observe
    <3>2. Len(emitMu.due) \in Nat \ {0}
      BY <2>1, EmptySeq
    <3>3. Tail(emitMu.due) \in Seq(Events) /\ Len(Tail(emitMu.due)) # 0
      BY <2>1, <2>3, <3>2, HeadTailProperties
    <3>4. Tail(emitMu.due) # <<>>
      BY <3>3, EmptySeq
    <3> QED
      BY <1>1, <3>1, <3>3, <3>4 DEF Typed, Emitting, EmitFree, Observe
  <2> QED
    BY <2>2, <2>3
<1>2. ASSUME NEW t \in Task, SetWorkerMeta(t) PROVE Emitting'
  <2>1. status[t] # "none"
    BY <1>2 DEF SetWorkerMeta, Typed, Phases, Phase, Launched, Terminal, TypeOK
  <2>2. Event(t, "started") \in Events /\ Event(t, "finished") \in Events
    BY <2>1, EventTypesOK DEF EventTypes
  <2>3. PICK events \in Seq(Events) : Emit(Launcher(t), events)
    <3>1. \/ Emit(Launcher(t), <<Event(t, "started")>>)
          \/ Emit(Launcher(t), <<Event(t, "started"), Event(t, "finished")>>)
      BY <1>2 DEF SetWorkerMeta
    <3> QED
      BY <2>2, <3>1, FewEvents
  <2> QED
    BY <1>2, <2>3, EmitTypes, SomebodyOwes DEF SetWorkerMeta, Typed
<1>3. ASSUME NEW t \in Task, ReportProgress(t) \/ ReportUsage(t) PROVE Emitting'
  <2>1. status[t] # "none"
    BY <1>3 DEF ReportProgress, ReportUsage, Working, Typed, Phases, Phase
  <2>2. Event(t, "progress") \in Events /\ Event(t, "usage") \in Events
    BY <2>1, EventTypesOK DEF EventTypes
  <2>3. PICK events \in Seq(Events) : Emit(Runner(t), events)
    <3>1. \/ Emit(Runner(t), <<>>) \/ Emit(Runner(t), <<Event(t, "progress")>>)
          \/ Emit(Runner(t), <<Event(t, "usage")>>)
      BY <1>3 DEF ReportProgress, ReportUsage
    <3> QED
      BY <2>2, <3>1, FewEvents
  <2> QED
    BY <1>3, <2>3, EmitTypes, SomebodyOwes DEF ReportProgress, ReportUsage, Typed
<1>4. ASSUME NEW t \in Task, ReportFinished(t) PROVE Emitting'
  <2>1. status[t] # "none"
    BY <1>4 DEF ReportFinished, Terminal, Typed, Phases, Phase
  <2>2. Event(t, "finished") \in Events
    BY <2>1, EventTypesOK DEF EventTypes
  <2>3. PICK events \in Seq(Events) : Emit(Runner(t), events)
    <3>1. Emit(Runner(t), <<>>) \/ Emit(Runner(t), <<Event(t, "finished")>>)
      BY <1>4 DEF ReportFinished, Emit
    <3> QED
      BY <2>2, <3>1, FewEvents
  <2> QED
    BY <1>4, <2>3, EmitTypes, SomebodyOwes DEF ReportFinished, Typed
<1>5. ASSUME NEW m \in Msg, ReportMessage(m) PROVE Emitting'
  <2>1. target[m] \in Task /\ status[target[m]] # "none"
    BY <1>5 DEF ReportMessage, Typed, Phases, Sending, TypeOK
  <2>2. Event(target[m], "message") \in Events
    BY <2>1, EventTypesOK DEF EventTypes
  <2>3. PICK events \in Seq(Events) : Emit(Sender(m), events)
    <3>1. Emit(Sender(m), <<>>) \/ Emit(Sender(m), <<Event(target[m], "message")>>)
      BY <1>5 DEF ReportMessage
    <3> QED
      BY <2>2, <3>1, FewEvents
  <2> QED
    BY <1>5, <2>3, EmitTypes, SomebodyOwes DEF ReportMessage, Typed
<1>6. CASE UNCHANGED emitMu
  BY <1>6 DEF Typed, Emitting, EmitFree
<1> QED
  BY <1>1, <1>2, <1>3, <1>4, <1>5, <1>6
     DEF Next, LauncherStep, RunnerStep, SenderStep, vars, Launch, StartFails, StartPending,
         StartRunning, PublishLaunch, RegisterName, StopLost, HandOverID, AwaitID, RunEnds,
         Settle, PublishEnd, DrainMessages, Stop, MessageQueued, QueueMessage

\* The type invariant, variable by variable.
TaskTypes ==
  /\ kind \in [Task -> Kinds \cup {"none"}] /\ wanted \in [Task -> Name \cup {NoName}]
  /\ status \in [Task -> Live \cup Terminal \cup {"none"}]
  /\ cancels \in SUBSET Task /\ cancelled \in SUBSET Task /\ handed \in SUBSET Task
  /\ registry \in [Name -> Task \cup {NoTask}]
  /\ meta \in [Task -> {"untracked", "live", "finished"}]
  /\ outcome \in [Task -> {"none", "ok", "error", "panic"}]
  /\ reports \in [Task -> 0..MaxReports]
  /\ app \in [Task -> Live \cup Terminal \cup {"none"}]
  /\ pcL \in [Task -> {"idle", "refused", "start", "publish pending", "run",
                        "publish running", "register", "lost", "announce",
                        "hand over id", "done"}]
  /\ pcR \in [Task -> {"none", "wait id", "work", "return", "end",
                        "report finished", "publish", "done"}]

MailTypes ==
  /\ mail \in [Task -> [made : BOOLEAN, queue : Seq(Msg), seen : SUBSET Msg]]
  /\ journal \in [Task -> Seq(Msg)] /\ drained \in [Task -> Seq(Msg)]
  /\ pcM \in [Msg -> {"idle", "failed", "report", "reported", "ok"}]
  /\ target \in [Msg -> Task \cup {NoTask}]

LogTypes == log \in [Task -> Seq(Events)]

\* Together, and with emitMu's, they are the type invariant.
LEMMA TypesTogether ==
  ASSUME Emitting
  PROVE  TypeOK <=> TaskTypes /\ MailTypes /\ LogTypes
  BY DEF TypeOK, TaskTypes, MailTypes, LogTypes, Emitting, Events, Owners, Statuses

\* Launchers and run goroutines keep the types of a task.
LEMMA TaskTypesStep ==
  ASSUME TaskTypes, Phases, [Next]_vars
  PROVE  TaskTypes'
<1> USE BoundsAssumption DEF TaskTypes
<1>1. ASSUME NEW t \in Task, NEW k \in LaunchKinds, NEW n \in Name \cup {NoName}, Launch(t,
        k, n) PROVE TaskTypes'
  BY <1>1 DEF Launch, GoL, taskVars, runVars
<1>2. ASSUME NEW t \in Task, StartFails(t) PROVE TaskTypes'
  BY <1>2 DEF StartFails, GoL, taskVars, runVars
<1>3. ASSUME NEW t \in Task, StartPending(t) PROVE TaskTypes'
  BY <1>3 DEF StartPending, GoL, runVars, Live
<1>4. ASSUME NEW t \in Task, StartRunning(t) PROVE TaskTypes'
  BY <1>4 DEF StartRunning, GoL, runVars, Live
<1>5. ASSUME NEW t \in Task, PublishLaunch(t) PROVE TaskTypes'
  <2>1. AfterStart(t) \in {"register", "announce", "done"}
    BY DEF AfterStart
  <2>2. CASE pcL[t] = "publish pending"
    BY ZenonT(60), <1>5, <2>2 DEF PublishLaunch, GoL, taskVars, runVars, Live
  <2>3. CASE pcL[t] = "publish running"
    <3>1. /\ app' = [app EXCEPT ![t] = "running"] /\ pcL' = [pcL EXCEPT ![t] = AfterStart(t)]
          /\ pcR' = [pcR EXCEPT ![t] = "wait id"] \/ pcR' = [pcR EXCEPT ![t] = "work"]
      BY <1>5, <2>3 DEF PublishLaunch, GoL, GoR
    <3>2. UNCHANGED <<kind, wanted, taskVars, meta, handed, outcome, reports>>
      BY <1>5, <2>3 DEF PublishLaunch
    <3> QED
      BY <2>1, <3>1, <3>2 DEF taskVars, Live
  <2> QED
    BY <1>5, <2>2, <2>3 DEF PublishLaunch
<1>6. ASSUME NEW t \in Task, RegisterName(t) PROVE TaskTypes'
  <2>1. wanted[t] \in Name
    BY ZenonT(60), <1>6 DEF RegisterName, Phases, Phase
  <2>2. registry' \in [Name -> Task \cup {NoTask}]
    BY <1>6, <2>1 DEF RegisterName
  <2> QED
    BY ZenonT(60), <1>6, <2>2 DEF RegisterName, GoL, runVars
<1>7. ASSUME NEW t \in Task, StopLost(t) PROVE TaskTypes'
  BY <1>7 DEF StopLost, GoL, runVars
<1>8. ASSUME NEW t \in Task, SetWorkerMeta(t) PROVE TaskTypes'
  BY <1>8 DEF SetWorkerMeta, GoL, taskVars, runVars
<1>9. ASSUME NEW t \in Task, HandOverID(t) PROVE TaskTypes'
  BY <1>9 DEF HandOverID, GoL, taskVars
<1>10. ASSUME NEW t \in Task, AwaitID(t) PROVE TaskTypes'
  BY <1>10 DEF AwaitID, GoR, taskVars
<1>11. ASSUME NEW t \in Task, ReportUsage(t) PROVE TaskTypes'
  BY <1>11 DEF ReportUsage, GoR, taskVars
<1>12. ASSUME NEW t \in Task, NEW how \in {"ok", "error", "panic"}, RunEnds(t, how) PROVE
        TaskTypes'
  BY <1>12 DEF RunEnds, GoR, taskVars
<1>13. ASSUME NEW t \in Task, Settle(t) PROVE TaskTypes'
  BY ZenonT(60), <1>13 DEF Settle, GoR, Verdict, Terminal
<1>14. ASSUME NEW t \in Task, ReportFinished(t) PROVE TaskTypes'
  BY <1>14 DEF ReportFinished, GoR, taskVars
<1>15. ASSUME NEW t \in Task, PublishEnd(t) PROVE TaskTypes'
  BY <1>15 DEF PublishEnd, GoR, Phases, Phase
<1>16. ASSUME NEW t \in Task, ReportProgress(t) PROVE TaskTypes'
  <2>1. reports[t] + 1 \in 0..MaxReports
    <3>1. reports[t] \in 0..MaxReports /\ reports[t] < MaxReports
      BY <1>16 DEF ReportProgress
    <3> HIDE DEF TaskTypes
    <3> QED
      BY <3>1
  <2> QED
    BY <1>16, <2>1 DEF ReportProgress, taskVars
<1>17. ASSUME NEW t \in Task, Stop(t) PROVE TaskTypes'
  BY <1>17 DEF Stop, runVars
<1>18. CASE UNCHANGED <<kind, wanted, taskVars, handed, meta, outcome, reports, app, pcL, pcR>>
  BY <1>18 DEF taskVars
<1> QED
  BY <1>1, <1>2, <1>3, <1>4, <1>5, <1>6, <1>7, <1>8, <1>9, <1>10, <1>11, <1>12,
     <1>13, <1>14, <1>15, <1>16, <1>17, <1>18
     DEF Next, LauncherStep, RunnerStep, SenderStep, vars, taskVars, runVars, Observe,
         DrainMessages, ReportMessage, MessageQueued, QueueMessage

\* A mailbox after a message went in, and after a drain.
LEMMA PutBox ==
  ASSUME NEW t \in Task, NEW m \in Msg, PutMail(t, m),
         mail \in [Task -> [made : BOOLEAN, queue : Seq(Msg), seen : SUBSET Msg]]
  PROVE  /\ mail' \in [Task -> [made : BOOLEAN, queue : Seq(Msg), seen : SUBSET Msg]]
         /\ mail'[t].queue = Append(mail[t].queue, m)
         /\ mail'[t].seen = mail[t].seen \cup {m}
         /\ \A u \in Task \ {t} : mail'[u] = mail[u]
<1> DEFINE new == [made  |-> TRUE, queue |-> Append(mail[t].queue, m),
                   seen  |-> mail[t].seen \cup {m}]
<1>1. new \in [made : BOOLEAN, queue : Seq(Msg), seen : SUBSET Msg]
  <2>1. mail[t].queue \in Seq(Msg) /\ mail[t].seen \in SUBSET Msg
    OBVIOUS
  <2>2. Append(mail[t].queue, m) \in Seq(Msg)
    BY <2>1, AppendProperties
  <2>3. mail[t].seen \cup {m} \in SUBSET Msg
    BY <2>1
  <2> QED
    BY <2>2, <2>3
<1>2. mail' = [mail EXCEPT ![t] = new]
  BY DEF PutMail
<1>3. new.queue = Append(mail[t].queue, m) /\ new.seen = mail[t].seen \cup {m}
  OBVIOUS
<1> HIDE DEF new
<1> QED
  BY <1>1, <1>2, <1>3

\* DrainMessages empties the queue and keeps what was seen.
LEMMA DrainBox ==
  ASSUME NEW t \in Task, mail' = [mail EXCEPT ![t].queue = <<>>],
         mail \in [Task -> [made : BOOLEAN, queue : Seq(Msg), seen : SUBSET Msg]]
  PROVE  /\ mail' \in [Task -> [made : BOOLEAN, queue : Seq(Msg), seen : SUBSET Msg]]
         /\ mail'[t].queue = <<>> /\ mail'[t].seen = mail[t].seen
         /\ \A u \in Task \ {t} : mail'[u] = mail[u]
<1> DEFINE new == [mail[t] EXCEPT !.queue = <<>>]
<1>1. mail[t] \in [made : BOOLEAN, queue : Seq(Msg), seen : SUBSET Msg]
  OBVIOUS
<1>2. /\ new \in [made : BOOLEAN, queue : Seq(Msg), seen : SUBSET Msg]
      /\ new.queue = <<>> /\ new.seen = mail[t].seen
  <2>1. new = [made |-> mail[t].made, queue |-> <<>>, seen |-> mail[t].seen]
    BY <1>1
  <2>2. <<>> \in Seq(Msg)
    BY EmptySeq
  <2> QED
    BY <1>1, <2>1, <2>2
<1>3. mail' = [mail EXCEPT ![t] = new]
  OBVIOUS
<1> HIDE DEF new
<1> QED
  BY <1>2, <1>3

\* Senders and drains keep the types of the mail.
LEMMA MailTypesStep ==
  ASSUME MailTypes, [Next]_vars
  PROVE  MailTypes'
<1> USE BoundsAssumption DEF MailTypes
<1>1. ASSUME NEW t \in Task, DrainMessages(t) PROVE MailTypes'
  <2>1. /\ mail[t] \in [made : BOOLEAN, queue : Seq(Msg), seen : SUBSET Msg]
        /\ drained[t] \o mail[t].queue \in Seq(Msg)
    BY ConcatProperties
  <2>2. mail' \in [Task -> [made : BOOLEAN, queue : Seq(Msg), seen : SUBSET Msg]]
    BY <1>1, DrainBox DEF DrainMessages
  <2> QED
    BY <1>1, <2>1, <2>2 DEF DrainMessages
<1>2. ASSUME NEW m \in Msg, ReportMessage(m) PROVE MailTypes'
  BY <1>2 DEF ReportMessage, GoM
<1>3. ASSUME NEW m \in Msg, MessageQueued(m) PROVE MailTypes'
  BY <1>3 DEF MessageQueued, GoM
<1>4. ASSUME NEW m \in Msg, NEW t \in MailTo, QueueMessage(m, t) PROVE MailTypes'
  <2>1. /\ mail[t].queue \in Seq(Msg) /\ mail[t].seen \in SUBSET Msg /\ t \in Task
        /\ journal[t] \in Seq(Msg)
    OBVIOUS
  <2>2. Append(mail[t].queue, m) \in Seq(Msg) /\ Append(journal[t], m) \in Seq(Msg)
    BY <2>1, AppendProperties
  <2>3. UNCHANGED mail \/ PutMail(t, m)
    BY <1>4 DEF QueueMessage, AppendFailed
  <2>4. mail' \in [Task -> [made : BOOLEAN, queue : Seq(Msg), seen : SUBSET Msg]]
    BY <2>1, <2>3, PutBox
  <2>5. journal' \in [Task -> Seq(Msg)]
    BY <1>4, <2>1, <2>2 DEF QueueMessage
  <2> QED
    BY <1>4, <2>1, <2>4, <2>5 DEF QueueMessage, GoM
<1>5. CASE UNCHANGED <<mailVars>>
  BY <1>5 DEF mailVars
<1> QED
  BY ZenonT(60), <1>1, <1>2, <1>3, <1>4, <1>5
     DEF Next, LauncherStep, RunnerStep, SenderStep, vars, mailVars, Observe, Launch,
         StartFails, StartPending, StartRunning, PublishLaunch, RegisterName, StopLost,
         SetWorkerMeta, HandOverID, AwaitID, ReportUsage, RunEnds, Settle, ReportFinished,
         PublishEnd, ReportProgress, Stop

\* What is heard of a task is an event of it.
LEMMA LogTypesStep ==
  ASSUME Emitting, LogTypes, [Next]_vars
  PROVE  LogTypes'
<1>1. CASE Observe
  <2>1. emitMu.due \in Seq(Events) /\ emitMu.due # <<>>
    BY <1>1 DEF Emitting, Observe
  <2>2. Head(emitMu.due) \in Events
    BY <2>1, HeadTailProperties
  <2> DEFINE e == Head(emitMu.due)
  <2>3. e.task \in Task /\ log' = [log EXCEPT ![e.task] = Append(log[e.task], e)]
    BY <1>1, <2>2 DEF Observe, Events
  <2>4. Append(log[e.task], e) \in Seq(Events)
    BY <2>2, <2>3, AppendProperties DEF LogTypes
  <2> QED
    BY <2>3, <2>4 DEF LogTypes
<1>2. CASE UNCHANGED log
  BY <1>2 DEF LogTypes
<1> QED
  BY ZenonT(60), <1>1, <1>2
     DEF Next, LauncherStep, RunnerStep, SenderStep, vars, Launch, StartFails, StartPending,
         StartRunning, PublishLaunch, RegisterName, StopLost, SetWorkerMeta, HandOverID, AwaitID,
         ReportProgress, ReportUsage, RunEnds, Settle, ReportFinished, PublishEnd,
         DrainMessages, Stop, ReportMessage, MessageQueued, QueueMessage

\* Types, emitMu and phases hold at the start, and every step keeps them.
LEMMA InitTyped == Init => Typed
<1> SUFFICES ASSUME Init PROVE Typed
  OBVIOUS
<1>1. Emitting
  BY EmptySeq DEF Init, Emitting, EmitFree, Owners
<1>2. TaskTypes
  BY BoundsAssumption DEF Init, TaskTypes
<1>3. MailTypes
  <2>1. EmptyBox \in [made : BOOLEAN, queue : Seq(Msg), seen : SUBSET Msg]
    BY EmptySeq DEF EmptyBox
  <2> QED
    BY <2>1, EmptySeq DEF Init, MailTypes
<1>4. LogTypes
  BY EmptySeq DEF Init, LogTypes
<1>5. Phases
  BY DEF Init, Phases, Phase, Sending, Unlaunched, Launched
<1> QED
  BY <1>1, <1>2, <1>3, <1>4, <1>5, TypesTogether DEF Typed

\* Every step keeps the types.
LEMMA TypedStep ==
  ASSUME Typed, [Next]_vars
  PROVE  Typed'
<1>1. TaskTypes /\ MailTypes /\ LogTypes
  BY TypesTogether DEF Typed
<1>2. Emitting'
  BY EmittingStep
<1>3. Phases'
  BY PhasesStep, TypesAreFunctions DEF Typed
<1>4. TaskTypes' /\ MailTypes' /\ LogTypes'
  BY <1>1, TaskTypesStep, MailTypesStep, LogTypesStep DEF Typed
<1>5. TypeOK'
  BY <1>2, <1>4 DEF TypeOK, TaskTypes, MailTypes, LogTypes, Emitting, Events, Owners, Statuses
<1> QED
  BY <1>2, <1>3, <1>5 DEF Typed

-----------------------------------------------------------------------------
\* An outcome is final.
LEMMA OutcomesStay ==
  ASSUME Tables, Phases, [Next]_vars, NEW t \in Task, status[t] \in Terminal
  PROVE  status'[t] = status[t]
<1> USE DEF Tables, Phases, Phase, Terminal
<1>1. ASSUME NEW u \in Task, StartPending(u) PROVE status'[t] = status[t]
  BY <1>1 DEF StartPending
<1>2. ASSUME NEW u \in Task, StartRunning(u) PROVE status'[t] = status[t]
  BY <1>2 DEF StartRunning
<1>3. ASSUME NEW u \in Task, Settle(u) PROVE status'[t] = status[t]
  BY <1>3 DEF Settle
<1>4. CASE UNCHANGED status
  BY <1>4
<1> QED
  BY ZenonT(60), <1>1, <1>2, <1>3, <1>4
     DEF Next, LauncherStep, RunnerStep, SenderStep, vars, taskVars, Observe, Launch, StartFails,
         PublishLaunch, RegisterName, StopLost, SetWorkerMeta, HandOverID, AwaitID,
         ReportProgress, ReportUsage, RunEnds, ReportFinished, PublishEnd,
         DrainMessages, Stop, ReportMessage, MessageQueued, QueueMessage

\* So an honest event stays honest.
LEMMA HonestStays ==
  ASSUME Tables, Phases, [Next]_vars, NEW e, e.task \in Task, Honest(e)
  PROVE  Honest(e)'
  BY OutcomesStay DEF Honest

-----------------------------------------------------------------------------
\* A step that says nothing and announces nobody leaves the streams as they are.
LEMMA Silence ==
  ASSUME Typed, Streaming, [Next]_vars, UNCHANGED <<log, emitMu, meta>>
  PROVE  Streaming'
<1>1. Tables /\ Phases
  BY TypesAreFunctions DEF Typed
<1>2. ASSUME NEW t \in Task PROVE Told(t)'
  <2>1. ASSUME NEW i \in 1..Len(log[t]) PROVE Honest(log[t][i])'
    BY <1>1, HonestStays DEF Streaming, Told
  <2> QED
    BY <2>1 DEF Streaming, Told, EmitFree
<1>3. Due'
  <2>1. ASSUME NEW i \in 1..Len(emitMu.due) PROVE Honest(emitMu.due[i])'
    <3>1. emitMu.due[i] \in Events /\ emitMu.due # <<>>
      BY ElementOfSeq, EmptySeq DEF Typed, Emitting
    <3> QED
      BY <1>1, <3>1, HonestStays DEF Streaming, Due, Events
  <2> QED
    BY <2>1 DEF Streaming, Due, AtMostAPair
<1> QED
  BY <1>2, <1>3 DEF Streaming

\* Somebody takes emitMu to say one more thing about a worker that is live.
LEMMA SayMore ==
  ASSUME Typed, Streaming, NEW t \in Task, NEW what \in {"progress", "usage", "message"},
         EmitFree, meta[t] = "live", UNCHANGED <<log, meta, status>>,
         emitMu'.due = <<Event(t, what)>>, ~EmitFree'
  PROVE  Streaming'
<1>1. Event(t, what).task = t /\ Event(t, what).type = what /\ what \notin {"started", "finished"}
  BY DEF Event
<1>2. ASSUME NEW u \in Task PROVE Told(u)'
  BY DEF Streaming, Told, Honest
<1>3. Due'
  <2>1. /\ Len(emitMu'.due) = 1 /\ emitMu'.due # <<>> /\ emitMu'.due[1] = Event(t, what)
    OBVIOUS
  <2>2. \A u \in Task : meta[u] # "untracked" => log[u] # <<>>
    BY DEF Streaming, Told
  <2>3. \A i \in 1..Len(log[t]) : log[t][i].type # "finished"
    BY DEF Streaming, Told
  <2> QED
    BY <1>1, <2>1, <2>2, <2>3 DEF Due, AtMostAPair, Honest
<1> QED
  BY <1>2, <1>3 DEF Streaming

\* The run goroutine reports the ending of a worker that is live.
LEMMA SayFinished ==
  ASSUME Typed, Streaming, NEW t \in Task, status[t] \in Terminal,
         EmitFree, meta[t] = "live", meta' = [meta EXCEPT ![t] = "finished"],
         UNCHANGED <<log, status>>, emitMu'.due = <<Event(t, "finished")>>, ~EmitFree'
  PROVE  Streaming'
<1>0. /\ meta'[t] = "finished" /\ \A u \in Task \ {t} : meta'[u] = meta[u]
  BY DEF Typed, TypeOK
<1>1. /\ Event(t, "finished").task = t /\ Event(t, "finished").type = "finished"
      /\ Event(t, "finished").status = status[t]
  BY DEF Event
<1>2. ASSUME NEW u \in Task PROVE Told(u)'
  BY <1>0 DEF Streaming, Told, Honest
<1>3. Due'
  <2>1. /\ Len(emitMu'.due) = 1 /\ emitMu'.due # <<>> /\ emitMu'.due[1] = Event(t, "finished")
    OBVIOUS
  <2>2. \A u \in Task : meta[u] # "untracked" => log[u] # <<>>
    BY DEF Streaming, Told
  <2>3. \A i \in 1..Len(log[t]) : log[t][i].type # "finished"
    BY DEF Streaming, Told
  <2> QED
    BY <1>0, <1>1, <2>1, <2>2, <2>3 DEF Due, AtMostAPair, Honest
<1> QED
  BY <1>2, <1>3 DEF Streaming

\* The launcher announces a worker, with its ending if it has already ended.
LEMMA SayStarted ==
  ASSUME Typed, Streaming, NEW t \in Task, SetWorkerMeta(t)
  PROVE  Streaming'
<1>0. /\ meta[t] = "untracked" /\ log[t] = <<>> /\ EmitFree
      /\ UNCHANGED <<log, status>>
  BY DEF SetWorkerMeta, Typed, Phases, Phase, Streaming, Told, taskVars
<1>1. /\ Event(t, "started").task = t /\ Event(t, "started").type = "started"
      /\ Event(t, "finished").task = t /\ Event(t, "finished").type = "finished"
      /\ Event(t, "finished").status = status[t]
  BY DEF Event
<1>2. \A u \in Task : meta[u] # "untracked" => log[u] # <<>>
  BY <1>0 DEF Streaming, Told
<1>3. CASE status[t] \in Terminal
  <2>1. meta'[t] = "finished" /\ \A u \in Task \ {t} : meta'[u] = meta[u]
    BY <1>3 DEF SetWorkerMeta, Typed, TypeOK
  <2>2. /\ emitMu'.due = <<Event(t, "started"), Event(t, "finished")>>
        /\ ~EmitFree'
    BY <1>3, SomebodyOwes DEF SetWorkerMeta, Emit, EmitFree
  <2>3. /\ Len(emitMu'.due) = 2 /\ emitMu'.due # <<>>
        /\ emitMu'.due[1] = Event(t, "started") /\ emitMu'.due[2] = Event(t, "finished")
    BY <2>2
  <2>4. ASSUME NEW u \in Task PROVE Told(u)'
    BY <1>0, <2>1, <2>2 DEF Streaming, Told, Honest
  <2>5. Due'
    BY <1>0, <1>1, <1>2, <1>3, <2>1, <2>3 DEF Due, AtMostAPair, Honest
  <2> QED
    BY <2>4, <2>5 DEF Streaming
<1>4. CASE status[t] \notin Terminal
  <2>1. meta'[t] = "live" /\ \A u \in Task \ {t} : meta'[u] = meta[u]
    BY <1>4 DEF SetWorkerMeta, Typed, TypeOK
  <2>2. emitMu'.due = <<Event(t, "started")>> /\ ~EmitFree'
    BY <1>4, SomebodyOwes DEF SetWorkerMeta, Emit, EmitFree
  <2>3. Len(emitMu'.due) = 1 /\ emitMu'.due # <<>> /\ emitMu'.due[1] = Event(t, "started")
    BY <2>2
  <2>4. ASSUME NEW u \in Task PROVE Told(u)'
    BY <1>0, <2>1, <2>2 DEF Streaming, Told, Honest
  <2>5. Due'
    BY <1>0, <1>1, <1>2, <2>1, <2>3 DEF Due, AtMostAPair, Honest
  <2> QED
    BY <2>4, <2>5 DEF Streaming
<1> QED
  BY <1>3, <1>4

\* An announcement that is the first event of t, or a later event of it.
Hears(t, e) ==
  /\ emitMu.due \in Seq(Events) /\ emitMu.due # <<>>
  /\ Len(emitMu.due) = 1 \/ Len(emitMu.due) = 2
  /\ e = emitMu.due[1] /\ e.task = t
  /\ log[t] \in Seq(Events) /\ Len(log[t]) \in Nat
  /\ log' = [log EXCEPT ![t] = Append(log[t], e)]
  /\ UNCHANGED <<meta, status>>
  /\ Honest(e) /\ meta[t] # "untracked" /\ (e.type = "finished" => meta[t] = "finished")
  /\ IF e.type = "started"
     THEN log[t] = <<>>
     ELSE /\ log[t] # <<>> /\ Len(emitMu.due) = 1
          /\ \A i \in 1..Len(log[t]) : log[t][i].type # "finished"
  /\ \A u \in Task \ {t} : meta[u] # "untracked" => log[u] # <<>>

\* The observer hears the first event that is due.
LEMMA FirstIsHeard ==
  ASSUME Typed, Streaming, Observe
  PROVE  \E t \in Task, e \in Events : Hears(t, e)
<1>1. /\ emitMu.due \in Seq(Events) /\ emitMu.due # <<>>
      /\ Len(emitMu.due) = 1 \/ Len(emitMu.due) = 2
  <2>1. emitMu.due \in Seq(Events) /\ emitMu.due # <<>>
    BY DEF Typed, Emitting, Observe
  <2>2. Len(emitMu.due) \in Nat \ {0}
    BY <2>1, EmptySeq
  <2>3. Len(emitMu.due) <= 2
    BY <2>1, <2>2 DEF Streaming, Due, AtMostAPair
  <2>4. \A n \in Nat \ {0} : n <= 2 => n = 1 \/ n = 2
    OBVIOUS
  <2>5. Len(emitMu.due) = 1 \/ Len(emitMu.due) = 2
    BY <2>2, <2>3, <2>4, Zenon
  <2> QED
    BY <2>1, <2>5
<1>2. PICK e \in Events : e = emitMu.due[1] /\ e = Head(emitMu.due)
  BY <1>1, ElementOfSeq
<1>3. PICK t \in Task : t = e.task
  BY <1>2 DEF Events
<1>4. /\ log[t] \in Seq(Events) /\ Len(log[t]) \in Nat
      /\ log' = [log EXCEPT ![t] = Append(log[t], e)]
      /\ UNCHANGED <<meta, status>>
  <2>1. log[t] \in Seq(Events)
    BY DEF Typed, TypeOK, Events, Statuses
  <2> QED
    BY <1>2, <1>3, <2>1, EmptySeq DEF Observe, taskVars
<1>5. /\ Honest(e) /\ meta[t] # "untracked" /\ (e.type = "finished" => meta[t] = "finished")
      /\ IF e.type = "started"
         THEN log[t] = <<>>
         ELSE /\ log[t] # <<>> /\ Len(emitMu.due) = 1
              /\ \A i \in 1..Len(log[t]) : log[t][i].type # "finished"
      /\ \A u \in Task \ {t} : meta[u] # "untracked" => log[u] # <<>>
  BY <1>1, <1>2, <1>3 DEF Streaming, Due, AtMostAPair
<1> QED
  BY <1>1, <1>2, <1>3, <1>4, <1>5, Zenon DEF Hears

\* What it hears is in order.
LEMMA Heard ==
  ASSUME Typed, Streaming, Observe
  PROVE  Streaming'
<1>0. PICK t \in Task, e \in Events : Hears(t, e)
  BY FirstIsHeard
<1>1. /\ emitMu.due \in Seq(Events) /\ emitMu.due # <<>>
      /\ Len(emitMu.due) = 1 \/ Len(emitMu.due) = 2
  BY <1>0 DEF Hears
<1>2. e = emitMu.due[1]
  BY <1>0 DEF Hears
<1>3. t = e.task
  BY <1>0 DEF Hears
<1>4. /\ log[t] \in Seq(Events) /\ Len(log[t]) \in Nat
      /\ log' = [log EXCEPT ![t] = Append(log[t], e)]
      /\ UNCHANGED <<meta, status>>
  BY <1>0 DEF Hears
<1>5. /\ Len(log'[t]) = Len(log[t]) + 1 /\ log'[t][Len(log[t]) + 1] = e /\ log'[t] # <<>>
      /\ \A i \in 1..Len(log[t]) : log'[t][i] = log[t][i]
      /\ \A u \in Task \ {t} : log'[u] = log[u]
  <2>1. log'[t] = Append(log[t], e) /\ \A u \in Task \ {t} : log'[u] = log[u]
    BY <1>4 DEF Typed, TypeOK
  <2> QED
    BY <1>4, <2>1, AppendProperties
<1>6. /\ Honest(e) /\ meta[t] # "untracked" /\ (e.type = "finished" => meta[t] = "finished")
      /\ IF e.type = "started"
         THEN log[t] = <<>>
         ELSE /\ log[t] # <<>> /\ Len(emitMu.due) = 1
              /\ \A i \in 1..Len(log[t]) : log[t][i].type # "finished"
      /\ \A u \in Task \ {t} : meta[u] # "untracked" => log[u] # <<>>
  BY <1>0 DEF Hears
<1>7. e.type = "started" <=> Len(log[t]) = 0
  BY <1>4, <1>6, EmptySeq
<1>8. \A i \in 1..Len(log[t]) : log[t][i].type # "finished"
  BY <1>4, <1>6, <1>7
<1>9. Told(t)'
  <2>1. Told(t)
    BY DEF Streaming
  <2>2. ASSUME NEW i \in 1..Len(log'[t])
        PROVE  /\ log'[t][i].type = "started" <=> i = 1
               /\ log'[t][i].type = "finished" => i = Len(log'[t]) /\ meta'[t] = "finished"
               /\ log'[t][i].task = t
               /\ log'[t][i].type = "finished" =>
                 status[t] \in Terminal /\ log'[t][i].status = status[t]
    <3>1. CASE i = Len(log[t]) + 1
      <4>1. log'[t][i] = e /\ i = Len(log'[t]) /\ (i = 1 <=> Len(log[t]) = 0)
        BY <1>4, <1>5, <3>1
      <4> QED
        BY <1>3, <1>4, <1>6, <1>7, <4>1 DEF Honest
    <3>2. CASE i \in 1..Len(log[t])
      <4>1. log'[t][i] = log[t][i] /\ log[t][i].type # "finished"
        BY <1>5, <1>8, <3>2
      <4>2. /\ log[t][i].type = "started" <=> i = 1
            /\ log[t][i].task = t
        BY <2>1, <3>2 DEF Told
      <4> QED
        BY <4>1, <4>2
    <3> QED
      BY <1>4, <1>5, <3>1, <3>2
  <2> QED
    BY <1>4, <1>5, <1>6, <2>2 DEF Told, Honest
<1>10. ASSUME NEW u \in Task \ {t} PROVE Told(u)'
  BY <1>4, <1>5, <1>6, <1>10 DEF Streaming, Told, Honest
<1>11. Due'
  <2>1. CASE Len(emitMu.due) = 1
    <3>1. emitMu'.due = <<>>
      BY <2>1 DEF Observe
    <3> QED
      BY <3>1, EmptySeq DEF Due, AtMostAPair
  <2>2. CASE Len(emitMu.due) = 2
    <3>1. emitMu'.due = Tail(emitMu.due)
      BY <2>2 DEF Observe, Typed, Emitting
    <3>2. Len(emitMu'.due) = 1 /\ emitMu'.due[1] = emitMu.due[2]
      BY <1>1, <2>2, <3>1, HeadTailProperties
    <3>3. emitMu'.due # <<>>
      BY <3>2, EmptySeq
    <3>4. /\ emitMu.due[2].task = t /\ emitMu.due[2].type = "finished" /\ Honest(emitMu.due[2])
          /\ e.type = "started" /\ meta[t] = "finished"
      BY <1>1, <1>2, <1>3, <2>2 DEF Streaming, Due, AtMostAPair
    <3>5. \A i \in 1..Len(log'[t]) : log'[t][i].type # "finished"
      BY <1>4, <1>5, <1>7, <3>4
    <3> QED
      BY <1>4, <1>5, <1>6, <3>2, <3>3, <3>4, <3>5 DEF Due, AtMostAPair, Honest
  <2> QED
    BY <1>1, <2>1, <2>2
<1> QED
  BY <1>9, <1>10, <1>11 DEF Streaming

\* No step disorders what the observer hears.
LEMMA StreamingStep ==
  ASSUME Typed, Streaming, [Next]_vars
  PROVE  Streaming'
<1>1. CASE Observe
  BY <1>1, Heard
<1>2. ASSUME NEW t \in Task, SetWorkerMeta(t) PROVE Streaming'
  BY <1>2, SayStarted
<1>3. ASSUME NEW t \in Task, ReportProgress(t) \/ ReportUsage(t) PROVE Streaming'
  <2>1. EmitFree /\ UNCHANGED <<log, meta, status>>
    BY <1>3 DEF ReportProgress, ReportUsage, taskVars
  <2>2. CASE meta[t] = "live"
    <3>1. PICK what \in {"progress", "usage"} :
             emitMu' = [owner |-> Runner(t), due |-> <<Event(t, what)>>]
      BY <1>3, <2>2 DEF ReportProgress, ReportUsage, Emit
    <3> QED
      BY <2>1, <2>2, <3>1, SayMore, SomebodyOwes DEF EmitFree
  <2>3. CASE meta[t] # "live"
    <3>1. emitMu' = emitMu
      BY <1>3, <2>3 DEF ReportProgress, ReportUsage, Emit
    <3> QED
      BY <2>1, <3>1, Silence
  <2> QED
    BY <2>2, <2>3
<1>4. ASSUME NEW t \in Task, ReportFinished(t) PROVE Streaming'
  <2>1. EmitFree /\ UNCHANGED <<log, status>> /\ status[t] \in Terminal
    BY <1>4 DEF ReportFinished, taskVars, Typed, Phases, Phase
  <2>2. CASE meta[t] = "live"
    <3>1. /\ emitMu' = [owner |-> Runner(t), due |-> <<Event(t, "finished")>>]
          /\ meta' = [meta EXCEPT ![t] = "finished"]
      BY <1>4, <2>2 DEF ReportFinished, Emit
    <3> QED
      BY <2>1, <2>2, <3>1, SayFinished, SomebodyOwes DEF EmitFree
  <2>3. CASE meta[t] # "live"
    BY <1>4, <2>1, <2>3, Silence DEF ReportFinished
  <2> QED
    BY <2>2, <2>3
<1>5. ASSUME NEW m \in Msg, ReportMessage(m) PROVE Streaming'
  <2>1. /\ EmitFree /\ UNCHANGED <<log, meta, status>> /\ target[m] \in Task
    BY <1>5 DEF ReportMessage, taskVars, Typed, Phases, Sending, TypeOK
  <2>2. CASE meta[target[m]] = "live"
    <3>1. emitMu' = [owner |-> Sender(m), due |-> <<Event(target[m], "message")>>]
      BY <1>5, <2>2 DEF ReportMessage, Emit
    <3> QED
      BY <2>1, <2>2, <3>1, SayMore, SomebodyOwes DEF EmitFree
  <2>3. CASE meta[target[m]] # "live"
    <3>1. emitMu' = emitMu
      BY <1>5, <2>3 DEF ReportMessage, Emit
    <3> QED
      BY <2>1, <3>1, Silence
  <2> QED
    BY <2>2, <2>3
<1>6. CASE UNCHANGED <<log, emitMu, meta>>
  BY <1>6, Silence
<1> QED
  BY <1>1, <1>2, <1>3, <1>4, <1>5, <1>6
     DEF Next, LauncherStep, RunnerStep, SenderStep, vars, Launch, StartFails, StartPending,
         StartRunning, PublishLaunch, RegisterName, StopLost, HandOverID, AwaitID, RunEnds,
         Settle, PublishEnd, DrainMessages, Stop, MessageQueued, QueueMessage

\* A name is taken from a live worker by nobody.
LEMMA NamesStep ==
  ASSUME Typed, NamesResolve, [Next]_vars
  PROVE  NamesResolve'
<1>0. Tables
  BY TypesAreFunctions DEF Typed
<1>a. /\ \A u \in Task : wanted[u] # NoName => wanted[u] \in Name
      /\ \A u \in Task : pcL[u] = "register" => wanted[u] # NoName
  <2>1. wanted \in [Task -> Name \cup {NoName}]
    BY DEF Typed, TypeOK
  <2> QED
    BY <2>1 DEF Typed, Phases, Phase
<1> USE <1>0, NoTaskAssumption, BoundsAssumption DEF Tables, NamesResolve, Live, Terminal
<1>1. CASE Observe
  BY <1>1 DEF Observe, EmitFree, taskVars, mailVars, runVars
<1>2. ASSUME NEW t \in Task, NEW k \in LaunchKinds, NEW n \in Name \cup {NoName}, Launch(t,
        k, n) PROVE NamesResolve'
  BY <1>2 DEF Launch, GoL, InUse, LiveWorkers, Launching, taskVars, mailVars, runVars
<1>3. ASSUME NEW t \in Task, StartFails(t) PROVE NamesResolve'
  BY <1>3 DEF StartFails, GoL, taskVars, mailVars, runVars
<1>4. ASSUME NEW t \in Task, StartPending(t) PROVE NamesResolve'
  BY <1>4 DEF StartPending, GoL, mailVars, runVars
<1>5. ASSUME NEW t \in Task, StartRunning(t) PROVE NamesResolve'
  BY <1>5 DEF StartRunning, GoL, mailVars, runVars
<1>6. ASSUME NEW t \in Task, PublishLaunch(t) PROVE NamesResolve'
  <2>1. wanted[t] # NoName => AfterStart(t) = "register"
    BY DEF AfterStart
  <2>2. UNCHANGED <<wanted, status, registry>>
    BY <1>6 DEF PublishLaunch, taskVars
  <2>3. \/ pcL' = [pcL EXCEPT ![t] = "run"]
        \/ pcL' = [pcL EXCEPT ![t] = AfterStart(t)]
    BY <1>6 DEF PublishLaunch, GoL
  <2> QED
    BY <2>1, <2>2, <2>3
<1>7. ASSUME NEW t \in Task, RegisterName(t) PROVE NamesResolve'
  <2>1. UNCHANGED <<wanted, status>> /\ pcL[t] = "register"
    BY <1>7 DEF RegisterName
  <2>2. CASE InUse(wanted[t], t)
    <3>1. UNCHANGED registry /\ pcL' = [pcL EXCEPT ![t] = "lost"]
      BY <1>7, <2>2 DEF RegisterName, GoL
    <3> QED
      BY <2>1, <3>1
  <2>3. CASE ~InUse(wanted[t], t)
    <3>1. /\ registry' = [registry EXCEPT ![wanted[t]] = t]
          /\ pcL' = [pcL EXCEPT ![t] = "announce"]
      BY <1>7, <2>3 DEF RegisterName, GoL
    <3>2. wanted[t] \in Name /\ wanted[t] # NoName
      BY <1>a, <2>1
    <3>3. registry'[wanted[t]] = t /\ \A n \in Name \ {wanted[t]} : registry'[n] = registry[n]
      BY <3>1, <3>2
    <3>4. \A u \in Task \ {t} : registry[wanted[t]] = u => status[u] \notin Live
      BY <2>3 DEF InUse
    <3> SUFFICES ASSUME NEW u \in Task, wanted[u] # NoName, status[u] \in Live,
                        pcL'[u] \in {"announce", "hand over id", "done"}
                 PROVE  registry'[wanted[u]] = u
      BY <2>1
    <3>5. CASE u = t
      BY <3>3, <3>5
    <3>6. CASE u # t
      <4>1. registry[wanted[u]] = u
        BY <3>1, <3>6
      <4>2. wanted[u] # wanted[t]
        BY <3>4, <3>6, <4>1
      <4> QED
        BY <1>a, <3>3, <4>1, <4>2
    <3> QED
      BY <3>5, <3>6
  <2> QED
    BY <2>2, <2>3
<1>8. ASSUME NEW t \in Task, StopLost(t) PROVE NamesResolve'
  BY <1>8 DEF StopLost, GoL, mailVars, runVars
<1>9. ASSUME NEW t \in Task, SetWorkerMeta(t) PROVE NamesResolve'
  BY <1>9 DEF SetWorkerMeta, GoL, Event, Emit, EmitFree, taskVars, mailVars, runVars
<1>10. ASSUME NEW t \in Task, HandOverID(t) PROVE NamesResolve'
  BY <1>10 DEF HandOverID, GoL, Owes, taskVars, mailVars
<1>11. ASSUME NEW t \in Task, AwaitID(t) PROVE NamesResolve'
  BY <1>11 DEF AwaitID, GoR, taskVars, mailVars
<1>12. ASSUME NEW t \in Task, ReportUsage(t) PROVE NamesResolve'
  BY <1>12 DEF ReportUsage, GoR, Working, Event, Emit, EmitFree, Owes, taskVars, mailVars
<1>13. ASSUME NEW t \in Task, NEW how \in {"ok", "error", "panic"}, RunEnds(t, how) PROVE
        NamesResolve'
  BY <1>13 DEF RunEnds, GoR, Working, Owes, taskVars, mailVars
<1>14. ASSUME NEW t \in Task, Settle(t) PROVE NamesResolve'
  <2>1. Verdict(t) \in Terminal
    BY DEF Verdict
  <2>2. \A u \in Task : status'[u] \in Live => status[u] \in Live
    BY <1>14, <2>1 DEF Settle
  <2> QED
    BY <1>14, <2>2 DEF Settle
<1>15. ASSUME NEW t \in Task, ReportFinished(t) PROVE NamesResolve'
  BY <1>15 DEF ReportFinished, GoR, Event, Emit, EmitFree, taskVars, mailVars
<1>16. ASSUME NEW t \in Task, PublishEnd(t) PROVE NamesResolve'
  BY <1>16 DEF PublishEnd, GoR, Owes, mailVars
<1>17. ASSUME NEW t \in Task, ReportProgress(t) PROVE NamesResolve'
  BY <1>17 DEF ReportProgress, Working, Event, Emit, EmitFree, Owes, taskVars, mailVars
<1>18. ASSUME NEW t \in Task, DrainMessages(t) PROVE NamesResolve'
  BY <1>18 DEF DrainMessages, Working, Owes, taskVars, runVars
<1>19. ASSUME NEW t \in Task, Stop(t) PROVE NamesResolve'
  BY <1>19 DEF Stop, mailVars, runVars
<1>20. ASSUME NEW m \in Msg, ReportMessage(m) PROVE NamesResolve'
  BY <1>20 DEF ReportMessage, GoM, Event, Emit, EmitFree, taskVars, runVars
<1>21. ASSUME NEW m \in Msg, MessageQueued(m) PROVE NamesResolve'
  BY <1>21 DEF MessageQueued, GoM, Owes, taskVars, runVars
<1>22. ASSUME NEW m \in Msg, NEW t \in MailTo, QueueMessage(m, t) PROVE NamesResolve'
  BY <1>22 DEF QueueMessage, GoM, PutMail, AppendFailed, Duplicate, BoxFull, taskVars,
         runVars
<1>23. CASE UNCHANGED vars
  BY <1>23 DEF vars, taskVars, mailVars, runVars
<1> QED
  BY <1>1, <1>2, <1>3, <1>4, <1>5, <1>6, <1>7, <1>8, <1>9, <1>10, <1>11, <1>12,
     <1>13, <1>14, <1>15, <1>16, <1>17, <1>18, <1>19, <1>20, <1>21, <1>22, <1>23
     DEF Next, LauncherStep, RunnerStep, SenderStep

\* A new message goes to the end of the mail, and perhaps of the file.
LEMMA KeptGrows ==
  ASSUME NEW got \in Seq(Msg), NEW file \in Seq(Msg), NEW seen, NEW m \in Msg,
         Kept(seen, got, file), m \notin seen
  PROVE  /\ Kept(seen \cup {m}, Append(got, m), file)
         /\ Kept(seen \cup {m}, Append(got, m), Append(file, m))
<1> DEFINE more == Append(got, m)
           list == Append(file, m)
<1>1. /\ Len(got) \in Nat /\ Len(more) = Len(got) + 1 /\ more[Len(got) + 1] = m
      /\ \A i \in 1..Len(got) : more[i] = got[i]
  BY AppendProperties
<1>2. /\ Len(file) \in Nat /\ Len(list) = Len(file) + 1 /\ list[Len(file) + 1] = m
      /\ \A i \in 1..Len(file) : list[i] = file[i]
  BY AppendProperties
<1> HIDE DEF more, list
<1>3. /\ \A i \in 1..Len(got) : got[i] # m
      /\ \A i \in 1..Len(file) : file[i] # m
  BY DEF Kept, Elements
<1>4. seen \cup {m} = Elements(more)
  <2>1. \A x \in seen \cup {m} : \E i \in 1..Len(more) : x = more[i]
    BY <1>1 DEF Kept, Elements
  <2>2. \A i \in 1..Len(more) : more[i] \in seen \cup {m}
    BY <1>1 DEF Kept, Elements
  <2> QED
    BY <2>1, <2>2 DEF Elements
<1>5. \A i, j \in 1..Len(more) : more[i] = more[j] => i = j
  BY <1>1, <1>3 DEF Kept
<1>6. Elements(file) \subseteq Elements(more) /\ Elements(list) \subseteq Elements(more)
  <2>1. \A i \in 1..Len(file) : file[i] \in seen
    BY DEF Kept, Elements
  <2>2. ASSUME NEW i \in 1..Len(list) PROVE list[i] \in seen \cup {m}
    <3>1. i \in 1..Len(file) \/ i = Len(file) + 1
      BY <1>2
    <3> QED
      BY <1>2, <2>1, <3>1
  <2> QED
    BY <1>4, <2>1, <2>2 DEF Elements
<1>7. ASSUME NEW i \in 1..Len(file), NEW j \in 1..Len(file), NEW k \in 1..Len(more),
             NEW l \in 1..Len(more), i < j, file[i] = more[k], file[j] = more[l]
      PROVE  k < l
  <2>1. k \in 1..Len(got) /\ l \in 1..Len(got)
    BY <1>1, <1>3, <1>7
  <2> QED
    BY <1>1, <1>7, <2>1 DEF Kept
<1>8. ASSUME NEW i \in 1..Len(list), NEW j \in 1..Len(list), NEW k \in 1..Len(more),
             NEW l \in 1..Len(more), i < j, list[i] = more[k], list[j] = more[l]
      PROVE  k < l
  <2>1. i \in 1..Len(file) /\ list[i] = file[i]
    <3>1. Len(file) \in Nat /\ Len(list) = Len(file) + 1
      BY <1>2
    <3>2. i \in 1..Len(file)
      BY <1>8, <3>1
    <3> QED
      BY <1>2, <3>2
  <2>2. k \in 1..Len(got)
    <3>1. more[k] # m
      BY <1>3, <1>8, <2>1
    <3> QED
      BY <1>1, <3>1
  <2>3. CASE j \in 1..Len(file)
    BY <1>2, <1>7, <1>8, <2>1, <2>3
  <2>4. CASE j = Len(file) + 1
    <3>1. more[l] = m
      BY <1>2, <1>8, <2>4
    <3>2. l \notin 1..Len(got)
      BY <1>1, <1>3, <3>1
    <3> QED
      BY <1>1, <2>2, <3>2
  <2> QED
    BY <1>2, <1>8, <2>3, <2>4
<1>9. Kept(seen \cup {m}, more, file)
  BY <1>4, <1>5, <1>6, <1>7 DEF Kept
<1>10. Kept(seen \cup {m}, more, list)
  BY <1>4, <1>5, <1>6, <1>8 DEF Kept
<1> QED
  BY <1>9, <1>10 DEF more, list

\* What is appended to the second sequence comes last in both.
LEMMA AppendAfter ==
  ASSUME NEW S, NEW s \in Seq(S), NEW r \in Seq(S), NEW e \in S
  PROVE  s \o Append(r, e) = Append(s \o r, e)
<1>0. <<e>> \in Seq(S)
  OBVIOUS
<1>1. PICK one \in Seq(S) : one = <<e>>
  BY <1>0, Zenon
<1>2. Append(r, e) = r \o one
  BY <1>1, AppendIsConcat
<1>3. Append(s \o r, e) = (s \o r) \o one
  BY <1>1, ConcatProperties, AppendIsConcat
<1>4. (s \o r) \o one = s \o (r \o one)
  BY ConcatAssociative
<1> QED
  BY <1>2, <1>3, <1>4

\* Mail nobody touched is kept.
LEMMA BoxStays ==
  ASSUME NEW u \in Task, Boxed(u), mail'[u].seen = mail[u].seen,
         drained'[u] \o mail'[u].queue = Received(u), journal'[u] = journal[u]
  PROVE  Boxed(u)'
  BY DEF Boxed, Received

\* Every step keeps the mail.
LEMMA MailingStep ==
  ASSUME Typed, Mailing, [Next]_vars
  PROVE  Mailing'
<1>1. /\ mail \in [Task -> [made : BOOLEAN, queue : Seq(Msg), seen : SUBSET Msg]]
      /\ \A t \in Task : /\ mail[t].queue \in Seq(Msg) /\ mail[t].seen \subseteq Msg
                         /\ drained[t] \in Seq(Msg) /\ journal[t] \in Seq(Msg)
  <2>1. mail \in [Task -> [made : BOOLEAN, queue : Seq(Msg), seen : SUBSET Msg]]
    BY DEF Typed, TypeOK
  <2>2. drained \in [Task -> Seq(Msg)] /\ journal \in [Task -> Seq(Msg)]
    BY DEF Typed, TypeOK
  <2> QED
    BY <2>1, <2>2
<1>2. /\ pcM = [m \in Msg |-> pcM[m]] /\ target \in [Msg -> Task \cup {NoTask}]
      /\ drained = [t \in Task |-> drained[t]] /\ journal = [t \in Task |-> journal[t]]
  BY TypesAreFunctions DEF Typed, Tables
<1>3. \A m \in Msg : pcM[m] \in {"report", "reported", "ok"} => target[m] \in Task
  BY <1>2 DEF Typed, Phases, Sending
<1>4. ASSUME NEW t \in Task, DrainMessages(t) PROVE Mailing'
  <2>1. /\ mail'[t].queue = <<>> /\ mail'[t].seen = mail[t].seen
        /\ \A u \in Task \ {t} : mail'[u] = mail[u]
    BY <1>1, <1>4, DrainBox DEF DrainMessages
  <2>2. /\ drained'[t] = Received(t) /\ \A u \in Task \ {t} : drained'[u] = drained[u]
        /\ UNCHANGED <<journal, target, pcM>>
    BY <1>2, <1>4 DEF DrainMessages, Received
  <2>3. Received(t) \in Seq(Msg)
    BY <1>1, ConcatProperties DEF Received
  <2>4. drained'[t] \o mail'[t].queue = Received(t)
    BY <2>1, <2>2, <2>3, ConcatEmptySeq
  <2>5. \A u \in Task \ {t} : drained'[u] \o mail'[u].queue = Received(u)
    BY <2>1, <2>2 DEF Received
  <2>6. \A u \in Task : mail'[u].seen = mail[u].seen
    BY <2>1
  <2>7. \A u \in Task : Boxed(u)'
    BY <2>2, <2>4, <2>5, <2>6, BoxStays DEF Mailing
  <2> QED
    BY <1>3, <2>2, <2>6, <2>7 DEF Mailing
<1>5. ASSUME NEW m \in Msg, ReportMessage(m) \/ MessageQueued(m) PROVE Mailing'
  <2>1. UNCHANGED <<mail, drained, journal, target>>
    BY <1>5 DEF ReportMessage, MessageQueued
  <2>2. \A u \in Task : Boxed(u)'
    BY <2>1, BoxStays DEF Mailing, Received
  <2>3. \A n \in Msg : pcM'[n] \in {"report", "reported", "ok"} =>
                       pcM[n] \in {"report", "reported", "ok"}
    BY <1>2, <1>5 DEF ReportMessage, MessageQueued, GoM
  <2> QED
    BY <2>1, <2>2, <2>3 DEF Mailing
<1>6. ASSUME NEW m \in Msg, NEW t \in MailTo, QueueMessage(m, t) PROVE Mailing'
  <2>1. /\ t \in Task /\ target[m] \in {NoTask, t}
        /\ target'[m] = t /\ \A n \in Msg \ {m} : target'[n] = target[n]
        /\ drained' = drained
    BY <1>2, <1>6, BoundsAssumption DEF QueueMessage
  <2>2. /\ \A n \in Msg \ {m} : pcM'[n] = pcM[n]
    BY <1>2, <1>6 DEF QueueMessage, GoM
  <2>3. CASE UNCHANGED <<mail, journal>>
    <3>1. \A u \in Task : Boxed(u)'
      BY <2>1, <2>3, BoxStays DEF Mailing, Received
    <3>2. pcM'[m] \in {"report", "reported", "ok"} => m \in mail[t].seen
      <4>1. CASE pcM'[m] = "failed"
        BY <4>1
      <4>2. CASE Duplicate(t, m)
        BY <4>2 DEF Duplicate
      <4>3. CASE pcM'[m] = "report" /\ PutMail(t, m)
        BY <1>1, <2>1, <2>3, <4>3, PutBox
      <4> QED
        BY <1>2, <1>6, <4>1, <4>2, <4>3 DEF QueueMessage, GoM
    <3> QED
      BY <2>1, <2>2, <2>3, <3>1, <3>2 DEF Mailing
  <2>4. CASE ~UNCHANGED <<mail, journal>>
    <3>1. /\ PutMail(t, m) /\ m \notin mail[t].seen
          /\ journal' = journal \/ journal' = [journal EXCEPT ![t] = Append(@, m)]
      BY <1>6, <2>4 DEF QueueMessage, AppendFailed, Duplicate
    <3>2. /\ mail'[t].queue = Append(mail[t].queue, m)
          /\ mail'[t].seen = mail[t].seen \cup {m}
          /\ \A u \in Task \ {t} : mail'[u] = mail[u]
      BY <1>1, <2>1, <3>1, PutBox
    <3>3. drained[t] \o Append(mail[t].queue, m) = Append(Received(t), m)
      <4>1. drained[t] \in Seq(Msg) /\ mail[t].queue \in Seq(Msg)
        BY <1>1, <2>1
      <4>2. drained[t] \o Append(mail[t].queue, m) = Append(drained[t] \o mail[t].queue, m)
        <5>1. \A s, r \in Seq(Msg) : s \o Append(r, m) = Append(s \o r, m)
          BY AppendAfter
        <5> QED
          BY <4>1, <5>1, Zenon
      <4> QED
        BY <4>2, Zenon DEF Received
    <3>4. Boxed(t)'
      <4>1. /\ Received(t) \in Seq(Msg) /\ journal[t] \in Seq(Msg)
            /\ Kept(mail[t].seen, Received(t), journal[t])
        <5>1. Received(t) \in Seq(Msg) /\ journal[t] \in Seq(Msg)
          BY <1>1, <2>1, ConcatProperties DEF Received
        <5>2. Boxed(t)
          BY <2>1 DEF Mailing
        <5> QED
          BY <5>1, <5>2 DEF Boxed
      <4>2. /\ Kept(mail[t].seen \cup {m}, Append(Received(t), m), journal[t])
            /\ Kept(mail[t].seen \cup {m}, Append(Received(t), m), Append(journal[t], m))
        BY <3>1, <4>1, KeptGrows
      <4>3. Received(t)' = Append(Received(t), m)
        BY <2>1, <3>2, <3>3 DEF Received
      <4>4. journal'[t] = journal[t] \/ journal'[t] = Append(journal[t], m)
        BY <1>2, <2>1, <3>1
      <4> QED
        BY <3>2, <4>2, <4>3, <4>4 DEF Boxed
    <3>5. \A u \in Task \ {t} : journal'[u] = journal[u]
      BY <1>2, <3>1
    <3>6. \A u \in Task \ {t} : Boxed(u)'
      BY <2>1, <3>2, <3>5, BoxStays DEF Mailing, Received
    <3>7. \A u \in Task : mail[u].seen \subseteq mail'[u].seen
      BY <3>2
    <3> QED
      BY <1>3, <2>1, <2>2, <3>2, <3>4, <3>6, <3>7 DEF Mailing
  <2> QED
    BY <2>3, <2>4
<1>7. CASE UNCHANGED <<mailVars>>
  <2>1. UNCHANGED <<mail, journal, drained, target, pcM>>
    BY <1>7 DEF mailVars
  <2>2. \A u \in Task : Boxed(u)'
    BY <2>1, BoxStays DEF Mailing, Received
  <2> QED
    BY <2>1, <2>2 DEF Mailing
<1> QED
  BY ZenonT(60), <1>4, <1>5, <1>6, <1>7
     DEF Next, LauncherStep, RunnerStep, SenderStep, vars, mailVars, Observe, Launch,
         StartFails, StartPending, StartRunning, PublishLaunch, RegisterName, StopLost,
         SetWorkerMeta, HandOverID, AwaitID, ReportUsage, RunEnds, Settle, ReportFinished,
         PublishEnd, ReportProgress, Stop

\* At first nothing is told, named or mailed.
LEMMA Initially == Init => IInv
<1> SUFFICES ASSUME Init PROVE IInv
  OBVIOUS
<1>1. Typed
  BY InitTyped
<1>2. /\ \A t \in Task : /\ log[t] = <<>> /\ meta[t] = "untracked" /\ pcL[t] = "idle"
                         /\ mail[t] = EmptyBox /\ journal[t] = <<>> /\ drained[t] = <<>>
      /\ \A m \in Msg : pcM[m] = "idle"
      /\ emitMu.due = <<>>
  BY DEF Init
<1>3. Streaming
  <2>1. \A t \in Task : Told(t)
    BY <1>2 DEF Told
  <2>2. Due
    BY <1>2 DEF Due, AtMostAPair
  <2> QED
    BY <2>1, <2>2 DEF Streaming
<1>4. NamesResolve
  BY <1>2 DEF NamesResolve
<1>5. Mailing
  <2>1. ASSUME NEW t \in Task PROVE Boxed(t)
    <3>1. Received(t) = <<>> /\ mail[t].seen = {} /\ journal[t] = <<>>
      <4>1. mail[t].queue = <<>> /\ mail[t].seen = {} /\ drained[t] = <<>> /\ journal[t] = <<>>
        BY <1>2 DEF EmptyBox
      <4>2. <<>> \o <<>> = <<>>
        OBVIOUS
      <4> QED
        BY <4>1, <4>2 DEF Received
    <3> QED
      BY <3>1 DEF Boxed, Kept, Elements
  <2> QED
    BY <1>2, <2>1 DEF Mailing
<1> QED
  BY <1>1, <1>3, <1>4, <1>5 DEF IInv

\* The invariant is inductive.
LEMMA Inductive == IInv /\ [Next]_vars => IInv'
<1> SUFFICES ASSUME IInv, [Next]_vars PROVE IInv'
  OBVIOUS
<1>1. Typed /\ Streaming /\ NamesResolve /\ Mailing
  BY DEF IInv
<1> QED
  BY <1>1, TypedStep, StreamingStep, NamesStep, MailingStep DEF IInv

\* It holds in every reachable state.
LEMMA Invariance == Spec => []IInv
  BY Initially, Inductive, PTL DEF Spec

-----------------------------------------------------------------------------
\* Every variable of the supervisor keeps its type.
THEOREM SupervisorTypes == Spec => []TypeOK
<1>1. IInv => TypeOK
  BY DEF IInv, Typed
<1> QED
  BY Invariance, <1>1, PTL

\* settle, SetWorkerMeta, reportWorkerFinished and publish each take their own
\* look at the task: the finished event the observer gets, the task map and the
\* store still tell the same outcome.
THEOREM OutcomeTold == Spec => []OutcomeIsTold
<1>1. IInv => OutcomeIsTold
  <2> SUFFICES ASSUME IInv, NEW t \in Task
               PROVE  /\ \A i \in 1..Len(log[t]) :
                           log[t][i].type = "finished" => log[t][i].status = status[t]
                      /\ pcR[t] = "done" => /\ status[t] \in Terminal
                                            /\ app[t] = status[t] /\ t \notin cancels
    BY DEF OutcomeIsTold
  <2>1. Told(t) /\ Phase(t)
    BY DEF IInv, Streaming, Typed, Phases
  <2> QED
    BY <2>1 DEF Told, Honest, Phase
<1> QED
  BY Invariance, <1>1, PTL

\* RegisterName and CheckName: the name a live worker was launched under leads
\* to that worker, whatever other launches want the same name.
THEOREM NamesResolved == Spec => []NamesResolve
<1>1. IInv => NamesResolve
  BY DEF IInv
<1> QED
  BY Invariance, <1>1, PTL

\* QueueMessage and DrainMessages: no message is given to the worker twice,
\* however often the sender retries, and mailbox.jsonl lists messages the worker
\* was given, in the order it was given them.
THEOREM MailOnce == Spec => []MailOnceInOrder
<1>1. IInv => MailOnceInOrder
  <2> SUFFICES ASSUME IInv, NEW t \in Task
               PROVE  Kept(mail[t].seen, Received(t), journal[t])
    BY DEF MailOnceInOrder, Kept
  <2> QED
    BY DEF IInv, Mailing, Boxed
<1> QED
  BY Invariance, <1>1, PTL

\* QueueMessage returned nil: the message is in the mailbox or was drained.
THEOREM MailIsKept == Spec => []AcknowledgedMailIsKept
<1>1. IInv => AcknowledgedMailIsKept
  <2> SUFFICES ASSUME IInv, NEW m \in Msg, pcM[m] = "ok"
               PROVE  m \in Elements(Received(target[m]))
    BY DEF AcknowledgedMailIsKept
  <2>1. target[m] \in Task
    <3>1. target \in [Msg -> Task \cup {NoTask}]
      BY DEF IInv, Typed, TypeOK
    <3>2. target[m] # NoTask
      BY DEF IInv, Typed, Phases, Sending
    <3> QED
      BY <3>1, <3>2
  <2>2. m \in mail[target[m]].seen
    BY DEF IInv, Mailing
  <2> QED
    BY <2>1, <2>2 DEF IInv, Mailing, Boxed, Kept
<1> QED
  BY Invariance, <1>1, PTL

-----------------------------------------------------------------------------
(* The stream of events is what WorkerStream promises.                     *)

Types(s) == [i \in 1..Len(s) |-> s[i].type]
Fate(t)  == IF status[t] \in Terminal THEN status[t] ELSE "none"

\* The types of some events are a sequence, as long as they are.
LEMMA TypesAreASeq ==
  ASSUME NEW s \in Seq(Events)
  PROVE  /\ Types(s) \in Seq(EventTypes) /\ Len(Types(s)) = Len(s)
         /\ \A i \in 1..Len(s) : Types(s)[i] = s[i].type
<1>1. Len(s) \in Nat /\ \A i \in 1..Len(s) : s[i].type \in EventTypes
  <2>1. Len(s) \in Nat
    BY LenProperties
  <2>2. \A i \in 1..Len(s) : s[i] \in Events
    BY ElementOfSeq
  <2>3. \A e \in Events : e.type \in EventTypes
    BY DEF Events
  <2> QED
    BY <2>1, <2>2, <2>3
<1>2. Types(s) \in [1..Len(s) -> EventTypes]
  BY <1>1 DEF Types
<1>3. Types(s) \in Seq(EventTypes)
  BY <1>1, <1>2, SeqDef
<1>4. Len(Types(s)) = Len(s)
  <2>1. DOMAIN Types(s) = 1..Len(s)
    BY DEF Types
  <2>2. DOMAIN Types(s) = 1..Len(Types(s)) /\ Len(Types(s)) \in Nat
    BY <1>3, LenProperties
  <2>3. \A m, n \in Nat : 1..m = 1..n => m = n
    <3> SUFFICES ASSUME NEW m \in Nat, NEW n \in Nat,
                        \A i \in Nat : 1 <= i /\ i <= m <=> 1 <= i /\ i <= n
                 PROVE  m = n
      OBVIOUS
    <3> QED
      OBVIOUS
  <2> QED
    BY <1>1, <2>1, <2>2, <2>3
<1> QED
  BY <1>3, <1>4 DEF Types

\* One more event is one more type.
LEMMA TypesGrow ==
  ASSUME NEW s \in Seq(Events), NEW e \in Events
  PROVE  Types(Append(s, e)) = Append(Types(s), e.type)
<1>1. PICK r \in Seq(Events) : r = Append(s, e)
  BY AppendProperties
<1>2. /\ Len(s) \in Nat /\ Len(r) = Len(s) + 1 /\ r[Len(s) + 1] = e
      /\ \A i \in 1..Len(s) : r[i] = s[i]
  BY <1>1, AppendProperties
<1>3. e.type \in EventTypes
  BY DEF Events
<1>4. PICK f \in Seq(EventTypes) : f = Types(s)
  BY TypesAreASeq
<1>5. Len(f) = Len(s) /\ \A i \in 1..Len(s) : f[i] = s[i].type
  BY <1>4, TypesAreASeq
<1>6. PICK g \in Seq(EventTypes) : g = Append(f, e.type)
  BY <1>3, AppendProperties
<1>7. /\ Len(g) = Len(s) + 1 /\ g[Len(s) + 1] = e.type
      /\ \A i \in 1..Len(s) : g[i] = s[i].type
  BY <1>3, <1>5, <1>6, AppendProperties
<1>8. PICK h \in Seq(EventTypes) : h = Types(r)
  BY TypesAreASeq
<1>9. Len(h) = Len(r) /\ \A i \in 1..Len(r) : h[i] = r[i].type
  BY <1>8, TypesAreASeq
<1>10. \A i \in 1..Len(r) : h[i] = g[i]
  BY <1>2, <1>7, <1>9
<1>11. h = g
  BY <1>2, <1>7, <1>9, <1>10, SeqEqual
<1> QED
  BY <1>1, <1>4, <1>6, <1>8, <1>11

\* What the observer hears is an announcement, a report or a finish.
LEMMA HearingIsAllowed ==
  ASSUME Typed, Streaming, Observe
  PROVE  Stream!Next
<1>1. PICK t \in Task, e \in Events : Hears(t, e)
  BY FirstIsHeard
<1>2. /\ log' = [log EXCEPT ![t] = Append(log[t], e)] /\ UNCHANGED status
      /\ log[t] \in Seq(Events) /\ e.task = t
      /\ log = [u \in Task |-> log[u]]
  BY <1>1, TypesAreFunctions DEF Hears, Typed, Tables
<1> DEFINE told == [u \in Task |-> Types(log[u])]
           told2 == [u \in Task |-> Types(log'[u])]
<1>3. told2 = [told EXCEPT ![t] = Append(told[t], e.type)]
  <2>1. Types(log'[t]) = Append(Types(log[t]), e.type)
    BY <1>2, TypesGrow
  <2>2. \A u \in Task \ {t} : log'[u] = log[u]
    BY <1>2
  <2> QED
    BY <2>1, <2>2
<1>4. Stream!Tell(t, e.type)
  BY <1>3 DEF Stream!Tell, Types
<1>5. UNCHANGED [u \in Task |-> IF status[u] \in Terminal THEN status[u] ELSE "none"]
  BY <1>2
<1>6. CASE e.type = "started"
  <2>1. told[t] = <<>>
    BY <1>1, <1>6, EmptySeq DEF Hears, Types
  <2>2. Stream!Announce(t)
    BY <1>4, <1>5, <1>6, <2>1 DEF Stream!Announce, Types
  <2> QED
    BY <2>2 DEF Stream!Next
<1>7. CASE e.type # "started"
  <2>1. /\ Len(told[t]) = Len(log[t]) /\ Len(log[t]) \in Nat \ {0}
        /\ \A i \in 1..Len(log[t]) : told[t][i] = log[t][i].type
    BY <1>1, <1>2, <1>7, TypesAreASeq, EmptySeq DEF Hears
  <2>2. log[t][1].type = "started"
    BY <2>1 DEF Streaming, Told
  <2>3. \A i \in 1..Len(log[t]) : log[t][i].type # "finished"
    BY <1>1, <1>7 DEF Hears
  <2>4. Stream!Said(t, "started") /\ ~Stream!Said(t, "finished")
    <3>1. \A what : Stream!Said(t, what) <=> \E i \in 1..Len(told[t]) : told[t][i] = what
      BY DEF Stream!Said, Types
    <3> HIDE DEF told
    <3>2. \E i \in 1..Len(told[t]) : told[t][i] = "started"
      BY <2>1, <2>2
    <3>3. ~ \E i \in 1..Len(told[t]) : told[t][i] = "finished"
      BY <2>1, <2>3
    <3> QED
      BY <3>1, <3>2, <3>3
  <2>5. CASE e.type = "finished"
    <3>1. status[t] \in Terminal
      BY <1>1, <2>5 DEF Hears, Honest
    <3>2. Stream!Finish(t)
      BY <1>4, <1>5, <2>4, <2>5, <3>1 DEF Stream!Finish, Terminal
    <3> QED
      BY <3>2 DEF Stream!Next
  <2>6. CASE e.type # "finished"
    <3>1. e.type \in {"progress", "usage", "message"}
      BY <1>7, <2>6 DEF Events, EventTypes
    <3>2. Stream!Report(t)
      BY <1>4, <1>5, <2>4, <3>1 DEF Stream!Report
    <3> QED
      BY <3>2 DEF Stream!Next
  <2> QED
    BY <2>5, <2>6
<1> QED
  BY <1>6, <1>7

\* The run goroutine's critical section settles the outcome.
LEMMA SettlingIsAllowed ==
  ASSUME Typed, NEW t \in Task, Settle(t), status[t] = "running"
  PROVE  Stream!Next
<1>1. /\ status' = [status EXCEPT ![t] = Verdict(t)] /\ UNCHANGED log
      /\ status = [u \in Task |-> status[u]]
  BY TypesAreFunctions DEF Settle, Typed, Tables
<1>2. Verdict(t) \in Terminal
  BY DEF Verdict, Terminal
<1>3. [u \in Task |-> IF status'[u] \in Terminal THEN status'[u] ELSE "none"]
      = [[u \in Task |-> IF status[u] \in Terminal THEN status[u] ELSE "none"]
           EXCEPT ![t] = Verdict(t)]
  BY <1>1, <1>2
<1>4. status[t] \notin Terminal
  BY DEF Terminal
<1>5. Stream!Settle(t)
  BY <1>1, <1>2, <1>3, <1>4 DEF Stream!Settle
<1> QED
  BY <1>5 DEF Stream!Next

\* Every step of the supervisor is a step of the stream, or none.
LEMMA StreamSteps ==
  ASSUME IInv, [Next]_vars
  PROVE  [Stream!Next]_(Stream!vars)
<1>0. Typed /\ Streaming
  BY DEF IInv
<1>1. CASE Observe
  BY <1>0, <1>1, HearingIsAllowed
<1>2. ASSUME NEW t \in Task, Settle(t), status[t] = "running" PROVE Stream!Next
  BY <1>0, <1>2, SettlingIsAllowed
<1>3. ASSUME UNCHANGED <<log, status>> PROVE UNCHANGED Stream!vars
  BY <1>3 DEF Stream!vars
<1>4. ASSUME NEW t \in Task, StartPending(t) \/ StartRunning(t) PROVE UNCHANGED Stream!vars
  <2>1. \A u \in Task : \/ status'[u] = status[u]
                        \/ status[u] \notin Terminal /\ status'[u] \notin Terminal
    <3>1. status = [u \in Task |-> status[u]]
      BY <1>0, TypesAreFunctions DEF Typed, Tables
    <3>2. Phase(t)
      BY <1>0 DEF Typed, Phases
    <3>3. status[t] \notin Terminal
      BY <1>4, <3>2 DEF Phase, StartPending, StartRunning, Terminal
    <3>4. status'[t] \notin Terminal /\ \A u \in Task \ {t} : status'[u] = status[u]
      <4>1. \/ status' = [status EXCEPT ![t] = "pending"]
            \/ status' = [status EXCEPT ![t] = "running"]
        BY <1>4 DEF StartPending, StartRunning
      <4> QED
        BY <3>1, <4>1 DEF Terminal
    <3> TAKE u \in Task
    <3>5. CASE u = t
      BY <3>3, <3>4, <3>5
    <3>6. CASE u # t
      BY <3>4, <3>6
    <3> QED
      BY <3>5, <3>6
  <2>2. UNCHANGED log
    BY <1>4 DEF StartPending, StartRunning
  <2>3. [u \in Task |-> IF status'[u] \in Terminal THEN status'[u] ELSE "none"]
        = [u \in Task |-> IF status[u] \in Terminal THEN status[u] ELSE "none"]
    BY <2>1
  <2> QED
    BY <2>2, <2>3 DEF Stream!vars
<1>5. ASSUME ~Observe,
             \A t \in Task : ~StartPending(t) /\ ~StartRunning(t)
                            /\ ~(Settle(t) /\ status[t] = "running")
      PROVE  UNCHANGED <<log, status>>
  BY ZenonT(60), <1>5 DEF Next, vars, LauncherStep, RunnerStep, SenderStep, taskVars, Launch,
         StartFails, PublishLaunch, RegisterName, StopLost, SetWorkerMeta, HandOverID, AwaitID,
         ReportUsage, RunEnds, Settle, ReportFinished, PublishEnd, ReportProgress, Stop,
         DrainMessages, QueueMessage, ReportMessage, MessageQueued
<1> QED
  BY <1>1, <1>2, <1>3, <1>4, <1>5

\* worker_events.go: whatever the order in which launcher, run goroutine and
\* senders take emitMu, an observer hears started first, at most one finished,
\* with the outcome the task has, and nothing after it.
THEOREM StreamKept == Spec => WorkerStreamKept
<1>1. Init => Stream!Init
  <2> SUFFICES ASSUME Init PROVE Stream!Init
    OBVIOUS
  <2>1. \A t \in Task : log[t] = <<>> /\ status[t] = "none"
    BY DEF Init
  <2>2. \A t \in Task : Types(log[t]) = <<>>
    BY <2>1, EmptySeq DEF Types
  <2> QED
    BY <2>1, <2>2 DEF Stream!Init, Types, Terminal
<1> QED
  BY <1>1, StreamSteps, Invariance, PTL DEF Spec, WorkerStreamKept, Stream!Spec
=============================================================================
