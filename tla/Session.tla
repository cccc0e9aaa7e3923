-------------------------------- MODULE Session --------------------------------
(***************************************************************************)
(* internal/server/session.go, session_title.go, handler_session_ops.go,   *)
(* handler_cancel.go and session_evict.go, with runctl.Controller: one     *)
(* browser session.  Its runs, its clear and compact operations, the       *)
(* title request and the dream that follow a run, cancellation and the     *)
(* stop of the whole session all meet in s.running, s.state and the        *)
(* controller, under two mutexes that are never held together for long.    *)
(***************************************************************************)
EXTENDS Naturals, Sequences

CONSTANTS Message,     \* POST /messages requests, and the runs they start
          Op,          \* POST /clear and /compact requests
          Canceller,   \* POST /cancel requests
          Write,       \* file-writing tool calls
          Coordinator, \* whether the session has a task supervisor
          None         \* no run

ASSUME NoneAssumption == None \notin Message
ASSUME CoordinatorAssumption == Coordinator \in BOOLEAN

VARIABLES
  state,        \* s.state
  running,      \* s.running
  stopped,      \* s.ctx is cancelled
  pcS,          \* who stops the session: DELETE, the idle sweep or eviction
  active,       \* the run s.ctl controls
  halted,       \* runs whose own context was cancelled
  pcR,          \* the goroutine of each run
  history,      \* history[r]: the conversation r was given
  awaits,       \* awaits[r]: the title request r lets finish first
  conversation, \* s.conversation, one element per turn
  writes,       \* s.activeWrites
  titlePending, titleDone,  \* s.titlePending, s.titleDone
  asker,        \* whose title request is under way: titleStarted, titleCancel
  hushed,       \* title requests that were cancelled
  pcG,          \* the title goroutine each run leaves behind
  pcO,          \* the handler of each clear and compact
  snapshot,     \* snapshot[o]: the history a compaction works on
  pcC,          \* the handler of each cancel
  grip,         \* grip[c]: the run whose cancel function c holds
  dream,        \* the dream each run leaves behind
  dreamTask,    \* supervisor.dreamTaskID
  killed        \* dreams whose context was cancelled

stopVars  == <<stopped, pcS>>
runVars   == <<active, halted, pcR, history, awaits>>
titleVars == <<titlePending, titleDone, asker, hushed, pcG>>
opVars    == <<pcO, snapshot>>
cancelVars == <<pcC, grip>>
dreamVars == <<dream, dreamTask, killed>>
vars == <<state, running, stopVars, runVars, conversation, writes, titleVars, opVars,
          cancelVars, dreamVars>>

Init ==
  /\ state = "ready" /\ running = FALSE
  /\ stopped = FALSE /\ pcS = "idle"
  /\ active = None /\ halted = {}
  /\ pcR = [r \in Message |-> "idle"]
  /\ history = [r \in Message |-> <<>>]
  /\ awaits = [r \in Message |-> None]
  /\ conversation = <<>> /\ writes = {}
  /\ titlePending = FALSE /\ titleDone = FALSE /\ asker = None /\ hushed = {}
  /\ pcG = [r \in Message |-> "none"]
  /\ pcO = [o \in Op |-> "idle"]
  /\ snapshot = [o \in Op |-> <<>>]
  /\ pcC = [c \in Canceller |-> "idle"]
  /\ grip = [c \in Canceller |-> None]
  /\ dream = [r \in Message |-> "none"] /\ dreamTask = None /\ killed = {}

Closing == state = "closing"
Halted(r) == r \in halted \/ stopped

-----------------------------------------------------------------------------
(* StartRun and the run's goroutine.                                       *)

RefuseRun(r) ==
  /\ pcR[r] = "idle"
  /\ running \/ Closing \/ active # None
  /\ pcR' = [pcR EXCEPT ![r] = "refused"]
  /\ UNCHANGED <<state, running, stopVars, active, halted, history, awaits, conversation,
                 writes, titleVars, opVars, cancelVars, dreamVars>>

\* What StartRun does to a run it accepts, under s.mu.
Accept(r) ==
  /\ running' = TRUE /\ state' = "running"
  /\ active' = r
  /\ history' = [history EXCEPT ![r] = conversation]
  /\ pcR' = [pcR EXCEPT ![r] = "begun"]
  /\ UNCHANGED <<stopVars, halted, conversation, writes, titleDone, asker, pcG, opVars,
                 cancelVars, dreamVars>>

\* Defect: the title request is cancelled and the run does not wait for it.
YieldTitleNoWait(r) ==
  IF titlePending /\ ~titleDone
    THEN /\ titlePending' = FALSE
         /\ hushed' = hushed \cup ({asker} \ {None})
         /\ UNCHANGED awaits
    ELSE UNCHANGED <<titlePending, hushed, awaits>>

\* "A title request must yield to an interactive run": a pending title is
\* given up and the request under way, if any, is cancelled and awaited.
YieldTitle(r) ==
  IF titlePending /\ ~titleDone
    THEN /\ titlePending' = FALSE
         /\ hushed' = hushed \cup ({asker} \ {None})
         /\ awaits' = [awaits EXCEPT ![r] = asker]
    ELSE UNCHANGED <<titlePending, hushed, awaits>>

\* Defect: the controller alone decides whether a run may start.
StartRunByController(r) ==
  /\ pcR[r] = "idle"
  /\ ~Closing /\ active = None
  /\ Accept(r)
  /\ YieldTitle(r)

StartRun(r) ==
  /\ pcR[r] = "idle"
  /\ ~running /\ ~Closing /\ active = None
  /\ Accept(r)
  /\ YieldTitle(r)

RunStep(r, from, to) == pcR[r] = from /\ pcR' = [pcR EXCEPT ![r] = to]

\* StartRun goes on without the lock: the recorded dream is stopped.
KillDream(r) ==
  /\ RunStep(r, "begun", "launched")
  /\ killed' = killed \cup {d \in {dreamTask} \ {None} : dream[d] = "running"}
  /\ UNCHANGED <<state, running, stopVars, active, halted, history, awaits, conversation,
                 writes, titleVars, opVars, cancelVars, dream, dreamTask>>

Awaited(r) == awaits[r] # None => pcG[awaits[r]] = "done"

Work(r) ==
  /\ Awaited(r)
  /\ RunStep(r, "launched", "working")
  /\ UNCHANGED <<state, running, stopVars, active, halted, history, awaits, conversation,
                 writes, titleVars, opVars, cancelVars, dreamVars>>

\* turnprep.Prepare fails: the history is left alone.
PrepFails(r) ==
  /\ Awaited(r)
  /\ RunStep(r, "launched", "answered")
  /\ UNCHANGED <<state, running, stopVars, active, halted, history, awaits, conversation,
                 writes, titleVars, opVars, cancelVars, dreamVars>>

ToolUseStart(r, w) ==
  /\ pcR[r] = "working"
  /\ writes' = writes \cup {w}
  /\ UNCHANGED <<state, running, stopVars, runVars, conversation, titleVars, opVars,
                 cancelVars, dreamVars>>

ToolUseResult(r, w) ==
  /\ pcR[r] = "working"
  /\ w \in writes
  /\ writes' = writes \ {w}
  /\ UNCHANGED <<state, running, stopVars, runVars, conversation, titleVars, opVars,
                 cancelVars, dreamVars>>

\* The agent's only Terminal: the turn is appended and a title becomes due.
Terminal(r) ==
  /\ RunStep(r, "working", "answered")
  /\ writes' = {}
  /\ titlePending' = (titlePending \/ ~titleDone)
  /\ conversation' = Append(conversation, r)
  /\ UNCHANGED <<state, running, stopVars, active, halted, history, awaits, titleDone, asker,
                 hushed, pcG, opVars, cancelVars, dreamVars>>

\* The events end without a Terminal: once the run is cancelled the loop gives
\* up on a slow reader (sendTerminal), and the memory runner may return before
\* it starts the loop.  Nothing of the run is kept, its writes stay tracked.
EndUntold(r) ==
  /\ Halted(r)
  /\ RunStep(r, "working", "answered")
  /\ UNCHANGED <<state, running, stopVars, active, halted, history, awaits, conversation,
                 writes, titleVars, opVars, cancelVars, dreamVars>>

-----------------------------------------------------------------------------
(* The deferred end of runAgent, one step per critical section.            *)

\* ctl.Finish ignores a run that is not the current one.
Finish(r) ==
  /\ RunStep(r, "answered", "finished")
  /\ active' = IF active = r THEN None ELSE active
  /\ halted' = IF active = r THEN halted \cup {r} ELSE halted
  /\ UNCHANGED <<state, running, stopVars, history, awaits, conversation, writes, titleVars,
                 opVars, cancelVars, dreamVars>>

\* Defect: only the Terminal event clears the writes.
LeaveFileWrites(r) ==
  /\ RunStep(r, "finished", "cleared")
  /\ UNCHANGED <<state, running, stopVars, active, halted, history, awaits, conversation,
                 writes, titleVars, opVars, cancelVars, dreamVars>>

ClearFileWrites(r) ==
  /\ RunStep(r, "finished", "cleared")
  /\ writes' = {}
  /\ UNCHANGED <<state, running, stopVars, active, halted, history, awaits, conversation,
                 titleVars, opVars, cancelVars, dreamVars>>

\* The session is free, and the title goroutine is started if one is due.
Release(r) ==
  /\ RunStep(r, "cleared", "released")
  /\ running' = FALSE /\ state' = "ready"
  /\ pcG' = [pcG EXCEPT ![r] = IF titlePending /\ ~titleDone THEN "scheduled" ELSE "done"]
  /\ UNCHANGED <<stopVars, active, halted, history, awaits, conversation, writes,
                 titlePending, titleDone, asker, hushed, opVars, cancelVars, dreamVars>>

\* SpawnDream: no coordinator, workers are busy, a dream is on, Start failed.
SkipDream(r) ==
  /\ pcR[r] \in {"released", "spawning"}
  /\ pcR' = [pcR EXCEPT ![r] = "ended"]
  /\ UNCHANGED <<state, running, stopVars, active, halted, history, awaits, conversation,
                 writes, titleVars, opVars, cancelVars, dreamVars>>

CheckDream(r) ==
  /\ RunStep(r, "released", "spawning")
  /\ Coordinator
  /\ dreamTask # None => dream[dreamTask] # "running"
  /\ UNCHANGED <<state, running, stopVars, active, halted, history, awaits, conversation,
                 writes, titleVars, opVars, cancelVars, dreamVars>>

StartDream(r) ==
  /\ RunStep(r, "spawning", "naming")
  /\ dream' = [dream EXCEPT ![r] = "running"]
  /\ UNCHANGED <<state, running, stopVars, active, halted, history, awaits, conversation,
                 writes, titleVars, opVars, cancelVars, dreamTask, killed>>

RecordDream(r) ==
  /\ RunStep(r, "naming", "ended")
  /\ dreamTask' = r
  /\ UNCHANGED <<state, running, stopVars, active, halted, history, awaits, conversation,
                 writes, titleVars, opVars, cancelVars, dream, killed>>

DreamEnds(r) ==
  /\ dream[r] = "running"
  /\ dream' = [dream EXCEPT ![r] = "over"]
  /\ UNCHANGED <<state, running, stopVars, runVars, conversation, writes, titleVars, opVars,
                 cancelVars, dreamTask, killed>>

-----------------------------------------------------------------------------
(* generateSessionTitle.                                                   *)

TitleUnwanted == ~titlePending \/ titleDone \/ running \/ Closing

SkipTitle(g) ==
  /\ pcG[g] = "scheduled"
  /\ TitleUnwanted \/ asker # None
  /\ pcG' = [pcG EXCEPT ![g] = "done"]
  /\ UNCHANGED <<state, running, stopVars, runVars, conversation, writes, titlePending,
                 titleDone, asker, hushed, opVars, cancelVars, dreamVars>>

AskTitle(g) ==
  /\ pcG[g] = "scheduled"
  /\ ~TitleUnwanted /\ asker = None
  /\ pcG' = [pcG EXCEPT ![g] = "asking"]
  /\ asker' = g
  /\ UNCHANGED <<state, running, stopVars, runVars, conversation, writes, titlePending,
                 titleDone, hushed, opVars, cancelVars, dreamVars>>

\* The request is over: answered, failed, cancelled or timed out.  The title
\* (the model's or the fallback) is kept unless it came too late.
KeepTitle(g) ==
  /\ pcG[g] = "asking"
  /\ pcG' = [pcG EXCEPT ![g] = "leaving"]
  /\ IF g \in hushed \/ stopped \/ TitleUnwanted
       THEN UNCHANGED <<titlePending, titleDone>>
       ELSE titlePending' = FALSE /\ titleDone' = TRUE
  /\ UNCHANGED <<state, running, stopVars, runVars, conversation, writes, asker, hushed,
                 opVars, cancelVars, dreamVars>>

\* Defect: the goroutine leaves without closing titleFinished.
LeaveTitleOpen(g) ==
  /\ pcG[g] = "leaving"
  /\ asker' = None
  /\ pcG' = [pcG EXCEPT ![g] = "gone"]
  /\ UNCHANGED <<state, running, stopVars, runVars, conversation, writes, titlePending,
                 titleDone, hushed, opVars, cancelVars, dreamVars>>

LeaveTitle(g) ==
  /\ pcG[g] = "leaving"
  /\ asker' = None
  /\ pcG' = [pcG EXCEPT ![g] = "done"]
  /\ UNCHANGED <<state, running, stopVars, runVars, conversation, writes, titlePending,
                 titleDone, hushed, opVars, cancelVars, dreamVars>>

-----------------------------------------------------------------------------
(* Clear and compact: beginIdleOp, the operation, endIdleOp.               *)

RefuseOp(o) ==
  /\ pcO[o] = "idle"
  /\ running
  /\ pcO' = [pcO EXCEPT ![o] = "refused"]
  /\ UNCHANGED <<state, running, stopVars, runVars, conversation, writes, titleVars,
                 snapshot, cancelVars, dreamVars>>

\* Defect: beginIdleOp asks the controller, which knows of runs only.
BeginOpByController(o) ==
  /\ pcO[o] = "idle"
  /\ active = None
  /\ running' = TRUE /\ state' = "running"
  /\ \E kind \in {"clear", "compact"} : pcO' = [pcO EXCEPT ![o] = kind]
  /\ UNCHANGED <<stopVars, runVars, conversation, writes, titleVars, snapshot, cancelVars,
                 dreamVars>>

BeginOp(o) ==
  /\ pcO[o] = "idle"
  /\ ~running
  /\ running' = TRUE /\ state' = "running"
  /\ \E kind \in {"clear", "compact"} : pcO' = [pcO EXCEPT ![o] = kind]
  /\ UNCHANGED <<stopVars, runVars, conversation, writes, titleVars, snapshot, cancelVars,
                 dreamVars>>

Clear(o) ==
  /\ pcO[o] = "clear"
  /\ conversation' = <<>>
  /\ pcO' = [pcO EXCEPT ![o] = "applied"]
  /\ UNCHANGED <<state, running, stopVars, runVars, writes, titleVars, snapshot, cancelVars,
                 dreamVars>>

ReadHistory(o) ==
  /\ pcO[o] = "compact"
  /\ snapshot' = [snapshot EXCEPT ![o] = conversation]
  /\ pcO' = [pcO EXCEPT ![o] = "summarising"]
  /\ UNCHANGED <<state, running, stopVars, runVars, conversation, writes, titleVars,
                 cancelVars, dreamVars>>

\* The summary replaces older turns, truncation drops them; a skipped or
\* denied compaction leaves the history alone.
Compact(o) ==
  /\ pcO[o] = "summarising"
  /\ \/ UNCHANGED conversation
     \/ \E k \in 1..Len(snapshot[o]) :
          conversation' = SubSeq(snapshot[o], k, Len(snapshot[o]))
  /\ pcO' = [pcO EXCEPT ![o] = "applied"]
  /\ UNCHANGED <<state, running, stopVars, runVars, writes, titleVars, snapshot, cancelVars,
                 dreamVars>>

EndOp(o) ==
  /\ pcO[o] = "applied"
  /\ running' = FALSE /\ state' = "ready"
  /\ pcO' = [pcO EXCEPT ![o] = "done"]
  /\ UNCHANGED <<stopVars, runVars, conversation, writes, titleVars, snapshot, cancelVars,
                 dreamVars>>

-----------------------------------------------------------------------------
(* Controller.Cancel: the cancel function is read under the lock and       *)
(* called after it.                                                        *)

\* Defect: the controller's function is used although no run is current.
GripRunBlindly(c) ==
  /\ pcC[c] = "idle"
  /\ grip' = [grip EXCEPT ![c] = active]
  /\ pcC' = [pcC EXCEPT ![c] = "gripped"]
  /\ UNCHANGED <<state, running, stopVars, runVars, conversation, writes, titleVars, opVars,
                 dreamVars>>

GripRun(c) ==
  /\ pcC[c] = "idle"
  /\ grip' = [grip EXCEPT ![c] = active]
  /\ pcC' = [pcC EXCEPT ![c] = IF active = None THEN "done" ELSE "gripped"]
  /\ UNCHANGED <<state, running, stopVars, runVars, conversation, writes, titleVars, opVars,
                 dreamVars>>

\* Defect: whatever run is current by then is cancelled.
HaltCurrent(c) ==
  /\ pcC[c] = "gripped"
  /\ halted' = halted \cup ({active} \ {None})
  /\ pcC' = [pcC EXCEPT ![c] = "done"]
  /\ UNCHANGED <<state, running, stopVars, active, pcR, history, awaits, conversation, writes,
                 titleVars, opVars, grip, dreamVars>>

Halt(c) ==
  /\ pcC[c] = "gripped"
  /\ halted' = halted \cup {grip[c]}
  /\ pcC' = [pcC EXCEPT ![c] = "done"]
  /\ UNCHANGED <<state, running, stopVars, active, pcR, history, awaits, conversation, writes,
                 titleVars, opVars, grip, dreamVars>>

-----------------------------------------------------------------------------
(* stop, called by DELETE and the idle sweep at any time, and by eviction  *)
(* for a session it found idle and marked as closing.                      *)

Evict ==
  /\ pcS = "idle"
  /\ ~running /\ state = "ready"
  /\ state' = "closing" /\ pcS' = "marked"
  /\ UNCHANGED <<running, stopped, runVars, conversation, writes, titleVars, opVars,
                 cancelVars, dreamVars>>

StopCancel ==
  /\ pcS \in {"idle", "marked"}
  /\ stopped' = TRUE /\ pcS' = "cancelled"
  /\ UNCHANGED <<state, running, runVars, conversation, writes, titleVars, opVars, cancelVars,
                 dreamVars>>

StopClear ==
  /\ pcS = "cancelled"
  /\ writes' = {} /\ pcS' = "cleared"
  /\ UNCHANGED <<state, running, stopped, runVars, conversation, titleVars, opVars,
                 cancelVars, dreamVars>>

StopClose ==
  /\ pcS = "cleared"
  /\ state' = "closing" /\ pcS' = "closed"
  /\ UNCHANGED <<running, stopped, runVars, conversation, writes, titleVars, opVars,
                 cancelVars, dreamVars>>

-----------------------------------------------------------------------------
DreamStep(r) == SkipDream(r) \/ CheckDream(r) \/ StartDream(r) \/ RecordDream(r)
RunProgress(r) ==
  \/ KillDream(r) \/ Work(r) \/ PrepFails(r)
  \/ Finish(r) \/ ClearFileWrites(r) \/ Release(r) \/ DreamStep(r)
TitleStep(g) == SkipTitle(g) \/ AskTitle(g) \/ KeepTitle(g) \/ LeaveTitle(g)
OpStep(o) == Clear(o) \/ ReadHistory(o) \/ Compact(o) \/ EndOp(o)
StopStep == StopCancel \/ StopClear \/ StopClose

Next ==
  \/ \E r \in Message :
       \/ StartRun(r) \/ RefuseRun(r) \/ RunProgress(r) \/ Terminal(r) \/ EndUntold(r)
       \/ TitleStep(r) \/ DreamEnds(r)
       \/ \E w \in Write : ToolUseStart(r, w) \/ ToolUseResult(r, w)
  \/ \E o \in Op : BeginOp(o) \/ RefuseOp(o) \/ OpStep(o)
  \/ \E c \in Canceller : GripRun(c) \/ Halt(c)
  \/ Evict \/ StopStep

\* Goroutines that can run do run; a title request ends by itself within its
\* timeout.  An agent run is only sure to end once its context is cancelled:
\* the model may go on for as long as it likes.
Fairness ==
  /\ \A r \in Message : /\ WF_vars(RunProgress(r)) /\ WF_vars(TitleStep(r))
                        /\ WF_vars(Halted(r) /\ (Terminal(r) \/ EndUntold(r)))
  /\ \A c \in Canceller : WF_vars(Halt(c))

Spec == Init /\ [][Next]_vars
FairSpec == Spec /\ Fairness

-----------------------------------------------------------------------------
(* Properties.                                                             *)

RunPcs == {"idle", "refused", "begun", "launched", "working", "answered", "finished",
           "cleared", "released", "spawning", "naming", "ended"}

TypeOK ==
  /\ state \in {"ready", "running", "closing"}
  /\ running \in BOOLEAN /\ stopped \in BOOLEAN
  /\ pcS \in {"idle", "marked", "cancelled", "cleared", "closed"}
  /\ active \in Message \cup {None} /\ halted \in SUBSET Message
  /\ pcR \in [Message -> RunPcs]
  /\ history \in [Message -> Seq(Message)]
  /\ awaits \in [Message -> Message \cup {None}]
  /\ conversation \in Seq(Message) /\ writes \in SUBSET Write
  /\ titlePending \in BOOLEAN /\ titleDone \in BOOLEAN
  /\ asker \in Message \cup {None} /\ hushed \in SUBSET Message
  /\ pcG \in [Message -> {"none", "scheduled", "asking", "leaving", "done"}]
  /\ pcO \in [Op -> {"idle", "refused", "clear", "compact", "summarising", "applied", "done"}]
  /\ snapshot \in [Op -> Seq(Message)]
  /\ pcC \in [Canceller -> {"idle", "gripped", "done"}]
  /\ grip \in [Canceller -> Message \cup {None}]
  /\ dream \in [Message -> {"none", "running", "over"}]
  /\ dreamTask \in Message \cup {None} /\ killed \in SUBSET Message

RunHolds(r) == pcR[r] \in {"begun", "launched", "working", "answered", "finished", "cleared"}
OpHolds(o)  == pcO[o] \in {"clear", "compact", "summarising", "applied"}

\* session.go and handler_session_ops.go: runs, clears and compactions take
\* turns.  s.running says whether one holds the session, and the controller
\* controls the run that does until that run finishes.
SessionIsExclusive ==
  LET Holders == {r \in Message : RunHolds(r)} \cup {o \in Op : OpHolds(o)} IN
    /\ \A x, y \in Holders : x = y
    /\ running <=> Holders # {}
    /\ active # None <=> \E r \in Message : RunHolds(r) /\ pcR[r] \notin {"finished", "cleared"}
    /\ active # None => RunHolds(active)

\* The history a run answers, and the one a compaction summarises, is still
\* the session's history when the result is put back: no turn is lost.
HistoryIsHeld ==
  /\ \A r \in Message : pcR[r] \in {"begun", "launched", "working"} => conversation = history[r]
  /\ \A o \in Op : pcO[o] = "summarising" => conversation = snapshot[o]

\* session.go: "A title request must yield to an interactive run": none is
\* under way once the agent works.
TitleYieldsToRun ==
  \A r, g \in Message : pcR[r] = "working" => pcG[g] # "asking"

\* file_write_tracking.go: "a stale entry would answer 423 to saves forever".  A
\* write is tracked while a run works; a cancelled run that ended untold keeps its
\* own until it clears them, and has cleared them before it gives the session back.
WritesEndWithTheRun ==
  writes # {} =>
    \E r \in Message : \/ pcR[r] = "working"
                       \/ pcR[r] \in {"answered", "finished"} /\ Halted(r)

\* runctl.go: a cancel request aborts the run it found, never a later one.
CancelHitsItsRun ==
  \A r \in Message : (pcR[r] \in {"begun", "launched", "working"} /\ r \in halted)
                       => \E c \in Canceller : grip[c] = r

\* Every run StartRun accepts gets to work (or fails to prepare), whatever
\* title request it waits for; a cancelled run gives the session back.
EveryRunProgresses ==
  \A r \in Message :
    /\ (pcR[r] = "begun") ~> (pcR[r] \notin {"begun", "launched"})
    /\ (RunHolds(r) /\ Halted(r)) ~> (~RunHolds(r))

\* The plan for the dream's checks: "the previous dream is killed when a new
\* user prompt starts".
DreamYieldsToRun ==
  \A r, d \in Message : (pcR[r] = "working" /\ dream[d] = "running") => d \in killed
=============================================================================
