----------------------------- MODULE Checkpoints -----------------------------
(***************************************************************************)
(* The checkpoint that "continue" resumes from (internal/analysis/         *)
(* checkpoint.go, internal/runctl/terminal.go and their use in internal/   *)
(* tui/app.go): one file, latest-checkpoint.json, which every terminal     *)
(* interface of the user rewrites at the end of each of its runs.          *)
(***************************************************************************)
EXTENDS Naturals, Sequences, FiniteSets

CONSTANTS Tui,       \* running interfaces, in any directories
          Task,      \* prompts they will be given
          MaxFaults  \* bounds side questions, failed saves, crashes and clears

VARIABLES
  asked,    \* the last prompt in app.Messages of each, or None
  answer,   \* the last text of an agent there: [of, ends]
  shown,    \* the last text of an agent in the transcript
  run,      \* what is running: None, a task, or Side
  ended,    \* its Terminal has come, agentDoneMsg has not
  queue,    \* app.QueuedPrompts
  saving,   \* the checkpoint that is being written
  cut,      \* its file is truncated already
  file,     \* what is in the file: NoCheckpoint if there is none
  tasks,    \* those submitted so far
  faults,
  root,     \* history: the task a task is, or takes up again
  finished, \* history: roots whose last run answered in full
  newest,   \* history: where a run ended last
  stale,    \* history: the file is not about that end
  resumed   \* history: what "continue" took up last

sessionVars == <<asked, answer, shown, run, ended, queue, saving, cut>>
historyVars == <<root, finished, newest, stale, resumed>>
vars == <<sessionVars, file, tasks, faults, historyVars>>

None == "none"
Side == "side"
Nothing == "nothing"  \* a run over an empty history

NoText == [of |-> None, ends |-> "none"]
NoCheckpoint == [user |-> None, out |-> None, pending |-> FALSE, old |-> FALSE,
                 from |-> None, behind |-> FALSE, said |-> FALSE, refused |-> FALSE]
Torn == [NoCheckpoint EXCEPT !.out = "torn"]

Init ==
  /\ asked = [t \in Tui |-> None] /\ answer = [t \in Tui |-> NoText]
  /\ shown = [t \in Tui |-> NoText]
  /\ run = [t \in Tui |-> None] /\ ended = [t \in Tui |-> FALSE]
  /\ queue = [t \in Tui |-> <<>>]
  /\ saving = [t \in Tui |-> NoCheckpoint] /\ cut = [t \in Tui |-> FALSE]
  /\ file = NoCheckpoint /\ tasks = {} /\ faults = 0
  /\ root = [k \in Task |-> k] /\ finished = {} /\ newest = None /\ stale = FALSE
  /\ resumed = [what |-> NoCheckpoint, open |-> FALSE, stale |-> FALSE]

Free(t) == saving[t] = NoCheckpoint  \* Update runs one message at a time
Fault == faults < MaxFaults /\ faults' = faults + 1

-----------------------------------------------------------------------------
(* Prompts.                                                                *)

NextTask == CHOOSE k \in Task : k \notin tasks

\* submitPrompt, its last part: the prompt is in the history at once, and
\* waits behind a run that is active.
Submit(t) ==
  LET k == NextTask IN
  /\ tasks # Task /\ tasks' = tasks \cup {k}
  /\ asked' = [asked EXCEPT ![t] = k]
  /\ IF run[t] # None
       THEN queue' = [queue EXCEPT ![t] = Append(@, k)] /\ UNCHANGED run
       ELSE run' = [run EXCEPT ![t] = k] /\ UNCHANGED queue
  /\ UNCHANGED <<answer, shown, ended, saving, cut, faults, finished, newest, stale>>

\* Defect: whatever the file holds is taken up.
AnyCheckpoint == file.from # None

\* LoadPendingCheckpoint: no file, a torn one and a finished run are alike.
Pending == file.pending

\* Any prompt, and "continue" where nothing is pending.
submitPrompt(t) ==
  /\ Free(t) /\ Submit(t)
  /\ UNCHANGED <<file, root, resumed>>

\* "continue" for a checkpoint that is pending and not a day old: the prompt
\* holds the old one and its partial answer.  With no prompt left in the
\* history it names no task.
Resume(t) ==
  LET k == NextTask
      task == IF file.user = None THEN k ELSE root[file.user]
  IN
  /\ Free(t) /\ Pending /\ ~file.old
  /\ Submit(t)
  /\ root' = [root EXCEPT ![k] = task]
  /\ resumed' = [what |-> file, open |-> task \notin finished, stale |-> stale]
  /\ UNCHANGED file

\* An old one is deleted, and "continue" is a prompt like any other.
ContinueOld(t) ==
  /\ Free(t) /\ Pending /\ file.old
  /\ Submit(t) /\ file' = NoCheckpoint
  /\ UNCHANGED <<root, resumed>>

startBTWPrompt(t) ==
  /\ Free(t) /\ Fault
  /\ run[t] = None
  /\ run' = [run EXCEPT ![t] = Side]
  /\ UNCHANGED <<asked, answer, shown, ended, queue, saving, cut, file, tasks, historyVars>>

-----------------------------------------------------------------------------
(* The end of a run.                                                       *)

LooksLikeIncompleteFinalAnswer(m) == m.ends = "promise"

lastAssistant(kept, fallback) == IF kept # NoText THEN kept ELSE fallback

\* from: what ran; behind: a prompt was waiting behind it; said: the run left
\* text in the history; refused: the stop hook refused its end.
BuildCheckpoint(t, said, last, reason) ==
  [user |-> asked[t], out |-> last.of,
   pending |-> reason # "completed" \/ LooksLikeIncompleteFinalAnswer(last), old |-> FALSE,
   from |-> run[t], behind |-> queue[t] # <<>>, said |-> said, refused |-> reason = "stop_hook"]

\* The last text of a run, if any.  Only one that stopped asking for tools can
\* have answered in full; the stop hook is asked after that.
Texts(reason) == {None} \cup (IF reason = "aborted" THEN {"part"} ELSE {"whole", "promise"})

\* What is kept of it is in the Terminal event: all that a run says that stops by
\* itself, while a reply that was cut off is shown but not always kept.
Kept(reason, text) ==
  {kept \in BOOLEAN : IF text = None THEN ~kept ELSE reason # "aborted" => kept}

\* ApplyTerminal, then BuildCheckpoint from the history as it is then.
Terminal(t) ==
  /\ Free(t) /\ run[t] # None /\ ~ended[t]
  /\ \E reason \in {"completed", "stop_hook", "aborted"} :
     \E text \in Texts(reason) : \E kept \in Kept(reason, text) :
       LET new == [of |-> run[t], ends |-> text]
           left == kept /\ run[t] # Side
           transcript == IF text = None THEN shown[t] ELSE new
       IN /\ answer' = [answer EXCEPT ![t] = IF left THEN new ELSE @]
          /\ shown' = [shown EXCEPT ![t] = transcript]
          /\ saving' = [saving EXCEPT ![t] =
               BuildCheckpoint(t, left, lastAssistant(answer'[t], transcript), reason)]
          /\ finished' = IF run[t] \notin Task THEN finished
                         ELSE IF text = "whole" THEN finished \cup {root[run[t]]}
                         ELSE finished \ {root[run[t]]}
  /\ ended' = [ended EXCEPT ![t] = TRUE]
  /\ newest' = t /\ stale' = TRUE
  /\ UNCHANGED <<asked, run, queue, cut, file, tasks, faults, root, resumed>>

\* The events of a run that was cancelled are no longer drained: its Terminal
\* event is lost, and no checkpoint is written.
TerminalLost(t) ==
  /\ Free(t) /\ run[t] # None /\ ~ended[t] /\ Fault
  /\ ended' = [ended EXCEPT ![t] = TRUE]
  /\ newest' = None /\ stale' = TRUE
  /\ UNCHANGED <<asked, answer, shown, run, queue, saving, cut, file, tasks, root, finished, resumed>>

\* os.WriteFile: the file is truncated, then written.
Truncate(t) ==
  /\ ~Free(t) /\ ~cut[t]
  /\ cut' = [cut EXCEPT ![t] = TRUE] /\ file' = Torn
  /\ UNCHANGED <<asked, answer, shown, run, ended, queue, saving, tasks, faults, historyVars>>

\* Two interfaces that write at once may leave the end of the longer text
\* behind the shorter.
Write(t) ==
  /\ ~Free(t) /\ cut[t]
  /\ file' = saving[t] \/ (file # Torn /\ file' = Torn)
  /\ stale' = (newest # t)
  /\ saving' = [saving EXCEPT ![t] = NoCheckpoint] /\ cut' = [cut EXCEPT ![t] = FALSE]
  /\ UNCHANGED <<asked, answer, shown, run, ended, queue, tasks, faults, root, finished, newest, resumed>>

\* Its error is dropped, whether the file was opened or not.
SaveFails(t) ==
  /\ ~Free(t) /\ Fault
  /\ saving' = [saving EXCEPT ![t] = NoCheckpoint] /\ cut' = [cut EXCEPT ![t] = FALSE]
  /\ UNCHANGED <<asked, answer, shown, run, ended, queue, file, tasks, historyVars>>

\* A side question that was asked meanwhile comes first.  The prompt at the head
\* of the queue is dropped for a run of the history as it is now, whose last
\* prompt may be another, or gone.
agentDone(t) ==
  /\ Free(t) /\ ended[t]
  /\ ended' = [ended EXCEPT ![t] = FALSE]
  /\ \/ run' = [run EXCEPT ![t] = Side] /\ Fault /\ UNCHANGED queue
     \/ /\ queue[t] # <<>> /\ queue' = [queue EXCEPT ![t] = Tail(@)]
        /\ run' = [run EXCEPT ![t] = IF asked[t] = None THEN Nothing ELSE asked[t]]
        /\ UNCHANGED faults
     \/ queue[t] = <<>> /\ run' = [run EXCEPT ![t] = None] /\ UNCHANGED <<queue, faults>>
  /\ UNCHANGED <<asked, answer, shown, saving, cut, file, tasks, historyVars>>

-----------------------------------------------------------------------------
(* Commands, the clock and crashes.                                        *)

\* /clear empties the history and the transcript, not the file.
Clear(t) ==
  /\ Free(t) /\ Fault /\ asked[t] # None
  /\ asked' = [asked EXCEPT ![t] = None] /\ answer' = [answer EXCEPT ![t] = NoText]
  /\ shown' = [shown EXCEPT ![t] = NoText]
  /\ UNCHANGED <<run, ended, queue, saving, cut, file, tasks, historyVars>>

\* /checkpoint clear.
DeleteCheckpoint ==
  /\ Fault /\ file # NoCheckpoint
  /\ file' = NoCheckpoint
  /\ UNCHANGED <<sessionVars, tasks, historyVars>>

ADayPasses ==
  /\ Fault /\ file \notin {NoCheckpoint, Torn} /\ ~file.old
  /\ file' = [file EXCEPT !.old = TRUE]
  /\ UNCHANGED <<sessionVars, tasks, historyVars>>

\* The interface is gone, in the middle of anything, and is started again.
Crash(t) ==
  /\ Fault /\ (tasks # {} \/ run[t] # None)
  /\ asked' = [asked EXCEPT ![t] = None] /\ answer' = [answer EXCEPT ![t] = NoText]
  /\ shown' = [shown EXCEPT ![t] = NoText]
  /\ run' = [run EXCEPT ![t] = None] /\ ended' = [ended EXCEPT ![t] = FALSE]
  /\ queue' = [queue EXCEPT ![t] = <<>>]
  /\ saving' = [saving EXCEPT ![t] = NoCheckpoint] /\ cut' = [cut EXCEPT ![t] = FALSE]
  /\ UNCHANGED <<file, tasks, historyVars>>

Next ==
  \/ \E t \in Tui :
       \/ submitPrompt(t) \/ Resume(t) \/ ContinueOld(t) \/ startBTWPrompt(t)
       \/ Terminal(t) \/ TerminalLost(t) \/ Truncate(t) \/ Write(t) \/ SaveFails(t)
       \/ agentDone(t) \/ Clear(t) \/ Crash(t)
  \/ DeleteCheckpoint \/ ADayPasses

Spec == Init /\ [][Next]_vars

-----------------------------------------------------------------------------
Runs == Task \cup {None, Side, Nothing}
Text == [of : Runs, ends : {"none", "whole", "promise", "part"}]
Checkpoint == [user : Task \cup {None}, out : Runs \cup {"torn"}, pending : BOOLEAN, old : BOOLEAN,
               from : Runs, behind : BOOLEAN, said : BOOLEAN, refused : BOOLEAN]

TypeOK ==
  /\ asked \in [Tui -> Task \cup {None}] /\ answer \in [Tui -> Text] /\ shown \in [Tui -> Text]
  /\ \A t \in Tui : queue[t] \in Seq(Task)
  /\ run \in [Tui -> Runs]
  /\ ended \in [Tui -> BOOLEAN] /\ saving \in [Tui -> Checkpoint]
  /\ cut \in [Tui -> BOOLEAN] /\ file \in Checkpoint
  /\ tasks \subseteq Task /\ faults \in 0..MaxFaults
  /\ root \in [Task -> Task] /\ finished \subseteq Task
  /\ newest \in Tui \cup {None} /\ stale \in BOOLEAN
  /\ resumed \in [what : Checkpoint, open : BOOLEAN, stale : BOOLEAN]

\* checkpoint.go: "recovery".  What "continue" takes up is not answered yet,
\* unless the stop hook refused the end of its run, a side question ended after
\* it, another prompt waited behind it or the file is not (yet) about the last
\* end of a run; it is the prompt whose run ended, unless another waited or the
\* history was cleared meanwhile; and the text with it is that run's own, if the
\* run left any.
ResumedIsOpen ==
  resumed.what # NoCheckpoint =>
    LET c == resumed.what IN
    /\ resumed.open \/ c.refused \/ c.from = Side \/ c.behind \/ resumed.stale
    /\ c.user \in {c.from, None} \/ c.from = Side \/ c.behind
    /\ c.out = c.from \/ ~c.said
=============================================================================
