---------------------------- MODULE OutputFiles ----------------------------
(***************************************************************************)
(* The output files of background tasks (internal/tasks/output.go,         *)
(* replay.go, supervisor.go): what a task writes, what TaskGet and         *)
(* TaskOutput read of it, and what a worker is told that a message to an   *)
(* ended one starts in its place (internal/cli/repl.go, internal/server/   *)
(* server.go).                                                             *)
(***************************************************************************)
EXTENDS Naturals, Sequences, FiniteSets

CONSTANTS MaxTasks,   \* bounds the tasks
          MaxSaid,    \* bounds the messages and the chunks of all of them
          MaxReplay,  \* messages a resumed worker is told, 50 in the code
          MaxTail,    \* lines that are read otherwise, 20 to 200
          MaxFaults   \* bounds failed writes

Task == 1..MaxTasks
Stream == {"stdout", "stderr"}

VARIABLES
  kind,     \* "none", "agent" or "shell"
  stage,    \* "idle", "running", "closing" while it has its end to write, "ended"
  stopped,  \* its context is cancelled
  file,     \* the lines of its file
  failed,   \* the error its json.Encoder keeps
  said,     \* the messages of its conversation, or the chunks its process wrote
  pipe,     \* chunks nobody has read yet
  faults,
  told,     \* what it was told of the task it resumes
  mute,     \* history: its Terminal was dropped
  cut       \* history: its pipes were closed with chunks in them

vars == <<kind, stage, stopped, file, failed, said, pipe, faults, told, mute, cut>>

Nothing == [from |-> 0, by |-> "none", lines |-> <<>>]

Init ==
  /\ kind = [t \in Task |-> "none"] /\ stage = [t \in Task |-> "idle"]
  /\ stopped = [t \in Task |-> FALSE] /\ file = [t \in Task |-> <<>>]
  /\ failed = [t \in Task |-> FALSE] /\ said = [t \in Task |-> <<>>]
  /\ pipe = [t \in Task |-> <<>>] /\ faults = 0
  /\ told = [t \in Task |-> Nothing]
  /\ mute = [t \in Task |-> FALSE] /\ cut = [t \in Task |-> FALSE]

-----------------------------------------------------------------------------
(* Lines. A message is "text" the model wrote, "mail" from another agent,  *)
(* "calls" without a word, or a "result" longer than a Scanner reads.      *)

Line(what, said_, n) == [what |-> what, said |-> said_, n |-> n]
Torn == Line("torn", "none", 0)
Exit == Line("exit", "none", 0)

TooLong(l) == l.what = "message" /\ l.said = "result"
Whole(l) == l.what # "torn"
Blank(l) == l.said = "calls"

LastOf(s, n) == IF Len(s) > n THEN SubSeq(s, Len(s) - n + 1, Len(s)) ELSE s
HasLong(s) == \E i \in 1..Len(s) : TooLong(s[i])

\* What a Scanner reads before it gives up on a long line.
Scanned(s) ==
  IF HasLong(s)
  THEN SubSeq(s, 1, (CHOOSE i \in 1..Len(s) :
                       TooLong(s[i]) /\ \A j \in 1..(i - 1) : ~TooLong(s[j])) - 1)
  ELSE s

\* Defect: the first lines are kept.
HeadLines(s, n) ==
  LET lines == SelectSeq(Scanned(s), Whole)
  IN IF Len(lines) > n THEN SubSeq(lines, 1, n) ELSE lines

TailLines(s, n) == LastOf(SelectSeq(Scanned(s), Whole), n)

ReplayMessagesFromOutput(s) ==
  IF HasLong(s) THEN <<>>
  ELSE LastOf(SelectSeq(s, LAMBDA l : l.what = "message"), MaxReplay)

\* Lines of one call after the other; one may fail, whole or in part, and the
\* encoder writes nothing after it.
Write(t, lines) ==
  \/ /\ ~failed[t]
     /\ file' = [file EXCEPT ![t] = @ \o lines]
     /\ UNCHANGED <<failed, faults>>
  \/ /\ ~failed[t] /\ faults < MaxFaults /\ lines # <<>>
     /\ \E k \in 0..(Len(lines) - 1), part \in {<<>>, <<Torn>>} :
          file' = [file EXCEPT ![t] = @ \o SubSeq(lines, 1, k) \o part]
     /\ failed' = [failed EXCEPT ![t] = TRUE]
     /\ faults' = faults + 1
  \/ failed[t] /\ UNCHANGED <<file, failed, faults>>

-----------------------------------------------------------------------------
(* Tasks.                                                                  *)

Unused(t) == kind[t] = "none" /\ \A u \in 1..(t - 1) : kind[u] # "none"
MaySay == Cardinality({n \in Task \X (1..MaxSaid) : n[2] <= Len(said[n[1]])}) < MaxSaid
Goes(t, to) == stage' = [stage EXCEPT ![t] = to]

Begin(t, what) ==
  /\ Unused(t)
  /\ kind' = [kind EXCEPT ![t] = what]
  /\ Goes(t, "running")

\* TaskCreate, or the Agent tool.
Create(t) ==
  /\ \E what \in {"agent", "shell"} : Begin(t, what)
  /\ UNCHANGED <<stopped, file, failed, said, pipe, faults, told, mute, cut>>

\* TaskStop.
Stop(t) ==
  /\ stage[t] \in {"running", "closing"} /\ ~stopped[t]
  /\ stopped' = [stopped EXCEPT ![t] = TRUE]
  /\ UNCHANGED <<kind, stage, file, failed, said, pipe, faults, told, mute, cut>>

\* A message joins the conversation; what is streamed of it is written at once.
Say(t) ==
  /\ kind[t] = "agent" /\ stage[t] = "running" /\ MaySay
  /\ \E what \in {"text", "mail", "calls", "result"} :
       LET n == Len(said[t]) + 1 IN
       /\ said' = [said EXCEPT ![t] = Append(@, Line("message", what, n))]
       /\ Write(t, IF what = "mail" THEN <<>> ELSE <<Line("event", what, n)>>)
  /\ UNCHANGED <<kind, stage, stopped, pipe, told, mute, cut>>

\* Its Terminal brings the whole conversation; a cancelled run may drop it.
Finish(t) ==
  /\ kind[t] = "agent" /\ stage[t] = "running"
  /\ Goes(t, "closing")
  /\ \/ Write(t, <<Line("terminal", "none", 0)>> \o said[t]) /\ UNCHANGED mute
     \/ /\ stopped[t]
        /\ mute' = [mute EXCEPT ![t] = TRUE]
        /\ UNCHANGED <<file, failed, faults>>
  /\ UNCHANGED <<kind, stopped, said, pipe, told, cut>>

\* A command writes to one of its pipes.
Prints(t) ==
  /\ kind[t] = "shell" /\ stage[t] = "running" /\ MaySay
  /\ \E s \in Stream :
       LET chunk == Line(s, "none", Len(said[t]) + 1) IN
       /\ said' = [said EXCEPT ![t] = Append(@, chunk)]
       /\ pipe' = [pipe EXCEPT ![t] = Append(@, chunk)]
  /\ UNCHANGED <<kind, stage, stopped, file, failed, faults, told, mute, cut>>

Of(s, chunks) == SelectSeq(chunks, LAMBDA c : c.what = s)
Others(s, chunks) == SelectSeq(chunks, LAMBDA c : c.what # s)

\* pumpStream, one for each pipe.
Pump(t) ==
  /\ kind[t] = "shell"
  /\ \E s \in Stream :
       LET mine == Of(s, pipe[t]) IN
       /\ mine # <<>>
       /\ pipe' = [pipe EXCEPT ![t] = Others(s, @) \o Tail(mine)]
       /\ Write(t, <<Head(mine)>>)
  /\ UNCHANGED <<kind, stage, stopped, said, told, mute, cut>>

\* The command ends or is killed; cmd.Wait closes the pipes as they are.
Wait(t) ==
  /\ kind[t] = "shell" /\ stage[t] = "running"
  /\ Goes(t, "closing")
  /\ cut' = [cut EXCEPT ![t] = pipe[t] # <<>>]
  /\ pipe' = [pipe EXCEPT ![t] = <<>>]
  /\ UNCHANGED <<kind, stopped, file, failed, said, faults, told, mute>>

\* Start's goroutine: the state of the task and its exit line go together.
Settle(t) ==
  /\ stage[t] = "closing"
  /\ Goes(t, "ended")
  /\ Write(t, <<Exit>>)
  /\ UNCHANGED <<kind, stopped, said, pipe, told, mute, cut>>

-----------------------------------------------------------------------------
(* Readers.                                                                *)

\* TaskGet keeps the error to itself, TaskOutput returns nothing but it.
TaskGet(t) == TailLines(file[t], MaxTail)
TaskOutput(t) == IF HasLong(file[t]) THEN <<>> ELSE TailLines(file[t], MaxTail)

\* The messages with words, or the lines with text, or nothing.
Replay(s) ==
  LET words == SelectSeq(ReplayMessagesFromOutput(s), LAMBDA l : ~Blank(l))
      lines == SelectSeq(TailLines(s, MaxTail), LAMBDA l : l.what # "exit") IN
  CASE words # <<>> -> [by |-> "messages", lines |-> words]
    [] words = <<>> /\ lines # <<>> -> [by |-> "lines", lines |-> lines]
    [] OTHER -> [by |-> "nothing", lines |-> <<>>]

\* SendMessage to a worker that has ended starts another.
Resume(t, n) ==
  /\ kind[t] = "agent" /\ stage[t] = "ended"
  /\ Begin(n, "agent")
  /\ LET r == Replay(file[t]) IN
     told' = [told EXCEPT ![n] = [from |-> t, by |-> r.by, lines |-> r.lines]]
  /\ UNCHANGED <<stopped, file, failed, said, pipe, faults, mute, cut>>

TaskStep(t) ==
  \/ Create(t) \/ Stop(t) \/ Say(t) \/ Finish(t) \/ Prints(t) \/ Pump(t) \/ Wait(t)
  \/ Settle(t)

Next == \E t \in Task : TaskStep(t) \/ \E n \in Task : Resume(t, n)

Spec == Init /\ [][Next]_vars

-----------------------------------------------------------------------------
Lines == [what : Stream \cup {"event", "message", "terminal", "exit", "torn"},
          said : {"text", "mail", "calls", "result", "none"}, n : 0..MaxSaid]
SeqsOf(S, s) == \A i \in 1..Len(s) : s[i] \in S

TypeOK ==
  /\ kind \in [Task -> {"none", "agent", "shell"}]
  /\ stage \in [Task -> {"idle", "running", "closing", "ended"}]
  /\ {stopped, failed, mute, cut} \subseteq [Task -> BOOLEAN]
  /\ \A t \in Task : SeqsOf(Lines, file[t]) /\ SeqsOf(Lines, said[t])
                     /\ SeqsOf(Lines, pipe[t]) /\ SeqsOf(Lines, told[t].lines)
  /\ faults \in 0..MaxFaults

IsPart(a, b) == \E i \in 0..(Len(b) - Len(a)) : a = SubSeq(b, i + 1, i + Len(a))

\* cli/repl.go:365-407, output.go:58-80, replay.go:19-54: a worker that resumes
\* another is told the last messages of the other's conversation, all of them
\* and in order; it is told older ones only if a write failed, and its lines
\* or nothing in place of its messages only if besides the Terminal was lost,
\* a message too long, or none of the last has a word.
ResumedKnowsTheRun ==
  \A n \in Task : LET from == told[n].from IN
    from # 0 =>
      LET last == LastOf(said[from], MaxReplay)
          words == SelectSeq(last, LAMBDA l : ~Blank(l)) IN
      /\ told[n].by = "messages" =>
           /\ ~mute[from]
           /\ \/ told[n].lines = words
              \/ /\ failed[from]
                 /\ IsPart(told[n].lines, SelectSeq(said[from], LAMBDA l : ~Blank(l)))
      /\ told[n].by # "messages" =>
           mute[from] \/ failed[from] \/ HasLong(said[from]) \/ words = <<>>
      /\ told[n].by = "nothing" =>
           mute[from] \/ failed[from]

\* supervisor.go:376-421: the output of a command is in its file stream by
\* stream, with nothing left out before what is there, and whole once the task
\* has ended unless a write failed or the pipes were closed before their end.
OutputIsWhole ==
  \A t \in Task : \A s \in Stream : kind[t] = "shell" =>
    LET written == Of(s, file[t])
        printed == Of(s, said[t]) IN
    /\ written = SubSeq(printed, 1, Len(written))
    /\ stage[t] = "ended" /\ ~failed[t] /\ ~cut[t] => written = printed

\* tasktool.go:258-304: a tail is of the newest whole lines of its file, unless
\* one of the file is too long to read; TaskGet shows what is before that as if
\* it were the end, TaskOutput nothing.
TailIsTheNewest ==
  \A t \in Task :
    LET newest == LastOf(SelectSeq(file[t], Whole), MaxTail) IN
    /\ TaskGet(t) = newest \/ HasLong(file[t])
    /\ TaskOutput(t) \in {newest, <<>>}

FilesTellTheirTasks == ResumedKnowsTheRun /\ OutputIsWhole /\ TailIsTheNewest
=============================================================================
