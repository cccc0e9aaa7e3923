------------------------------- MODULE EvalRun -------------------------------
(***************************************************************************)
(* nandocode eval run: workers take the repetitions of a fixture, run the  *)
(* agent of each in a workspace of its own on recorded answers, run the    *)
(* fixture's tests there and give a verdict (runner.go, checks.go,         *)
(* command_check.go, recorded_client.go, instrumentation.go, diff.go).     *)
(***************************************************************************)
EXTENDS Integers, Sequences, FiniteSets, FiniteSetsExt, SequencesExt

CONSTANTS Repeat, Jobs,
          Tests,         \* of every test, whether it is required
          Turns,         \* the most a recording has
          MaxTurns, MaxToolCalls, MaxDiffLines, PassThreshold, \* of the fixture
          MaxAttempts    \* calls a model asks for in one run

VARIABLES
  strict, recorded, allowUnexpected, \* of the recording and of the fixture
  canceled,   \* the parent context
  pc, ctxErr, \* of every target: where it is, and what its context says
  workspace, after,  \* its files, and those of the second snapshot
  nextTurn, replayErr, turns, attempted, limitExceeded, runCanceled,
  terminal, answered, testResults, status, reason,
  exit,       \* of the command
  touched     \* history: files the agent changed

config == <<strict, recorded, allowUnexpected>>
env == <<config, canceled, exit>>
agentVars == <<nextTurn, replayErr, turns, attempted, limitExceeded, runCanceled, terminal,
               answered, touched>>
runVars == <<ctxErr, workspace, after, agentVars, testResults>>
result == <<status, reason>>
vars == <<env, pc, result, runVars>>

Target == 1..Repeat
golden == "golden"   \* compared with expected/, and the only change allowed
File == {golden, "other"}
Repo == [f \in File |-> <<"a", "b">>]
Expected == <<"a", "c">>
Link == <<"link">>    \* a symlink that leaves the workspace
NoFile == <<"none">>
\* What a call may do to them.
Writes == {[file |-> golden, to |-> Expected], [file |-> golden, to |-> NoFile],
           [file |-> "other", to |-> <<"b">>], [file |-> "other", to |-> <<"c">>],
           [file |-> "other", to |-> Link]}

Init ==
  /\ strict = FALSE /\ recorded = 0 /\ allowUnexpected = FALSE /\ canceled = FALSE
  /\ pc = [t \in Target |-> "waits"] /\ ctxErr = [t \in Target |-> "none"]
  /\ workspace = [t \in Target |-> Repo] /\ after = workspace
  /\ nextTurn = [t \in Target |-> 0] /\ replayErr = [t \in Target |-> FALSE]
  /\ turns = nextTurn /\ attempted = nextTurn
  /\ limitExceeded = replayErr /\ runCanceled = replayErr /\ answered = replayErr
  /\ terminal = [t \in Target |-> "none"] /\ testResults = [t \in Target |-> <<>>]
  /\ status = terminal /\ reason = terminal
  /\ exit = -2 /\ touched = [t \in Target |-> {}]

Set(f, t, v) == [f EXCEPT ![t] = v]
Goto(t, to) == pc' = Set(pc, t, to)

\* scoring.yaml and the recording are read before anything runs.
Load ==
  /\ exit = -2 /\ exit' = -1 /\ strict' \in BOOLEAN /\ recorded' \in 1..Turns
  /\ allowUnexpected' \in BOOLEAN
  /\ UNCHANGED <<canceled, pc, runVars, result>>

-----------------------------------------------------------------------------
(* The context of a fixture ends at its deadline or with the command.      *)

Deadline(t) ==
  /\ pc[t] \notin {"waits", "judged", "done"} /\ ctxErr[t] = "none"
  /\ ctxErr' = Set(ctxErr, t, "deadline")
  /\ UNCHANGED <<env, pc, workspace, after, agentVars, testResults, result>>

Interrupt ==
  /\ ~canceled /\ exit = -1 /\ canceled' = TRUE
  /\ LET alive == {t \in Target : pc[t] \notin {"waits", "judged", "done"}}
     IN ctxErr' = [t \in Target |-> IF t \in alive /\ ctxErr[t] = "none" THEN "canceled"
                                                                       ELSE ctxErr[t]]
  /\ UNCHANGED <<config, exit, pc, workspace, after, agentVars, testResults, result>>

Stopped(t) == ctxErr[t] # "none" \/ runCanceled[t]

-----------------------------------------------------------------------------
(* runTargets, runFixture.                                                 *)

\* The targets are handed out in their order.
Take(t) ==
  /\ exit = -1 /\ pc[t] = "waits" /\ \A u \in Target : u < t => pc[u] # "waits"
  /\ Cardinality({u \in Target : pc[u] \notin {"waits", "done"}}) < Jobs
  /\ Goto(t, "chat") /\ ctxErr' = Set(ctxErr, t, IF canceled THEN "canceled" ELSE "none")
  /\ UNCHANGED <<env, workspace, after, agentVars, testResults, result>>

Judged(t, s, why) ==
  Goto(t, "judged") /\ status' = Set(status, t, s) /\ reason' = Set(reason, t, why)

\* The result is at its target's index; CleanupWorkspace and the return end the rest.
Return(t) ==
  /\ pc[t] = "judged" /\ Goto(t, "done")
  /\ ctxErr' = Set(ctxErr, t, "none") /\ workspace' = Set(workspace, t, Repo)
  /\ after' = Set(after, t, Repo) /\ touched' = Set(touched, t, {})
  /\ nextTurn' = Set(nextTurn, t, 0) /\ turns' = Set(turns, t, 0)
  /\ attempted' = Set(attempted, t, 0)
  /\ replayErr' = Set(replayErr, t, FALSE) /\ limitExceeded' = Set(limitExceeded, t, FALSE)
  /\ runCanceled' = Set(runCanceled, t, FALSE) /\ answered' = Set(answered, t, FALSE)
  /\ terminal' = Set(terminal, t, "none") /\ testResults' = Set(testResults, t, <<>>)
  /\ reason' = Set(reason, t, "none") /\ UNCHANGED <<env, status>>

\* A directory, a workspace, a snapshot, an artifact or the runtime: whatever fails
\* leaves the status it began with.
Fault(t) ==
  /\ pc[t] \in {"chat", "verify", "test", "verdict"} /\ Judged(t, "error", "harness")
  /\ UNCHANGED <<env, runVars>>

-----------------------------------------------------------------------------
(* The agent, on the recorded client.                                      *)

Ended(t, why) == terminal' = Set(terminal, t, why) /\ Goto(t, "verify")

agentRest == <<env, ctxErr, workspace, after, touched, testResults, result>>

\* The context is looked at before every turn, and a stream that it cuts is no answer.
Aborted(t) ==
  /\ pc[t] \in {"chat", "answer"} /\ Stopped(t) /\ Ended(t, "aborted")
  /\ UNCHANGED <<agentRest, nextTurn, replayErr, turns, attempted, limitExceeded, runCanceled,
                 answered>>

OutOfTurns(t) ==
  /\ pc[t] = "chat" /\ turns[t] = MaxTurns /\ Ended(t, "max_turns")
  /\ UNCHANGED <<agentRest, nextTurn, replayErr, turns, attempted, limitExceeded, runCanceled,
                 answered>>

\* nextRecordedTurn: a turn is used up even where it does not match the request.
Served(t) ==
  /\ pc[t] = "chat" /\ ~Stopped(t) /\ turns[t] < MaxTurns /\ nextTurn[t] < recorded
  /\ nextTurn' = [nextTurn EXCEPT ![t] = @ + 1] /\ turns' = [turns EXCEPT ![t] = @ + 1]
  /\ Goto(t, "answer")
  /\ UNCHANGED <<agentRest, replayErr, attempted, limitExceeded, runCanceled, terminal, answered>>

NotServed(t) ==
  /\ pc[t] = "chat" /\ ~Stopped(t) /\ turns[t] < MaxTurns
  /\ nextTurn' = [nextTurn EXCEPT ![t] = IF @ < recorded THEN @ + 1 ELSE @]
  /\ replayErr' = Set(replayErr, t, TRUE) /\ Ended(t, "unrecoverable")
  /\ UNCHANGED <<agentRest, turns, attempted, limitExceeded, runCanceled, answered>>

Answer(t) ==
  /\ pc[t] = "answer" /\ Ended(t, "completed")
  /\ answered' \in {answered, Set(answered, t, TRUE)}
  /\ UNCHANGED <<agentRest, nextTurn, replayErr, turns, attempted, limitExceeded, runCanceled>>

\* None of the answer's calls is of a known tool and can be parsed: each has its error.
NoCall(t) ==
  /\ pc[t] = "answer" /\ Goto(t, "chat")
  /\ UNCHANGED <<agentRest, nextTurn, replayErr, turns, attempted, limitExceeded, runCanceled,
                 terminal, answered>>

\* permissionObserver: a call counts whether it is allowed or not.  The one over the
\* limit stops the run, but all calls of its answer are resolved and counted, and may
\* be made.
ToolCall(t) ==
  /\ pc[t] \in {"answer", "calls"} /\ attempted[t] < MaxAttempts
  /\ attempted' = [attempted EXCEPT ![t] = @ + 1]
  /\ limitExceeded' = Set(limitExceeded, t, attempted[t] >= MaxToolCalls)
  /\ runCanceled' = Set(runCanceled, t, attempted[t] >= MaxToolCalls)
  /\ Goto(t, "chat") \/ (attempted[t] + 1 < MaxAttempts /\ Goto(t, "calls"))
  /\ \/ UNCHANGED <<workspace, touched>>
     \/ \E w \in Writes :
          /\ workspace' = [workspace EXCEPT ![t][w.file] = w.to]
          /\ touched' = [touched EXCEPT ![t] = @ \cup {w.file}]
  /\ UNCHANGED <<env, ctxErr, after, nextTurn, replayErr, turns, terminal, answered, testResults,
                 result>>

-----------------------------------------------------------------------------
(* Scoring.                                                                *)

unusedTurns(t) ==
  strict /\ terminal[t] = "completed" /\ ~limitExceeded[t] /\ nextTurn[t] < recorded

\* The second snapshot reads every file of the workspace through its root.
Unreadable(t) == \E f \in File : workspace[t][f] = Link

Verify(t) ==
  /\ pc[t] = "verify"
  /\ CASE replayErr[t] \/ unusedTurns(t) -> Judged(t, "error", "recording") /\ UNCHANGED after
       [] ~replayErr[t] /\ ~unusedTurns(t) /\ Unreadable(t) ->
            Judged(t, "error", "link") /\ UNCHANGED after
       [] OTHER -> /\ Goto(t, "test") /\ after' = Set(after, t, workspace[t])
                   /\ UNCHANGED result
  /\ UNCHANGED <<env, ctxErr, workspace, agentVars, testResults>>

\* What cmd.Run and runCtx tell of a command, by the context at its end.
Outcomes(t) == {"passed", "timeout"} \cup (IF ctxErr[t] = "deadline" THEN {} ELSE {"failed"})

\* A command is not started once the context has ended.
StartTest(t) ==
  /\ pc[t] = "test" /\ Len(testResults[t]) < Len(Tests) /\ ctxErr[t] # "canceled"
  /\ IF ctxErr[t] = "none" THEN Goto(t, "command") /\ UNCHANGED testResults
     ELSE testResults' = [testResults EXCEPT ![t] = Append(@, "timeout")] /\ UNCHANGED pc
  /\ UNCHANGED <<env, ctxErr, workspace, after, agentVars, result>>

\* A command may leave files behind.
EndTest(t) ==
  /\ pc[t] = "command" /\ Goto(t, "test")
  /\ \E outcome \in Outcomes(t) : testResults' = [testResults EXCEPT ![t] = Append(@, outcome)]
  /\ workspace' \in {workspace, [workspace EXCEPT ![t] = [f \in File |-> <<"c">>]]}
  /\ UNCHANGED <<env, ctxErr, after, agentVars, result>>

\* It is not there, or may not be started; it leaves a pipe open for too long, or what
\* it printed cannot be kept; or its end is the context's.
TestError(t) ==
  /\ pc[t] = "command" \/ (pc[t] = "test" /\ Len(testResults[t]) < Len(Tests))
  /\ Judged(t, "error", "command") /\ UNCHANGED <<env, runVars>>

TestsDone(t) ==
  /\ pc[t] = "test" /\ Len(testResults[t]) = Len(Tests) /\ Goto(t, "verdict")
  /\ UNCHANGED <<env, runVars, result>>

\* modifiedCounts: the lines between a common beginning and a common end.
CommonStart(b, a) ==
  Max({n \in 0..Len(b) : n <= Len(a) /\ SubSeq(b, 1, n) = SubSeq(a, 1, n)})
CommonEnd(b, a) == CommonStart(Reverse(b), Reverse(a))
modified(b, a) ==
  LET start == CommonStart(b, a)
      end   == Min({CommonEnd(b, a), Len(a) - start, Len(b) - start})
  IN (Len(a) - start - end) + (Len(b) - start - end)

\* DiffManifests: added, deleted and modified files.
Changed(t) == {f \in File : after[t][f] # Repo[f]}
Lines(c) == IF c = NoFile THEN <<>> ELSE c
diffLines(t) ==
  LET n(f) == modified(Lines(Repo[f]), Lines(after[t][f])) IN n(golden) + n("other")

unexpected(t) == Changed(t) \ {golden}
matches(t) == workspace[t][golden] = Expected
testsPassed(t) == Cardinality({i \in 1..Len(Tests) : testResults[t][i] = "passed"})

\* The gates on tool names and on paths that must or must not be there: "others".
hardFailures(t, others) ==
  \/ others
  \/ \E i \in 1..Len(Tests) : Tests[i] /\ testResults[t][i] # "passed"
  \/ ~matches(t)
  \/ unexpected(t) # {} /\ ~allowUnexpected
  \/ diffLines(t) > MaxDiffLines
  \/ limitExceeded[t]
  \/ terminal[t] \in {"unrecoverable", "max_turns"}

\* The weights of the repository's own test fixture, in per cent.
points(t) ==
  (IF terminal[t] = "completed" THEN 20 ELSE 0) + (30 * testsPassed(t)) \div Len(Tests)
    + (IF matches(t) THEN 25 ELSE 0) + (IF unexpected(t) = {} THEN 20 ELSE 0)
    + (IF answered[t] THEN 5 ELSE 0)

\* Defect: the gates are looked at before the deadline.
GatesFirst(t, others) ==
  IF hardFailures(t, others) \/ points(t) < PassThreshold THEN "failed"
  ELSE IF ctxErr[t] = "deadline" THEN "timeout"
  ELSE IF ctxErr[t] = "canceled" THEN "canceled" ELSE "passed"

verdict(t, others) ==
  IF ctxErr[t] = "deadline" THEN "timeout"
  ELSE IF ctxErr[t] = "canceled" THEN "canceled"
  ELSE IF hardFailures(t, others) \/ points(t) < PassThreshold THEN "failed" ELSE "passed"

Verdict(t) ==
  /\ pc[t] = "verdict" /\ UNCHANGED <<env, runVars>>
  /\ \E others \in BOOLEAN : Judged(t, verdict(t, others), "verdict")

-----------------------------------------------------------------------------
(* Run and the command: counts and the exit code.                          *)

Results(S) == Cardinality({t \in Target : status[t] \in S})
Report ==
  /\ exit = -1 /\ \A t \in Target : pc[t] = "done"
  /\ exit' = IF Results({"error"}) > 0 THEN 3
             ELSE IF Results({"failed", "timeout", "canceled"}) > 0 THEN 1 ELSE 0
  /\ UNCHANGED <<config, canceled, pc, runVars, result>>

Next ==
  \/ Load \/ Interrupt \/ Report
  \/ \E t \in Target :
       \/ Take(t) \/ Return(t) \/ Deadline(t) \/ Fault(t)
       \/ Aborted(t) \/ OutOfTurns(t) \/ Served(t) \/ NotServed(t) \/ Answer(t) \/ NoCall(t)
       \/ ToolCall(t) \/ Verify(t) \/ StartTest(t) \/ EndTest(t) \/ TestError(t) \/ TestsDone(t)
       \/ Verdict(t)

Spec == Init /\ [][Next]_vars

-----------------------------------------------------------------------------
TypeOK ==
  /\ strict \in BOOLEAN /\ recorded \in 0..Turns /\ allowUnexpected \in BOOLEAN
  /\ canceled \in BOOLEAN /\ exit \in {-2, -1, 0, 1, 3}
  /\ \A t \in Target :
       /\ pc[t] \in {"waits", "chat", "answer", "calls", "verify", "test", "command", "verdict",
                   "judged", "done"}
       /\ ctxErr[t] \in {"none", "deadline", "canceled"}
       /\ nextTurn[t] \in 0..Turns /\ turns[t] \in 0..MaxTurns
       /\ attempted[t] \in 0..MaxAttempts
       /\ Len(testResults[t]) <= Len(Tests)
       /\ status[t] \in {"none", "passed", "failed", "error", "timeout", "canceled"}

\* runner.go, checks.go: a fixture passes only if its agent ended by itself, within its
\* calls and its time, on answers that were all recorded, having changed nothing outside
\* what is allowed, and if the tests left the golden file as expected.
PassedMeansPassed ==
  \A t \in Target : pc[t] = "judged" /\ status[t] = "passed" =>
    /\ terminal[t] = "completed" /\ attempted[t] <= MaxToolCalls /\ ctxErr[t] = "none"
    /\ ~replayErr[t] /\ (strict => nextTurn[t] = recorded)
    /\ touched[t] \subseteq {golden} \/ allowUnexpected
    /\ workspace[t][golden] = Expected

\* runner.go: what is amiss with the harness is never told of the task, and what came too
\* late is told as that; an error of the tests never hides one of the recording, and is
\* never told of a run all of whose tests gave a result.
VerdictsKeepApart ==
  \A t \in Target : pc[t] = "judged" =>
    /\ status[t] \in {"passed", "failed"} => ~replayErr[t] /\ ctxErr[t] = "none"
    /\ status[t] = "timeout" => ctxErr[t] = "deadline"
    /\ replayErr[t] => status[t] = "error"
    /\ status[t] = "canceled" => ctxErr[t] = "canceled"
    /\ reason[t] = "command" =>
         status[t] = "error" /\ ~replayErr[t] /\ Len(testResults[t]) < Len(Tests)

\* eval.go: the command succeeds only if every repetition passed.
SuccessIsOfAll == exit = 0 => \A t \in Target : status[t] = "passed"

VerdictsAreTrue == PassedMeansPassed /\ VerdictsKeepApart /\ SuccessIsOfAll
=============================================================================
