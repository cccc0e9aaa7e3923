------------------------------ MODULE AgentLoop ------------------------------
(***************************************************************************)
(* internal/agent/agent.go, stream.go, speculative.go and tools.go: one    *)
(* run of the agent, with the goroutines it is made of: the loop itself,   *)
(* the watchdog of its stream (llm/watchdog.go), the tools of a batch, and *)
(* the caller who reads the events and may cancel.                         *)
(***************************************************************************)
EXTENDS Conversation

CONSTANTS MaxTurns,     \* Config.MaxTurns, not 0
          MinTurns,     \* Compaction.MinTurns
          InputBudget,  \* tokens of a packed prompt
          Limit,        \* Config.MaxConcurrentTools
          EventCap,     \* places in the events channel
          MaxChunks,    \* chunks of one reply
          Replies,      \* the tool calls a model turn may make: sequences of kinds
          MaxMail,      \* messages others send to this run
          MaxAsks,      \* times the user asks for a compaction
          Before        \* the conversation the run is given

Kinds == {"bad",       \* unknown tool or unreadable input
          "denied",    \* permissions.Resolve did not allow it
          "unsafe",    \* allowed, must run alone
          "safe"}      \* allowed, may run beside others

ASSUME BoundsAssumption ==
  /\ MaxTurns \in Nat \ {0} /\ MinTurns \in Nat \ {0} /\ InputBudget \in Nat \ {0}
  /\ Limit \in Nat \ {0} /\ EventCap \in Nat \ {0}
  /\ MaxMail \in Nat /\ MaxAsks \in Nat
\* A model's answer is capped, so one reply makes the most calls.
ASSUME RepliesAssumption ==
  /\ Replies \subseteq Seq(Kinds) /\ <<>> \in Replies
  /\ \E most \in Replies : \A r \in Replies : Len(r) <= Len(most)

VARIABLES
  cancelled,   \* the context given to Run is done
  gone,        \* the caller has stopped reading
  pc,          \* where the loop is
  turn, lengthRetryCount, incompleteRetryCount, compactionAttempted,
  history,     \* what the model is asked with, before packing
  added,       \* addedConversation
  calls,       \* the tool calls of this turn, as the reply gave them
  doneReason,  \* how its stream ended
  st,          \* st[i]: how far call i is
  executed,    \* calls in the order their results were taken
  ids,         \* a.toolID
  fed, watch,  \* chunks of the reply so far, and the watchdog
  mailed,      \* messages taken from others
  asked,       \* compactions the user asked for
  chan,        \* the events channel
  reason,      \* the Terminal the run decided on
  open, answered, ended, closed  \* what the caller has read

loopVars == <<turn, lengthRetryCount, incompleteRetryCount, compactionAttempted>>
convVars == <<history, added>>
callVars == <<calls, doneReason, st, executed, ids>>
streamVars == <<fed, watch>>
userVars == <<mailed, asked>>
seenVars == <<open, answered, ended, closed>>
vars == <<cancelled, gone, pc, loopVars, convVars, callVars, streamVars, userVars, chan, reason,
          seenVars>>

Init ==
  /\ cancelled = FALSE /\ gone = FALSE /\ pc = "head"
  /\ turn = 1 /\ lengthRetryCount = 0 /\ incompleteRetryCount = 0
  /\ compactionAttempted = FALSE
  /\ history = Before /\ added = <<>>
  /\ calls = <<>> /\ doneReason = "" /\ st = <<>> /\ executed = <<>> /\ ids = 0
  /\ fed = 0 /\ watch = "closed"
  /\ mailed = 0 /\ asked = 0
  /\ chan = <<>> /\ reason = "none"
  /\ open = {} /\ answered = {} /\ ended = "no" /\ closed = FALSE

-----------------------------------------------------------------------------
(* The events channel.                                                     *)

Event(kind, id) == [kind |-> kind, id |-> id]

Room == Len(chan) < EventCap

\* Defect: a full channel is waited for whatever happens.
sendEventAlways(e) == Room /\ chan' = Append(chan, e)

\* sendEvent: a free place wins; a full channel is waited for until the
\* context is done, and then the event is lost.
sendEvent(e) ==
  \/ Room /\ chan' = Append(chan, e)
  \/ ~Room /\ cancelled /\ UNCHANGED chan

\* sendTerminal waits on after the context is done, for terminalGrace.
sendTerminal ==
  /\ pc = "terminal"
  /\ \/ Room /\ chan' = Append(chan, Event("terminal", 0))
     \/ ~Room /\ cancelled /\ UNCHANGED chan
  /\ pc' = "closed"
  /\ UNCHANGED <<cancelled, gone, loopVars, convVars, callVars, streamVars, userVars, reason,
                 seenVars>>

End(r) == pc' = "terminal" /\ reason' = r

\* The caller reads one event, or sees the channel closed.
Read ==
  /\ ~gone /\ ~closed
  /\ IF chan = <<>>
       THEN /\ pc = "closed" /\ closed' = TRUE
            /\ UNCHANGED <<chan, open, answered, ended>>
       ELSE LET e == Head(chan) IN
            /\ chan' = Tail(chan)
            /\ open' = CASE e.kind = "start"  -> open \cup {e.id}
                         [] e.kind = "result" -> open \ {e.id}
                         [] OTHER -> open
            /\ answered' = IF e.kind = "result" THEN answered \cup {e.id} ELSE answered
            /\ ended' = IF e.kind = "terminal" THEN reason ELSE ended
            /\ UNCHANGED closed
  /\ UNCHANGED <<cancelled, gone, pc, loopVars, convVars, callVars, streamVars, userVars, reason>>

Cancel ==
  /\ ~cancelled /\ cancelled' = TRUE
  /\ UNCHANGED <<gone, pc, loopVars, convVars, callVars, streamVars, userVars, chan, reason,
                 seenVars>>

\* Run: "The caller should drain the channel to completion or cancel".
Leave ==
  /\ cancelled /\ ~gone /\ gone' = TRUE
  /\ UNCHANGED <<cancelled, pc, loopVars, convVars, callVars, streamVars, userVars, chan, reason,
                 seenVars>>

-----------------------------------------------------------------------------
(* One turn: the head of the loop and the request.                         *)

\* The summary a compaction asks the model for is made, or not.
Summaries == {"made", "failed"}
Compacted(h) == {Compact(h, MinTurns, summary).messages : summary \in Summaries}

\* A compaction the user asked for (at most one waits) and messages of others
\* are taken at one place in the loop: when they came makes no difference.

TurnHead ==
  /\ pc = "head"
  /\ IF turn > MaxTurns THEN End("max_turns") /\ UNCHANGED <<convVars, asked>>
     ELSE IF cancelled THEN End("aborted") /\ UNCHANGED <<convVars, asked>>
     ELSE /\ \/ UNCHANGED <<history, asked>>
             \/ /\ asked < MaxAsks /\ asked' = asked + 1
                /\ \E h \in Compacted(history) : history' = h
          /\ pc' = "request"
          /\ UNCHANGED <<added, reason>>
  /\ UNCHANGED <<cancelled, gone, loopVars, callVars, streamVars, mailed, chan, seenVars>>

\* Chat answers with a stream, which the watchdog wraps.
StreamOpens ==
  /\ pc = "request"
  /\ pc' = "stream" /\ fed' = 0 /\ watch' = "on"
  /\ calls' = <<>> /\ doneReason' = "" /\ st' = <<>> /\ executed' = <<>>
  /\ UNCHANGED <<cancelled, gone, loopVars, convVars, ids, userVars, chan, reason, seenVars>>

\* classifyError: the error of a cancelled context aborts the run.
ChatFails ==
  /\ pc = "request"
  /\ \/ End("unrecoverable")
     \/ cancelled /\ End("aborted")
  /\ UNCHANGED <<cancelled, gone, loopVars, convVars, callVars, streamVars, userVars, chan,
                 seenVars>>

-----------------------------------------------------------------------------
(* The stream: what the client's goroutine reads from the server reaches   *)
(* the loop through the watchdog, in order.                                *)

StreamStep == pc = "stream" /\ UNCHANGED <<cancelled, gone, pc, loopVars, convVars, st, executed,
                                         ids, userVars, reason, seenVars>>

Watching == watch \in {"on", "warned"}

\* The newest tool calls replace earlier ones.
Chunk ==
  /\ Watching /\ fed < MaxChunks
  /\ \E c \in Replies : calls' = IF c = <<>> THEN calls ELSE c
  /\ fed' = fed + 1
  /\ UNCHANGED <<doneReason, watch, chan>> /\ StreamStep

\* The last event, or the one the client makes of a body it cannot read.
StreamDone ==
  /\ Watching
  /\ \E why \in {"stop", "length", "stream_error"} : doneReason' = why
  /\ watch' = "closed"
  /\ UNCHANGED <<calls, fed, chan>> /\ StreamStep

\* The body ends without a last event: the stream just stops, with no reason.
StreamStops ==
  /\ Watching
  /\ watch' = "closed"
  /\ UNCHANGED <<calls, doneReason, fed, chan>> /\ StreamStep

\* The watchdog sees the context done: the loop cannot tell it from the above.
StreamCut ==
  /\ Watching /\ cancelled
  /\ watch' = "cut"
  /\ UNCHANGED <<calls, doneReason, fed, chan>> /\ StreamStep

\* The timer may have run out while the reader kept the watchdog waiting, so
\* it can win over an event that is there.
IdleTimeout ==
  /\ Watching
  /\ watch' = "closed" /\ doneReason' = "watchdog_timeout"
  /\ UNCHANGED <<calls, fed, chan>> /\ StreamStep

IdleWarning ==
  /\ watch = "on" /\ watch' = "warning"
  /\ UNCHANGED <<calls, doneReason, fed, chan>> /\ StreamStep

\* OnIdleWarning: the watchdog's goroutine sends an event of its own.
WarningSent ==
  /\ watch = "warning" /\ watch' = "warned"
  /\ sendEvent(Event("warning", 0))
  /\ UNCHANGED <<calls, doneReason, fed>> /\ StreamStep

\* The watchdog's channel is closed: streamFinished, then the tools.
StreamRead ==
  /\ pc = "stream" /\ watch \in {"closed", "cut"}
  /\ pc' = "calls"
  /\ st' = [i \in DOMAIN calls |-> "new"]
  /\ UNCHANGED <<cancelled, gone, loopVars, convVars, calls, doneReason, executed, ids,
                 streamVars, userVars, chan, reason, seenVars>>

-----------------------------------------------------------------------------
(* executeToolCallsConcurrent: unreadable calls are answered first, then   *)
(* the refused ones, then the rest runs batch by batch.                    *)

Unanswered(kinds) == {i \in DOMAIN calls : calls[i] \in kinds /\ st[i] # "answered"}
First(S) == CHOOSE i \in S : \A j \in S : i <= j
Refused == IF Unanswered({"bad"}) # {} THEN Unanswered({"bad"}) ELSE Unanswered({"denied"})

permittedCalls == SelectSeq([i \in DOMAIN calls |-> i], LAMBDA i : calls[i] \in {"safe", "unsafe"})

Batches == Partition(permittedCalls, {i \in DOMAIN calls : calls[i] = "safe"})

\* The calls of the first batch with one that is not answered.
Batch == LET todo == SelectSeq(Batches, LAMBDA b : \E i \in Range(b.calls) : st[i] # "answered")
         IN IF todo = <<>> THEN <<>> ELSE todo[1].calls

Ready(i, from) == pc = "calls" /\ Refused = {} /\ i \in Range(Batch) /\ st[i] = from
Earlier(i) == {j \in Range(Batch) : j < i}

CallStep(i, to) ==
  /\ st' = [st EXCEPT ![i] = to]
  /\ UNCHANGED <<cancelled, gone, pc, loopVars, convVars, calls, doneReason, ids, streamVars,
                 userVars, reason, seenVars>>

AnnounceRefused(i) ==
  /\ pc = "calls" /\ Refused # {} /\ i = First(Refused) /\ st[i] = "new"
  /\ sendEvent(Event("start", ids + i))
  /\ UNCHANGED executed /\ CallStep(i, "started")

\* Defect: a refused call is answered and never announced.
AnswerUnannounced(i) ==
  /\ pc = "calls" /\ Refused # {} /\ i = First(Refused) /\ st[i] = "new"
  /\ sendEvent(Event("result", ids + i))
  /\ UNCHANGED executed /\ CallStep(i, "answered")

AnswerRefused(i) ==
  /\ pc = "calls" /\ Refused # {} /\ i = First(Refused) /\ st[i] = "started"
  /\ sendEvent(Event("result", ids + i))
  /\ UNCHANGED executed /\ CallStep(i, "answered")

\* The calls of a batch are announced in order before any of them runs.
StartTool(i) ==
  /\ Ready(i, "new") /\ \A j \in Earlier(i) : st[j] # "new"
  /\ sendEvent(Event("start", ids + i))
  /\ UNCHANGED executed /\ CallStep(i, "started")

Running == {i \in DOMAIN st : st[i] = "running"}

RunTool(i) ==
  /\ Ready(i, "started")
  /\ \A j \in Range(Batch) : st[j] # "new"
  /\ Cardinality(Running) < Limit
  /\ UNCHANGED <<executed, chan>> /\ CallStep(i, "running")

ToolReturns(i) ==
  /\ pc = "calls" /\ i \in Running
  /\ UNCHANGED <<executed, chan>> /\ CallStep(i, "ran")

\* Defect: a result is told as soon as its tool returned.
ToolResultAsReturned(i) ==
  /\ Ready(i, "ran")
  /\ sendEvent(Event("result", ids + i))
  /\ executed' = Append(executed, i)
  /\ CallStep(i, "answered")

\* The results of a batch are told in order once all of it has returned.
ToolResult(i) ==
  /\ Ready(i, "ran")
  /\ \A j \in Range(Batch) : st[j] \in {"ran", "answered"}
  /\ \A j \in Earlier(i) : st[j] = "answered"
  /\ sendEvent(Event("result", ids + i))
  /\ executed' = Append(executed, i)
  /\ CallStep(i, "answered")

\* One tool message per call; the messages of the calls that ran are put in
\* their places in the order they came.
ToolMessages ==
  [i \in DOMAIN calls |->
     IF calls[i] \in {"bad", "denied"} THEN Answering(i, 2)
     ELSE LET j == CHOOSE n \in DOMAIN permittedCalls : permittedCalls[n] = i
          IN Answering(executed[j], 2)]

-----------------------------------------------------------------------------
(* What the loop makes of a turn.                                          *)

TurnDone == pc = "calls" /\ \A i \in DOMAIN calls : st[i] = "answered"
Reply == <<Calling(Len(calls), 1)>>

\* The turn's own variables go out of scope.
DecideStep == /\ ids' = ids + Len(calls)
              /\ calls' = <<>> /\ st' = <<>> /\ executed' = <<>> /\ fed' = 0
              /\ UNCHANGED <<cancelled, gone, doneReason, watch, asked, chan,
                             seenVars>>

\* Defect: an answer that is cut off is asked for again every time.
RetryLongerAgain ==
  /\ TurnDone /\ doneReason = "length"
  /\ lengthRetryCount' = lengthRetryCount + 1
  /\ pc' = "head"
  /\ UNCHANGED <<turn, incompleteRetryCount, compactionAttempted, history, added,
                 mailed, reason>>
  /\ DecideStep

\* The first time an answer is cut off it is asked for again, with more room.
RetryLonger ==
  /\ TurnDone /\ doneReason = "length" /\ lengthRetryCount = 0
  /\ lengthRetryCount' = 1
  /\ pc' = "head"
  /\ UNCHANGED <<turn, incompleteRetryCount, compactionAttempted, history, added,
                 mailed, reason>>
  /\ DecideStep

\* The second time the history is compacted, once in a run.
CompactAndRetry ==
  /\ TurnDone /\ doneReason = "length" /\ lengthRetryCount = 1 /\ ~compactionAttempted
  /\ lengthRetryCount' = 2 /\ compactionAttempted' = TRUE
  /\ \E summary \in Summaries :
       LET c == Compact(history, MinTurns, summary) IN
         ~c.skipped /\ history' = c.messages
  /\ pc' = "head"
  /\ UNCHANGED <<turn, incompleteRetryCount, added, mailed, reason>>
  /\ DecideStep

\* Compaction is disabled, was tried, or has nothing to do.
Overflow ==
  /\ TurnDone /\ doneReason = "length" /\ lengthRetryCount > 0
  /\ End("context_overflow")
  /\ UNCHANGED <<loopVars, history, added, mailed>>
  /\ DecideStep

StreamFailed ==
  /\ TurnDone /\ doneReason \in {"watchdog_timeout", "stream_error"}
  /\ End("unrecoverable")
  /\ UNCHANGED <<loopVars, history, added, mailed>>
  /\ DecideStep

\* The answer is taken: a history over the threshold is compacted first.
Accept(more, told) ==
  /\ TurnDone /\ doneReason \in {"stop", ""}
  /\ lengthRetryCount' = 0
  /\ \E h \in {history} \cup Compacted(history) :
       history' = h \o Reply \o more
  /\ added' = added \o Reply \o told
  /\ UNCHANGED compactionAttempted
  /\ DecideStep

\* The messages that wait for the run: n of them.
Drain(n) == n \in 0..(MaxMail - mailed) /\ mailed' = mailed + n
Mail(n) == [i \in 1..n |-> Msg("user", 1)]

NextTurn ==
  /\ calls # <<>>
  /\ \E n \in 0..MaxMail :
       Drain(n) /\ Accept(ToolMessages \o Mail(n), ToolMessages \o Mail(n))
  /\ turn' = turn + 1 /\ pc' = "head"
  /\ UNCHANGED <<incompleteRetryCount, reason>>

\* Mail that waits when the model is done gives it another turn, not counted.
TakeMail ==
  /\ calls = <<>>
  /\ \E n \in 1..MaxMail : Drain(n) /\ Accept(Mail(n), Mail(n))
  /\ pc' = "head"
  /\ UNCHANGED <<turn, incompleteRetryCount, reason>>

\* An answer that looks incomplete is asked for again once; the request is
\* not part of the conversation the caller gets.
AskAgain ==
  /\ calls = <<>> /\ incompleteRetryCount = 0
  /\ Accept(<<Msg("user", 1)>>, <<>>)
  /\ incompleteRetryCount' = 1 /\ pc' = "head"
  /\ UNCHANGED <<turn, mailed, reason>>

Complete ==
  /\ calls = <<>>
  /\ Accept(<<>>, <<>>)
  /\ End("completed") \/ End("stop_hook")
  /\ UNCHANGED <<turn, incompleteRetryCount, mailed>>

-----------------------------------------------------------------------------
Stream == \/ StreamOpens \/ ChatFails \/ StreamRead
          \/ Chunk \/ StreamDone \/ StreamStops \/ StreamCut
          \/ IdleTimeout \/ IdleWarning \/ WarningSent
CallSteps == \E i \in DOMAIN calls :
               \/ AnnounceRefused(i) \/ AnswerRefused(i)
               \/ StartTool(i) \/ RunTool(i) \/ ToolReturns(i) \/ ToolResult(i)
Decide == \/ RetryLonger \/ CompactAndRetry \/ Overflow \/ StreamFailed
          \/ NextTurn \/ TakeMail \/ AskAgain \/ Complete

Run == TurnHead \/ Stream \/ CallSteps \/ Decide \/ sendTerminal

Next == Run \/ Read \/ Cancel \/ Leave

\* The run's goroutines go on while they can, a model server in the end says
\* something or falls silent for the watchdog, a tool returns, and a caller
\* who has not left reads.
Fairness == WF_vars(Run) /\ WF_vars(Read)

Spec == Init /\ [][Next]_vars /\ Fairness

-----------------------------------------------------------------------------
Reasons == {"completed", "aborted", "max_turns", "context_overflow", "stop_hook", "unrecoverable"}

TypeOK ==
  /\ cancelled \in BOOLEAN /\ gone \in BOOLEAN
  /\ pc \in {"head", "request", "stream", "calls", "terminal", "closed"}
  /\ turn \in 1..(MaxTurns + 1) /\ lengthRetryCount \in 0..2 /\ incompleteRetryCount \in 0..1
  /\ compactionAttempted \in BOOLEAN
  /\ \A h \in {history, added} : \A i \in DOMAIN h : h[i].role \in Role
  /\ calls \in Replies /\ Len(st) \in {0, Len(calls)} /\ executed \in Seq(DOMAIN calls)
  /\ \A i \in DOMAIN st : st[i] \in {"new", "started", "running", "ran", "answered"}
  /\ doneReason \in {"", "stop", "length", "stream_error", "watchdog_timeout"}
  /\ fed \in 0..MaxChunks
  /\ watch \in {"on", "warning", "warned", "closed", "cut"}
  /\ mailed \in 0..MaxMail /\ asked \in 0..MaxAsks /\ Len(chan) <= EventCap
  /\ reason \in Reasons \cup {"none"} /\ ended \in Reasons \cup {"no"}

\* Ids enough for every call of every request.
ToolIds == 1..((2 * (MaxTurns + MaxMail + 1) + 1) * Max({Len(r) : r \in Replies}))

Contract == INSTANCE RunContract WITH Tool <- ToolIds, Reason <- Reasons

\* event_invariants_test.go: the reader gets every tool announced and answered
\* once, and one Terminal last; events go missing only from cancelled runs.
RunKept == Contract!Spec

\* prompt_packer.go: "a tool result without its call (or the reverse) is an
\* invalid conversation".  Neither what the model is asked with, nor what the
\* caller gets back, is one, whatever was packed away, compacted or refused.
ConversationIsPaired ==
  /\ pc = "request" => Paired(packPromptHistory(history, InputBudget))
  /\ Paired(history) /\ Paired(added)

\* No run blocks for ever, not on a caller who left nor on a silent server.
EveryRunEnds == <>(pc = "closed")

\* events.go: "TerminalCompleted means the agent finished normally",
\* "TerminalAborted means the context was canceled".
CancelledRunIsAborted ==
  (pc = "closed" /\ watch = "cut") => reason = "aborted"
=============================================================================
