----------------------------- MODULE StreamPipe -----------------------------
(***************************************************************************)
(* One streamed answer on its way from the model server to the turn: the   *)
(* reader of internal/llm/ollama/ollama.go, the wrapper of internal/       *)
(* observability/llm.go, the watchdog of internal/llm/watchdog.go and the  *)
(* loop of internal/agent/stream.go, four goroutines in a row. AgentLoop   *)
(* has the turn and what becomes of it, and the stream as a whole.         *)
(***************************************************************************)
EXTENDS Naturals, Sequences, FiniteSets

CONSTANTS MaxSent, \* bounds the events of the server
          Cap      \* of the reader's channel, 10 in the code

VARIABLES
  sent, wire, server,    \* the server: events, those unread, and its connection
  reader, read,          \* pc of the reader, the event it has decoded
  channel,
  observer, observed,    \* pc of the wrapper, the event it forwards
  recorded,              \* the DoneReason it has metered, or "nothing"
  watchdog, watched,     \* pc of the watchdog, the event it forwards
  turn, got, reason,     \* accumulateTurn: its events, DoneReason
  toolCalls,             \* the event whose calls it will run, or 0
  cancelled              \* the context of the run

vars == <<sent, wire, server, reader, read, channel, observer, observed, recorded,
          watchdog, watched, turn, got, reason, toolCalls, cancelled>>

Event(n, calls, why) == [n |-> n, calls |-> calls, done |-> why # "", reason |-> why]
NoEvent == Event(0, FALSE, "")
StreamError == Event(0, FALSE, "stream_error")
WatchdogTimeout == Event(0, FALSE, "watchdog_timeout")

Init ==
  /\ sent = <<>> /\ wire = <<>> /\ server = "open"
  /\ reader = "decode" /\ read = NoEvent /\ channel = <<>>
  /\ observer = "range" /\ observed = NoEvent /\ recorded = "nothing"
  /\ watchdog = "wait" /\ watched = NoEvent
  /\ turn = "read" /\ got = <<>> /\ reason = "" /\ toolCalls = 0
  /\ cancelled = FALSE

serverVars == <<sent, wire, server>>
readerVars == <<reader, read>>
observerVars == <<observer, observed, recorded>>
watchdogVars == <<watchdog, watched>>
turnVars == <<turn, got, reason, toolCalls>>

-----------------------------------------------------------------------------
(* The server, and whoever cancels the run.                                *)

Sends ==
  /\ server = "open" /\ Len(sent) < MaxSent
  /\ \E calls \in BOOLEAN, why \in {"", "stop"} :
       LET e == Event(Len(sent) + 1, calls, why) IN
       /\ sent' = Append(sent, e) /\ wire' = Append(wire, e)
       /\ server' = IF e.done THEN "eof" ELSE "open"
  /\ UNCHANGED <<readerVars, channel, observerVars, watchdogVars, turnVars, cancelled>>

Hangs ==
  /\ server = "open"
  /\ server' \in {"eof", "broken"}
  /\ UNCHANGED <<sent, wire, readerVars, channel, observerVars, watchdogVars, turnVars,
                 cancelled>>

Cancel ==
  /\ ~cancelled /\ turn # "over"
  /\ cancelled' = TRUE
  /\ UNCHANGED <<serverVars, readerVars, channel, observerVars, watchdogVars, turnVars>>

RequestDone == cancelled \/ turn = "over" \* reqCtx, which ends with the stream too

-----------------------------------------------------------------------------
(* Chat's goroutine.                                                       *)

Decode ==
  /\ reader = "decode" /\ wire # <<>>
  /\ read' = Head(wire) /\ wire' = Tail(wire)
  /\ reader' = "send"
  /\ UNCHANGED <<sent, server, channel, observerVars, watchdogVars, turnVars, cancelled>>

\* Any error but the end of the stream, a cancelled request among them.
DecodeFails ==
  /\ reader = "decode"
  /\ RequestDone \/ (wire = <<>> /\ server = "broken")
  /\ reader' = "fail" /\ read' = StreamError
  /\ UNCHANGED <<serverVars, channel, observerVars, watchdogVars, turnVars, cancelled>>

\* The end of the stream closes the channel, with or without a done event.
EndOfStream ==
  /\ reader = "decode" /\ wire = <<>> /\ server = "eof"
  /\ reader' = "gone"
  /\ UNCHANGED <<serverVars, read, channel, observerVars, watchdogVars, turnVars, cancelled>>

Send ==
  /\ reader = "send"
  /\ \/ /\ Len(channel) < Cap
        /\ channel' = Append(channel, read)
        /\ reader' = IF read.done THEN "gone" ELSE "decode"
     \/ RequestDone /\ reader' = "gone" /\ UNCHANGED channel
  /\ UNCHANGED <<serverVars, read, observerVars, watchdogVars, turnVars, cancelled>>

\* The error is sent whatever becomes of the request.
SendError ==
  /\ reader = "fail" /\ Len(channel) < Cap
  /\ channel' = Append(channel, read)
  /\ reader' = "gone"
  /\ UNCHANGED <<serverVars, read, observerVars, watchdogVars, turnVars, cancelled>>

-----------------------------------------------------------------------------
(* observedLLMClient.Chat.                                                 *)

Take ==
  /\ observer = "range" /\ channel # <<>>
  /\ observed' = Head(channel) /\ channel' = Tail(channel)
  /\ observer' = "forward"
  /\ UNCHANGED <<serverVars, readerVars, recorded, watchdogVars, turnVars, cancelled>>

ForwardLost ==
  /\ observer = "forward" /\ RequestDone
  /\ observer' = "gone"
  /\ UNCHANGED <<serverVars, readerVars, channel, observed, recorded, watchdogVars,
                 turnVars, cancelled>>

Meter ==
  /\ observer = "range" /\ channel = <<>> /\ reader = "gone"
  /\ observer' = "gone"
  /\ recorded' = observed.reason
  /\ UNCHANGED <<serverVars, readerVars, channel, observed, watchdogVars, turnVars, cancelled>>

-----------------------------------------------------------------------------
(* WatchStream's goroutine. Go's select takes any case that is ready.      *)

Watch ==
  /\ watchdog = "wait" /\ observer = "forward"
  /\ watchdog' = "forward" /\ watched' = observed
  /\ observer' = "range"
  /\ UNCHANGED <<serverVars, readerVars, channel, observed, recorded, turnVars, cancelled>>

IdleTimeout ==
  /\ watchdog = "wait"
  /\ watchdog' = "timeout"
  /\ UNCHANGED <<serverVars, readerVars, channel, observerVars, watched, turnVars, cancelled>>

\* The run is cancelled, or the stream is at its end.
WatchdogLeaves ==
  /\ \/ watchdog \in {"wait", "forward"} /\ cancelled
     \/ watchdog = "wait" /\ observer = "gone"
  /\ watchdog' = "gone"
  /\ UNCHANGED <<serverVars, readerVars, channel, observerVars, watched, turnVars, cancelled>>

-----------------------------------------------------------------------------
(* accumulateTurn.                                                         *)

Receive ==
  /\ turn = "read" /\ watchdog \in {"forward", "timeout"}
  /\ LET e == IF watchdog = "timeout" THEN WatchdogTimeout ELSE watched IN
     /\ got' = IF e.n = 0 THEN got ELSE Append(got, e)
     /\ toolCalls' = IF e.calls THEN e.n ELSE toolCalls
     /\ reason' = IF e.done THEN e.reason ELSE reason
     /\ watchdog' = IF e.done THEN "gone" ELSE "wait"
  /\ turn' = "emit"
  /\ UNCHANGED <<serverVars, readerVars, channel, observerVars, watched, cancelled>>

\* sendEvent: whoever reads the run's events may be slow.
Emitted ==
  /\ turn = "emit"
  /\ turn' = "read"
  /\ UNCHANGED <<serverVars, readerVars, channel, observerVars, watchdogVars, got, reason,
                 toolCalls, cancelled>>

StreamFinished ==
  /\ turn = "read" /\ watchdog = "gone"
  /\ turn' = "over"
  /\ UNCHANGED <<serverVars, readerVars, channel, observerVars, watchdogVars, got, reason,
                 toolCalls, cancelled>>

PipeStep ==
  \/ Decode \/ DecodeFails \/ EndOfStream \/ Send \/ SendError
  \/ Take \/ ForwardLost \/ Meter
  \/ Watch \/ IdleTimeout \/ WatchdogLeaves
  \/ Receive \/ Emitted \/ StreamFinished

Next == Sends \/ Hangs \/ Cancel \/ PipeStep

Spec == Init /\ [][Next]_vars

-----------------------------------------------------------------------------
TypeOK ==
  /\ server \in {"open", "eof", "broken"}
  /\ reader \in {"decode", "send", "fail", "gone"}
  /\ observer \in {"range", "forward", "gone"}
  /\ recorded \in {"nothing", "", "stop", "stream_error"}
  /\ watchdog \in {"wait", "forward", "timeout", "gone"}
  /\ turn \in {"read", "emit", "over"}
  /\ reason \in {"", "stop", "stream_error", "watchdog_timeout"}
  /\ toolCalls \in 0..MaxSent /\ cancelled \in BOOLEAN
  /\ Len(channel) <= Cap

\* ollama.go:100-133, watchdog.go:82-149, stream.go:123-157: what a turn gets is
\* a beginning of what the server sent. It ends with "stop" only if it has all
\* of it, and without a reason only if its run is cancelled or the server hung
\* up early; then too it has all that was sent. Its calls are those of its last
\* event that has any.
AnswerIsWhatCame ==
  /\ got = SubSeq(sent, 1, Len(got))
  /\ reason = "stop" => got = sent /\ sent[Len(sent)].done
  /\ turn = "over" /\ reason = "" /\ ~cancelled => got = sent /\ server = "eof"
  /\ LET calling == {i \in 1..Len(got) : got[i].calls} IN
     calling # {} => toolCalls \in calling /\ \A i \in calling : i <= toolCalls

\* llm.go:33-63: a call is metered as answered only if its turn has the answer,
\* or was cancelled with it on its way.
MeterTellsTheTurn ==
  recorded = "stop" => reason = "stop" \/ cancelled \/ watchdog = "forward"

\* stream.go:76-82, 153-155: once the turn is over every goroutine goes. Only a
\* reader that fails with its channel full and nobody to empty it stays.
NobodyStays ==
  turn = "over" /\ ~ENABLED PipeStep =>
    /\ observer = "gone" /\ watchdog = "gone"
    /\ reader = "gone" \/ (reader = "fail" /\ Len(channel) = Cap)

AnswersComeThrough == AnswerIsWhatCame /\ MeterTellsTheTurn /\ NobodyStays
=============================================================================
