----------------------------- MODULE EventStream -----------------------------
(***************************************************************************)
(* A session's events on their way to one browser: Emit, Replay, Subscribe *)
(* and Unsubscribe (internal/server/session.go), the ring, handleEvents    *)
(* (handler.go) and the client (server/web/js/sse.js), which reconnects    *)
(* with the last id it was given.  The goroutine of a connection that is   *)
(* gone may still be subscribed while the next one replays.                *)
(***************************************************************************)
EXTENDS Naturals, Sequences, FiniteSets

CONSTANTS Emitter,      \* goroutines that emit
          MaxEvents,    \* events in all
          MaxConn,      \* connections the browser makes
          RingCap,      \* 200 in the code
          ChanCap       \* 64

VARIABLES
  counter,    \* eventCounter
  holds,      \* holds[e]: the id emitter e has taken, or 0
  appended,   \* emitters whose event is in the ring
  ring,
  subscribers, \* connections whose channel is registered
  closed,     \* connections whose channel is closed
  chan,       \* chan[k]: events in the channel of connection k
  backlog,    \* backlog[k]: what Replay returned and is yet to be written
  pcK,        \* handleEvents of connection k
  wire,       \* wire[k]: written and not yet read by the browser
  current,    \* the browser's connection, 0 for none
  attempts,   \* connections made
  seen, lastId, \* of sse.js; delivered is every id given to onEvent, in order
  delivered,
  missed      \* history: events this connection has no way to deliver

serverVars == <<counter, holds, appended, ring>>
clientVars == <<current, attempts, seen, lastId, delivered>>
connVars == <<subscribers, closed, chan, backlog, pcK, wire>>
vars == <<serverVars, clientVars, connVars, missed>>

Conn == 1..MaxConn
Range_(q) == {q[i] : i \in DOMAIN q}

Init ==
  /\ counter = 0 /\ holds = [e \in Emitter |-> 0] /\ appended = {} /\ ring = <<>>
  /\ subscribers = {} /\ closed = {}
  /\ chan = [k \in Conn |-> <<>>] /\ backlog = [k \in Conn |-> <<>>]
  /\ pcK = [k \in Conn |-> "new"] /\ wire = [k \in Conn |-> <<>>]
  /\ current = 0 /\ attempts = 0 /\ seen = {} /\ lastId = 0 /\ delivered = <<>>
  /\ missed = {}

-----------------------------------------------------------------------------
(* Emit: three steps, none of which excludes another emitter.              *)

TakeId(e) ==
  /\ holds[e] = 0 /\ counter < MaxEvents
  /\ counter' = counter + 1
  /\ holds' = [holds EXCEPT ![e] = counter + 1]
  /\ UNCHANGED <<appended, ring, clientVars, connVars, missed>>

\* Defect: the oldest event stays when the ring is full.
ringGrown(id) == Append(ring, id)

ringWith(id) == IF Len(ring) = RingCap THEN Append(Tail(ring), id) ELSE Append(ring, id)

AppendEvent(e) ==
  /\ holds[e] # 0 /\ e \notin appended
  /\ appended' = appended \cup {e}
  /\ ring' = ringWith(holds[e])
  /\ UNCHANGED <<counter, holds, clientVars, connVars, missed>>

\* A channel that is full loses the event.  So does a connection that has been
\* given its replay and is not subscribed yet.
HasRoom(k) == Len(chan[k]) < ChanCap

FanOut(e) ==
  /\ e \in appended
  /\ chan' = [k \in Conn |-> IF k \in subscribers /\ HasRoom(k) THEN Append(chan[k], holds[e])
                                                                ELSE chan[k]]
  /\ missed' = IF /\ current # 0 /\ pcK[current] # "new"
                  /\ ~(current \in subscribers /\ HasRoom(current))
                  /\ holds[e] \notin Range_(backlog[current]) \cup Range_(wire[current])
                 THEN missed \cup {holds[e]} ELSE missed
  /\ holds' = [holds EXCEPT ![e] = 0] /\ appended' = appended \ {e}
  /\ UNCHANGED <<counter, ring, clientVars, subscribers, closed, backlog, pcK, wire>>

-----------------------------------------------------------------------------
(* handleEvents.                                                           *)

replayAfter(i) == SubSeq(ring, i + 1, Len(ring))

\* Nothing at all for an id that the ring does not hold (any more).
Replay(last) ==
  IF last = 0 THEN ring
  ELSE IF \E i \in DOMAIN ring : ring[i] = last
         THEN replayAfter(CHOOSE i \in DOMAIN ring : ring[i] = last)
         ELSE <<>>

\* What no replay after last can bring back: events that left the ring, or that
\* stand before last there, and all of them when last itself is gone.
OutOfReach(last) ==
  {id \in 1..counter :
     /\ \A e \in Emitter : holds[e] # id \/ e \in appended
     /\ \/ id \notin Range_(ring)
        \/ last # 0 /\ last \notin Range_(ring)
        \/ \E i, j \in DOMAIN ring : i < j /\ ring[i] = id /\ ring[j] = last}

StartReplay(k) ==
  /\ k = current /\ pcK[k] = "new"
  /\ backlog' = [backlog EXCEPT ![k] = Replay(lastId)]
  /\ pcK' = [pcK EXCEPT ![k] = "replaying"]
  /\ missed' = OutOfReach(lastId)
  /\ UNCHANGED <<serverVars, clientVars, subscribers, closed, chan, wire>>

WriteReplay(k) ==
  /\ pcK[k] = "replaying" /\ backlog[k] # <<>>
  /\ backlog' = [backlog EXCEPT ![k] = Tail(@)]
  /\ wire' = [wire EXCEPT ![k] = Append(@, Head(backlog[k]))]
  /\ UNCHANGED <<serverVars, clientVars, subscribers, closed, chan, pcK, missed>>

Subscribe(k) ==
  /\ pcK[k] = "replaying" /\ backlog[k] = <<>>
  /\ subscribers' = subscribers \cup {k}
  /\ pcK' = [pcK EXCEPT ![k] = "live"]
  /\ UNCHANGED <<serverVars, clientVars, closed, chan, backlog, wire, missed>>

WriteLive(k) ==
  /\ pcK[k] = "live" /\ chan[k] # <<>>
  /\ chan' = [chan EXCEPT ![k] = Tail(@)]
  /\ wire' = [wire EXCEPT ![k] = Append(@, Head(chan[k]))]
  /\ UNCHANGED <<serverVars, clientVars, subscribers, closed, backlog, pcK, missed>>

\* The browser is gone: the context is done, or a write has failed.
Unsubscribe(k) ==
  /\ k # current /\ pcK[k] \in {"replaying", "live"}
  /\ pcK' = [pcK EXCEPT ![k] = "gone"]
  /\ subscribers' = subscribers \ {k}
  /\ closed' = IF pcK[k] = "live" THEN closed \cup {k} ELSE closed
  /\ UNCHANGED <<serverVars, clientVars, chan, backlog, wire, missed>>

-----------------------------------------------------------------------------
(* sse.js.                                                                 *)

Connect ==
  /\ current = 0 /\ attempts < MaxConn
  /\ attempts' = attempts + 1 /\ current' = attempts + 1
  /\ UNCHANGED <<serverVars, connVars, seen, lastId, delivered, missed>>

\* An id it has been given before is passed over.
OnData ==
  /\ current # 0 /\ wire[current] # <<>>
  /\ wire' = [wire EXCEPT ![current] = Tail(@)]
  /\ LET id == Head(wire[current]) IN
       IF id \in seen THEN UNCHANGED <<seen, lastId, delivered>>
       ELSE /\ seen' = seen \cup {id} /\ lastId' = id
            /\ delivered' = Append(delivered, id)
  /\ UNCHANGED <<serverVars, subscribers, closed, chan, backlog, pcK, current, attempts, missed>>

\* The connection breaks; what was on the wire is lost with it.
Disconnect ==
  /\ current # 0
  /\ current' = 0 /\ missed' = {}
  /\ UNCHANGED <<serverVars, connVars, attempts, seen, lastId, delivered>>

-----------------------------------------------------------------------------
EmitStep(e) == TakeId(e) \/ AppendEvent(e) \/ FanOut(e)
ConnStep(k) == StartReplay(k) \/ WriteReplay(k) \/ Subscribe(k) \/ WriteLive(k) \/ Unsubscribe(k)

Next == \/ \E e \in Emitter : EmitStep(e)
        \/ \E k \in Conn : ConnStep(k)
        \/ Connect \/ OnData \/ Disconnect

Spec == Init /\ [][Next]_vars

-----------------------------------------------------------------------------
Id == 1..MaxEvents

TypeOK ==
  /\ counter \in 0..MaxEvents /\ holds \in [Emitter -> 0..MaxEvents] /\ appended \subseteq Emitter
  /\ ring \in Seq(Id) /\ Len(ring) <= RingCap /\ subscribers \subseteq Conn /\ closed \subseteq Conn
  /\ \A k \in Conn : Len(chan[k]) <= ChanCap /\ {chan[k], backlog[k], wire[k]} \subseteq Seq(Id)
  /\ pcK \in [Conn -> {"new", "replaying", "live", "gone"}]
  /\ current \in 0..MaxConn /\ attempts \in 0..MaxConn /\ lastId \in 0..MaxEvents
  /\ seen \subseteq Id /\ missed \subseteq Id

\* A connection that is live and has nothing under way.
Quiet == /\ current # 0 /\ pcK[current] = "live"
         /\ chan[current] = <<>> /\ wire[current] = <<>>
         /\ \A e \in Emitter : holds[e] = 0

\* sse.js: it "drops event ids it has already delivered, which fixes the
\* duplicated transcript after a reconnect".  No event is shown twice, however
\* connections break and overlap; and a browser that has caught up lacks only
\* the events that its connection could not bring: those out of the replay's
\* reach, fanned out between the replay and the subscription, or fanned out to
\* a full channel.  Nothing is sent on a channel that is closed.
OnlyNamedLosses ==
  /\ Cardinality(Range_(delivered)) = Len(delivered)
  /\ Quiet => 1..counter \subseteq Range_(delivered) \cup missed
  /\ subscribers \cap closed = {}
=============================================================================
