--------------------------- MODULE EventStreamProofs ---------------------------
(***************************************************************************)
(* A browser that reconnects is shown no event twice and lacks only the    *)
(* events its connection could not bring, for any number of emitters,      *)
(* events and connections and any capacities.  The invariant:              *)
(*   Typed    types, and an emitter whose event is in the ring holds an id;*)
(*   Told     what was delivered is what sse.js remembers, each id once;   *)
(*   Wired    who is subscribed, closed, replaying, and yet to connect;    *)
(*   Covered  every id given out is delivered, named as missed, under way  *)
(*            on the connection, or still in an emitter's hand.            *)
(***************************************************************************)
EXTENDS EventStream, SequenceTheorems, FiniteSetTheorems, TLAPS

Emitting ==
  /\ counter \in 0..MaxEvents /\ holds \in [Emitter -> 0..MaxEvents]
  /\ appended \subseteq Emitter /\ \A e \in appended : holds[e] # 0
  /\ ring \in Seq(Id) /\ Len(ring) <= RingCap

Connected ==
  /\ chan \in [Conn -> Seq(Id)] /\ backlog \in [Conn -> Seq(Id)] /\ wire \in [Conn -> Seq(Id)]
  /\ \A k \in Conn : Len(chan[k]) <= ChanCap
  /\ pcK \in [Conn -> {"new", "replaying", "live", "gone"}]

Browsing ==
  /\ current \in 0..attempts /\ attempts \in 0..MaxConn
  /\ seen \subseteq Id /\ lastId \in 0..MaxEvents /\ delivered \in Seq(Id) /\ missed \subseteq Id

Typed == Emitting /\ Connected /\ Browsing

Told ==
  /\ seen = Range_(delivered) /\ IsFiniteSet(seen) /\ Cardinality(seen) = Len(delivered)
  /\ lastId # 0 => lastId \in seen

Wired ==
  /\ subscribers = {k \in Conn : pcK[k] = "live"}
  /\ closed \subseteq {k \in Conn : pcK[k] = "gone"}
  /\ \A k \in Conn : /\ pcK[k] = "live" => backlog[k] = <<>>
                     /\ k > attempts => pcK[k] = "new"

UnderWay(k) == Range_(backlog[k]) \cup Range_(chan[k]) \cup Range_(wire[k])
Held == {holds[e] : e \in Emitter}

Serving == current # 0 /\ pcK[current] \in {"replaying", "live"}
Covered == Serving => 1..counter \subseteq seen \cup missed \cup UnderWay(current) \cup Held

IInv == Typed /\ Told /\ Wired /\ Covered

Bounds == MaxEvents \in Nat /\ MaxConn \in Nat /\ RingCap \in Nat \ {0} /\ ChanCap \in Nat

-----------------------------------------------------------------------------
(* Queues of ids.                                                          *)

\* What a queue holds, by position.
LEMMA RangeIs ==
  ASSUME NEW S, NEW q \in Seq(S)
  PROVE  /\ Len(q) \in Nat /\ DOMAIN q = 1..Len(q)
         /\ Range_(q) \subseteq S
         /\ \A x : x \in Range_(q) <=> \E i \in 1..Len(q) : q[i] = x
<1>1. Len(q) \in Nat /\ DOMAIN q = 1..Len(q) /\ \A i \in 1..Len(q) : q[i] \in S
  BY LenProperties, ElementOfSeq
<1> QED
  BY <1>1 DEF Range_

\* An empty queue holds nothing.
LEMMA RangeEmpty == Range_(<<>>) = {}
  BY DEF Range_

\* A queue that grows holds its new element too.
LEMMA RangeAppend ==
  ASSUME NEW S, NEW q \in Seq(S), NEW x \in S
  PROVE  Append(q, x) \in Seq(S) /\ Range_(Append(q, x)) = Range_(q) \cup {x}
<1> DEFINE r == Append(q, x)
<1>1. /\ r \in Seq(S) /\ Len(r) = Len(q) + 1 /\ r[Len(q) + 1] = x
      /\ \A i \in 1..Len(q) : r[i] = q[i]
  BY AppendProperties
<1> HIDE DEF r
<1>2. /\ Len(q) \in Nat
      /\ \A y : y \in Range_(q) <=> \E i \in 1..Len(q) : q[i] = y
      /\ \A y : y \in Range_(r) <=> \E i \in 1..Len(r) : r[i] = y
  BY <1>1, RangeIs
<1>3. /\ \A i \in 1..Len(r) : i \in 1..Len(q) \/ r[i] = x
      /\ \A i \in 1..Len(q) : i \in 1..Len(r)
      /\ Len(q) + 1 \in 1..Len(r)
  BY <1>1, <1>2
<1>4. \A y : y \in Range_(r) <=> y \in Range_(q) \/ y = x
  BY <1>1, <1>2, <1>3
<1> QED
  BY <1>1, <1>4 DEF r

\* A queue holds its head and what its tail holds.
LEMMA RangeTail ==
  ASSUME NEW S, NEW q \in Seq(S), q # <<>>
  PROVE  /\ Head(q) \in S /\ Tail(q) \in Seq(S) /\ Len(Tail(q)) = Len(q) - 1
         /\ Range_(q) = {Head(q)} \cup Range_(Tail(q))
<1> DEFINE r == Tail(q)
<1>1. /\ Head(q) \in S /\ Head(q) = q[1] /\ r \in Seq(S) /\ Len(r) = Len(q) - 1
      /\ Len(q) \in Nat \ {0}
      /\ \A i \in 1..Len(r) : r[i] = q[i + 1]
  BY HeadTailProperties, EmptySeq
<1> HIDE DEF r
<1>2. /\ \A y : y \in Range_(q) <=> \E i \in 1..Len(q) : q[i] = y
      /\ \A y : y \in Range_(r) <=> \E i \in 1..Len(r) : r[i] = y
  BY <1>1, RangeIs
<1>3. /\ \A i \in 1..Len(q) : i = 1 \/ (i - 1 \in 1..Len(r) /\ r[i - 1] = q[i])
      /\ \A i \in 1..Len(r) : i + 1 \in 1..Len(q)
      /\ 1 \in 1..Len(q)
  BY <1>1
<1>4. \A y : y \in Range_(q) <=> y = q[1] \/ y \in Range_(r)
  BY <1>1, <1>2, <1>3
<1> QED
  BY <1>1, <1>4 DEF r

\* What stands after a place of the ring is in the replay from there.
LEMMA AfterPlace ==
  ASSUME NEW S, NEW q \in Seq(S), NEW i \in 1..Len(q)
  PROVE  /\ SubSeq(q, i + 1, Len(q)) \in Seq(S)
         /\ \A m \in 1..Len(q) : m > i => q[m] \in Range_(SubSeq(q, i + 1, Len(q)))
<1> DEFINE r == SubSeq(q, i + 1, Len(q))
<1>1. Len(q) \in Nat /\ \A m \in 1..Len(q) : q[m] \in S
  BY LenProperties, ElementOfSeq
<1>2. i + 1 \in Int /\ Len(q) \in Int /\ \A m \in (i + 1)..Len(q) : q[m] \in S
  BY <1>1
<1>3. /\ r \in Seq(S)
      /\ Len(r) = IF i + 1 <= Len(q) THEN Len(q) - (i + 1) + 1 ELSE 0
      /\ \A m \in 1..(Len(q) - (i + 1) + 1) : r[m] = q[i + 1 + m - 1]
  BY <1>2, SubSeqProperties
<1> HIDE DEF r
<1>4. ASSUME NEW m \in 1..Len(q), m > i PROVE q[m] \in Range_(r)
  <2>1. m - i \in 1..Len(r) /\ m - i \in 1..(Len(q) - (i + 1) + 1) /\ i + 1 + (m - i) - 1 = m
    BY <1>1, <1>3, <1>4
  <2>2. r[m - i] = q[m]
    BY <1>3, <2>1
  <2> QED
    BY <1>3, <2>1, <2>2, RangeIs
<1> QED
  BY <1>3, <1>4 DEF r

-----------------------------------------------------------------------------
(* The ring and its replay.                                                *)

\* The ring keeps ids, and no more of them than it may.
LEMMA RingGrows ==
  ASSUME Bounds, ring \in Seq(Id), Len(ring) <= RingCap, NEW id \in Id
  PROVE  ringWith(id) \in Seq(Id) /\ Len(ringWith(id)) <= RingCap
<1>1. Len(ring) \in Nat
  BY LenProperties
<1>2. CASE Len(ring) = RingCap
  <2>1. ring # <<>>
    BY <1>2, EmptySeq DEF Bounds
  <2>2. Tail(ring) \in Seq(Id) /\ Len(Tail(ring)) = Len(ring) - 1
    BY <2>1, HeadTailProperties
  <2>3. /\ Append(Tail(ring), id) \in Seq(Id)
        /\ Len(Append(Tail(ring), id)) = Len(Tail(ring)) + 1
    BY <2>2, AppendProperties
  <2> QED
    BY <1>1, <1>2, <2>2, <2>3 DEF ringWith
<1>3. CASE Len(ring) # RingCap
  <2>1. Append(ring, id) \in Seq(Id) /\ Len(Append(ring, id)) = Len(ring) + 1
    BY AppendProperties
  <2> QED
    BY <1>1, <1>3, <2>1 DEF ringWith, Bounds
<1> QED
  BY <1>2, <1>3

\* What is neither out of reach nor the last id itself is replayed.
LEMMA ReplayReaches ==
  ASSUME Emitting, NEW last \in Nat
  PROVE  /\ Replay(last) \in Seq(Id)
         /\ \A id \in 1..counter :
              \/ id \in OutOfReach(last) \/ id \in Range_(Replay(last)) \/ id = last
              \/ id \in Held
<1>1. ring \in Seq(Id)
  BY DEF Emitting
<1>2. Len(ring) \in Nat /\ DOMAIN ring = 1..Len(ring)
      /\ \A x : x \in Range_(ring) <=> \E i \in 1..Len(ring) : ring[i] = x
  BY <1>1, RangeIs
<1>3. CASE last = 0
  <2>1. Replay(last) = ring
    BY <1>3 DEF Replay
  <2>2. ASSUME NEW id \in 1..counter, id \notin OutOfReach(last), id \notin Held
        PROVE  id \in Range_(ring)
    BY <1>2, <1>3, <2>2 DEF OutOfReach, Held
  <2> QED
    BY <1>1, <2>1, <2>2
<1>4. CASE last # 0 /\ last \notin Range_(ring)
  <2>1. Replay(last) = <<>>
    BY <1>2, <1>4 DEF Replay
  <2>2. ASSUME NEW id \in 1..counter, id \notin Held PROVE id \in OutOfReach(last)
    BY <1>4, <2>2 DEF OutOfReach, Held
  <2> QED
    BY <2>1, <2>2, EmptySeq
<1>5. CASE last # 0 /\ last \in Range_(ring)
  <2>1. \E i \in DOMAIN ring : ring[i] = last
    BY <1>2, <1>5
  <2>2. PICK i \in DOMAIN ring : i = CHOOSE x \in DOMAIN ring : ring[x] = last
    BY <2>1
  <2>3. ring[i] = last
    BY <2>1, <2>2
  <2>4. Replay(last) = SubSeq(ring, i + 1, Len(ring))
    BY <1>5, <2>1, <2>2 DEF Replay, replayAfter
  <2>5. /\ SubSeq(ring, i + 1, Len(ring)) \in Seq(Id)
        /\ \A m \in 1..Len(ring) : m > i => ring[m] \in Range_(SubSeq(ring, i + 1, Len(ring)))
    BY <1>1, <1>2, AfterPlace
  <2>6. ASSUME NEW id \in 1..counter, id \notin OutOfReach(last), id \notin Held, id # last
        PROVE  id \in Range_(Replay(last))
    <3>1. PICK m \in 1..Len(ring) : ring[m] = id
      BY <1>2, <2>6 DEF OutOfReach, Held
    <3>2. ~(m < i)
      BY <1>2, <2>3, <2>6, <3>1 DEF OutOfReach, Held
    <3>3. m > i
      BY <1>2, <2>3, <2>6, <3>1, <3>2
    <3> QED
      BY <2>4, <2>5, <3>1, <3>3
  <2> QED
    BY <2>4, <2>5, <2>6
<1> QED
  BY <1>3, <1>4, <1>5

\* What is out of reach was given out.
LEMMA OutOfReachIds == ASSUME Bounds, Emitting, NEW last PROVE OutOfReach(last) \subseteq Id
  BY DEF OutOfReach, Emitting, Bounds, Id

-----------------------------------------------------------------------------
(* Types.                                                                  *)

\* The emitters' side keeps its types.
LEMMA EmittingStep ==
  ASSUME Bounds, Emitting, [Next]_vars
  PROVE  Emitting'
<1> USE DEF Bounds, Id
<1>1. ASSUME NEW e \in Emitter, TakeId(e) PROVE Emitting'
  BY <1>1 DEF TakeId, Emitting
<1>2. ASSUME NEW e \in Emitter, AppendEvent(e) PROVE Emitting'
  <2>1. holds[e] \in Id
    BY <1>2 DEF AppendEvent, Emitting
  <2>2. ringWith(holds[e]) \in Seq(Id) /\ Len(ringWith(holds[e])) <= RingCap
    BY <2>1, RingGrows DEF Emitting
  <2> QED
    BY <1>2, <2>1, <2>2 DEF AppendEvent, Emitting
<1>3. ASSUME NEW e \in Emitter, FanOut(e) PROVE Emitting'
  BY <1>3 DEF FanOut, Emitting
<1>4. CASE \/ \E k \in Conn : ConnStep(k)
           \/ Connect \/ OnData \/ Disconnect \/ UNCHANGED vars
  <2>1. UNCHANGED serverVars
    BY <1>4 DEF ConnStep, StartReplay, WriteReplay, Subscribe, WriteLive, Unsubscribe,
                Connect, OnData, Disconnect, vars
  <2> QED
    BY <2>1 DEF serverVars, Emitting
<1> QED
  BY <1>1, <1>2, <1>3, <1>4 DEF Next, EmitStep

\* A channel that has room takes one id more.
LEMMA RoomForOne ==
  ASSUME Bounds, NEW q \in Seq(Id), Len(q) < ChanCap, NEW id \in Id
  PROVE  Append(q, id) \in Seq(Id) /\ Len(Append(q, id)) <= ChanCap
<1>1. Len(q) \in Nat /\ Append(q, id) \in Seq(Id) /\ Len(Append(q, id)) = Len(q) + 1
  BY LenProperties, AppendProperties
<1> QED
  BY <1>1 DEF Bounds

\* So do the connections.
LEMMA ConnectedStep ==
  ASSUME Bounds, Typed, [Next]_vars
  PROVE  Connected'
<1>0. Connected
  BY DEF Typed
<1>1. ASSUME NEW e \in Emitter, FanOut(e) PROVE Connected'
  <2>1. holds[e] \in Id
    BY <1>1 DEF FanOut, Typed, Emitting, Id, Bounds
  <2>2. ASSUME NEW k \in Conn PROVE chan'[k] \in Seq(Id) /\ Len(chan'[k]) <= ChanCap
    <3>1. chan[k] \in Seq(Id) /\ Len(chan[k]) <= ChanCap
      BY <1>0 DEF Connected
    <3>2. chan'[k] = IF k \in subscribers /\ HasRoom(k) THEN Append(chan[k], holds[e]) ELSE chan[k]
      BY <1>1 DEF FanOut
    <3>3. CASE k \in subscribers /\ HasRoom(k)
      BY <2>1, <3>1, <3>2, <3>3, RoomForOne DEF HasRoom
    <3>4. CASE ~(k \in subscribers /\ HasRoom(k))
      BY <3>1, <3>2, <3>4
    <3> QED
      BY <3>3, <3>4
  <2>3. chan' = [k \in Conn |-> chan'[k]]
    BY <1>1 DEF FanOut
  <2> QED
    BY <1>0, <1>1, <2>2, <2>3 DEF FanOut, Connected
<1>2. ASSUME NEW k \in Conn, StartReplay(k) PROVE Connected'
  <2>1. Replay(lastId) \in Seq(Id)
    BY ReplayReaches DEF Typed, Browsing, Bounds
  <2> QED
    BY <1>0, <1>2, <2>1 DEF StartReplay, Connected
<1>3. ASSUME NEW k \in Conn, WriteReplay(k) PROVE Connected'
  <2>1. backlog[k] \in Seq(Id) /\ backlog[k] # <<>> /\ wire[k] \in Seq(Id)
    BY <1>0, <1>3 DEF WriteReplay, Connected
  <2>2. Tail(backlog[k]) \in Seq(Id) /\ Append(wire[k], Head(backlog[k])) \in Seq(Id)
    BY <2>1, RangeTail, RangeAppend
  <2> QED
    BY <1>0, <1>3, <2>2 DEF WriteReplay, Connected
<1>4. ASSUME NEW k \in Conn, Subscribe(k) \/ Unsubscribe(k) PROVE Connected'
  BY <1>0, <1>4 DEF Subscribe, Unsubscribe, Connected
<1>5. ASSUME NEW k \in Conn, WriteLive(k) PROVE Connected'
  <2>1. chan[k] \in Seq(Id) /\ chan[k] # <<>> /\ wire[k] \in Seq(Id) /\ Len(chan[k]) <= ChanCap
    BY <1>0, <1>5 DEF WriteLive, Connected
  <2>2. /\ Tail(chan[k]) \in Seq(Id) /\ Len(Tail(chan[k])) = Len(chan[k]) - 1
        /\ Append(wire[k], Head(chan[k])) \in Seq(Id)
    BY <2>1, RangeTail, RangeAppend
  <2>3. Len(Tail(chan[k])) <= ChanCap
    BY <2>1, <2>2, LenProperties DEF Bounds
  <2> QED
    BY <1>0, <1>5, <2>2, <2>3 DEF WriteLive, Connected
<1>6. CASE OnData
  <2>1. current \in Conn /\ wire[current] \in Seq(Id) /\ wire[current] # <<>>
    BY <1>0, <1>6 DEF OnData, Connected, Typed, Browsing, Conn, Bounds
  <2>2. Tail(wire[current]) \in Seq(Id)
    BY <2>1, RangeTail
  <2> QED
    BY <1>0, <1>6, <2>2 DEF OnData, Connected
<1>7. CASE \/ \E e \in Emitter : TakeId(e) \/ AppendEvent(e)
           \/ Connect \/ Disconnect \/ UNCHANGED vars
  <2>1. UNCHANGED connVars
    BY <1>7 DEF TakeId, AppendEvent, Connect, Disconnect, vars
  <2> QED
    BY <1>0, <2>1 DEF connVars, Connected
<1> QED
  BY <1>1, <1>2, <1>3, <1>4, <1>5, <1>6, <1>7 DEF Next, EmitStep, ConnStep

\* So does the browser.
LEMMA BrowsingStep ==
  ASSUME Bounds, Typed, [Next]_vars
  PROVE  Browsing'
<1>0. Browsing
  BY DEF Typed
<1>1. CASE OnData
  <2>1. current \in Conn /\ wire[current] \in Seq(Id) /\ wire[current] # <<>>
    BY <1>1 DEF OnData, Typed, Connected, Browsing, Conn, Bounds
  <2>2. PICK id \in Id : id = Head(wire[current])
    BY <2>1, RangeTail
  <2>3. Append(delivered, id) \in Seq(Id) /\ id \in 0..MaxEvents
    BY <1>0, RangeAppend DEF Browsing, Id
  <2>4. /\ seen' \in {seen, seen \cup {id}} /\ lastId' \in {lastId, id}
        /\ delivered' \in {delivered, Append(delivered, id)}
        /\ UNCHANGED <<current, attempts, missed>>
    BY <1>1, <2>2 DEF OnData
  <2> QED
    BY <1>0, <2>3, <2>4 DEF Browsing
<1>2. CASE Connect \/ Disconnect
  BY <1>0, <1>2 DEF Connect, Disconnect, Browsing, Bounds
<1>3. ASSUME NEW e \in Emitter, FanOut(e) PROVE Browsing'
  <2>1. holds[e] \in Id
    BY <1>3 DEF FanOut, Typed, Emitting, Id, Bounds
  <2> QED
    BY <1>0, <1>3, <2>1 DEF FanOut, clientVars, Browsing
<1>4. ASSUME NEW k \in Conn, StartReplay(k) PROVE Browsing'
  BY <1>0, <1>4, OutOfReachIds DEF StartReplay, clientVars, Browsing, Typed
<1>5. CASE \/ \E e \in Emitter : TakeId(e) \/ AppendEvent(e)
           \/ \E k \in Conn : WriteReplay(k) \/ Subscribe(k) \/ WriteLive(k) \/ Unsubscribe(k)
           \/ UNCHANGED vars
  <2>1. UNCHANGED <<clientVars, missed>>
    BY <1>5 DEF TakeId, AppendEvent, WriteReplay, Subscribe, WriteLive, Unsubscribe, vars
  <2> QED
    BY <1>0, <2>1 DEF clientVars, Browsing
<1> QED
  BY <1>1, <1>2, <1>3, <1>4, <1>5 DEF Next, EmitStep, ConnStep

-----------------------------------------------------------------------------
(* What the browser was told.                                              *)

\* An id is delivered when it is new to the browser, which then remembers it.
LEMMA ToldStep ==
  ASSUME Bounds, Typed, Told, [Next]_vars
  PROVE  Told'
<1>1. CASE OnData
  <2>1. current \in Conn /\ wire[current] \in Seq(Id) /\ wire[current] # <<>>
    BY <1>1 DEF OnData, Typed, Connected, Browsing, Conn, Bounds
  <2>2. PICK id \in Id : id = Head(wire[current])
    BY <2>1, RangeTail
  <2>3. CASE id \in seen
    BY <1>1, <2>2, <2>3 DEF OnData, Told
  <2>4. CASE id \notin seen
    <3>1. seen' = seen \cup {id} /\ lastId' = id /\ delivered' = Append(delivered, id)
      BY <1>1, <2>2, <2>4 DEF OnData
    <3>2. delivered \in Seq(Id)
      BY DEF Typed, Browsing
    <3>3. Range_(Append(delivered, id)) = Range_(delivered) \cup {id}
      BY <3>2, RangeAppend
    <3>4. Len(Append(delivered, id)) = Len(delivered) + 1
      BY <3>2, AppendProperties
    <3>5. IsFiniteSet(seen \cup {id}) /\ Cardinality(seen \cup {id}) = Cardinality(seen) + 1
      BY <2>4, FS_AddElement DEF Told
    <3> QED
      BY <3>1, <3>3, <3>4, <3>5 DEF Told
  <2> QED
    BY <2>3, <2>4
<1>2. CASE \/ \E e \in Emitter : EmitStep(e)
           \/ \E k \in Conn : ConnStep(k)
           \/ Connect \/ Disconnect \/ UNCHANGED vars
  <2>1. UNCHANGED <<seen, lastId, delivered>>
    BY <1>2 DEF EmitStep, TakeId, AppendEvent, FanOut, ConnStep, StartReplay, WriteReplay,
                Subscribe, WriteLive, Unsubscribe, Connect, Disconnect, vars, clientVars
  <2> QED
    BY <2>1 DEF Told
<1> QED
  BY <1>1, <1>2 DEF Next

-----------------------------------------------------------------------------
(* Connections.                                                            *)

\* A connection subscribes when its replay is written, and its channel is
\* closed when it goes.
LEMMA WiredStep ==
  ASSUME Bounds, Typed, Wired, [Next]_vars
  PROVE  Wired'
<1>0. /\ pcK \in [Conn -> {"new", "replaying", "live", "gone"}]
      /\ backlog \in [Conn -> Seq(Id)] /\ current \in 0..attempts /\ attempts \in Nat
  BY DEF Typed, Connected, Browsing, Bounds
<1>1. ASSUME NEW k \in Conn, StartReplay(k) PROVE Wired'
  <2>1. k = current /\ ~(k > attempts)
    BY <1>0, <1>1 DEF StartReplay, Conn, Bounds
  <2> QED
    BY <1>0, <1>1, <2>1 DEF StartReplay, clientVars, Wired
<1>2. ASSUME NEW k \in Conn, WriteReplay(k) PROVE Wired'
  BY <1>0, <1>2 DEF WriteReplay, clientVars, Wired
<1>3. ASSUME NEW k \in Conn, Subscribe(k) PROVE Wired'
  BY <1>0, <1>3 DEF Subscribe, clientVars, Wired
<1>4. ASSUME NEW k \in Conn, WriteLive(k) PROVE Wired'
  BY <1>0, <1>4 DEF WriteLive, clientVars, Wired
<1>5. ASSUME NEW k \in Conn, Unsubscribe(k) PROVE Wired'
  BY <1>0, <1>5 DEF Unsubscribe, clientVars, Wired
<1>6. CASE Connect
  <2>1. attempts' = attempts + 1 /\ UNCHANGED connVars
    BY <1>6 DEF Connect
  <2>2. \A k \in Conn : k > attempts' => k > attempts
    BY <1>0, <2>1 DEF Conn, Bounds
  <2> QED
    BY <2>1, <2>2 DEF connVars, Wired
<1>7. CASE OnData \/ Disconnect \/ UNCHANGED vars \/ \E e \in Emitter : EmitStep(e)
  <2>1. UNCHANGED <<subscribers, closed, pcK, backlog, attempts>>
    BY <1>7 DEF OnData, Disconnect, vars, connVars, clientVars, EmitStep, TakeId, AppendEvent,
                FanOut
  <2> QED
    BY <2>1 DEF Wired
<1> QED
  BY <1>1, <1>2, <1>3, <1>4, <1>5, <1>6, <1>7 DEF Next, ConnStep

-----------------------------------------------------------------------------
(* No id is lost from sight.                                               *)

\* A step after which every id that was covered is.
LEMMA StillCovered ==
  ASSUME Covered, Serving' => Serving, counter' = counter, current' = current,
         Serving' => seen \cup missed \cup UnderWay(current) \cup Held \subseteq
                       seen' \cup missed' \cup UnderWay(current)' \cup Held'
  PROVE  Covered'
  BY DEF Covered

\* Every step keeps every id in sight.
LEMMA CoveredStep ==
  ASSUME Bounds, Typed, Wired, Told, Covered, [Next]_vars
  PROVE  Covered'
<1>0. /\ chan \in [Conn -> Seq(Id)] /\ backlog \in [Conn -> Seq(Id)] /\ wire \in [Conn -> Seq(Id)]
      /\ pcK \in [Conn -> {"new", "replaying", "live", "gone"}]
      /\ holds \in [Emitter -> 0..MaxEvents] /\ counter \in Nat
      /\ current # 0 => current \in Conn
  BY DEF Typed, Emitting, Connected, Browsing, Conn, Bounds
<1>1. ASSUME NEW e \in Emitter, TakeId(e) PROVE Covered'
  <2>1. /\ counter' = counter + 1 /\ holds' = [holds EXCEPT ![e] = counter + 1] /\ holds[e] = 0
        /\ UNCHANGED <<current, pcK, seen, missed, backlog, chan, wire>>
    BY <1>1 DEF TakeId, clientVars, connVars
  <2>2. Held \ {0} \subseteq Held' /\ counter + 1 \in Held'
    BY <1>0, <2>1 DEF Held
  <2>3. ASSUME NEW id \in 1..counter', Serving'
        PROVE  id \in seen' \cup missed' \cup UnderWay(current)' \cup Held'
    <3>1. id # 0 /\ (id \in 1..counter \/ id = counter + 1)
      BY <1>0, <2>1, <2>3
    <3>2. Serving /\ UnderWay(current)' = UnderWay(current)
      BY <2>1, <2>3 DEF Serving, UnderWay
    <3> QED
      BY <2>1, <2>2, <3>1, <3>2 DEF Covered
  <2> QED
    BY <2>3 DEF Covered
<1>2. ASSUME NEW e \in Emitter, AppendEvent(e) PROVE Covered'
  BY <1>2, StillCovered DEF AppendEvent, clientVars, connVars, Serving, UnderWay, Held
<1>3. ASSUME NEW e \in Emitter, FanOut(e) PROVE Covered'
  <2>1. /\ holds' = [holds EXCEPT ![e] = 0]
        /\ UNCHANGED <<counter, current, pcK, seen, backlog, wire, subscribers>>
    BY <1>3 DEF FanOut, clientVars
  <2>2. holds[e] \in Id
    BY <1>3 DEF FanOut, Typed, Emitting, Id, Bounds
  <2>3. SUFFICES ASSUME Serving
                 PROVE  seen \cup missed \cup UnderWay(current) \cup Held \subseteq
                          seen' \cup missed' \cup UnderWay(current)' \cup Held'
                          \cup {0}
    <3>1. Serving' => Serving
      BY <2>1 DEF Serving
    <3>2. ASSUME Serving', NEW id \in 1..counter'
          PROVE  id \in seen' \cup missed' \cup UnderWay(current)' \cup Held'
      <4>1. id # 0 /\ id \in 1..counter
        BY <1>0, <2>1, <3>2
      <4>2. id \in seen \cup missed \cup UnderWay(current) \cup Held
        BY <3>1, <3>2, <4>1 DEF Covered
      <4> QED
        BY <2>3, <3>1, <3>2, <4>1, <4>2
    <3> QED
      BY <3>2 DEF Covered
  <2>4. current \in Conn /\ pcK[current] # "new" /\ current # 0
    BY <1>0, <2>3 DEF Serving
  <2>5. Held \subseteq Held' \cup {holds[e]}
    BY <1>0, <2>1 DEF Held
  <2>6. missed \subseteq missed'
    BY <1>3 DEF FanOut
  <2>7. CASE current \in subscribers /\ HasRoom(current)
    <3>1. chan'[current] = Append(chan[current], holds[e])
      BY <1>3, <2>4, <2>7 DEF FanOut
    <3>2. Range_(chan'[current]) = Range_(chan[current]) \cup {holds[e]}
      BY <1>0, <2>2, <2>4, <3>1, RangeAppend
    <3> QED
      BY <2>1, <2>5, <2>6, <3>2 DEF UnderWay
  <2>8. CASE ~(current \in subscribers /\ HasRoom(current))
    <3>1. chan'[current] = chan[current]
      BY <1>3, <2>4, <2>8 DEF FanOut
    <3>2. UnderWay(current)' = UnderWay(current)
      BY <2>1, <3>1 DEF UnderWay
    <3>3. holds[e] \in missed' \cup UnderWay(current)
      BY <1>3, <2>4, <2>8 DEF FanOut, UnderWay
    <3> QED
      BY <2>1, <2>5, <2>6, <3>2, <3>3
  <2> QED
    BY <2>7, <2>8
<1>4. ASSUME NEW k \in Conn, StartReplay(k) PROVE Covered'
  <2>1. /\ k = current /\ missed' = OutOfReach(lastId)
        /\ backlog' = [backlog EXCEPT ![k] = Replay(lastId)]
        /\ UNCHANGED <<counter, holds, seen, current>>
    BY <1>4 DEF StartReplay, serverVars, clientVars
  <2>2. backlog'[k] = Replay(lastId)
    BY <1>0, <2>1
  <2>3. lastId \in Nat /\ (lastId # 0 => lastId \in seen)
    BY DEF Typed, Browsing, Told, Bounds
  <2>4. ASSUME NEW id \in 1..counter
        PROVE  id \in seen' \cup missed' \cup UnderWay(current)' \cup Held'
    <3>1. \/ id \in OutOfReach(lastId) \/ id \in Range_(Replay(lastId)) \/ id = lastId
          \/ id \in Held
      BY <2>3, ReplayReaches DEF Typed
    <3>2. id # 0
      BY <1>0
    <3>3. Held' = Held
      BY <2>1 DEF Held
    <3>4. Range_(Replay(lastId)) \subseteq UnderWay(current)'
      BY <2>1, <2>2 DEF UnderWay
    <3> QED
      BY <2>1, <2>3, <3>1, <3>2, <3>3, <3>4
  <2> QED
    BY <2>1, <2>4 DEF Covered
<1>5. ASSUME NEW k \in Conn, WriteReplay(k) PROVE Covered'
  <2>1. backlog[k] \in Seq(Id) /\ backlog[k] # <<>> /\ wire[k] \in Seq(Id)
    BY <1>0, <1>5 DEF WriteReplay
  <2>2. /\ Head(backlog[k]) \in Id
        /\ Range_(backlog[k]) = {Head(backlog[k])} \cup Range_(Tail(backlog[k]))
    BY <2>1, RangeTail
  <2>3. Range_(Append(wire[k], Head(backlog[k]))) = Range_(wire[k]) \cup {Head(backlog[k])}
    BY <2>1, <2>2, RangeAppend
  <2>4. /\ backlog' = [backlog EXCEPT ![k] = Tail(@)]
        /\ wire' = [wire EXCEPT ![k] = Append(@, Head(backlog[k]))]
        /\ UNCHANGED <<counter, holds, current, seen, missed, pcK, chan>>
    BY <1>5 DEF WriteReplay, serverVars, clientVars
  <2>5. ASSUME NEW j \in Conn PROVE UnderWay(j)' = UnderWay(j)
    <3>1. CASE j = k
      BY <1>0, <2>2, <2>3, <2>4, <3>1 DEF UnderWay
    <3>2. CASE j # k
      BY <1>0, <2>4, <3>2 DEF UnderWay
    <3> QED
      BY <3>1, <3>2
  <2>6. Serving' => Serving /\ UnderWay(current)' = UnderWay(current)
    BY <1>0, <2>4, <2>5 DEF Serving
  <2>7. Held' = Held
    BY <2>4 DEF Held
  <2> QED
    BY <2>4, <2>6, <2>7, StillCovered
<1>6. ASSUME NEW k \in Conn, WriteLive(k) PROVE Covered'
  <2>1. chan[k] \in Seq(Id) /\ chan[k] # <<>> /\ wire[k] \in Seq(Id)
    BY <1>0, <1>6 DEF WriteLive
  <2>2. Head(chan[k]) \in Id /\ Range_(chan[k]) = {Head(chan[k])} \cup Range_(Tail(chan[k]))
    BY <2>1, RangeTail
  <2>3. Range_(Append(wire[k], Head(chan[k]))) = Range_(wire[k]) \cup {Head(chan[k])}
    BY <2>1, <2>2, RangeAppend
  <2>4. /\ chan' = [chan EXCEPT ![k] = Tail(@)]
        /\ wire' = [wire EXCEPT ![k] = Append(@, Head(chan[k]))]
        /\ UNCHANGED <<counter, holds, current, seen, missed, pcK, backlog>>
    BY <1>6 DEF WriteLive, serverVars, clientVars
  <2>5. ASSUME NEW j \in Conn PROVE UnderWay(j)' = UnderWay(j)
    <3>1. CASE j = k
      BY <1>0, <2>2, <2>3, <2>4, <3>1 DEF UnderWay
    <3>2. CASE j # k
      BY <1>0, <2>4, <3>2 DEF UnderWay
    <3> QED
      BY <3>1, <3>2
  <2>6. Serving' => Serving /\ UnderWay(current)' = UnderWay(current)
    BY <1>0, <2>4, <2>5 DEF Serving
  <2>7. Held' = Held
    BY <2>4 DEF Held
  <2> QED
    BY <2>4, <2>6, <2>7, StillCovered
<1>7. ASSUME NEW k \in Conn, Subscribe(k) \/ Unsubscribe(k) PROVE Covered'
  <2>1. UNCHANGED <<counter, holds, current, seen, missed, chan, backlog, wire>>
    BY <1>7 DEF Subscribe, Unsubscribe, serverVars, clientVars
  <2>2. Serving' => Serving
    BY <1>0, <1>7, <2>1 DEF Subscribe, Unsubscribe, Serving
  <2> QED
    BY <2>1, <2>2, StillCovered DEF UnderWay, Held
<1>8. CASE OnData
  <2>1. current \in Conn /\ wire[current] \in Seq(Id) /\ wire[current] # <<>>
    BY <1>0, <1>8 DEF OnData
  <2>2. PICK id \in Id : id = Head(wire[current])
    BY <2>1, RangeTail
  <2>3. Range_(wire[current]) = {id} \cup Range_(Tail(wire[current]))
    BY <2>1, <2>2, RangeTail
  <2>4. /\ wire' = [wire EXCEPT ![current] = Tail(@)]
        /\ seen' = seen \cup {id}
        /\ UNCHANGED <<counter, holds, current, missed, pcK, chan, backlog>>
    BY <1>8, <2>2 DEF OnData, serverVars
  <2>5. UnderWay(current) \subseteq UnderWay(current)' \cup {id}
    <3>1. wire'[current] = Tail(wire[current])
      BY <1>0, <2>1, <2>4
    <3> QED
      BY <2>3, <2>4, <3>1 DEF UnderWay
  <2>6. Held' = Held /\ (Serving' => Serving)
    BY <2>4 DEF Held, Serving
  <2> QED
    BY <2>4, <2>5, <2>6, StillCovered
<1>9. CASE Connect
  <2>1. current' = attempts + 1 /\ UNCHANGED pcK /\ attempts < MaxConn /\ attempts \in Nat
    BY <1>9 DEF Connect, connVars, Typed, Browsing, Bounds
  <2>2. attempts + 1 \in Conn /\ attempts + 1 > attempts
    BY <2>1 DEF Conn, Bounds
  <2>3. pcK[attempts + 1] = "new"
    BY <2>2 DEF Wired
  <2>4. ~Serving'
    BY <2>1, <2>3 DEF Serving
  <2> QED
    BY <2>4 DEF Covered
<1>10. CASE Disconnect
  BY <1>10 DEF Disconnect, Covered, Serving
<1>11. CASE UNCHANGED vars
  <2>1. UNCHANGED <<counter, holds, current, seen, missed, pcK, chan, backlog, wire>>
    BY <1>11 DEF vars, serverVars, clientVars, connVars
  <2> QED
    BY <2>1, StillCovered DEF UnderWay, Held, Serving
<1> QED
  BY <1>1, <1>2, <1>3, <1>4, <1>5, <1>6, <1>7, <1>8, <1>9, <1>10, <1>11
     DEF Next, EmitStep, ConnStep

-----------------------------------------------------------------------------
(* The theorems.                                                           *)

\* At first there is nothing to lose.
LEMMA InitInvariant == ASSUME Bounds, Init PROVE IInv
<1>1. <<>> \in Seq(Id) /\ Len(<<>>) = 0
  BY EmptySeq
<1>2. Emitting
  BY <1>1 DEF Init, Emitting, Bounds
<1>3. Connected
  <2>1. Len(<<>>) <= ChanCap
    BY <1>1 DEF Bounds
  <2> QED
    BY <1>1, <2>1 DEF Init, Connected
<1>4. Browsing
  BY <1>1 DEF Init, Browsing, Bounds
<1>5. Told
  BY <1>1, RangeEmpty, FS_EmptySet DEF Init, Told
<1>6. Wired
  BY DEF Init, Wired
<1>7. Covered
  BY DEF Init, Covered, Serving
<1> QED
  BY <1>2, <1>3, <1>4, <1>5, <1>6, <1>7 DEF IInv, Typed

\* Every step keeps the invariant.
LEMMA Inductive == ASSUME Bounds, IInv, [Next]_vars PROVE IInv'
<1>1. Emitting' /\ Connected' /\ Browsing'
  BY EmittingStep, ConnectedStep, BrowsingStep DEF IInv, Typed
<1>2. Told' /\ Wired' /\ Covered'
  BY ToldStep, WiredStep, CoveredStep DEF IInv
<1> QED
  BY <1>1, <1>2 DEF IInv, Typed

\* The invariant gives the types.
LEMMA TypesHold == ASSUME Bounds, IInv PROVE TypeOK
<1>1. current \in 0..MaxConn
  BY DEF IInv, Typed, Browsing, Bounds
<1>2. \A k \in Conn : Len(chan[k]) <= ChanCap /\ {chan[k], backlog[k], wire[k]} \subseteq Seq(Id)
  BY DEF IInv, Typed, Connected
<1>3. subscribers \subseteq Conn /\ closed \subseteq Conn
  BY DEF IInv, Wired
<1> QED
  BY <1>1, <1>2, <1>3 DEF IInv, Typed, Emitting, Connected, Browsing, TypeOK

\* On a connection that is quiet nothing is under way.
LEMMA LossesAreNamed == ASSUME Bounds, IInv PROVE OnlyNamedLosses
<1>1. Cardinality(Range_(delivered)) = Len(delivered)
  BY DEF IInv, Told
<1>2. subscribers \cap closed = {}
  BY DEF IInv, Wired
<1>3. ASSUME Quiet PROVE 1..counter \subseteq Range_(delivered) \cup missed
  <2>1. Serving /\ current \in Conn
    BY <1>3 DEF Quiet, Serving, IInv, Typed, Browsing, Conn, Bounds
  <2>2. backlog[current] = <<>> /\ chan[current] = <<>> /\ wire[current] = <<>>
    BY <1>3, <2>1 DEF Quiet, IInv, Wired
  <2>3. UnderWay(current) = {}
    BY <2>2, RangeEmpty DEF UnderWay
  <2>4. Held \subseteq {0}
    BY <1>3 DEF Quiet, Held
  <2>5. \A id \in 1..counter : id # 0
    BY DEF IInv, Typed, Emitting, Bounds
  <2>6. 1..counter \subseteq seen \cup missed \cup UnderWay(current) \cup Held
    BY <2>1 DEF IInv, Covered
  <2> QED
    BY <2>3, <2>4, <2>5, <2>6 DEF IInv, Told
<1> QED
  BY <1>1, <1>2, <1>3 DEF OnlyNamedLosses

\* Every variable keeps its type; the ring and the channels keep to their
\* capacities (session.go, handler.go, sse.js).
THEOREM StreamTypes ==
  ASSUME Bounds
  PROVE  Spec => []TypeOK
<1>1. Init => IInv
  BY InitInvariant
<1>2. IInv /\ [Next]_vars => IInv'
  BY Inductive
<1>3. IInv => TypeOK
  BY TypesHold
<1> QED
  BY <1>1, <1>2, <1>3, PTL DEF Spec

\* No event is shown twice, one that never came was out of the replay's reach,
\* fanned out between replay and subscription, or met a full channel, and no
\* closed channel is sent on (Emit, Replay, Subscribe, Unsubscribe, sse.js).
THEOREM NothingElseLost ==
  ASSUME Bounds
  PROVE  Spec => []OnlyNamedLosses
<1>1. Init => IInv
  BY InitInvariant
<1>2. IInv /\ [Next]_vars => IInv'
  BY Inductive
<1>3. IInv => OnlyNamedLosses
  BY LossesAreNamed
<1> QED
  BY <1>1, <1>2, <1>3, PTL DEF Spec
==============================================================================
