--------------------------- MODULE AgentLoopProofs ---------------------------
(***************************************************************************)
(* The reader of an agent run's events gets what RunContract promises,     *)
(* for any replies, limits and interleaving of loop, watchdog, tools,      *)
(* reader and cancel.  The invariant has these parts:                      *)
(*   Shape     what calls and their states are where the loop is;          *)
(*   Numbered  the ids given out so far, against the requests made;        *)
(*   Announced each call's events, read or in the channel: one start, then *)
(*             one result, and none before the loop got that far;          *)
(*   Heard     as long as nobody cancelled, none of them is lost;          *)
(*   Ending    the Terminal comes last, with the reason decided on.        *)
(***************************************************************************)
EXTENDS AgentLoop, SequenceTheorems, TLAPS

EventKinds == {"start", "result", "warning", "terminal"}
Events == [kind : EventKinds, id : Nat]

Working == {"head", "request", "stream", "calls"}
Asking  == {"request", "stream", "calls"}

Shape ==
  /\ pc \in Working \cup {"terminal", "closed"}
  /\ calls \in Replies
  /\ pc \in {"head", "request", "terminal", "closed"} => calls = <<>>
  /\ st \in Seq({"new", "started", "running", "ran", "answered"})
  /\ IF pc = "calls" THEN DOMAIN st = DOMAIN calls ELSE st = <<>>
  /\ chan \in Seq(Events)

\* Every accepted turn was asked for at most twice, but for one compaction.
Longest  == Max({Len(r) : r \in Replies})
Accepted == (turn - 1) + mailed + incompleteRetryCount
Extra    == (IF lengthRetryCount > 0 THEN 1 ELSE 0) + (IF compactionAttempted THEN 1 ELSE 0)
Requests == 2 * (MaxTurns + MaxMail + 1) + 1

Numbered ==
  /\ turn \in Nat \ {0} /\ mailed \in 0..MaxMail /\ incompleteRetryCount \in 0..1
  /\ lengthRetryCount \in 0..2 /\ compactionAttempted \in BOOLEAN
  /\ pc \in Asking => turn <= MaxTurns
  /\ ids \in Nat /\ ids <= Requests * Longest
  /\ pc \in Working => ids <= (2 * Accepted + Extra) * Longest

\* The ids whose start the loop has sent, or tried to, and whose result.
Begun == 1..ids \cup {ids + i : i \in {j \in DOMAIN st : st[j] # "new"}}
Over  == 1..ids \cup {ids + i : i \in {j \in DOMAIN st : st[j] = "answered"}}

\* The channel ch against what was read (op, an) and what was sent (be, ov).
Orderly(ch, op, an, be, ov) ==
  /\ op \cup an \subseteq be /\ an \subseteq ov /\ op \cap an = {}
  /\ \A n \in 1..Len(ch) :
       /\ ch[n].kind = "start"  => ch[n].id \in be \ (op \cup an)
       /\ ch[n].kind = "result" => ch[n].id \in ov \ an
  /\ \A m, n \in 1..Len(ch) : ch[m].id = ch[n].id =>
       /\ ch[m].kind = "start" /\ ch[n].kind = "start" => m = n
       /\ ch[m].kind = "result" /\ ch[n].kind = "result" => m = n
       /\ ch[m].kind = "start" /\ ch[n].kind = "result" => m < n

InChan(ch, kind, id) == \E n \in 1..Len(ch) : ch[n].kind = kind /\ ch[n].id = id

Whole(ch, op, an, be, ov) ==
  /\ \A n \in 1..Len(ch) : ch[n].kind = "result" =>
       ch[n].id \in op \/ InChan(ch, "start", ch[n].id)
  /\ \A id \in be : id \in op \cup an \/ InChan(ch, "start", id)
  /\ \A id \in ov : id \in an \/ InChan(ch, "result", id)

Announced == Orderly(chan, open, answered, Begun, Over)
Heard == ~cancelled => Whole(chan, open, answered, Begun, Over)

Ending ==
  /\ pc \in {"terminal", "closed"} => reason \in Reasons
  /\ \A n \in 1..Len(chan) : chan[n].kind = "terminal" =>
       n = Len(chan) /\ pc = "closed" /\ ended = "no"
  /\ ended # "no" => chan = <<>> /\ pc = "closed"
  /\ closed => chan = <<>> /\ pc = "closed"
  /\ pc = "closed" /\ ~cancelled =>
       ended # "no" \/ \E n \in 1..Len(chan) : chan[n].kind = "terminal"

IInv == Shape /\ Numbered /\ Announced /\ Heard /\ Ending

-----------------------------------------------------------------------------
(* Sending and reading.                                                    *)

\* A start is sent under a new id.
LEMMA SendStart ==
  ASSUME NEW ch \in Seq(Events), NEW op, NEW an, NEW be, NEW ov, NEW e \in Events,
         ov \subseteq be, e.kind = "start", e.id \notin be, Orderly(ch, op, an, be, ov)
  PROVE  /\ Orderly(Append(ch, e), op, an, be \cup {e.id}, ov)
         /\ Orderly(ch, op, an, be \cup {e.id}, ov)
         /\ Whole(ch, op, an, be, ov) => Whole(Append(ch, e), op, an, be \cup {e.id}, ov)
<1> DEFINE ch2 == Append(ch, e)
<1>1. /\ Len(ch) \in Nat /\ Len(ch2) = Len(ch) + 1 /\ ch2[Len(ch) + 1] = e
      /\ \A n \in 1..Len(ch) : ch2[n] = ch[n]
  BY AppendProperties
<1> HIDE DEF ch2
<1>2. \A n \in 1..Len(ch2) : n \in 1..Len(ch) \/ (n = Len(ch2) /\ ch2[n] = e)
  BY <1>1
<1>3. \A n \in 1..Len(ch) : n \in 1..Len(ch2) /\ n < Len(ch2)
  BY <1>1
<1>4. \A kind, x : InChan(ch2, kind, x) <=>
                  InChan(ch, kind, x) \/ (e.kind = kind /\ e.id = x)
  BY <1>1, <1>2, <1>3 DEF InChan
<1>5. \A n \in 1..Len(ch) : ch[n].kind \in {"start", "result"} => ch[n].id # e.id
  BY DEF Orderly
<1>6. Orderly(ch2, op, an, be \cup {e.id}, ov)
  BY <1>1, <1>2, <1>3, <1>5 DEF Orderly
<1>7. Orderly(ch, op, an, be \cup {e.id}, ov)
  BY DEF Orderly
<1>8. ASSUME Whole(ch, op, an, be, ov) PROVE Whole(ch2, op, an, be \cup {e.id}, ov)
  BY <1>1, <1>2, <1>4, <1>8 DEF Whole
<1> QED
  BY <1>6, <1>7, <1>8 DEF ch2

\* A result is sent under an id that was announced.
LEMMA SendResult ==
  ASSUME NEW ch \in Seq(Events), NEW op, NEW an, NEW be, NEW ov, NEW e \in Events,
         e.kind = "result", e.id \in be \ ov, Orderly(ch, op, an, be, ov)
  PROVE  /\ Orderly(Append(ch, e), op, an, be, ov \cup {e.id})
         /\ Orderly(ch, op, an, be, ov \cup {e.id})
         /\ Whole(ch, op, an, be, ov) => Whole(Append(ch, e), op, an, be, ov \cup {e.id})
<1> DEFINE ch2 == Append(ch, e)
<1>1. /\ Len(ch) \in Nat /\ Len(ch2) = Len(ch) + 1 /\ ch2[Len(ch) + 1] = e
      /\ \A n \in 1..Len(ch) : ch2[n] = ch[n]
  BY AppendProperties
<1> HIDE DEF ch2
<1>2. \A n \in 1..Len(ch2) : n \in 1..Len(ch) \/ (n = Len(ch2) /\ ch2[n] = e)
  BY <1>1
<1>3. \A n \in 1..Len(ch) : n \in 1..Len(ch2) /\ n < Len(ch2)
  BY <1>1
<1>4. \A kind, x : InChan(ch2, kind, x) <=>
                  InChan(ch, kind, x) \/ (e.kind = kind /\ e.id = x)
  BY <1>1, <1>2, <1>3 DEF InChan
<1>5. \A n \in 1..Len(ch) : ch[n].kind = "result" => ch[n].id # e.id
  BY DEF Orderly
<1>6. Orderly(ch2, op, an, be, ov \cup {e.id})
  BY <1>1, <1>2, <1>3, <1>5 DEF Orderly
<1>7. Orderly(ch, op, an, be, ov \cup {e.id})
  BY DEF Orderly
<1>8. ASSUME Whole(ch, op, an, be, ov) PROVE Whole(ch2, op, an, be, ov \cup {e.id})
  <2>1. e.id \in op \/ InChan(ch, "start", e.id)
    BY <1>8 DEF Whole, Orderly
  <2> QED
    BY <1>1, <1>2, <1>4, <1>8, <2>1 DEF Whole
<1> QED
  BY <1>6, <1>7, <1>8 DEF ch2

\* A warning or the Terminal is no call's.
LEMMA SendOther ==
  ASSUME NEW ch \in Seq(Events), NEW op, NEW an, NEW be, NEW ov, NEW e \in Events,
         e.kind \in {"warning", "terminal"}, Orderly(ch, op, an, be, ov)
  PROVE  /\ Orderly(Append(ch, e), op, an, be, ov)
         /\ Whole(ch, op, an, be, ov) => Whole(Append(ch, e), op, an, be, ov)
<1> DEFINE ch2 == Append(ch, e)
<1>1. /\ Len(ch) \in Nat /\ Len(ch2) = Len(ch) + 1 /\ ch2[Len(ch) + 1] = e
      /\ \A n \in 1..Len(ch) : ch2[n] = ch[n]
  BY AppendProperties
<1> HIDE DEF ch2
<1>2. \A n \in 1..Len(ch2) : n \in 1..Len(ch) \/ (n = Len(ch2) /\ ch2[n] = e)
  BY <1>1
<1>3. \A n \in 1..Len(ch) : n \in 1..Len(ch2) /\ n < Len(ch2)
  BY <1>1
<1>4. \A kind, x : InChan(ch2, kind, x) <=>
                  InChan(ch, kind, x) \/ (e.kind = kind /\ e.id = x)
  BY <1>1, <1>2, <1>3 DEF InChan
<1>5. Orderly(ch2, op, an, be, ov)
  BY <1>1, <1>2, <1>3 DEF Orderly
<1>6. ASSUME Whole(ch, op, an, be, ov) PROVE Whole(ch2, op, an, be, ov)
  BY <1>1, <1>2, <1>4, <1>6 DEF Whole
<1> QED
  BY <1>5, <1>6 DEF ch2

-----------------------------------------------------------------------------
(* The calls of a turn.                                                    *)

\* Calls are numbered from 1.
LEMMA CallsAreNumbered ==
  ASSUME Shape
  PROVE  /\ calls \in Seq(Kinds) /\ Len(calls) \in Nat /\ DOMAIN calls = 1..Len(calls)
         /\ Len(st) \in Nat /\ DOMAIN st = 1..Len(st)
         /\ pc = "calls" => Len(st) = Len(calls) /\ DOMAIN st = DOMAIN calls
         /\ pc # "calls" => st = <<>>
<1>1. calls \in Seq(Kinds)
  BY RepliesAssumption DEF Shape
<1>2. Len(calls) \in Nat /\ DOMAIN calls = 1..Len(calls)
  BY <1>1, LenProperties
<1>3. Len(st) \in Nat /\ DOMAIN st = 1..Len(st)
  BY LenProperties DEF Shape
<1>4. pc = "calls" => DOMAIN st = DOMAIN calls
  BY DEF Shape
<1>5. pc = "calls" => Len(st) = Len(calls)
  <2>1. \A m, n \in Nat : 1..m = 1..n => m = n
    <3> SUFFICES ASSUME NEW m \in Nat, NEW n \in Nat,
                        \A i \in Nat : 1 <= i /\ i <= m <=> 1 <= i /\ i <= n
                 PROVE  m = n
      OBVIOUS
    <3> QED
      OBVIOUS
  <2> QED
    BY <1>2, <1>3, <1>4, <2>1
<1>6. pc # "calls" => st = <<>>
  BY DEF Shape
<1> QED
  BY <1>1, <1>2, <1>3, <1>4, <1>5, <1>6

\* What is over was begun.
LEMMA OverIsBegun == Over \subseteq Begun
  BY DEF Over, Begun

\* The reader takes the first event.
LEMMA TakeFirst ==
  ASSUME chan \in Seq(Events), chan # <<>>, Announced, NEW e, e = Head(chan)
  PROVE  /\ e.kind = "start" =>
              /\ e.id \in Begun \ (open \cup answered)
              /\ Orderly(Tail(chan), open \cup {e.id}, answered, Begun, Over)
              /\ Whole(chan, open, answered, Begun, Over) =>
                    Whole(Tail(chan), open \cup {e.id}, answered, Begun, Over)
         /\ e.kind = "result" =>
              /\ e.id \in Over \ answered
              /\ Whole(chan, open, answered, Begun, Over) => e.id \in open
              /\ Orderly(Tail(chan), open \ {e.id}, answered \cup {e.id}, Begun, Over)
              /\ Whole(chan, open, answered, Begun, Over) =>
                   Whole(Tail(chan), open \ {e.id}, answered \cup {e.id}, Begun, Over)
         /\ e.kind \notin {"start", "result"} =>
              /\ Orderly(Tail(chan), open, answered, Begun, Over)
              /\ Whole(chan, open, answered, Begun, Over) =>
                    Whole(Tail(chan), open, answered, Begun, Over)
<1>0. Orderly(chan, open, answered, Begun, Over) /\ Over \subseteq Begun
  BY OverIsBegun DEF Announced
<1> DEFINE ch2 == Tail(chan)
<1>1. /\ Len(chan) \in Nat \ {0} /\ Len(ch2) = Len(chan) - 1 /\ e = chan[1]
      /\ \A n \in 1..Len(ch2) : ch2[n] = chan[n + 1]
  BY HeadTailProperties, EmptySeq
<1> HIDE DEF ch2
<1>2. \A n \in 1..Len(ch2) : n + 1 \in 2..Len(chan) /\ n + 1 \in 1..Len(chan)
  BY <1>1
<1>3. \A n \in 2..Len(chan) : n - 1 \in 1..Len(ch2) /\ ch2[n - 1] = chan[n]
  BY <1>1
<1>4. \A kind, x : InChan(chan, kind, x) =>
                  InChan(ch2, kind, x) \/ (e.kind = kind /\ e.id = x)
  BY <1>1, <1>3 DEF InChan
<1>5. 1 \in 1..Len(chan) /\ \A n \in 2..Len(chan) : n \in 1..Len(chan) /\ n # 1
  BY <1>1
<1>6. ASSUME NEW m \in 1..Len(ch2), NEW n \in 1..Len(ch2), ch2[m].id = ch2[n].id
      PROVE  /\ ch2[m].kind = "start" /\ ch2[n].kind = "start" => m = n
             /\ ch2[m].kind = "result" /\ ch2[n].kind = "result" => m = n
             /\ ch2[m].kind = "start" /\ ch2[n].kind = "result" => m < n
  BY <1>0, <1>1, <1>2, <1>6 DEF Orderly
<1>7. ASSUME NEW n \in 1..Len(ch2), ch2[n].id = e.id
      PROVE  /\ ~(e.kind = "start" /\ ch2[n].kind = "start")
             /\ ~(e.kind = "result" /\ ch2[n].kind \in {"start", "result"})
  BY <1>0, <1>1, <1>2, <1>5, <1>7 DEF Orderly
<1>8. \A n \in 1..Len(ch2) :
        /\ ch2[n].kind = "start"  => ch2[n].id \in Begun \ (open \cup answered)
        /\ ch2[n].kind = "result" => ch2[n].id \in Over \ answered
  BY <1>0, <1>1, <1>2 DEF Orderly
<1>9. CASE e.kind = "start"
  <2>1. e.id \in Begun \ (open \cup answered)
    BY <1>0, <1>1, <1>5, <1>9 DEF Orderly
  <2>2. Orderly(ch2, open \cup {e.id}, answered, Begun, Over)
    BY <1>0, <1>6, <1>7, <1>8, <1>9, <2>1 DEF Orderly
  <2>3. ASSUME Whole(chan, open, answered, Begun, Over)
        PROVE  Whole(ch2, open \cup {e.id}, answered, Begun, Over)
    BY <1>0, <1>1, <1>2, <1>4, <1>9, <2>3 DEF Whole
  <2> QED
    BY <1>9, <2>1, <2>2, <2>3 DEF ch2
<1>10. CASE e.kind = "result"
  <2>1. e.id \in Over \ answered
    BY <1>0, <1>1, <1>5, <1>10 DEF Orderly
  <2>2. ASSUME Whole(chan, open, answered, Begun, Over)
        PROVE  e.id \in open /\ Whole(ch2, open \ {e.id}, answered \cup {e.id}, Begun, Over)
    <3>1. ~InChan(chan, "start", e.id)
      BY <1>0, <1>1, <1>5, <1>10 DEF Orderly, InChan
    <3>2. e.id \in open
      BY <1>0, <1>1, <1>5, <1>10, <2>2, <3>1 DEF Whole
    <3> QED
      BY <1>0, <1>1, <1>2, <1>4, <1>7, <1>10, <2>2, <3>2 DEF Whole
  <2>3. Orderly(ch2, open \ {e.id}, answered \cup {e.id}, Begun, Over)
    BY <1>0, <1>6, <1>7, <1>8, <1>10, <2>1 DEF Orderly
  <2> QED
    BY <1>10, <2>1, <2>2, <2>3 DEF ch2
<1>11. CASE e.kind \notin {"start", "result"}
  <2>1. Orderly(ch2, open, answered, Begun, Over)
    BY <1>0, <1>6, <1>8 DEF Orderly
  <2>2. ASSUME Whole(chan, open, answered, Begun, Over)
        PROVE  Whole(ch2, open, answered, Begun, Over)
    BY <1>0, <1>1, <1>2, <1>4, <1>11, <2>2 DEF Whole
  <2> QED
    BY <1>11, <2>1, <2>2 DEF ch2
<1> QED
  BY <1>9, <1>10, <1>11

\* One call goes on.
LEMMA CallGoesOn ==
  ASSUME Shape, pc = "calls", NEW i \in DOMAIN calls,
         NEW to \in {"started", "running", "ran", "answered"},
         CallStep(i, to)
  PROVE  /\ st' \in Seq({"new", "started", "running", "ran", "answered"})
         /\ DOMAIN st' = DOMAIN st /\ st'[i] = to
         /\ \A j \in DOMAIN st \ {i} : st'[j] = st[j]
         /\ UNCHANGED <<pc, calls, ids, open, answered, cancelled, ended, closed, reason>>
<1>1. i \in 1..Len(st) /\ DOMAIN st = 1..Len(st) /\ st' = [st EXCEPT ![i] = to]
  BY CallsAreNumbered DEF CallStep
<1>2. st \in Seq({"new", "started", "running", "ran", "answered"})
  BY DEF Shape
<1>3. st' \in Seq({"new", "started", "running", "ran", "answered"})
  BY <1>1, <1>2, ExceptSeq
<1> QED
  BY <1>1, <1>3 DEF CallStep, seenVars

\* A call that is announced is the next one begun.
LEMMA BegunGrows ==
  ASSUME Shape, ids \in Nat, pc = "calls", NEW i \in DOMAIN calls, st[i] = "new",
         CallStep(i, "started")
  PROVE  ids + i \notin Begun /\ Begun' = Begun \cup {ids + i} /\ Over' = Over
<1>1. i \in DOMAIN st /\ DOMAIN st \subseteq Nat \ {0}
  BY CallsAreNumbered
<1>2. /\ DOMAIN st' = DOMAIN st /\ st'[i] = "started" /\ ids' = ids
      /\ \A j \in DOMAIN st \ {i} : st'[j] = st[j]
  BY CallGoesOn
<1>3. ids + i \notin Begun
  BY <1>1 DEF Begun
<1>4. Begun' = Begun \cup {ids + i}
  BY <1>1, <1>2 DEF Begun
<1>5. Over' = Over
  BY <1>1, <1>2 DEF Over
<1> QED
  BY <1>3, <1>4, <1>5

\* A call that is answered is the next one over.
LEMMA OverGrows ==
  ASSUME Shape, ids \in Nat, pc = "calls", NEW i \in DOMAIN calls,
         st[i] \in {"started", "ran"}, CallStep(i, "answered")
  PROVE  ids + i \in Begun \ Over /\ Over' = Over \cup {ids + i} /\ Begun' = Begun
<1>1. i \in DOMAIN st /\ DOMAIN st \subseteq Nat \ {0}
  BY CallsAreNumbered
<1>2. /\ DOMAIN st' = DOMAIN st /\ st'[i] = "answered" /\ ids' = ids
      /\ \A j \in DOMAIN st \ {i} : st'[j] = st[j]
  BY CallGoesOn
<1>3. ids + i \in Begun \ Over
  BY <1>1 DEF Begun, Over
<1>4. Over' = Over \cup {ids + i}
  BY <1>1, <1>2 DEF Over
<1>5. Begun' = Begun
  BY <1>1, <1>2 DEF Begun
<1> QED
  BY <1>3, <1>4, <1>5

\* A call that runs, or has, is begun and not over.
LEMMA RunningIsBegun ==
  ASSUME Shape, ids \in Nat, pc = "calls", NEW i \in DOMAIN calls,
         NEW to \in {"running", "ran"}, st[i] \in {"started", "running"}, CallStep(i, to)
  PROVE  Begun' = Begun /\ Over' = Over
<1>1. i \in DOMAIN st /\ DOMAIN st \subseteq Nat \ {0}
  BY CallsAreNumbered
<1>2. /\ DOMAIN st' = DOMAIN st /\ st'[i] = to /\ ids' = ids
      /\ \A j \in DOMAIN st \ {i} : st'[j] = st[j]
  BY CallGoesOn
<1>3. Begun' = Begun
  BY <1>1, <1>2 DEF Begun
<1>4. Over' = Over
  BY <1>1, <1>2 DEF Over
<1> QED
  BY <1>3, <1>4

\* When a turn is decided all its calls are over, and stay so.
LEMMA TurnIsOver ==
  ASSUME Shape, ids \in Nat, TurnDone, DecideStep
  PROVE  /\ Begun' = Begun /\ Over' = Over /\ Begun = 1..(ids + Len(calls))
         /\ ids' = ids + Len(calls) /\ st' = <<>> /\ calls' = <<>>
         /\ UNCHANGED <<cancelled, chan, open, answered, ended, closed>>
<1>1. /\ DOMAIN st = 1..Len(calls) /\ Len(calls) \in Nat
      /\ \A i \in 1..Len(calls) : st[i] = "answered"
  BY CallsAreNumbered DEF TurnDone
<1>2. ids' = ids + Len(calls) /\ st' = <<>> /\ calls' = <<>>
  BY DEF DecideStep
<1>3. /\ \A n \in 1..(ids + Len(calls)) : n \in 1..ids \/ n - ids \in 1..Len(calls)
      /\ \A i \in 1..Len(calls) : ids + i \in 1..(ids + Len(calls))
      /\ 1..ids \subseteq 1..(ids + Len(calls))
  BY <1>1
<1>4. \A n \in 1..(ids + Len(calls)) : n - ids \in 1..Len(calls) => n = ids + (n - ids)
  BY <1>1
<1>5. 1..ids \cup {ids + i : i \in 1..Len(calls)} = 1..(ids + Len(calls))
  BY <1>3, <1>4
<1>6. {j \in DOMAIN st : st[j] # "new"} = 1..Len(calls)
  BY <1>1
<1>7. {j \in DOMAIN st : st[j] = "answered"} = 1..Len(calls)
  BY <1>1
<1>8. Begun = 1..(ids + Len(calls)) /\ Over = 1..(ids + Len(calls))
  BY <1>5, <1>6, <1>7 DEF Begun, Over
<1>9. Begun' = 1..(ids + Len(calls)) /\ Over' = 1..(ids + Len(calls))
  BY <1>2 DEF Begun, Over
<1> QED
  BY <1>2, <1>8, <1>9 DEF DecideStep, seenVars

-----------------------------------------------------------------------------
(* Numbers.                                                                *)

\* No reply makes more calls than the longest.
LEMMA LongestReply == Longest \in Nat /\ \A r \in Replies : Len(r) <= Longest
<1> DEFINE S == {Len(r) : r \in Replies}
<1>1. PICK most \in Replies : \A r \in Replies : Len(r) <= Len(most)
  BY RepliesAssumption
<1>2. \A r \in Replies : Len(r) \in Nat
  BY RepliesAssumption, LenProperties
<1>3. S \subseteq Nat /\ Len(most) \in S /\ \A y \in S : Len(most) >= y
  BY <1>1, <1>2
<1> HIDE DEF S
<1>4. \E x \in S : \A y \in S : x >= y
  BY <1>3
<1>5. Max(S) \in S /\ \A y \in S : Max(S) >= y
  BY <1>4 DEF Max
<1>6. Longest = Max(S)
  BY DEF Longest, S
<1>7. \A r \in Replies : Len(r) \in S
  BY DEF S
<1> QED
  BY <1>2, <1>3, <1>5, <1>6, <1>7

\* k requests of at most l calls, and one more.
LEMMA OneMoreRequest ==
  ASSUME NEW k \in Nat, NEW l \in Nat, NEW n \in Nat, NEW c \in 0..l, n <= k * l
  PROVE  \A m \in Nat : m >= k + 1 => n + c <= m * l
<1> TAKE m \in Nat
<1> HAVE m >= k + 1
<1>1. PICK d \in Nat : m = k + 1 + d
  <2>1. m - (k + 1) \in Nat /\ m = k + 1 + (m - (k + 1))
    OBVIOUS
  <2> QED
    BY <2>1
<1>2. m * l = k * l + l + d * l
  BY <1>1
<1>3. d * l \in Nat /\ k * l \in Nat
  OBVIOUS
<1> QED
  BY <1>2, <1>3

\* A turn that asks again costs what it may.
LEMMA TurnCosts ==
  ASSUME Shape, Numbered, TurnDone, DecideStep
  PROVE  /\ ids' \in Nat /\ ids' <= Requests * Longest
         /\ Accepted \in Nat /\ Extra \in 0..2
         /\ \A m \in Nat : m >= 2 * Accepted + Extra + 1 => ids' <= m * Longest
<1>1. ids' = ids + Len(calls) /\ ids \in Nat /\ Len(calls) \in 0..Longest /\ Longest \in Nat
  BY TurnIsOver, CallsAreNumbered, LongestReply DEF Numbered, Shape
<1>2. Accepted \in Nat /\ Extra \in 0..2
  BY BoundsAssumption DEF Accepted, Extra, Numbered
<1>3. ids <= (2 * Accepted + Extra) * Longest
  BY DEF Numbered, TurnDone, Working
<1>4. \A m \in Nat : m >= 2 * Accepted + Extra + 1 => ids' <= m * Longest
  <2>1. PICK k \in Nat : k = 2 * Accepted + Extra
    BY <1>2
  <2> QED
    BY <1>1, <1>3, <2>1, OneMoreRequest
<1>5. Requests \in Nat /\ Requests >= 2 * Accepted + Extra + 1
  BY <1>2, BoundsAssumption DEF Numbered, TurnDone, Asking, Accepted, Requests
<1> QED
  BY <1>1, <1>2, <1>4, <1>5

\* A turn that is retried, or accepted, counts.
LEMMA NumberedStays ==
  ASSUME Numbered, ids' = ids, pc' \in Working => pc \in Working,
         pc' \in Asking => pc \in Asking \/ turn <= MaxTurns,
         UNCHANGED <<turn, mailed, incompleteRetryCount, lengthRetryCount, compactionAttempted>>
  PROVE  Numbered'
  BY DEF Numbered, Accepted, Extra

\* The ids stay within what the requests allow.
LEMMA NumberedStep ==
  ASSUME Shape, Numbered, [Next]_vars
  PROVE  Numbered'
<1>1. CASE RetryLonger
  <2>1. /\ Accepted' = Accepted /\ Extra' = Extra + 1 /\ pc' = "head"
        /\ UNCHANGED <<turn, mailed, incompleteRetryCount, compactionAttempted>>
        /\ lengthRetryCount' = 1
    BY <1>1, TurnCosts DEF RetryLonger, Accepted, Extra, Numbered
  <2> QED
    BY <1>1, <2>1, TurnCosts DEF RetryLonger, Numbered, Asking, Working
<1>2. CASE CompactAndRetry
  <2>1. /\ Accepted' = Accepted /\ Extra' = Extra + 1 /\ pc' = "head"
        /\ UNCHANGED <<turn, mailed, incompleteRetryCount>>
        /\ lengthRetryCount' = 2 /\ compactionAttempted' = TRUE
    BY <1>2, TurnCosts DEF CompactAndRetry, Accepted, Extra, Numbered
  <2> QED
    BY <1>2, <2>1, TurnCosts DEF CompactAndRetry, Numbered, Asking, Working
<1>3. CASE Overflow \/ StreamFailed
  BY <1>3, TurnCosts DEF Overflow, StreamFailed, End, loopVars, Numbered, Asking, Working
<1>4. ASSUME TurnDone, DecideStep, lengthRetryCount' = 0, UNCHANGED compactionAttempted,
             turn' \in Nat \ {0}, mailed' \in 0..MaxMail, incompleteRetryCount' \in 0..1,
             Accepted' \in Nat, Accepted' >= Accepted + 1, pc' = "head"
      PROVE  Numbered'
  <2>1. Extra' \in 0..2 /\ Extra' + 1 >= Extra
    BY <1>4, TurnCosts DEF Extra, Numbered
  <2>2. 2 * Accepted' + Extra' \in Nat /\ 2 * Accepted' + Extra' >= 2 * Accepted + Extra + 1
    <3>1. \A a, b \in Nat, e, f \in 0..2 : b >= a + 1 /\ f + 1 >= e =>
             2 * b + f \in Nat /\ 2 * b + f >= 2 * a + e + 1
      OBVIOUS
    <3>2. Accepted \in Nat /\ Extra \in 0..2
      BY <1>4, TurnCosts
    <3> QED
      BY <1>4, <2>1, <3>1, <3>2
  <2> QED
    BY <1>4, <2>2, TurnCosts DEF Numbered, Asking, Working
<1>5. CASE NextTurn
  <2>1. /\ turn' = turn + 1 /\ mailed' \in 0..MaxMail /\ mailed' >= mailed
        /\ UNCHANGED incompleteRetryCount /\ pc' = "head"
    BY <1>5, BoundsAssumption DEF NextTurn, Drain, Numbered
  <2>2. turn' \in Nat \ {0} /\ Accepted' \in Nat /\ Accepted' >= Accepted + 1
    <3>1. /\ turn \in Nat \ {0} /\ mailed \in Nat /\ mailed' \in Nat
          /\ incompleteRetryCount \in Nat
      BY <2>1, BoundsAssumption DEF Numbered
    <3>2. \A a, a2 \in Nat \ {0}, b, c, d \in Nat : c >= b /\ a2 = a + 1 =>
             (a2 - 1) + c + d \in Nat /\ (a2 - 1) + c + d >= ((a - 1) + b + d) + 1
      OBVIOUS
    <3>5. turn' \in Nat \ {0}
      BY <2>1, <3>1
    <3>3. Accepted = (turn - 1) + mailed + incompleteRetryCount
      BY DEF Accepted
    <3>4. Accepted' = (turn' - 1) + mailed' + incompleteRetryCount'
      BY DEF Accepted
    <3> QED
      BY <2>1, <3>1, <3>2, <3>3, <3>4, <3>5
  <2> QED
    <3>1. /\ TurnDone /\ DecideStep /\ lengthRetryCount' = 0
          /\ UNCHANGED compactionAttempted
      BY <1>5 DEF NextTurn, Accept
    <3>2. mailed' \in 0..MaxMail /\ incompleteRetryCount' \in 0..1
      BY <2>1 DEF Numbered
    <3> QED
      BY <1>4, <2>1, <2>2, <3>1, <3>2
<1>6. CASE TakeMail
  <2>1. /\ UNCHANGED <<turn, incompleteRetryCount>> /\ mailed' \in 0..MaxMail
        /\ mailed' >= mailed + 1 /\ pc' = "head"
    BY <1>6, BoundsAssumption DEF TakeMail, Drain, Numbered
  <2>2. turn' \in Nat \ {0} /\ Accepted' \in Nat /\ Accepted' >= Accepted + 1
    <3>1. /\ turn \in Nat \ {0} /\ mailed \in Nat /\ mailed' \in Nat
          /\ incompleteRetryCount \in Nat
      BY <2>1, BoundsAssumption DEF Numbered
    <3>2. \A a \in Nat \ {0}, b, c, d \in Nat : c >= b + 1 =>
             (a - 1) + c + d \in Nat /\ (a - 1) + c + d >= ((a - 1) + b + d) + 1
      OBVIOUS
    <3>3. Accepted = (turn - 1) + mailed + incompleteRetryCount
      BY DEF Accepted
    <3>4. Accepted' = (turn - 1) + mailed' + incompleteRetryCount
      BY <2>1 DEF Accepted
    <3> QED
      BY <2>1, <3>1, <3>2, <3>3, <3>4
  <2> QED
    <3>1. /\ TurnDone /\ DecideStep /\ lengthRetryCount' = 0
          /\ UNCHANGED compactionAttempted
      BY <1>6 DEF TakeMail, Accept
    <3>2. mailed' \in 0..MaxMail /\ incompleteRetryCount' \in 0..1
      BY <2>1 DEF Numbered
    <3> QED
      BY <1>4, <2>1, <2>2, <3>1, <3>2
<1>7. CASE AskAgain
  <2>1. /\ UNCHANGED <<turn, mailed>> /\ incompleteRetryCount = 0
        /\ incompleteRetryCount' = 1 /\ pc' = "head"
    BY <1>7 DEF AskAgain
  <2>2. turn' \in Nat \ {0} /\ Accepted' \in Nat /\ Accepted' >= Accepted + 1
    <3>1. /\ turn \in Nat \ {0} /\ mailed \in Nat /\ mailed' \in Nat
          /\ incompleteRetryCount \in Nat
      BY <2>1, BoundsAssumption DEF Numbered
    <3>2. \A a \in Nat \ {0}, b, c, d \in Nat : d = 0 /\ c = 1 =>
             (a - 1) + b + c \in Nat /\ (a - 1) + b + c >= ((a - 1) + b + d) + 1
      OBVIOUS
    <3>3. Accepted = (turn - 1) + mailed + incompleteRetryCount
      BY DEF Accepted
    <3>4. Accepted' = (turn - 1) + mailed + incompleteRetryCount'
      BY <2>1 DEF Accepted
    <3>5. incompleteRetryCount' \in Nat
      BY <2>1
    <3> QED
      BY <2>1, <3>1, <3>2, <3>3, <3>4, <3>5
  <2> QED
    <3>1. /\ TurnDone /\ DecideStep /\ lengthRetryCount' = 0
          /\ UNCHANGED compactionAttempted
      BY <1>7 DEF AskAgain, Accept
    <3>2. mailed' \in 0..MaxMail /\ incompleteRetryCount' \in 0..1
      BY <2>1 DEF Numbered
    <3> QED
      BY <1>4, <2>1, <2>2, <3>1, <3>2
<1>8. CASE Complete
  <2>1. /\ TurnDone /\ DecideStep /\ lengthRetryCount' = 0 /\ pc' = "terminal"
        /\ UNCHANGED <<compactionAttempted, turn, incompleteRetryCount, mailed>>
    BY <1>8 DEF Complete, Accept, End
  <2> QED
    BY <2>1, TurnCosts DEF Numbered, Asking, Working
<1>9. CASE TurnHead
  BY <1>9, BoundsAssumption, NumberedStays DEF TurnHead, End, loopVars, convVars, callVars,
                                                  Asking, Working, Numbered
<1>10. CASE StreamOpens \/ ChatFails \/ StreamRead
  BY <1>10, NumberedStays
     DEF StreamOpens, ChatFails, StreamRead, End, loopVars, callVars, userVars, Asking, Working
<1>11. CASE \/ Chunk \/ StreamDone \/ StreamStops \/ StreamCut
            \/ IdleTimeout \/ IdleWarning \/ WarningSent
  <2>1. StreamStep
    BY <1>11 DEF Chunk, StreamDone, StreamStops, StreamCut, IdleTimeout, IdleWarning, WarningSent
  <2> QED
    BY <2>1, NumberedStays DEF StreamStep, loopVars, userVars
<1>12. ASSUME NEW i \in DOMAIN calls, NEW to, CallStep(i, to) PROVE Numbered'
  BY <1>12, NumberedStays DEF CallStep, loopVars, userVars
<1>13. CASE CallSteps
  BY <1>12, <1>13
     DEF CallSteps, AnnounceRefused, AnswerRefused, StartTool, RunTool, ToolReturns, ToolResult
<1>14. CASE sendTerminal
  BY <1>14, NumberedStays DEF sendTerminal, loopVars, callVars, userVars, Asking, Working
<1>15. CASE Read \/ Cancel \/ Leave \/ UNCHANGED vars
  BY <1>15, NumberedStays DEF Read, Cancel, Leave, vars, loopVars, callVars, userVars
<1> QED
  BY <1>1, <1>2, <1>3, <1>5, <1>6, <1>7, <1>8, <1>9, <1>10, <1>11, <1>13, <1>14, <1>15
     DEF Next, Run, Stream, Decide

-----------------------------------------------------------------------------
(* Shape.                                                                  *)

\* What is sent goes last in the channel, or is lost.
LEMMA Sent ==
  ASSUME chan \in Seq(Events), NEW e \in Events,
         \/ chan' = Append(chan, e)
         \/ UNCHANGED chan
  PROVE  chan' \in Seq(Events)
  BY AppendProperties

\* The steps of a call's life, and the event each sends.
LEMMA CallsGoOn ==
  ASSUME Shape, Numbered, CallSteps
  PROVE  \E i \in DOMAIN calls :
           /\ pc = "calls" /\ i \in Nat /\ ids + i \in Nat
           /\ \/ /\ st[i] = "new" /\ CallStep(i, "started")
                 /\ sendEvent(Event("start", ids + i))
              \/ /\ st[i] \in {"started", "ran"} /\ CallStep(i, "answered")
                 /\ sendEvent(Event("result", ids + i))
              \/ /\ st[i] = "started" /\ CallStep(i, "running") /\ UNCHANGED chan
              \/ /\ st[i] = "running" /\ CallStep(i, "ran") /\ UNCHANGED chan
<1>1. PICK i \in DOMAIN calls :
        \/ AnnounceRefused(i) \/ AnswerRefused(i)
        \/ StartTool(i) \/ RunTool(i) \/ ToolReturns(i) \/ ToolResult(i)
  BY DEF CallSteps
<1>2. i \in Nat /\ ids + i \in Nat
  <2>1. DOMAIN calls = 1..Len(calls) /\ Len(calls) \in Nat
    BY CallsAreNumbered
  <2>2. ids \in Nat
    BY DEF Numbered
  <2> QED
    BY <2>1, <2>2
<1>3. CASE AnnounceRefused(i)
  BY <1>2, <1>3 DEF AnnounceRefused
<1>4. CASE AnswerRefused(i)
  BY <1>2, <1>4 DEF AnswerRefused
<1>5. CASE StartTool(i)
  BY <1>2, <1>5 DEF StartTool, Ready
<1>6. CASE RunTool(i)
  BY <1>2, <1>6 DEF RunTool, Ready
<1>7. CASE ToolReturns(i)
  BY <1>2, <1>7 DEF ToolReturns, Running
<1>8. CASE ToolResult(i)
  BY <1>2, <1>8 DEF ToolResult, Ready
<1> QED
  BY <1>1, <1>3, <1>4, <1>5, <1>6, <1>7, <1>8

\* The decisions on a turn: what they have in common.
LEMMA Decided ==
  ASSUME Decide
  PROVE  /\ TurnDone /\ DecideStep
         /\ \/ pc' = "head" /\ UNCHANGED reason
            \/ pc' = "terminal" /\ reason' \in Reasons
<1>1. CASE RetryLonger
  BY <1>1 DEF RetryLonger
<1>2. CASE CompactAndRetry
  BY <1>2 DEF CompactAndRetry
<1>3. CASE Overflow
  BY <1>3 DEF Overflow, End, Reasons
<1>4. CASE StreamFailed
  BY <1>4 DEF StreamFailed, End, Reasons
<1>5. CASE NextTurn
  BY <1>5 DEF NextTurn, Accept
<1>6. CASE TakeMail
  BY <1>6 DEF TakeMail, Accept
<1>7. CASE AskAgain
  BY <1>7 DEF AskAgain, Accept
<1>8. CASE Complete
  BY <1>8 DEF Complete, Accept, End, Reasons
<1> QED
  BY <1>1, <1>2, <1>3, <1>4, <1>5, <1>6, <1>7, <1>8 DEF Decide

\* The shape stays.
LEMMA ShapeStep ==
  ASSUME Shape, Numbered, [Next]_vars
  PROVE  Shape'
<1>1. CASE CallSteps
  <2>1. PICK i \in DOMAIN calls :
           /\ pc = "calls" /\ i \in Nat /\ ids + i \in Nat
           /\ \/ /\ st[i] = "new" /\ CallStep(i, "started")
                 /\ sendEvent(Event("start", ids + i))
              \/ /\ st[i] \in {"started", "ran"} /\ CallStep(i, "answered")
                 /\ sendEvent(Event("result", ids + i))
              \/ /\ st[i] = "started" /\ CallStep(i, "running") /\ UNCHANGED chan
              \/ /\ st[i] = "running" /\ CallStep(i, "ran") /\ UNCHANGED chan
    BY <1>1, CallsGoOn
  <2>2. Event("start", ids + i) \in Events /\ Event("result", ids + i) \in Events
    BY <2>1 DEF Event, Events, EventKinds
  <2>3. chan' \in Seq(Events)
    BY <2>1, <2>2, Sent DEF sendEvent, Shape
  <2>4. /\ st' \in Seq({"new", "started", "running", "ran", "answered"})
        /\ DOMAIN st' = DOMAIN st /\ UNCHANGED <<pc, calls>>
    BY <2>1, CallGoesOn
  <2> QED
    BY <2>1, <2>3, <2>4 DEF Shape
<1>2. CASE Decide
  <2>1. pc' \in {"head", "terminal"} /\ calls' = <<>> /\ st' = <<>> /\ UNCHANGED chan
    BY <1>2, Decided DEF DecideStep
  <2> QED
    BY <2>1, EmptySeq, RepliesAssumption DEF Shape, Working
<1>3. CASE TurnHead \/ ChatFails
  BY <1>3 DEF TurnHead, ChatFails, End, callVars, Shape, Working
<1>4. CASE StreamOpens
  BY <1>4, EmptySeq, RepliesAssumption DEF StreamOpens, Shape, Working
<1>5. CASE StreamRead
  <2>1. /\ pc' = "calls" /\ st' = [i \in DOMAIN calls |-> "new"] /\ UNCHANGED <<calls, chan>>
    BY <1>5 DEF StreamRead
  <2>2. DOMAIN calls = 1..Len(calls) /\ Len(calls) \in Nat
    BY CallsAreNumbered
  <2>3. st' \in [1..Len(calls) -> {"new", "started", "running", "ran", "answered"}]
    BY <2>1, <2>2
  <2>4. st' \in Seq({"new", "started", "running", "ran", "answered"})
    BY <2>2, <2>3, SeqDef
  <2> QED
    BY <2>1, <2>4 DEF Shape, Working
<1>6. CASE \/ Chunk \/ StreamDone \/ StreamStops \/ StreamCut
           \/ IdleTimeout \/ IdleWarning
  <2>1. /\ pc = "stream" /\ UNCHANGED <<pc, st, chan>> /\ calls' \in Replies
    BY <1>6 DEF Chunk, StreamDone, StreamStops, StreamCut, IdleTimeout, IdleWarning,
                StreamStep, Shape
  <2> QED
    BY <2>1 DEF Shape
<1>7. CASE WarningSent
  <2>1. pc = "stream" /\ UNCHANGED <<pc, st, calls>>
    BY <1>7 DEF WarningSent, StreamStep
  <2>2. Event("warning", 0) \in Events
    BY DEF Event, Events, EventKinds
  <2>3. chan' \in Seq(Events)
    BY <1>7, <2>2, Sent DEF WarningSent, sendEvent, Shape
  <2> QED
    BY <2>1, <2>3 DEF Shape
<1>8. CASE sendTerminal
  <2>1. Event("terminal", 0) \in Events
    BY DEF Event, Events, EventKinds
  <2>2. chan' \in Seq(Events)
    BY <1>8, <2>1, Sent DEF sendTerminal, Shape
  <2> QED
    BY <1>8, <2>2 DEF sendTerminal, callVars, Shape, Working
<1>9. CASE Read
  <2>1. chan' \in Seq(Events)
    BY <1>9, HeadTailProperties DEF Read, Shape
  <2> QED
    BY <1>9, <2>1 DEF Read, callVars, Shape
<1>10. CASE Cancel \/ Leave \/ UNCHANGED vars
  BY <1>10 DEF Cancel, Leave, vars, callVars, Shape
<1> QED
  BY <1>1, <1>2, <1>3, <1>4, <1>5, <1>6, <1>7, <1>8, <1>9, <1>10 DEF Next, Run, Stream

-----------------------------------------------------------------------------
(* Announced and heard.                                                    *)

\* A step that sends no event of a call, and begins and ends none.
LEMMA NothingHeard ==
  ASSUME Announced, Heard, Begun' = Begun, Over' = Over,
         cancelled' \/ UNCHANGED cancelled,
         UNCHANGED <<chan, open, answered>>
  PROVE  Announced' /\ Heard'
<1>1. Announced'
  <2>1. Orderly(chan', open', answered', Begun', Over')
    BY DEF Announced
  <2> QED
    BY <2>1 DEF Announced
<1>2. Heard'
  <2>1. ~cancelled' => Whole(chan', open', answered', Begun', Over')
    BY DEF Heard
  <2> QED
    BY <2>1 DEF Heard
<1> QED
  BY <1>1, <1>2

\* A step that leaves the calls alone.
LEMMA CallsAlone ==
  ASSUME UNCHANGED <<st, ids>>
  PROVE  Begun' = Begun /\ Over' = Over
  BY DEF Begun, Over

\* A start is announced, if only to a reader who cancelled.
LEMMA StartHeard ==
  ASSUME Shape, Announced, Heard, NEW e \in Events, e.kind = "start", e.id \notin Begun,
         sendEvent(e), Begun' = Begun \cup {e.id}, Over' = Over,
         UNCHANGED <<cancelled, open, answered>>
  PROVE  Announced' /\ Heard'
<1>1. /\ Orderly(Append(chan, e), open, answered, Begun \cup {e.id}, Over)
      /\ Orderly(chan, open, answered, Begun \cup {e.id}, Over)
      /\ Whole(chan, open, answered, Begun, Over) =>
           Whole(Append(chan, e), open, answered, Begun \cup {e.id}, Over)
  BY SendStart, OverIsBegun DEF Shape, Announced
<1>2. Orderly(chan', open', answered', Begun', Over')
  BY <1>1 DEF sendEvent
<1>3. ~cancelled' => Whole(chan', open', answered', Begun', Over')
  BY <1>1 DEF sendEvent, Heard
<1> QED
  BY <1>2, <1>3 DEF Announced, Heard

\* A result is told, if only to a reader who cancelled.
LEMMA ResultHeard ==
  ASSUME Shape, Announced, Heard, NEW e \in Events, e.kind = "result", e.id \in Begun \ Over,
         sendEvent(e), Begun' = Begun, Over' = Over \cup {e.id},
         UNCHANGED <<cancelled, open, answered>>
  PROVE  Announced' /\ Heard'
<1>1. /\ Orderly(Append(chan, e), open, answered, Begun, Over \cup {e.id})
      /\ Orderly(chan, open, answered, Begun, Over \cup {e.id})
      /\ Whole(chan, open, answered, Begun, Over) =>
           Whole(Append(chan, e), open, answered, Begun, Over \cup {e.id})
  BY SendResult DEF Shape, Announced
<1>2. Orderly(chan', open', answered', Begun', Over')
  BY <1>1 DEF sendEvent
<1>3. ~cancelled' => Whole(chan', open', answered', Begun', Over')
  BY <1>1 DEF sendEvent, Heard
<1> QED
  BY <1>2, <1>3 DEF Announced, Heard

\* A warning or the Terminal is sent, if only to a reader who cancelled.
LEMMA OtherHeard ==
  ASSUME Shape, Announced, Heard, NEW e \in Events, e.kind \in {"warning", "terminal"},
         sendEvent(e), Begun' = Begun, Over' = Over, UNCHANGED <<cancelled, open, answered>>
  PROVE  Announced' /\ Heard'
<1>1. /\ Orderly(Append(chan, e), open, answered, Begun, Over)
      /\ Whole(chan, open, answered, Begun, Over) =>
           Whole(Append(chan, e), open, answered, Begun, Over)
  BY SendOther DEF Shape, Announced
<1>2. Orderly(chan', open', answered', Begun', Over')
  BY <1>1 DEF sendEvent, Announced
<1>3. ~cancelled' => Whole(chan', open', answered', Begun', Over')
  BY <1>1 DEF sendEvent, Heard
<1> QED
  BY <1>2, <1>3 DEF Announced, Heard

\* What the reader does with the first event.
LEMMA ReadsFirst ==
  ASSUME Shape, Read, chan # <<>>, NEW e, e = Head(chan)
  PROVE  /\ chan' = Tail(chan) /\ e \in Events
         /\ e.kind = "start" => open' = open \cup {e.id} /\ answered' = answered
         /\ e.kind = "result" => open' = open \ {e.id} /\ answered' = answered \cup {e.id}
         /\ e.kind \notin {"start", "result"} => open' = open /\ answered' = answered
         /\ ended' = IF e.kind = "terminal" THEN reason ELSE ended
         /\ UNCHANGED <<closed, cancelled, st, ids, pc, reason>>
  BY HeadTailProperties DEF Read, Shape, callVars

\* A step keeps what was sent and what was heard: one case per kind of step.
LEMMA AnnouncedStep ==
  ASSUME Shape, Numbered, Announced, Heard, [Next]_vars
  PROVE  Announced' /\ Heard'
<1>1. CASE CallSteps
  <2>1. PICK i \in DOMAIN calls :
           /\ pc = "calls" /\ i \in Nat /\ ids + i \in Nat
           /\ \/ /\ st[i] = "new" /\ CallStep(i, "started")
                 /\ sendEvent(Event("start", ids + i))
              \/ /\ st[i] \in {"started", "ran"} /\ CallStep(i, "answered")
                 /\ sendEvent(Event("result", ids + i))
              \/ /\ st[i] = "started" /\ CallStep(i, "running") /\ UNCHANGED chan
              \/ /\ st[i] = "running" /\ CallStep(i, "ran") /\ UNCHANGED chan
    BY <1>1, CallsGoOn
  <2>2. ids \in Nat
    BY DEF Numbered
  <2>3. UNCHANGED <<cancelled, open, answered>>
    BY <2>1, CallGoesOn
  <2>4. CASE /\ st[i] = "new" /\ CallStep(i, "started")
             /\ sendEvent(Event("start", ids + i))
    <3>1. PICK e \in Events : e = Event("start", ids + i)
      BY <2>1 DEF Event, Events, EventKinds
    <3>2. e.kind = "start" /\ e.id = ids + i
      BY <3>1 DEF Event
    <3>3. ids + i \notin Begun /\ Begun' = Begun \cup {ids + i} /\ Over' = Over
      BY <2>1, <2>2, <2>4, BegunGrows
    <3> QED
      BY <2>3, <2>4, <3>1, <3>2, <3>3, StartHeard
  <2>5. CASE /\ st[i] \in {"started", "ran"} /\ CallStep(i, "answered")
             /\ sendEvent(Event("result", ids + i))
    <3>1. PICK e \in Events : e = Event("result", ids + i)
      BY <2>1 DEF Event, Events, EventKinds
    <3>2. e.kind = "result" /\ e.id = ids + i
      BY <3>1 DEF Event
    <3>3. ids + i \in Begun \ Over /\ Over' = Over \cup {ids + i} /\ Begun' = Begun
      BY <2>1, <2>2, <2>5, OverGrows
    <3> QED
      BY <2>3, <2>5, <3>1, <3>2, <3>3, ResultHeard
  <2>6. CASE \/ st[i] = "started" /\ CallStep(i, "running") /\ UNCHANGED chan
             \/ st[i] = "running" /\ CallStep(i, "ran") /\ UNCHANGED chan
    <3>1. Begun' = Begun /\ Over' = Over
      BY <2>1, <2>2, <2>6, RunningIsBegun
    <3> QED
      BY <2>3, <2>6, <3>1, NothingHeard
  <2> QED
    BY <2>1, <2>4, <2>5, <2>6
<1>2. CASE Decide
  <2>1. /\ Begun' = Begun /\ Over' = Over
        /\ UNCHANGED <<cancelled, chan, open, answered>>
    BY <1>2, Decided, TurnIsOver DEF Numbered
  <2> QED
    BY <2>1, NothingHeard
<1>3. CASE TurnHead \/ ChatFails
  <2>1. UNCHANGED <<st, ids, cancelled, chan, open, answered>>
    BY <1>3 DEF TurnHead, ChatFails, callVars, seenVars
  <2> QED
    BY <2>1, CallsAlone, NothingHeard
<1>4. CASE StreamOpens
  <2>1. UNCHANGED <<st, ids, cancelled, chan, open, answered>>
    BY <1>4, CallsAreNumbered DEF StreamOpens, seenVars
  <2> QED
    BY <2>1, CallsAlone, NothingHeard
<1>5. CASE StreamRead
  <2>1. /\ st' = [i \in DOMAIN calls |-> "new"] /\ st = <<>>
        /\ UNCHANGED <<ids, cancelled, chan, open, answered>>
    BY <1>5, CallsAreNumbered DEF StreamRead, seenVars
  <2>2. /\ {j \in DOMAIN st' : st'[j] # "new"} = {} /\ {j \in DOMAIN st' : st'[j] = "answered"} = {}
        /\ {j \in DOMAIN st : st[j] # "new"} = {} /\ {j \in DOMAIN st : st[j] = "answered"} = {}
    BY <2>1
  <2>3. Begun' = Begun /\ Over' = Over
    BY <2>1, <2>2 DEF Begun, Over
  <2> QED
    BY <2>1, <2>3, NothingHeard
<1>6. CASE \/ Chunk \/ StreamDone \/ StreamStops \/ StreamCut
           \/ IdleTimeout \/ IdleWarning
  <2>1. UNCHANGED <<st, ids, cancelled, chan, open, answered>>
    BY <1>6 DEF Chunk, StreamDone, StreamStops, StreamCut, IdleTimeout, IdleWarning,
                StreamStep, seenVars
  <2> QED
    BY <2>1, CallsAlone, NothingHeard
<1>7. CASE WarningSent \/ sendTerminal
  <2>1. PICK e \in Events : e.kind \in {"warning", "terminal"} /\ sendEvent(e)
    <3>1. Event("warning", 0) \in Events /\ Event("terminal", 0) \in Events
      BY DEF Event, Events, EventKinds
    <3>2. Event("warning", 0).kind = "warning" /\ Event("terminal", 0).kind = "terminal"
      BY DEF Event
    <3> QED
      BY <1>7, <3>1, <3>2 DEF WarningSent, sendTerminal, sendEvent
  <2>2. UNCHANGED <<st, ids, cancelled, open, answered>>
    BY <1>7 DEF WarningSent, sendTerminal, StreamStep, callVars, seenVars
  <2> QED
    BY <2>1, <2>2, CallsAlone, OtherHeard
<1>8. CASE Read
  <2>1. CASE chan = <<>>
    <3>1. UNCHANGED <<st, ids, cancelled, chan, open, answered>>
      BY <1>8, <2>1 DEF Read, callVars
    <3> QED
      BY <3>1, CallsAlone, NothingHeard
  <2>2. CASE chan # <<>>
    <3>1. PICK e : e = Head(chan)
      OBVIOUS
    <3>2. /\ chan' = Tail(chan) /\ e \in Events
          /\ e.kind = "start" => open' = open \cup {e.id} /\ answered' = answered
          /\ e.kind = "result" => open' = open \ {e.id} /\ answered' = answered \cup {e.id}
          /\ e.kind \notin {"start", "result"} => open' = open /\ answered' = answered
          /\ UNCHANGED <<cancelled, st, ids>>
      BY <1>8, <2>2, <3>1, ReadsFirst
    <3>3. Begun' = Begun /\ Over' = Over
      BY <3>2, CallsAlone
    <3>4. /\ Orderly(Tail(chan), open', answered', Begun, Over)
          /\ Whole(chan, open, answered, Begun, Over) =>
               Whole(Tail(chan), open', answered', Begun, Over)
      <4>1. /\ chan \in Seq(Events) /\ Over \subseteq Begun
            /\ Orderly(chan, open, answered, Begun, Over)
        BY OverIsBegun DEF Shape, Announced
      <4>2. /\ e.kind = "start" =>
                 /\ e.id \in Begun \ (open \cup answered)
                 /\ Orderly(Tail(chan), open \cup {e.id}, answered, Begun, Over)
                 /\ Whole(chan, open, answered, Begun, Over) =>
                      Whole(Tail(chan), open \cup {e.id}, answered, Begun, Over)
            /\ e.kind = "result" =>
                 /\ e.id \in Over \ answered
                 /\ Whole(chan, open, answered, Begun, Over) => e.id \in open
                 /\ Orderly(Tail(chan), open \ {e.id}, answered \cup {e.id}, Begun, Over)
                 /\ Whole(chan, open, answered, Begun, Over) =>
                      Whole(Tail(chan), open \ {e.id}, answered \cup {e.id}, Begun, Over)
            /\ e.kind \notin {"start", "result"} =>
                 /\ Orderly(Tail(chan), open, answered, Begun, Over)
                 /\ Whole(chan, open, answered, Begun, Over) =>
                      Whole(Tail(chan), open, answered, Begun, Over)
        BY <2>2, <3>1, <4>1, TakeFirst, Zenon
      <4>3. CASE e.kind = "start"
        <5>1. open' = open \cup {e.id} /\ answered' = answered
          BY <3>2, <4>3
        <5> QED
          BY <4>2, <4>3, <5>1, Zenon
      <4>4. CASE e.kind = "result"
        <5>1. open' = open \ {e.id} /\ answered' = answered \cup {e.id}
          BY <3>2, <4>4
        <5> QED
          BY <4>2, <4>4, <5>1, Zenon
      <4>5. CASE e.kind \notin {"start", "result"}
        <5>1. open' = open /\ answered' = answered
          BY <3>2, <4>5
        <5> QED
          BY <4>2, <4>5, <5>1, Zenon
      <4> QED
        BY <4>3, <4>4, <4>5
    <3>5. Orderly(chan', open', answered', Begun', Over')
      BY <3>2, <3>3, <3>4
    <3>6. ~cancelled' => Whole(chan', open', answered', Begun', Over')
      BY <3>2, <3>3, <3>4 DEF Heard
    <3> QED
      BY <3>5, <3>6 DEF Announced, Heard
  <2> QED
    BY <2>1, <2>2
<1>9. CASE Cancel \/ Leave \/ UNCHANGED vars
  <2>1. UNCHANGED <<st, ids, chan, open, answered>> /\ (cancelled' \/ UNCHANGED cancelled)
    BY <1>9 DEF Cancel, Leave, vars, callVars, seenVars
  <2> QED
    BY <2>1, CallsAlone, NothingHeard
<1> QED
  BY <1>1, <1>2, <1>3, <1>4, <1>5, <1>6, <1>7, <1>8, <1>9 DEF Next, Run, Stream

-----------------------------------------------------------------------------
(* The end of a run.                                                       *)

\* Before the loop closes the channel, no Terminal is in it or was read.
LEMMA NotEnded ==
  ASSUME Ending, pc # "closed"
  PROVE  ended = "no" /\ ~closed /\ \A n \in 1..Len(chan) : chan[n].kind # "terminal"
  BY DEF Ending

\* A step before that, which may send any event but the Terminal.
LEMMA StillRunning ==
  ASSUME Ending, chan \in Seq(Events), pc # "closed", pc' # "closed",
         pc' = "terminal" => reason' \in Reasons,
         UNCHANGED <<ended, closed>>,
         UNCHANGED chan \/ \E e \in Events : e.kind # "terminal" /\ chan' = Append(chan, e)
  PROVE  Ending'
<1>1. ended = "no" /\ ~closed /\ \A n \in 1..Len(chan) : chan[n].kind # "terminal"
  BY NotEnded
<1>2. \A n \in 1..Len(chan') : chan'[n].kind # "terminal"
  <2>1. CASE UNCHANGED chan
    BY <1>1, <2>1
  <2>2. ASSUME NEW e \in Events, e.kind # "terminal", chan' = Append(chan, e)
        PROVE  \A n \in 1..Len(chan') : chan'[n].kind # "terminal"
    <3>1. /\ Len(chan) \in Nat /\ Len(chan') = Len(chan) + 1 /\ chan'[Len(chan) + 1] = e
          /\ \A n \in 1..Len(chan) : chan'[n] = chan[n]
      BY <2>2, AppendProperties
    <3>2. \A n \in 1..Len(chan') : n \in 1..Len(chan) \/ n = Len(chan) + 1
      BY <3>1
    <3> QED
      BY <1>1, <2>2, <3>1, <3>2
  <2> QED
    BY <2>1, <2>2
<1> QED
  BY <1>1, <1>2 DEF Ending

\* The Terminal comes last, and the channel is closed on it.
LEMMA EndingStep ==
  ASSUME Shape, Numbered, Ending, [Next]_vars
  PROVE  Ending'
<1> chan \in Seq(Events)
  BY DEF Shape
<1>1. CASE CallSteps
  <2>1. PICK i \in DOMAIN calls :
           /\ pc = "calls" /\ i \in Nat /\ ids + i \in Nat
           /\ \/ /\ st[i] = "new" /\ CallStep(i, "started")
                 /\ sendEvent(Event("start", ids + i))
              \/ /\ st[i] \in {"started", "ran"} /\ CallStep(i, "answered")
                 /\ sendEvent(Event("result", ids + i))
              \/ /\ st[i] = "started" /\ CallStep(i, "running") /\ UNCHANGED chan
              \/ /\ st[i] = "running" /\ CallStep(i, "ran") /\ UNCHANGED chan
    BY <1>1, CallsGoOn
  <2>2. UNCHANGED <<pc, ended, closed>>
    BY <2>1, CallGoesOn
  <2>3. /\ Event("start", ids + i) \in Events /\ Event("start", ids + i).kind # "terminal"
        /\ Event("result", ids + i) \in Events /\ Event("result", ids + i).kind # "terminal"
    BY <2>1 DEF Event, Events, EventKinds
  <2>4. UNCHANGED chan \/ \E e \in Events : e.kind # "terminal" /\ chan' = Append(chan, e)
    BY <2>1, <2>3 DEF sendEvent
  <2> QED
    BY <2>1, <2>2, <2>4, StillRunning
<1>2. CASE Decide
  <2>1. /\ pc = "calls" /\ pc' # "closed" /\ (pc' = "terminal" => reason' \in Reasons)
        /\ UNCHANGED <<chan, ended, closed>>
    BY <1>2, Decided DEF TurnDone, DecideStep, seenVars
  <2> QED
    BY <2>1, StillRunning
<1>3. CASE TurnHead \/ ChatFails
  <2>1. /\ pc # "closed" /\ pc' # "closed" /\ (pc' = "terminal" => reason' \in Reasons)
        /\ UNCHANGED <<chan, ended, closed>>
    BY <1>3 DEF TurnHead, ChatFails, End, Reasons, seenVars
  <2> QED
    BY <2>1, StillRunning
<1>4. CASE \/ StreamOpens \/ StreamRead \/ Chunk \/ StreamDone \/ StreamStops \/ StreamCut
           \/ IdleTimeout \/ IdleWarning
  <2>1. /\ pc # "closed" /\ pc' \notin {"terminal", "closed"}
        /\ UNCHANGED <<chan, ended, closed>>
    BY <1>4 DEF StreamOpens, StreamRead, Chunk, StreamDone, StreamStops, StreamCut,
                IdleTimeout, IdleWarning, StreamStep, seenVars
  <2> QED
    BY <2>1, StillRunning
<1>5. CASE WarningSent
  <2>1. Event("warning", 0) \in Events /\ Event("warning", 0).kind # "terminal"
    BY DEF Event, Events, EventKinds
  <2>2. pc = "stream" /\ UNCHANGED <<pc, ended, closed>>
    BY <1>5 DEF WarningSent, StreamStep, seenVars
  <2>3. UNCHANGED chan \/ \E e \in Events : e.kind # "terminal" /\ chan' = Append(chan, e)
    BY <1>5, <2>1 DEF WarningSent, sendEvent
  <2> QED
    BY <2>2, <2>3, StillRunning
<1>6. CASE sendTerminal
  <2>1. PICK e \in Events : e = Event("terminal", 0)
    BY DEF Event, Events, EventKinds
  <2>2. e.kind = "terminal"
    BY <2>1 DEF Event
  <2>3. /\ pc = "terminal" /\ pc' = "closed" /\ UNCHANGED <<ended, closed, reason, cancelled>>
        /\ (chan' = Append(chan, e) \/ (cancelled /\ UNCHANGED chan))
    BY <1>6, <2>1 DEF sendTerminal, seenVars
  <2>4. /\ ended = "no" /\ ~closed /\ \A n \in 1..Len(chan) : chan[n].kind # "terminal"
        /\ reason \in Reasons
    BY <2>3, NotEnded DEF Ending
  <2>5. CASE chan' = Append(chan, e)
    <3>1. /\ Len(chan) \in Nat /\ Len(chan') = Len(chan) + 1 /\ chan'[Len(chan) + 1] = e
          /\ \A n \in 1..Len(chan) : chan'[n] = chan[n]
      BY <2>5, AppendProperties
    <3>2. /\ \A n \in 1..Len(chan') : n \in 1..Len(chan) \/ n = Len(chan')
          /\ Len(chan') \in 1..Len(chan')
      BY <3>1
    <3>3. \A n \in 1..Len(chan') : chan'[n].kind = "terminal" => n = Len(chan')
      BY <2>4, <3>1, <3>2
    <3>4. \E n \in 1..Len(chan') : chan'[n].kind = "terminal"
      BY <2>2, <3>1, <3>2
    <3> QED
      BY <2>3, <2>4, <3>3, <3>4 DEF Ending
  <2>6. CASE cancelled /\ UNCHANGED chan
    BY <2>3, <2>4, <2>6 DEF Ending
  <2> QED
    BY <2>3, <2>5, <2>6
<1>7. CASE Read
  <2>1. CASE chan = <<>>
    <3>1. pc = "closed" /\ closed' = TRUE
          /\ UNCHANGED <<pc, chan, ended, reason, cancelled>>
      BY <1>7, <2>1 DEF Read
    <3> QED
      BY <2>1, <3>1 DEF Ending
  <2>2. CASE chan # <<>>
    <3>1. PICK e : e = Head(chan)
      OBVIOUS
    <3>2. /\ chan' = Tail(chan)
          /\ ended' = IF e.kind = "terminal" THEN reason ELSE ended
          /\ UNCHANGED <<closed, cancelled, pc, reason>>
      BY <1>7, <2>2, <3>1, ReadsFirst
    <3>3. /\ Len(chan) \in Nat \ {0} /\ e = chan[1] /\ chan' \in Seq(Events)
          /\ Len(chan') = Len(chan) - 1
          /\ \A n \in 1..Len(chan') : chan'[n] = chan[n + 1]
      BY <2>2, <3>1, <3>2, HeadTailProperties, EmptySeq
    <3>4. ended = "no" /\ ~closed
      BY <2>2 DEF Ending
    <3>5. CASE e.kind = "terminal"
      <4>1. pc = "closed" /\ Len(chan) = 1
        BY <3>3, <3>5 DEF Ending
      <4>2. chan' = <<>>
        BY <3>3, <4>1, EmptySeq
      <4>3. ended' \in Reasons
        BY <3>2, <3>5, <4>1 DEF Ending
      <4>4. ended' # "no"
        BY <4>3 DEF Reasons
      <4>5. Len(chan') = 0
        BY <3>3, <4>1
      <4> QED
        BY <3>2, <3>4, <4>1, <4>2, <4>4, <4>5 DEF Ending
    <3>6. CASE e.kind # "terminal"
      <4>1. \A n \in 1..Len(chan') : n + 1 \in 1..Len(chan)
        BY <3>3
      <4>2. \A n \in 1..Len(chan') : chan'[n].kind = "terminal" =>
              n = Len(chan') /\ pc = "closed"
        BY <3>3, <4>1 DEF Ending
      <4>3. \A n \in 1..Len(chan) : n = 1 \/ (n - 1 \in 1..Len(chan') /\ chan'[n - 1] = chan[n])
        BY <3>3
      <4>4. (\E n \in 1..Len(chan) : chan[n].kind = "terminal") =>
              \E n \in 1..Len(chan') : chan'[n].kind = "terminal"
        BY <3>3, <3>6, <4>3
      <4> QED
        BY <3>2, <3>4, <3>6, <4>2, <4>4 DEF Ending
    <3> QED
      BY <3>5, <3>6
  <2> QED
    BY <2>1, <2>2
<1>8. CASE Cancel
  BY <1>8 DEF Cancel, seenVars, Ending
<1>9. CASE Leave \/ UNCHANGED vars
  BY <1>9 DEF Leave, vars, seenVars, Ending
<1> QED
  BY <1>1, <1>2, <1>3, <1>4, <1>5, <1>6, <1>7, <1>8, <1>9 DEF Next, Run, Stream

-----------------------------------------------------------------------------
(* The invariant, and the contract it keeps.                               *)

\* A run begins with nothing sent.
LEMMA InitInvariant == Init => IInv
<1> SUFFICES ASSUME Init PROVE IInv
  OBVIOUS
<1>1. Len(<<>>) = 0 /\ <<>> \in Seq(Events)
      /\ <<>> \in Seq({"new", "started", "running", "ran", "answered"})
  BY EmptySeq
<1>2. Shape
  BY <1>1, RepliesAssumption DEF Init, Shape, Working
<1>7. /\ chan = <<>> /\ st = <<>> /\ ids = 0 /\ open = {} /\ answered = {} /\ pc = "head"
      /\ ended = "no" /\ ~closed
  BY DEF Init
<1>8. /\ turn = 1 /\ mailed = 0 /\ incompleteRetryCount = 0 /\ lengthRetryCount = 0
      /\ compactionAttempted = FALSE
  BY DEF Init
<1>3. Numbered
  <2>1. Longest \in Nat /\ Requests \in Nat
    BY LongestReply, BoundsAssumption DEF Requests
  <2>2. Requests * Longest \in Nat /\ (2 * Accepted + Extra) * Longest = 0
    <3>1. Accepted = 0
      BY <1>8 DEF Accepted
    <3>2. Extra = 0
      BY <1>8 DEF Extra
    <3> QED
      BY <2>1, <3>1, <3>2
  <2>3. 1 \in Nat \ {0} /\ 0 \in 0..MaxMail /\ 0 \in 0..1 /\ 0 \in 0..2
    BY BoundsAssumption
  <2>4. ids \in Nat /\ ids <= Requests * Longest /\ ids <= (2 * Accepted + Extra) * Longest
    <3>1. \A p \in Nat : 0 <= p
      OBVIOUS
    <3> QED
      BY <1>7, <2>2, <3>1
  <2> QED
    BY <1>7, <1>8, <2>3, <2>4, Zenon DEF Numbered, Asking
<1>4. Begun = {} /\ Over = {}
  <2>1. DOMAIN st = {}
    BY <1>7
  <2>2. 1..ids = {}
    BY <1>7
  <2> QED
    BY <2>1, <2>2 DEF Begun, Over
<1>5. Announced /\ Heard
  <2>1. \A n \in 1..Len(chan) : FALSE
    BY <1>1, <1>7
  <2> QED
    BY <1>4, <1>7, <2>1 DEF Announced, Heard, Orderly, Whole
<1>6. Ending
  <2>1. \A n \in 1..Len(chan) : FALSE
    BY <1>1, <1>7
  <2> QED
    BY <1>7, <2>1 DEF Ending
<1> QED
  BY <1>2, <1>3, <1>5, <1>6 DEF IInv

\* Every step of the run keeps it.
LEMMA Inductive == IInv /\ [Next]_vars => IInv'
  BY ShapeStep, NumberedStep, AnnouncedStep, EndingStep DEF IInv

\* The ids the contract allows are enough.
LEMMA BegunAllowed == ASSUME Shape, Numbered PROVE Begun \subseteq ToolIds
<1>1. ToolIds = 1..(Requests * Longest)
  BY DEF ToolIds, Requests, Longest
<1>2. Longest \in Nat /\ Requests \in Nat /\ Requests * Longest \in Nat
  <2>1. Longest \in Nat /\ Requests \in Nat
    BY LongestReply, BoundsAssumption DEF Requests
  <2> QED
    BY <2>1
<1>3. ids \in Nat /\ ids <= Requests * Longest
  BY DEF Numbered
<1>4. 1..ids \subseteq ToolIds
  BY <1>1, <1>2, <1>3
<1>5. ASSUME NEW i \in DOMAIN st PROVE ids + i \in ToolIds
  <2>1. pc = "calls" /\ i \in 1..Len(calls) /\ Len(calls) \in 0..Longest
    <3>1. pc = "calls"
      <4>1. st # <<>>
        BY <1>5
      <4> QED
        BY <4>1, CallsAreNumbered
    <3>2. i \in 1..Len(calls) /\ Len(calls) \in Nat /\ Len(calls) <= Longest
      BY <1>5, <3>1, CallsAreNumbered, LongestReply DEF Shape
    <3> QED
      BY <1>2, <3>1, <3>2
  <2>2. Accepted \in Nat /\ Extra \in 0..2 /\ 2 * Accepted + Extra + 1 <= Requests
    BY <2>1, BoundsAssumption DEF Numbered, Asking, Accepted, Extra, Requests
  <2>3. ids <= (2 * Accepted + Extra) * Longest
    BY <2>1 DEF Numbered, Working
  <2>4. PICK k \in Nat : k = 2 * Accepted + Extra
    BY <2>2
  <2>5. i \in 0..Longest /\ Requests >= k + 1
    BY <1>2, <2>1, <2>2, <2>4
  <2>6. ids + i <= Requests * Longest
    BY <1>2, <1>3, <2>3, <2>4, <2>5, OneMoreRequest
  <2> QED
    BY <1>1, <1>2, <1>3, <2>1, <2>6
<1> QED
  BY <1>4, <1>5 DEF Begun

\* Every step of the run is one of the contract's, or none of its concern.
LEMMA StepsOfContract == IInv /\ [Next]_vars => [Contract!Next]_(Contract!vars)
<1> SUFFICES ASSUME IInv, [Next]_vars PROVE [Contract!Next]_(Contract!vars)
  OBVIOUS
<1>1. CASE Read
  <2>1. CASE chan = <<>>
    <3>1. /\ ~closed /\ closed' = TRUE /\ pc = "closed"
          /\ UNCHANGED <<cancelled, open, answered, ended>>
      BY <1>1, <2>1 DEF Read
    <3>2. ended # "no" \/ cancelled
      BY <2>1, <3>1, EmptySeq DEF IInv, Ending
    <3> QED
      BY <3>1, <3>2 DEF Contract!Next, Contract!Close
  <2>2. CASE chan # <<>>
    <3>1. PICK e : e = Head(chan)
      OBVIOUS
    <3>2. /\ chan' = Tail(chan) /\ e \in Events
          /\ e.kind = "start" => open' = open \cup {e.id} /\ answered' = answered
          /\ e.kind = "result" => open' = open \ {e.id} /\ answered' = answered \cup {e.id}
          /\ e.kind \notin {"start", "result"} => open' = open /\ answered' = answered
          /\ ended' = IF e.kind = "terminal" THEN reason ELSE ended
          /\ UNCHANGED <<closed, cancelled>>
      BY <1>1, <2>2, <3>1, ReadsFirst DEF IInv
    <3>3. Contract!Live
      BY <1>1, <2>2 DEF Read, IInv, Ending, Contract!Live
    <3>4. /\ e.kind = "start" => e.id \in Begun \ (open \cup answered)
          /\ e.kind = "result" =>
               /\ e.id \in Over \ answered
               /\ Whole(chan, open, answered, Begun, Over) => e.id \in open
      BY <2>2, <3>1, TakeFirst DEF IInv, Shape
    <3>5. Begun \subseteq ToolIds /\ Over \subseteq ToolIds
      BY BegunAllowed, OverIsBegun DEF IInv
    <3>6. CASE e.kind = "start"
      BY <3>2, <3>3, <3>4, <3>5, <3>6 DEF Contract!Next, Contract!Announce
    <3>7. CASE e.kind = "result"
      BY <3>2, <3>3, <3>4, <3>5, <3>7 DEF IInv, Heard, Contract!Next, Contract!Answer
    <3>8. CASE e.kind = "terminal"
      <4>1. Len(chan) \in Nat \ {0} /\ e = chan[1]
        BY <2>2, <3>1, HeadTailProperties, EmptySeq DEF IInv, Shape
      <4>2. Len(chan) = 1 /\ pc = "closed" /\ reason \in Reasons
        <5>1. 1 \in 1..Len(chan)
          BY <4>1
        <5>2. Ending
          BY DEF IInv
        <5>3. 1 = Len(chan) /\ pc = "closed"
          BY <3>8, <4>1, <5>1, <5>2 DEF Ending
        <5> QED
          BY <5>2, <5>3 DEF Ending
      <4>3. Begun = Over
        <5>1. st = <<>>
          BY <4>2, CallsAreNumbered DEF IInv
        <5> QED
          BY <5>1 DEF Begun, Over
      <4>4. \A id : ~InChan(chan, "result", id)
        BY <3>8, <4>1, <4>2 DEF InChan
      <4>5. open = {} \/ cancelled
        BY <4>3, <4>4 DEF IInv, Announced, Heard, Orderly, Whole
      <4> QED
        BY <3>2, <3>3, <3>8, <4>2, <4>5 DEF Contract!Next, Contract!Finish
    <3>9. CASE e.kind = "warning"
      BY <3>2, <3>9 DEF Contract!vars
    <3> QED
      BY <3>2, <3>6, <3>7, <3>8, <3>9 DEF Events, EventKinds
  <2> QED
    BY <2>1, <2>2
<1>2. CASE Cancel
  BY <1>2 DEF Cancel, seenVars, Contract!Next, Contract!Cancel
<1>3. CASE Run \/ Leave \/ UNCHANGED vars
  <2>1. CASE CallSteps
    <3>1. PICK i \in DOMAIN calls : \E to : CallStep(i, to)
      BY <2>1, CallsGoOn DEF IInv
    <3> QED
      BY <3>1 DEF CallStep, seenVars, Contract!vars
  <2>2. CASE Decide
    BY <2>2, Decided DEF DecideStep, seenVars, Contract!vars
  <2>3. CASE Stream
    BY <2>3 DEF Stream, StreamOpens, ChatFails, StreamRead, Chunk, StreamDone, StreamStops,
                StreamCut, IdleTimeout, IdleWarning, WarningSent, StreamStep, seenVars,
                Contract!vars
  <2>4. CASE TurnHead \/ sendTerminal \/ Leave \/ UNCHANGED vars
    BY <2>4 DEF TurnHead, sendTerminal, Leave, vars, seenVars, Contract!vars
  <2> QED
    BY <1>3, <2>1, <2>2, <2>3, <2>4 DEF Run
<1> QED
  BY <1>1, <1>2, <1>3 DEF Next

\* The reader of the events gets what RunContract promises: every tool
\* announced once, before its one result, every announced tool answered by the
\* time of the one Terminal, which comes last; only a caller who cancelled
\* misses any of it (sendEvent, sendTerminal, event_invariants_test.go).
THEOREM RunIsKept == Spec => RunKept
<1>1. Init => Contract!Init
  BY DEF Init, Contract!Init
<1>2. Spec => []IInv
  BY InitInvariant, Inductive, PTL DEF Spec
<1> QED
  BY <1>1, <1>2, StepsOfContract, PTL DEF Spec, RunKept, Contract!Spec
==============================================================================
