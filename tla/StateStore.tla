----------------------------- MODULE StateStore -----------------------------
(***************************************************************************)
(* The application's state: state.Store, which the terminal's Update and   *)
(* the goroutines of the tasks change, with OnChange, which copies some of *)
(* it to bootstrap, and the subscribers.  Set holds the lock only while    *)
(* the value changes; it calls OnChange and sends after it.                *)
(***************************************************************************)
EXTENDS Naturals, Sequences

CONSTANTS Ui,          \* the goroutine of Update
          Worker,      \* goroutines that publish their tasks
          Subscriber,
          MaxSets

VARIABLES
  value,       \* [shared, own]: versions of the fields OnChange copies, and of the others
  mirror,      \* the copied fields, in bootstrap
  pc, prev, next, \* of every goroutine that calls Set
  begun, visited, hand, \* its walk over the subscribers: those at its start, those behind it
  subscribers, \* the map, which Set's "snapshot" still is
  stage, current, \* Subscribe, and the value it took
  channel, seen,
  closed,
  sets,
  down,        \* the process is gone: a panic, or the runtime found the race
  crossed,     \* history: two Sets overlapped
  raced,       \* history: a Set overlapped with a Subscribe or an unsubscribe
  behind       \* history: subscribers whose channel was full at the last send

setVars == <<pc, prev, next, begun, visited, hand>>
subscriberVars == <<subscribers, stage, current, channel, seen, closed, behind>>
vars == <<value, mirror, setVars, subscriberVars, sets, down, crossed, raced>>

Setter == Worker \cup {Ui}
Nobody == "nobody"
Older(a, b) == a.shared + a.own < b.shared + b.own
First == [shared |-> 0, own |-> 0]

Init ==
  /\ value = First /\ mirror = 0 /\ pc = [s \in Setter |-> "idle"]
  /\ prev = [s \in Setter |-> First] /\ next = [s \in Setter |-> First]
  /\ begun = [s \in Setter |-> {}] /\ visited = [s \in Setter |-> {}]
  /\ hand = [s \in Setter |-> Nobody]
  /\ subscribers = {} /\ stage = [b \in Subscriber |-> "new"]
  /\ current = [b \in Subscriber |-> First] /\ channel = [b \in Subscriber |-> <<>>]
  /\ seen = [b \in Subscriber |-> First] /\ closed = {} /\ behind = {}
  /\ sets = 0 /\ down = FALSE /\ crossed = FALSE /\ raced = FALSE

-----------------------------------------------------------------------------
(* Set.                                                                    *)

Goto(s, to) == pc' = [pc EXCEPT ![s] = to]
inSet == {s \in Setter : pc[s] # "idle"}
subscribing == {b \in Subscriber : stage[b] \in {"push", "close"}}

\* The updaters: a task changes its own entry, Update any field.
Updated(s) ==
  {[value EXCEPT !.own = @ + 1]} \cup IF s = Ui THEN {[value EXCEPT !.shared = @ + 1]} ELSE {}

Set(s) ==
  /\ pc[s] = "idle" /\ sets < MaxSets /\ sets' = sets + 1
  /\ value' \in Updated(s)
  /\ prev' = [prev EXCEPT ![s] = value] /\ next' = [next EXCEPT ![s] = value']
  /\ Goto(s, "changed")
  /\ crossed' = (crossed \/ inSet # {}) /\ raced' = (raced \/ subscribing # {})
  /\ UNCHANGED <<mirror, begun, visited, hand, subscriberVars, down>>

\* Only what its Set changed is copied: the rest of next may be old by now.
Copied(before, after) == IF before.shared # after.shared THEN after.shared ELSE mirror

OnChange(s) ==
  /\ pc[s] = "changed" /\ mirror' = Copied(prev[s], next[s])
  /\ begun' = [begun EXCEPT ![s] = subscribers] /\ visited' = [visited EXCEPT ![s] = {}]
  /\ Goto(s, "range")
  /\ UNCHANGED <<value, prev, next, hand, subscriberVars, sets, down, crossed, raced>>

\* The walk takes any order, and may take those that came meanwhile.
Visit(s) ==
  /\ pc[s] = "range"
  /\ \E b \in subscribers \ visited[s] :
       hand' = [hand EXCEPT ![s] = b] /\ visited' = [visited EXCEPT ![s] = @ \cup {b}]
  /\ Goto(s, "send")
  /\ UNCHANGED <<value, mirror, prev, next, begun, subscriberVars, sets, down, crossed, raced>>

\* A full channel keeps what it has: neither of the two attempts takes it out.
\* A closed one panics.
Send(s) ==
  /\ pc[s] = "send" /\ Goto(s, "range") /\ hand' = [hand EXCEPT ![s] = Nobody]
  /\ LET b == hand[s]
     IN \/ b \in closed /\ down' = TRUE /\ UNCHANGED <<channel, behind>>
        \/ /\ b \notin closed /\ channel[b] = <<>>
           /\ channel' = [channel EXCEPT ![b] = <<next[s]>>] /\ behind' = behind \ {b}
           /\ UNCHANGED down
        \/ /\ b \notin closed /\ channel[b] # <<>> /\ behind' = behind \cup {b}
           /\ UNCHANGED <<channel, down>>
  /\ UNCHANGED <<value, mirror, prev, next, begun, visited, subscribers, stage, current, seen,
                 closed, sets, crossed, raced>>

SetReturns(s) ==
  /\ pc[s] = "range" /\ (begun[s] \cap subscribers) \subseteq visited[s]
  /\ Goto(s, "idle") /\ begun' = [begun EXCEPT ![s] = {}]
  /\ prev' = [prev EXCEPT ![s] = First] /\ next' = [next EXCEPT ![s] = First]
  /\ visited' = [visited EXCEPT ![s] = {}]
  /\ UNCHANGED <<value, mirror, hand, subscriberVars, sets, down, crossed, raced>>

-----------------------------------------------------------------------------
(* Subscribe, and the function it returns.                                 *)

\* The map is written under the lock that Set's walk no longer holds.
Rewrites ==
  /\ raced' = (raced \/ inSet # {})
  /\ down' \in {FALSE, \E s \in Setter : pc[s] \in {"range", "send"}}

Subscribe(b) ==
  /\ stage[b] = "new" /\ stage' = [stage EXCEPT ![b] = "push"]
  /\ subscribers' = subscribers \cup {b} /\ current' = [current EXCEPT ![b] = value]
  /\ Rewrites
  /\ UNCHANGED <<value, mirror, setVars, channel, seen, closed, behind, sets, crossed>>

\* The channel has one place: when a Set was first, nobody is there to read it.
Push(b) ==
  /\ stage[b] = "push" /\ channel[b] = <<>>
  /\ channel' = [channel EXCEPT ![b] = <<current[b]>>] /\ stage' = [stage EXCEPT ![b] = "on"]
  /\ UNCHANGED <<value, mirror, setVars, subscribers, current, seen, closed, behind, sets, down,
                 crossed, raced>>

Read(b) ==
  /\ stage[b] = "on" /\ channel[b] # <<>>
  /\ seen' = [seen EXCEPT ![b] = Head(channel[b])] /\ channel' = [channel EXCEPT ![b] = <<>>]
  /\ UNCHANGED <<value, mirror, setVars, subscribers, stage, current, closed, behind, sets, down,
                 crossed, raced>>

Unsubscribe(b) ==
  /\ stage[b] = "on" /\ stage' = [stage EXCEPT ![b] = "close"]
  /\ subscribers' = subscribers \ {b} /\ Rewrites
  /\ UNCHANGED <<value, mirror, setVars, current, channel, seen, closed, behind, sets, crossed>>

Close(b) ==
  /\ stage[b] = "close" /\ stage' = [stage EXCEPT ![b] = "off"] /\ closed' = closed \cup {b}
  /\ UNCHANGED <<value, mirror, setVars, subscribers, current, channel, seen, behind, sets, down,
                 crossed, raced>>

-----------------------------------------------------------------------------
Next ==
  /\ ~down
  /\ \/ \E s \in Setter : Set(s) \/ OnChange(s) \/ Visit(s) \/ Send(s) \/ SetReturns(s)
     \/ \E b \in Subscriber : Subscribe(b) \/ Push(b) \/ Read(b) \/ Unsubscribe(b) \/ Close(b)

Spec == Init /\ [][Next]_vars

-----------------------------------------------------------------------------
Version == [shared : 0..MaxSets, own : 0..MaxSets]

TypeOK ==
  /\ value \in Version /\ mirror \in 0..MaxSets
  /\ pc \in [Setter -> {"idle", "changed", "range", "send"}]
  /\ prev \in [Setter -> Version] /\ next \in [Setter -> Version]
  /\ begun \in [Setter -> SUBSET Subscriber] /\ visited \in [Setter -> SUBSET Subscriber]
  /\ hand \in [Setter -> Subscriber \cup {Nobody}] /\ subscribers \subseteq Subscriber
  /\ stage \in [Subscriber -> {"new", "push", "on", "close", "off"}]
  /\ current \in [Subscriber -> Version] /\ seen \in [Subscriber -> Version]
  /\ channel \in [Subscriber -> Seq(Version)] /\ closed \subseteq Subscriber
  /\ behind \subseteq Subscriber /\ sets \in 0..MaxSets /\ {down, crossed, raced} \subseteq BOOLEAN

\* onchange.go: whatever the tasks publish meanwhile, bootstrap has the fields of
\* the last Set of Update as soon as its OnChange is done.
MirrorIsNew == pc[Ui] # "changed" => mirror = value.shared

\* store.go: a subscriber is never told an older value after a newer one, has the
\* last one when all is quiet unless its channel was full, and nobody waits or
\* panics -- as long as Sets, subscribing and unsubscribing do not overlap.
SubscribersFollow ==
  /\ ~raced => ~down /\ \A b \in Subscriber : stage[b] = "push" => channel[b] = <<>>
  /\ ~raced /\ ~crossed =>
       \A b \in Subscriber :
         stage[b] = "on" =>
           /\ channel[b] # <<>> => ~Older(Head(channel[b]), seen[b])
           /\ (inSet = {} /\ b \notin behind) =>
                value = IF channel[b] # <<>> THEN Head(channel[b]) ELSE seen[b]

StoreIsFollowed == MirrorIsNew /\ SubscribersFollow
=============================================================================
