---------------------------- MODULE WorkerStream ----------------------------
(***************************************************************************)
(* What the task supervisor promises to the observer of one worker's       *)
(* events: the worker is announced before anything is said about it, it is *)
(* reported finished at most once, with the outcome it really had, and     *)
(* nothing is said about it afterwards.                                    *)
(***************************************************************************)
EXTENDS Naturals, Sequences

CONSTANTS Task,     \* the tasks a supervisor may ever start
          Outcome,  \* how a task can end
          Chatter   \* what may be reported of a worker between start and finish

VARIABLES stream,   \* stream[t]: the event types sent to the observer about t
          fate      \* fate[t]: the outcome recorded for t, or "none"

vars == <<stream, fate>>

Said(t, what) == \E i \in 1..Len(stream[t]) : stream[t][i] = what

Init == /\ stream = [t \in Task |-> <<>>]
        /\ fate = [t \in Task |-> "none"]

Tell(t, what) == stream' = [stream EXCEPT ![t] = Append(@, what)]

Announce(t) == /\ stream[t] = <<>>
               /\ Tell(t, "started")
               /\ UNCHANGED fate

Report(t) == /\ Said(t, "started")
             /\ ~Said(t, "finished")
             /\ \E c \in Chatter : Tell(t, c)
             /\ UNCHANGED fate

\* A task's outcome is settled once, before or after it was announced.
Settle(t) == /\ fate[t] = "none"
             /\ \E o \in Outcome : fate' = [fate EXCEPT ![t] = o]
             /\ UNCHANGED stream

Finish(t) == /\ fate[t] # "none"
             /\ Said(t, "started")
             /\ ~Said(t, "finished")
             /\ Tell(t, "finished")
             /\ UNCHANGED fate

Next == \E t \in Task : Announce(t) \/ Report(t) \/ Settle(t) \/ Finish(t)

Spec == Init /\ [][Next]_vars
=============================================================================
