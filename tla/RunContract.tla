----------------------------- MODULE RunContract -----------------------------
(***************************************************************************)
(* What the reader of an agent run's event channel is promised: a tool is  *)
(* announced, reported and answered once, in that order; the run ends with *)
(* one Terminal after which nothing comes; every announced tool has been   *)
(* answered by then.  Only a caller who cancels the run and is slow to     *)
(* read may miss events.                                                   *)
(***************************************************************************)
CONSTANTS Tool,     \* the ids tools may be announced under
          Reason    \* the reasons a Terminal may give

VARIABLES cancelled, \* the caller has cancelled the run
          open,      \* tools announced and not yet answered
          answered,  \* tools answered
          ended,     \* the reason of the Terminal, or "no"
          closed     \* the channel is closed and empty

vars == <<cancelled, open, answered, ended, closed>>

Init == cancelled = FALSE /\ open = {} /\ answered = {} /\ ended = "no" /\ closed = FALSE

Cancel == ~cancelled /\ cancelled' = TRUE /\ UNCHANGED <<open, answered, ended, closed>>

Live == ended = "no" /\ ~closed

Announce(t) == /\ Live /\ t \notin open \cup answered
               /\ open' = open \cup {t}
               /\ UNCHANGED <<cancelled, answered, ended, closed>>

Answer(t) == /\ Live /\ t \notin answered
             /\ t \in open \/ cancelled
             /\ open' = open \ {t} /\ answered' = answered \cup {t}
             /\ UNCHANGED <<cancelled, ended, closed>>

Finish(r) == /\ Live
             /\ open = {} \/ cancelled
             /\ ended' = r
             /\ UNCHANGED <<cancelled, open, answered, closed>>

Close == /\ ~closed
         /\ ended # "no" \/ cancelled
         /\ closed' = TRUE
         /\ UNCHANGED <<cancelled, open, answered, ended>>

Next == \/ Cancel \/ Close
        \/ \E t \in Tool : Announce(t) \/ Answer(t)
        \/ \E r \in Reason : Finish(r)

Spec == Init /\ [][Next]_vars
=============================================================================
