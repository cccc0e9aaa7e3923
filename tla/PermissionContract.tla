-------------------------- MODULE PermissionContract --------------------------
(***************************************************************************)
(* What a permission prompt promises.  The browser is shown at most one    *)
(* verdict per prompt and is asked first; whoever asked hears one answer,  *)
(* and hears "allow" only if the browser was shown an approval.            *)
(***************************************************************************)
CONSTANTS Prompt, Approvals, Refusals

VARIABLES shown,  \* shown[p]: "nothing", "request", or the verdict shown
          heard   \* heard[p]: "nothing", "allow" or "deny"

vars == <<shown, heard>>

Init == /\ shown = [p \in Prompt |-> "nothing"]
        /\ heard = [p \in Prompt |-> "nothing"]

Raise(p) == /\ shown[p] = "nothing"
            /\ shown' = [shown EXCEPT ![p] = "request"]
            /\ UNCHANGED heard

Show(p) == /\ shown[p] = "request"
           /\ \E v \in Approvals \cup Refusals : shown' = [shown EXCEPT ![p] = v]
           /\ UNCHANGED heard

\* A caller that stopped waiting hears "deny" whatever the browser is shown.
Hear(p, answer) == /\ heard[p] = "nothing"
                   /\ answer = "allow" => shown[p] \in Approvals
                   /\ heard' = [heard EXCEPT ![p] = answer]
                   /\ UNCHANGED shown

\* expire shows its verdict and answers in one go.
ShowAndHear(p) == /\ shown[p] = "request" /\ heard[p] = "nothing"
                  /\ \E v \in Refusals : shown' = [shown EXCEPT ![p] = v]
                  /\ heard' = [heard EXCEPT ![p] = "deny"]

Next == \E p \in Prompt : \/ Raise(p) \/ Show(p) \/ ShowAndHear(p)
                          \/ \E answer \in {"allow", "deny"} : Hear(p, answer)

Spec == Init /\ [][Next]_vars
===============================================================================
