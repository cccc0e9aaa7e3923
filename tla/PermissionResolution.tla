------------------------ MODULE PermissionResolution ------------------------
(***************************************************************************)
(* How one tool call is allowed or refused: the stages of                  *)
(* internal/permissions/resolver.go, the buckets of rules.go, the mode a   *)
(* sub-agent gets (clamp.go, agent/subagent.go) and the browser's saves    *)
(* (server/save_permission.go).  A state is one request; its answer is     *)
(* computed.                                                               *)
(***************************************************************************)
EXTENDS Naturals

VARIABLE request

Decision == {"deny", "ask", "allow"}
Mode == {"bypass", "dontAsk", "auto", "acceptEdits", "default", "plan", "bubble"}

\* ModeDefault stands for a mode that is empty or not known.
Normalize(m) == IF m \in Mode THEN m ELSE "default"

-----------------------------------------------------------------------------
(* Results carry the stage they come from.                                 *)

Result(d, stage) == [decision |-> d, stage |-> stage]

\* FirstMatchingRule: rules is the set of buckets with a rule that matches.
FirstMatchingRule(rules) == IF "deny" \in rules THEN "deny"
                            ELSE IF "ask" \in rules THEN "ask" ELSE "allow"

\* What the mode makes of the tool's own opinion.
applyMode(mode, tool) ==
  CASE tool = "deny"                        -> Result("deny", "tool")
    [] mode = "bubble" /\ tool # "deny"     -> Result("ask", "mode")
    [] mode = "bypass" /\ tool = "ask"      -> Result("allow", "mode")
    [] mode \in {"dontAsk", "plan"} /\ tool = "ask" -> Result("deny", "mode")
    [] OTHER                                -> Result(tool, "mode")

\* Resolve.  prompt is what the user would say: "none" when nobody can be
\* asked, "error" when asking fails, which leaves the call at "ask".
Resolve(r) ==
  LET byMode == applyMode(Normalize(r.mode), r.tool)
  IN CASE r.hook # "none" -> Result(r.hook, "hook")
       [] r.hook = "none" /\ r.rules # {} -> Result(FirstMatchingRule(r.rules), "rule")
       [] OTHER -> IF byMode.decision = "ask" /\ r.prompt \in {"allow", "deny"}
                     THEN Result(r.prompt, "prompt")
                     ELSE byMode

-----------------------------------------------------------------------------
(* The mode of a sub-agent.                                                *)

strictness(m) == CASE m = "bypass" -> 0 [] m = "acceptEdits" -> 1 [] m = "auto" -> 2
                   [] m = "dontAsk" -> 4 [] m = "plan" -> 5 [] OTHER -> 3

\* Defect: the child runs in the mode it asked for.
ClampModeNot(parent, requested) == IF requested \in Mode THEN requested ELSE Normalize(parent)

ClampMode(parent, requested) ==
  IF requested \in Mode /\ strictness(requested) >= strictness(Normalize(parent))
    THEN requested ELSE Normalize(parent)

\* runSubagent: a parent that was given no mode leaves the child its own.
ChildMode(parent, requested) ==
  IF parent \in {"bypass", "dontAsk"} THEN parent
  ELSE IF parent = "" THEN Normalize(requested)
  ELSE ClampMode(parent, Normalize(requested))

-----------------------------------------------------------------------------
(* resolveSavePermission.  other is the set of buckets with a rule that     *)
(* matches another spelling of the path.  Nobody is prompted: the browser   *)
(* shows a card and sends the save again.                                  *)

resolveSavePermission(r, other) ==
  LET anyForm == r.rules \cup other
      res == Resolve([r EXCEPT !.prompt = "none"])
      asked == IF res.decision = "allow" /\ "ask" \in anyForm THEN Result("ask", "rule") ELSE res
      mode == Normalize(r.mode)
  IN CASE "deny" \in anyForm -> Result("deny", "rule")
       [] "deny" \notin anyForm /\ mode = "plan" /\ asked.decision = "allow" ->
            Result("deny", "mode")
       [] "deny" \notin anyForm /\ mode = "acceptEdits" /\ asked = Result("ask", "mode") ->
            Result("allow", "mode")
       [] OTHER -> asked

-----------------------------------------------------------------------------
NoRequest == [mode |-> "", hook |-> "none", rules |-> {}, tool |-> "deny", prompt |-> "none",
              requested |-> "", other |-> {}]

Init == request = NoRequest

\* One request after another; they have nothing to do with each other.
Ask ==
  /\ request = NoRequest
  /\ \E mode, requested \in Mode \cup {""}, hook \in Decision \cup {"none"},
        rules, other \in SUBSET Decision, tool \in Decision,
        prompt \in {"none", "error", "allow", "deny"} :
       /\ other = {} \/ (requested = "" /\ prompt = "none")
       /\ request' = [mode |-> mode, hook |-> hook, rules |-> rules, tool |-> tool,
                      prompt |-> prompt, requested |-> requested, other |-> other]

Next == Ask

Spec == Init /\ [][Next]_request

-----------------------------------------------------------------------------
TypeOK == /\ Resolve(request) \in [decision : Decision,
                                   stage : {"hook", "rule", "tool", "mode", "prompt"}]
          /\ resolveSavePermission(request, request.other) \in
               [decision : Decision, stage : {"hook", "rule", "tool", "mode"}]

\* Allowed without the user being asked for this very call.
Unasked(res) == res.decision = "allow" /\ res.stage # "prompt"

\* clamp.go: "The result is never looser than the parent's".  What a child may
\* do unasked its parent may do unasked, except that the child of a bubble
\* parent, which asks for everything, may be in default mode and use what the
\* tool allows by itself.
ChildIsNoLooser ==
  LET parent == Resolve(request)
      child == Resolve([request EXCEPT !.mode = ChildMode(request.mode, request.requested)])
  IN request.mode # "" /\ Unasked(child) =>
       Unasked(parent) \/ (request.mode = "bubble" /\ request.tool = "allow")

\* save_permission.go: plan mode blocks a save whatever a rule or hook says, a
\* deny rule on any spelling of the path wins, and so does an ask rule over an
\* allow -- but acceptEdits passes over an ask rule that another spelling
\* matches, since its own allow comes after that check.  A save goes through
\* unasked only where the agent's write of the file would, or by that allow.
SaveIsNoLooser ==
  LET save == resolveSavePermission(request, request.other)
      write == Resolve([request EXCEPT !.prompt = "none"])
      byAcceptEdits == request.mode = "acceptEdits" /\ write = Result("ask", "mode")
  IN save.decision = "allow" =>
       /\ Normalize(request.mode) # "plan"
       /\ "deny" \notin request.rules \cup request.other
       /\ "ask" \in request.rules \cup request.other => byAcceptEdits /\ "ask" \notin request.rules
       /\ write.decision = "allow" \/ byAcceptEdits

\* clamp.go, save_permission.go: neither of the two ways to act on the user's
\* behalf without a prompt of one's own goes further than the agent itself.
NothingIsLooser == ChildIsNoLooser /\ SaveIsNoLooser
=============================================================================
