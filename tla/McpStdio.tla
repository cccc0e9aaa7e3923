------------------------------ MODULE McpStdio ------------------------------
(***************************************************************************)
(* One MCP server behind a pipe: stdioClient of internal/mcp, shared by    *)
(* every agent of the process.  A request writes, and then reads frames    *)
(* until its own answer comes, under one lock; its deadline is looked at   *)
(* only between two frames.  The server answers in any order, late, with   *)
(* notifications in between, or not at all, and may die.                   *)
(***************************************************************************)
EXTENDS Naturals, Sequences

LOCAL INSTANCE SequencesExt

CONSTANTS Caller,    \* tool calls (MCPTool.Call)
          Connect,   \* Client.Connect, which makes two requests before any call
          MaxNoise   \* frames that answer nothing

VARIABLES
  connected,  \* Client.Connect: "no", "listing", "yes", "failed"
  pc,         \* of every caller
  id,         \* of its request; 0: none yet
  late,       \* callers whose deadline has passed
  got,        \* what the caller returns: [kind, of], of: the id of the frame
  nextID, lock,
  stdin,      \* ids of the requests the server has still to read
  working,    \* ids it has read and not answered
  executed,   \* ids it has carried out
  stdout,     \* frames: [kind, id]
  noise,
  server,     \* "up", "exited"
  closing     \* stdioClient.Close: "no", "notify", "wait", "closed"

serverVars == <<stdin, working, executed, noise, server>>
vars == <<connected, pc, id, late, got, nextID, lock, serverVars, stdout, closing>>

Requester == Caller \cup {Connect}
Nobody == "nobody"
NoResult == [kind |-> "none", of |-> 0]

Init ==
  /\ connected = "no" /\ pc = [c \in Requester |-> "idle"] /\ id = [c \in Requester |-> 0]
  /\ late = {} /\ got = [c \in Requester |-> NoResult] /\ nextID = 0 /\ lock = Nobody
  /\ stdin = <<>> /\ working = {} /\ executed = {} /\ stdout = <<>> /\ noise = 0
  /\ server = "up" /\ closing = "no"

-----------------------------------------------------------------------------
(* stdioClient.request.                                                    *)

\* Connect asks first, for initialize and then for tools/list; the calls follow.
mayAsk(c) == IF c = Connect THEN connected \in {"no", "listing"} ELSE connected = "yes"

\* The id is taken before the lock.
Begin(c) ==
  /\ pc[c] = "idle" /\ mayAsk(c)
  /\ nextID' = nextID + 1 /\ id' = [id EXCEPT ![c] = nextID']
  /\ pc' = [pc EXCEPT ![c] = "lock"]
  /\ UNCHANGED <<connected, late, got, lock, serverVars, stdout, closing>>

\* What comes of a return: Connect goes on, or its client is closed.
Return(c, kind, of) ==
  /\ lock' = Nobody /\ got' = [got EXCEPT ![c] = [kind |-> kind, of |-> of]]
  /\ IF c # Connect
       THEN pc' = [pc EXCEPT ![c] = "done"] /\ UNCHANGED <<connected, closing>>
       ELSE /\ connected' = CASE kind # "result" -> "failed"
                              [] kind = "result" /\ connected = "no" -> "listing"
                              [] OTHER -> "yes"
            /\ pc' = [pc EXCEPT ![c] = IF connected' = "listing" THEN "idle" ELSE "done"]
            /\ closing' = IF connected' = "failed" THEN "notify" ELSE closing

\* A request that has waited past its deadline is written all the same.
Write(c) ==
  /\ pc[c] = "lock" /\ lock = Nobody
  /\ IF server = "up" /\ closing \in {"no", "notify"}
       THEN /\ lock' = c /\ pc' = [pc EXCEPT ![c] = "check"]
            /\ stdin' = Append(stdin, id[c]) /\ UNCHANGED <<connected, got, closing>>
       ELSE Return(c, "write error", 0) /\ UNCHANGED stdin
  /\ UNCHANGED <<id, late, nextID, working, executed, noise, server, stdout>>

Check(c) ==
  /\ pc[c] = "check"
  /\ IF c \in late THEN Return(c, "deadline", 0)
                   ELSE /\ pc' = [pc EXCEPT ![c] = "read"]
                        /\ UNCHANGED <<connected, got, lock, closing>>
  /\ UNCHANGED <<id, late, nextID, serverVars, stdout>>

Mine(c, frame) == frame.kind \in {"result", "error"} /\ frame.id = id[c]

ReadMine(c) ==
  /\ pc[c] = "read" /\ stdout # <<>> /\ Mine(c, Head(stdout))
  /\ Return(c, Head(stdout).kind, Head(stdout).id)
  /\ stdout' = Tail(stdout) /\ UNCHANGED <<id, late, nextID, serverVars>>

\* Notifications, invalid JSON and the late answers of others are skipped.
ReadOther(c) ==
  /\ pc[c] = "read" /\ stdout # <<>> /\ Head(stdout).kind # "broken"
  /\ ~Mine(c, Head(stdout))
  /\ stdout' = Tail(stdout) /\ pc' = [pc EXCEPT ![c] = "check"]
  /\ UNCHANGED <<connected, id, late, got, nextID, lock, serverVars, closing>>

\* A frame without a length fails the call and leaves its payload to be taken for
\* the header of the next one, which may be lost with it.
ReadBroken(c) ==
  /\ pc[c] = "read" /\ stdout # <<>> /\ Head(stdout).kind = "broken"
  /\ \E n \in 1..2 : stdout' = SubSeq(stdout, n + 1, Len(stdout))
  /\ Return(c, "read error", 0) /\ UNCHANGED <<id, late, nextID, serverVars>>

ReadEOF(c) ==
  /\ pc[c] = "read" /\ stdout = <<>> /\ server = "exited"
  /\ Return(c, "read error", 0) /\ UNCHANGED <<id, late, nextID, serverVars, stdout>>

Expire(c) ==
  /\ pc[c] \in {"lock", "check", "read"} /\ c \notin late /\ late' = late \cup {c}
  /\ UNCHANGED <<connected, pc, id, got, nextID, lock, serverVars, stdout, closing>>

-----------------------------------------------------------------------------
(* The server.                                                             *)

TakeRequest ==
  /\ server = "up" /\ stdin # <<>>
  /\ stdin' = Tail(stdin) /\ working' = working \cup {Head(stdin)}
  /\ UNCHANGED <<connected, pc, id, late, got, nextID, lock, executed, noise, server, stdout,
                 closing>>

Answer(i) ==
  /\ server = "up" /\ i \in working
  /\ \E kind \in {"result", "error"} : stdout' = Append(stdout, [kind |-> kind, id |-> i])
  /\ working' = working \ {i} /\ executed' = executed \cup {i}
  /\ UNCHANGED <<connected, pc, id, late, got, nextID, lock, stdin, noise, server, closing>>

Noise ==
  /\ server = "up" /\ noise < MaxNoise /\ noise' = noise + 1
  /\ \E kind \in {"note", "broken"} : stdout' = Append(stdout, [kind |-> kind, id |-> 0])
  /\ UNCHANGED <<connected, pc, id, late, got, nextID, lock, stdin, working, executed, server,
                 closing>>

ServerExits ==
  /\ server = "up" /\ server' = "exited" /\ stdin' = <<>> /\ working' = {}
  /\ UNCHANGED <<connected, pc, id, late, got, nextID, lock, executed, noise, stdout, closing>>

-----------------------------------------------------------------------------
(* stdioClient.Close, of Manager.Close when the process ends.              *)

BeginClose ==
  /\ connected = "yes" /\ closing = "no" /\ closing' = "notify"
  /\ UNCHANGED <<connected, pc, id, late, got, nextID, lock, serverVars, stdout>>

\* The shutdown notification needs the lock: a call that is never answered keeps it.
Notify ==
  /\ closing = "notify" /\ lock = Nobody /\ closing' = "wait"
  /\ UNCHANGED <<connected, pc, id, late, got, nextID, lock, serverVars, stdout>>

\* Two seconds for the process to go, then it is killed; Wait closes the pipe.
Wait ==
  /\ closing = "wait" /\ closing' = "closed" /\ server' = "exited"
  /\ stdin' = <<>> /\ working' = {} /\ stdout' = <<>>
  /\ UNCHANGED <<connected, pc, id, late, got, nextID, lock, executed, noise>>

-----------------------------------------------------------------------------
Next ==
  \/ \E c \in Requester : \/ Begin(c) \/ Write(c) \/ Check(c) \/ ReadMine(c) \/ ReadOther(c)
                          \/ ReadBroken(c) \/ ReadEOF(c) \/ Expire(c)
  \/ TakeRequest \/ (\E i \in working : Answer(i)) \/ Noise \/ ServerExits
  \/ BeginClose \/ Notify \/ Wait

Spec == Init /\ [][Next]_vars

-----------------------------------------------------------------------------
TypeOK ==
  /\ connected \in {"no", "listing", "yes", "failed"}
  /\ pc \in [Requester -> {"idle", "lock", "check", "read", "done"}]
  /\ id \in [Requester -> 0..nextID] /\ late \subseteq Requester /\ nextID \in Nat
  /\ \A c \in Requester : got[c].of \in 0..nextID
  /\ lock \in Requester \cup {Nobody} /\ stdin \in Seq(1..nextID)
  /\ working \subseteq 1..nextID /\ executed \subseteq 1..nextID
  /\ \A k \in DOMAIN stdout : stdout[k].id \in 0..nextID
  /\ noise \in 0..MaxNoise /\ server \in {"up", "exited"}
  /\ closing \in {"no", "notify", "wait", "closed"}

\* stdio_client.go: a call that returns a result returns that of its own request,
\* which the server carried out; one whose request was never written was not carried
\* out; and of a server that did not connect no call is made.
CallsGetTheirAnswers ==
  /\ \A c \in Requester :
       /\ got[c].kind \in {"result", "error"} /\ pc[c] = "done" =>
            got[c].of = id[c] /\ id[c] \in executed
       /\ got[c].kind = "write error" => id[c] \notin executed
       /\ c # Connect /\ id[c] # 0 => connected = "yes"
  /\ \A c \in Requester : lock = c <=> pc[c] \in {"check", "read"}
=============================================================================
