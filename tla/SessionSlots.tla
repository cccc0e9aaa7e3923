---------------------------- MODULE SessionSlots ----------------------------
(***************************************************************************)
(* The server's sessions and the limit on their number:                    *)
(* internal/server/handler.go (create, delete), session_evict.go,          *)
(* ratelimit.go, handler_sessions_list.go (reuse of a blank session) and   *)
(* sweepIdle of server.go.  A slot is taken before a session is registered *)
(* and must be given back once, by whoever of three removers removed it.   *)
(***************************************************************************)
EXTENDS Naturals, FiniteSets

CONSTANTS Session,      \* sessions that may come to be
          Create,       \* requests for a new session
          Delete,       \* requests to delete one
          MaxSessions   \* the limiter's maxS

VARIABLES
  used,        \* the limiter's sessions
  registered,  \* the registry
  state,       \* state[s]: s.state, "none" before s exists
  running,     \* s.running
  attached,    \* sessions with a subscriber
  blank,       \* sessions with no turn and no event but session_ready
  stopped,     \* sessions whose context is done
  pcC, victim, attempt, reused,   \* create requests
  pcD, target,                    \* delete requests
  pcW, swept, prey                \* the idle sweep: what it has yet to look at

sessionVars == <<state, running, attached, blank, stopped>>
createVars == <<pcC, victim, attempt, reused>>
deleteVars == <<pcD, target>>
sweepVars == <<pcW, swept, prey>>
vars == <<used, registered, sessionVars, createVars, deleteVars, sweepVars>>

Nobody == "nobody"

Init ==
  /\ used = 0 /\ registered = {} /\ stopped = {}
  /\ state = [s \in Session |-> "none"]
  /\ running = {} /\ attached = {} /\ blank = {}
  /\ pcC = [c \in Create |-> "new"] /\ victim = [c \in Create |-> Nobody]
  /\ attempt = [c \in Create |-> 0] /\ reused = [c \in Create |-> Nobody]
  /\ pcD = [d \in Delete |-> "new"] /\ target = [d \in Delete |-> Nobody]
  /\ pcW = "waiting" /\ swept = {} /\ prey = Nobody

-----------------------------------------------------------------------------
(* What clients and the agent do with a session.  They may hold one that   *)
(* is no longer registered.                                                *)

Evictable(s) == state[s] = "ready" /\ s \notin running \cup attached

StartRun(s) ==
  /\ state[s] = "ready" /\ s \notin running
  /\ state' = [state EXCEPT ![s] = "running"]
  /\ running' = running \cup {s} /\ blank' = blank \ {s}
  /\ UNCHANGED <<used, registered, attached, stopped, createVars, deleteVars, sweepVars>>

EndRun(s) ==
  /\ s \in running
  /\ state' = [state EXCEPT ![s] = "ready"] /\ running' = running \ {s}
  /\ UNCHANGED <<used, registered, attached, blank, stopped, createVars, deleteVars, sweepVars>>

Attach(s) ==
  /\ s \in registered \ attached
  /\ attached' = attached \cup {s}
  /\ UNCHANGED <<used, registered, state, running, blank, stopped, createVars, deleteVars,
                 sweepVars>>

Detach(s) ==
  /\ s \in attached
  /\ attached' = attached \ {s}
  /\ UNCHANGED <<used, registered, state, running, blank, stopped, createVars, deleteVars,
                 sweepVars>>

-----------------------------------------------------------------------------
(* The three locked steps the removers share.                              *)

stop(s) == state' = [state EXCEPT ![s] = "closing"] /\ stopped' = stopped \cup {s}
           /\ UNCHANGED <<running, attached, blank>>

\* Defect: the slot is given back whether or not this remover removed s.
RemovedAlways(s) == TRUE

\* registry.remove reports whether this call removed s.
Removed(s) == s \in registered

remove(s) == registered' = registered \ {s} /\ UNCHANGED <<used, sessionVars>>

ReleaseSession == used' = (IF used > 0 THEN used - 1 ELSE 0)
                  /\ UNCHANGED <<registered, sessionVars>>

AcquireSession == used < MaxSessions

-----------------------------------------------------------------------------
(* Create.                                                                 *)

GoC(c, to) == pcC' = [pcC EXCEPT ![c] = to] /\ UNCHANGED <<deleteVars, sweepVars>>

\* reuse=blank hands out a session that nobody attached to and that never took
\* a turn.  Between the scan and the check it may have been taken into use.
Blank(s) == s \in blank /\ Evictable(s)

ReuseBlank(c) ==
  /\ pcC[c] = "new"
  /\ \E s \in registered : Blank(s) /\ reused' = [reused EXCEPT ![c] = s]
  /\ GoC(c, "recheck")
  /\ UNCHANGED <<used, registered, sessionVars, victim, attempt>>

RecheckBlank(c) ==
  /\ pcC[c] = "recheck"
  /\ IF Blank(reused[c]) THEN GoC(c, "reused") /\ UNCHANGED reused
                         ELSE GoC(c, "acquire") /\ reused' = [reused EXCEPT ![c] = Nobody]
  /\ UNCHANGED <<used, registered, sessionVars, victim, attempt>>

WantNew(c) ==
  /\ pcC[c] = "new"
  /\ GoC(c, "acquire")
  /\ UNCHANGED <<used, registered, sessionVars, victim, attempt, reused>>

TakeSlot(c) ==
  /\ pcC[c] \in {"acquire", "again"}
  /\ AcquireSession
  /\ used' = used + 1
  /\ GoC(c, "building")
  /\ UNCHANGED <<registered, sessionVars, victim, attempt, reused>>

\* oldestEvictable; which one is the oldest is left open.  After three
\* attempts, or with nothing to evict, the client hears "limit reached".
MaxAttempts == 3

ChooseVictim(c) ==
  /\ pcC[c] \in {"acquire", "again"}
  /\ ~AcquireSession
  /\ attempt[c] < MaxAttempts
  /\ \E s \in registered : Evictable(s) /\ victim' = [victim EXCEPT ![c] = s]
  /\ attempt' = [attempt EXCEPT ![c] = @ + 1]
  /\ GoC(c, "chosen")
  /\ UNCHANGED <<used, registered, sessionVars, reused>>

LimitReached(c) ==
  /\ pcC[c] \in {"acquire", "again"}
  /\ ~AcquireSession
  /\ attempt[c] = MaxAttempts \/ ~\E s \in registered : Evictable(s)
  /\ GoC(c, "refused")
  /\ UNCHANGED <<used, registered, sessionVars, victim, attempt, reused>>

\* The victim is looked at again under its own lock: a next attempt chooses
\* anew without asking the limiter.
MarkClosing(c) ==
  /\ pcC[c] = "chosen"
  /\ IF Evictable(victim[c])
       THEN GoC(c, "marked") /\ state' = [state EXCEPT ![victim[c]] = "closing"]
       ELSE GoC(c, "missed") /\ UNCHANGED state
  /\ UNCHANGED <<used, registered, running, attached, blank, stopped, victim, attempt, reused>>

ChooseAgain(c) ==
  /\ pcC[c] = "missed"
  /\ \/ /\ attempt[c] < MaxAttempts
        /\ \E s \in registered : Evictable(s) /\ victim' = [victim EXCEPT ![c] = s]
        /\ attempt' = [attempt EXCEPT ![c] = @ + 1]
        /\ GoC(c, "chosen")
     \/ /\ attempt[c] = MaxAttempts \/ ~\E s \in registered : Evictable(s)
        /\ GoC(c, "refused") /\ UNCHANGED <<victim, attempt>>
  /\ UNCHANGED <<used, registered, sessionVars, reused>>

StopVictim(c) ==
  /\ pcC[c] = "marked"
  /\ stop(victim[c])
  /\ GoC(c, "stopped")
  /\ UNCHANGED <<used, registered, victim, attempt, reused>>

RemoveVictim(c) ==
  /\ pcC[c] = "stopped"
  /\ GoC(c, IF Removed(victim[c]) THEN "removed" ELSE "again")
  /\ remove(victim[c])
  /\ UNCHANGED <<victim, attempt, reused>>

ReleaseVictim(c) ==
  /\ pcC[c] = "removed"
  /\ ReleaseSession
  /\ GoC(c, "again")
  /\ UNCHANGED <<victim, attempt, reused>>

\* The session's runtime cannot be built: its slot goes back.
BuildFails(c) ==
  /\ pcC[c] = "building"
  /\ ReleaseSession
  /\ GoC(c, "failed")
  /\ UNCHANGED <<victim, attempt, reused>>

Register(c) ==
  /\ pcC[c] = "building"
  /\ \E s \in Session :
       /\ state[s] = "none"
       /\ state' = [state EXCEPT ![s] = "ready"]
       /\ blank' = blank \cup {s}
       /\ registered' = registered \cup {s}
  /\ GoC(c, "created")
  /\ UNCHANGED <<used, running, attached, stopped, victim, attempt, reused>>

-----------------------------------------------------------------------------
(* Delete.                                                                 *)

GoD(d, to) == pcD' = [pcD EXCEPT ![d] = to] /\ UNCHANGED <<createVars, sweepVars>>

FindTarget(d) ==
  /\ pcD[d] = "new"
  /\ \E s \in registered : target' = [target EXCEPT ![d] = s]
  /\ GoD(d, "found")
  /\ UNCHANGED <<used, registered, sessionVars>>

StopTarget(d) ==
  /\ pcD[d] = "found"
  /\ stop(target[d])
  /\ GoD(d, "stopped")
  /\ UNCHANGED <<used, registered, target>>

RemoveTarget(d) ==
  /\ pcD[d] = "stopped"
  /\ GoD(d, IF Removed(target[d]) THEN "removed" ELSE "done")
  /\ remove(target[d])
  /\ UNCHANGED target

ReleaseTarget(d) ==
  /\ pcD[d] = "removed"
  /\ ReleaseSession
  /\ GoD(d, "done")
  /\ UNCHANGED target

-----------------------------------------------------------------------------
(* The idle sweep: a copy of the registry, one session after the other.    *)

GoW(to) == pcW' = to /\ UNCHANGED <<createVars, deleteVars>>

Sweep ==
  /\ pcW = "waiting" /\ registered # {}
  /\ swept' = registered
  /\ GoW("looking")
  /\ UNCHANGED <<used, registered, sessionVars, prey>>

\* Only the time since its last event makes a session idle to the sweep; a
\* client that listens does not count, nor does a run that is silent.
SweepOne(s) ==
  /\ pcW = "looking" /\ s \in swept
  /\ swept' = swept \ {s}
  /\ \/ /\ prey' = s /\ stop(s) /\ GoW("stopped")
     \/ /\ UNCHANGED <<prey, sessionVars>>
        /\ GoW(IF swept = {s} THEN "waiting" ELSE "looking")
  /\ UNCHANGED <<used, registered>>

Back == IF swept = {} THEN "waiting" ELSE "looking"

RemovePrey ==
  /\ pcW = "stopped"
  /\ GoW(IF Removed(prey) THEN "removed" ELSE Back)
  /\ remove(prey)
  /\ prey' = IF Removed(prey) THEN prey ELSE Nobody
  /\ UNCHANGED swept

ReleasePrey ==
  /\ pcW = "removed"
  /\ ReleaseSession
  /\ GoW(Back) /\ prey' = Nobody
  /\ UNCHANGED swept

-----------------------------------------------------------------------------
CreateStep(c) == \/ ReuseBlank(c) \/ RecheckBlank(c) \/ WantNew(c) \/ TakeSlot(c)
                 \/ ChooseVictim(c) \/ LimitReached(c) \/ MarkClosing(c) \/ ChooseAgain(c)
                 \/ StopVictim(c) \/ RemoveVictim(c) \/ ReleaseVictim(c)
                 \/ BuildFails(c) \/ Register(c)
DeleteStep(d) == FindTarget(d) \/ StopTarget(d) \/ RemoveTarget(d) \/ ReleaseTarget(d)
SweepStep == Sweep \/ RemovePrey \/ ReleasePrey \/ \E s \in Session : SweepOne(s)
Use(s) == StartRun(s) \/ EndRun(s) \/ Attach(s) \/ Detach(s)

Next == \/ \E c \in Create : CreateStep(c)
        \/ \E d \in Delete : DeleteStep(d)
        \/ SweepStep
        \/ \E s \in Session : Use(s)

Spec == Init /\ [][Next]_vars

-----------------------------------------------------------------------------
TypeOK ==
  /\ used \in Nat /\ registered \subseteq Session /\ stopped \subseteq Session
  /\ state \in [Session -> {"none", "ready", "running", "closing"}]
  /\ running \subseteq Session /\ attached \subseteq Session /\ blank \subseteq Session
  /\ victim \in [Create -> Session \cup {Nobody}] /\ reused \in [Create -> Session \cup {Nobody}]
  /\ attempt \in [Create -> 0..MaxAttempts]
  /\ target \in [Delete -> Session \cup {Nobody}]
  /\ swept \subseteq Session /\ prey \in Session \cup {Nobody}

\* Slots of requests that build a session, and of removers who have still to
\* give theirs back.
InHand == Cardinality({c \in Create : pcC[c] \in {"building", "removed"}})
            + Cardinality({d \in Delete : pcD[d] = "removed"})
            + (IF pcW = "removed" THEN 1 ELSE 0)

\* session_evict.go: "The evicted slot is released only if this call removed
\* the session from the registry, so DELETE and sweepIdle racing with it cannot
\* double-release".  No slot is lost either, and no session goes on unregistered
\* without having been told to stop.
SlotsAreCounted ==
  /\ used = Cardinality(registered) + InHand
  /\ used <= MaxSessions
  /\ \A s \in Session : state[s] # "none" => s \in registered \cup stopped
=============================================================================
