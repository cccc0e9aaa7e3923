---------------------------- MODULE FileEditsProofs ----------------------------
(***************************************************************************)
(* The lock of a path excludes, and so no write is lost: for any number of *)
(* tabs, calls and writes of the shell.  Of the constants it takes only    *)
(* that no writer is called "nobody" and that MaxShell is a number.  The   *)
(* invariant:                                                              *)
(*   Slotted   a writer uses an entry from when he asks for the lock until *)
(*             he gives it back or up;                                     *)
(*   Inside    in an entry's channel is the token of the one who holds it; *)
(*   Counted   an entry's refs are its users, so it is not dropped while   *)
(*             somebody waits at it;                                       *)
(*   OneEntry  hence all who use an entry use the one in the map.          *)
(*                                                                         *)
(* And the browser's editor (BrowserEditor, its variables beside those of  *)
(* FileEdits) keeps its word, for any number of texts, requests, openings  *)
(* and events; its invariant, EditorInv, is told where its section begins. *)
(***************************************************************************)
EXTENDS FileEdits, Sequences, FiniteSetTheorems, SequenceTheorems, TLAPS

CONSTANTS MaxTexts, MaxRequests, MaxOpens, MaxEvents

VARIABLES
  disk, texts, tab, ed, gen, loading, again, requests, events, hashing, shown, typed, lost

Editor == INSTANCE BrowserEditor

Phases == {"idle", "loaded", "trying", "locked", "deciding", "decided", "writing", "saved", "asked",
           "asking", "allowed", "refused", "waiting", "read", "stale", "written", "done"}
Holding == {"locked", "deciding", "decided", "writing", "read"}
Using   == Holding \cup {"waiting"}

Users(g) == {w \in Writer : slot[w] = g}

Typed == TypeOK /\ pc \in [Writer -> Phases]

Slotted  == \A w \in Writer : slot[w] # 0 <=> pc[w] \in Using
Inside   == \A g \in 1..2 : \A w \in Writer :
              inside[g] = w <=> slot[w] = g /\ pc[w] \in Holding
Counted  == \A g \in 1..2 : IsFiniteSet(Users(g)) /\ refs[g] = Cardinality(Users(g))
OneEntry == \A w \in Writer : slot[w] # 0 => slot[w] = entry

Locking == Slotted /\ Inside /\ Counted /\ OneEntry

IInv == Typed /\ Locking /\ NoWriteIsLost

-----------------------------------------------------------------------------
(* Types.                                                                  *)

\* A run begins with values of their types.
LEMMA InitTyped == ASSUME MaxShell \in Nat, Init PROVE Typed
<1>1. None \in Content /\ First \in Content
  BY DEF None, First, Content
<1>2. /\ {file, snap, known} \subseteq Content /\ ranged \subseteq {"all", "part"}
      /\ base \in [Save -> Content] /\ seen \in [Writer -> Content]
      /\ whole \in BOOLEAN /\ confirm \subseteq Save
      /\ prompts \subseteq Call /\ activeWrites \subseteq Call
  BY <1>1 DEF Init
<1>3. shells \in 0..MaxShell /\ entry \in 0..2 /\ refs \in [1..2 -> Nat]
  BY DEF Init
<1>4. slot \in [Writer -> 0..2] /\ inside \in [1..2 -> Writer \cup {"nobody"}]
  BY DEF Init
<1>5. pc \in [Writer -> Phases]
  BY DEF Init, Phases
<1> QED
  BY <1>2, <1>3, <1>4, <1>5 DEF Typed, TypeOK

\* What a writer writes is content.
LEMMA NextContent ==
  ASSUME Typed, NEW w \in Writer
  PROVE  Next_(w) \in Content
<1>1. file.n \in Nat
  BY DEF Typed, TypeOK, Content
<1> QED
  BY <1>1 DEF Next_, Content

\* An entry's count is positive as long as someone uses it.
LEMMA InUse ==
  ASSUME Counted, NEW w \in Writer, slot[w] \in 1..2
  PROVE  refs[slot[w]] \in Nat \ {0}
<1> DEFINE S == Users(slot[w])
<1>1. IsFiniteSet(S) /\ refs[slot[w]] = Cardinality(S) /\ w \in S
  BY DEF Counted, Users
<1> HIDE DEF S
<1> QED
  BY <1>1, FS_CardinalityType, FS_EmptySet

\* Two writers in the lock are one.
LEMMA OneHolder ==
  ASSUME Typed, Locking, NEW v \in Writer, NEW w \in Writer,
         pc[v] \in Holding, pc[w] \in Holding
  PROVE  v = w
<1>1. slot[v] # 0 /\ slot[w] # 0
  BY DEF Locking, Slotted, Using
<1>2. slot[v] = entry /\ slot[w] = entry /\ entry \in 1..2
  BY <1>1 DEF Locking, OneEntry, Typed, TypeOK
<1> QED
  BY <1>2 DEF Locking, Inside

-----------------------------------------------------------------------------
(* The lock's operations.                                                  *)

\* A writer takes the entry there is, or a new one that nobody uses.
LEMMA Acquires ==
  ASSUME Typed, Counted, OneEntry, NEW w \in Writer, slot[w] = 0, acquireEntry(w)
  PROVE  /\ entry' \in 1..2 /\ refs' \in [1..2 -> Nat] /\ slot' = [slot EXCEPT ![w] = entry']
         /\ entry = 0 \/ entry' = entry
         /\ entry = 0 => Users(entry') = {}
         /\ Counted' /\ OneEntry'
<1> DEFINE g == entry'
<1>1. /\ g \in 1..2 /\ (entry = 0 \/ g = entry) /\ (entry = 0 => refs[g] = 0)
      /\ refs' = [refs EXCEPT ![g] = @ + 1] /\ slot' = [slot EXCEPT ![w] = g]
  <2>1. CASE entry # 0
    BY <2>1 DEF acquireEntry, Typed, TypeOK
  <2>2. CASE entry = 0
    <3>1. \E f \in 1..2 : refs[f] = 0
      BY <2>2 DEF acquireEntry
    <3>2. PICK f \in 1..2 : f = CHOOSE x \in 1..2 : refs[x] = 0
      BY <3>1
    <3>3. refs[f] = 0
      BY <3>1, <3>2
    <3>4. g = f /\ refs' = [refs EXCEPT ![f] = @ + 1] /\ slot' = [slot EXCEPT ![w] = f]
      BY <2>2, <3>2 DEF acquireEntry
    <3> QED
      BY <2>2, <3>3, <3>4
  <2> QED
    BY <2>1, <2>2
<1> HIDE DEF g
<1>2. refs \in [1..2 -> Nat] /\ slot \in [Writer -> 0..2]
  BY DEF Typed, TypeOK
<1>3. entry = 0 => Users(g) = {}
  <2>1. entry = 0 => \A v \in Writer : slot[v] # g
    BY <1>1, <1>2 DEF OneEntry
  <2> QED
    BY <2>1 DEF Users
<1>4. Counted'
  <2>1. ASSUME NEW f \in 1..2 PROVE IsFiniteSet(Users(f)') /\ refs'[f] = Cardinality(Users(f)')
    <3>1. IsFiniteSet(Users(f)) /\ refs[f] = Cardinality(Users(f)) /\ w \notin Users(f)
      BY DEF Counted, Users
    <3>2. CASE f = g
      <4>1. Users(f)' = Users(f) \cup {w}
        BY <1>1, <1>2, <3>2 DEF Users
      <4>2. refs'[f] = refs[f] + 1
        BY <1>1, <1>2, <3>2
      <4> QED
        BY <3>1, <4>1, <4>2, FS_AddElement
    <3>3. CASE f # g
      <4>1. Users(f)' = Users(f)
        BY <1>1, <1>2, <3>3 DEF Users
      <4> QED
        BY <1>1, <1>2, <3>1, <3>3, <4>1
    <3> QED
      BY <3>2, <3>3
  <2> QED
    BY <2>1 DEF Counted
<1>5. OneEntry'
  <2>1. ASSUME NEW v \in Writer, slot'[v] # 0 PROVE slot'[v] = g
    BY <1>1, <1>2, <2>1 DEF OneEntry
  <2> QED
    BY <2>1 DEF OneEntry, g
<1> QED
  BY <1>1, <1>2, <1>3, <1>4, <1>5 DEF g

\* A writer goes: the entry leaves the map with its last user.
LEMMA Releases ==
  ASSUME Typed, Counted, OneEntry, NEW w \in Writer, slot[w] # 0, releaseEntry(w)
  PROVE  /\ entry' \in 0..2 /\ refs' \in [1..2 -> Nat] /\ slot' = [slot EXCEPT ![w] = 0]
         /\ Counted' /\ OneEntry'
<1>1. PICK g \in 1..2 : g = slot[w] /\ g = entry
  BY DEF Typed, TypeOK, OneEntry
<1>2. /\ refs' = [refs EXCEPT ![g] = @ - 1] /\ slot' = [slot EXCEPT ![w] = 0]
      /\ entry' = IF refs[g] = 1 THEN 0 ELSE entry
  BY <1>1 DEF releaseEntry, entryAfterRelease
<1>3. refs \in [1..2 -> Nat] /\ slot \in [Writer -> 0..2] /\ refs[g] \in Nat \ {0}
  BY <1>1, InUse DEF Typed, TypeOK
<1>4. /\ IsFiniteSet(Users(g)) /\ refs[g] = Cardinality(Users(g)) /\ w \in Users(g)
      /\ Users(g)' = Users(g) \ {w}
  BY <1>1, <1>2, <1>3 DEF Counted, Users
<1>5. IsFiniteSet(Users(g)') /\ Cardinality(Users(g)') = refs[g] - 1
  BY <1>4, FS_RemoveElement
<1>6. Counted'
  <2>1. ASSUME NEW f \in 1..2, f # g
        PROVE  IsFiniteSet(Users(f)') /\ refs'[f] = Cardinality(Users(f)')
    <3>1. Users(f)' = Users(f)
      <4>1. ASSUME NEW v \in Writer PROVE slot'[v] = f <=> slot[v] = f
        <5>1. slot' = [slot EXCEPT ![w] = 0] /\ slot \in [Writer -> 0..2]
          BY <1>2, <1>3
        <5>2. slot[w] # f /\ f # 0
          BY <1>1, <2>1
        <5> QED
          BY <5>1, <5>2
      <4> QED
        BY <4>1 DEF Users
    <3>2. IsFiniteSet(Users(f)) /\ refs[f] = Cardinality(Users(f))
      BY DEF Counted
    <3>3. refs'[f] = refs[f]
      BY <1>2, <1>3, <2>1
    <3> QED
      BY <3>1, <3>2, <3>3, Zenon
  <2> QED
    BY <1>2, <1>3, <1>5, <2>1 DEF Counted
<1>7. OneEntry'
  <2>1. ASSUME NEW v \in Writer, slot'[v] # 0 PROVE slot'[v] = entry'
    <3>1. v # w /\ slot'[v] = slot[v] /\ slot[v] = g
      BY <1>1, <1>2, <1>3, <2>1 DEF OneEntry
    <3>2. v \in Users(g)'
      BY <3>1 DEF Users
    <3>3. refs[g] # 1
      BY <1>3, <1>5, <3>2, FS_EmptySet
    <3> QED
      BY <1>1, <1>2, <3>1, <3>3
  <2> QED
    BY <2>1 DEF OneEntry
<1> QED
  BY <1>2, <1>3, <1>1, <1>6, <1>7 DEF Typed, TypeOK

-----------------------------------------------------------------------------
(* How a writer's step moves him with respect to the lock.                 *)

\* He neither comes to use the lock, nor to hold it, nor stops.
Stays(w) ==
  /\ UNCHANGED lockVars
  /\ \E to \in Phases : /\ Go(w, to)
                        /\ to \in Holding <=> pc[w] \in Holding
                        /\ to \in Using <=> pc[w] \in Using

\* He comes to wait for it.
Queues(w) == /\ pc[w] \notin Using /\ acquireEntry(w) /\ Go(w, "waiting") /\ UNCHANGED inside

\* He waited and has it.
Gets(w) == /\ pc[w] = "waiting" /\ Enter(w) /\ Go(w, "locked") /\ UNCHANGED <<entry, refs, slot>>

\* He has it at once, when nobody does.
Tries(w) == /\ pc[w] \notin Using /\ (entry = 0 \/ inside[entry] = "nobody")
            /\ acquireEntry(w) /\ inside' = [inside EXCEPT ![slot'[w]] = w] /\ Go(w, "locked")

\* He gives it back.
Frees(w) == /\ pc[w] \in Holding /\ Unlock(w)
            /\ \E to \in Phases \ Using : Go(w, to)

\* He gives up waiting for it.
Quits(w) == /\ pc[w] = "waiting" /\ releaseEntry(w) /\ Go(w, "written") /\ UNCHANGED inside

\* Each of these moves keeps the lock in order.
LEMMA StaysKeeps ==
  ASSUME Typed, Locking, NEW w \in Writer, Stays(w)
  PROVE  Locking' /\ pc' \in [Writer -> Phases]
<1>1. PICK to \in Phases : /\ pc' = [pc EXCEPT ![w] = to]
                           /\ to \in Holding <=> pc[w] \in Holding
                           /\ to \in Using <=> pc[w] \in Using
  BY DEF Stays, Go
<1>2. pc \in [Writer -> Phases] /\ UNCHANGED <<entry, refs, inside, slot>>
  BY DEF Typed, Stays, lockVars
<1>3. Slotted' /\ Inside' /\ OneEntry'
  BY <1>1, <1>2 DEF Locking, Slotted, Inside, OneEntry
<1>4. Counted'
  BY <1>2 DEF Locking, Counted, Users
<1> QED
  BY <1>1, <1>2, <1>3, <1>4 DEF Locking

\* The one who queues becomes a user of the entry.
LEMMA QueuesKeeps ==
  ASSUME Typed, Locking, NEW w \in Writer, Queues(w)
  PROVE  /\ Locking' /\ pc' \in [Writer -> Phases]
         /\ entry' \in 0..2 /\ refs' \in [1..2 -> Nat] /\ slot' \in [Writer -> 0..2]
         /\ inside' \in [1..2 -> Writer \cup {"nobody"}]
<1>1. /\ pc' = [pc EXCEPT ![w] = "waiting"] /\ pc[w] \notin Using /\ UNCHANGED inside
      /\ slot[w] = 0 /\ pc \in [Writer -> Phases] /\ slot \in [Writer -> 0..2]
      /\ inside \in [1..2 -> Writer \cup {"nobody"}]
  BY DEF Queues, Go, Locking, Slotted, Typed, TypeOK
<1>2. /\ entry' \in 1..2 /\ refs' \in [1..2 -> Nat] /\ slot' = [slot EXCEPT ![w] = entry']
      /\ Counted' /\ OneEntry'
  BY <1>1, Acquires DEF Queues, Locking
<1>3. "waiting" \in Phases /\ "waiting" \in Using /\ "waiting" \notin Holding
  BY DEF Phases, Using, Holding
<1>4. Slotted'
  BY <1>1, <1>2, <1>3 DEF Locking, Slotted
<1>5. pc[w] \notin Holding
  BY <1>1 DEF Using
<1>6. Inside'
  BY <1>1, <1>2, <1>3, <1>5 DEF Locking, Inside
<1> QED
  BY <1>1, <1>2, <1>3, <1>4, <1>6 DEF Locking

\* The one who waited finds the channel free of tokens.
LEMMA GetsKeeps ==
  ASSUME "nobody" \notin Writer, Typed, Locking, NEW w \in Writer, Gets(w)
  PROVE  /\ Locking' /\ pc' \in [Writer -> Phases]
         /\ inside' \in [1..2 -> Writer \cup {"nobody"}]
<1>1. PICK g \in 1..2 : g = slot[w] /\ inside[g] = "nobody"
  BY DEF Gets, Enter, Locking, Slotted, Using, Typed, TypeOK
<1>2. /\ inside' = [inside EXCEPT ![g] = w] /\ pc' = [pc EXCEPT ![w] = "locked"]
      /\ UNCHANGED <<entry, refs, slot>> /\ pc[w] = "waiting"
      /\ pc \in [Writer -> Phases] /\ inside \in [1..2 -> Writer \cup {"nobody"}]
  BY <1>1 DEF Gets, Enter, Go, Typed, TypeOK
<1>3. /\ "locked" \in Phases /\ "locked" \in Using /\ "locked" \in Holding
      /\ "waiting" \in Using /\ "waiting" \notin Holding
  BY DEF Phases, Using, Holding
<1>4. Slotted' /\ OneEntry'
  BY <1>2, <1>3 DEF Locking, Slotted, OneEntry
<1>5. Counted'
  BY <1>2 DEF Locking, Counted, Users
<1>6. ASSUME NEW f \in 1..2, NEW v \in Writer
      PROVE  inside'[f] = v <=> slot'[v] = f /\ pc'[v] \in Holding
  <2>1. \A u \in Writer : ~(slot[u] = g /\ pc[u] \in Holding)
    BY <1>1 DEF Locking, Inside
  <2>2. inside[f] = v <=> slot[v] = f /\ pc[v] \in Holding
    BY DEF Locking, Inside
  <2> QED
    BY <1>1, <1>2, <1>3, <2>1, <2>2
<1> QED
  BY <1>2, <1>3, <1>4, <1>5, <1>6 DEF Locking, Inside

\* The one who tries finds no entry, or one with its channel free.
LEMMA TriesKeeps ==
  ASSUME "nobody" \notin Writer, Typed, Locking, NEW w \in Writer, Tries(w)
  PROVE  /\ Locking' /\ pc' \in [Writer -> Phases]
         /\ entry' \in 0..2 /\ refs' \in [1..2 -> Nat] /\ slot' \in [Writer -> 0..2]
         /\ inside' \in [1..2 -> Writer \cup {"nobody"}]
<1>1. /\ pc' = [pc EXCEPT ![w] = "locked"] /\ pc[w] \notin Using
      /\ slot[w] = 0 /\ pc \in [Writer -> Phases] /\ slot \in [Writer -> 0..2]
      /\ inside \in [1..2 -> Writer \cup {"nobody"}] /\ entry \in 0..2
  BY DEF Tries, Go, Locking, Slotted, Typed, TypeOK
<1>2. /\ entry' \in 1..2 /\ refs' \in [1..2 -> Nat] /\ slot' = [slot EXCEPT ![w] = entry']
      /\ entry = 0 \/ entry' = entry
      /\ entry = 0 => Users(entry') = {}
      /\ Counted' /\ OneEntry'
  BY <1>1, Acquires DEF Tries, Locking
<1>3. PICK g \in 1..2 : g = entry'
  BY <1>2
<1>4. inside' = [inside EXCEPT ![g] = w] /\ slot' = [slot EXCEPT ![w] = g]
  BY <1>1, <1>2, <1>3 DEF Tries
<1>5. /\ "locked" \in Phases /\ "locked" \in Using /\ "locked" \in Holding
      /\ pc[w] \notin Holding
  BY <1>1 DEF Phases, Using, Holding
<1>6. Slotted'
  BY <1>1, <1>3, <1>4, <1>5 DEF Locking, Slotted
<1>7. \A u \in Writer : ~(slot[u] = g /\ pc[u] \in Holding)
  <2>1. CASE entry = 0
    BY <1>2, <1>3, <2>1 DEF Users
  <2>2. CASE entry # 0
    <3>1. g = entry /\ inside[g] = "nobody"
      BY <1>2, <1>3, <2>2 DEF Tries
    <3> QED
      BY <3>1 DEF Locking, Inside
  <2> QED
    BY <2>1, <2>2
<1>8. ASSUME NEW f \in 1..2, NEW v \in Writer
      PROVE  inside'[f] = v <=> slot'[v] = f /\ pc'[v] \in Holding
  <2>1. inside[f] = v <=> slot[v] = f /\ pc[v] \in Holding
    BY DEF Locking, Inside
  <2> QED
    BY <1>1, <1>4, <1>5, <1>7, <2>1
<1> QED
  BY <1>1, <1>2, <1>4, <1>5, <1>6, <1>8 DEF Locking, Inside

\* The holder takes his token back before he stops using the entry.
LEMMA FreesKeeps ==
  ASSUME "nobody" \notin Writer, Typed, Locking, NEW w \in Writer, Frees(w)
  PROVE  /\ Locking' /\ pc' \in [Writer -> Phases]
         /\ entry' \in 0..2 /\ refs' \in [1..2 -> Nat] /\ slot' \in [Writer -> 0..2]
         /\ inside' \in [1..2 -> Writer \cup {"nobody"}]
<1>1. PICK g \in 1..2 : g = slot[w]
  BY DEF Frees, Locking, Slotted, Using, Typed, TypeOK
<1>2. PICK to \in Phases \ Using : pc' = [pc EXCEPT ![w] = to]
  BY DEF Frees, Go
<1>3. /\ inside' = [inside EXCEPT ![g] = "nobody"] /\ pc[w] \in Holding
      /\ releaseEntry(w) /\ slot[w] # 0
      /\ pc \in [Writer -> Phases] /\ inside \in [1..2 -> Writer \cup {"nobody"}]
      /\ slot \in [Writer -> 0..2]
  BY <1>1 DEF Frees, Unlock, Typed, TypeOK
<1>4. /\ entry' \in 0..2 /\ refs' \in [1..2 -> Nat] /\ slot' = [slot EXCEPT ![w] = 0]
      /\ Counted' /\ OneEntry'
  BY <1>3, Releases DEF Locking
<1>5. Slotted'
  BY <1>2, <1>3, <1>4 DEF Locking, Slotted
<1>6. ASSUME NEW f \in 1..2, NEW v \in Writer
      PROVE  inside'[f] = v <=> slot'[v] = f /\ pc'[v] \in Holding
  <2>1. inside[f] = v <=> slot[v] = f /\ pc[v] \in Holding
    BY DEF Locking, Inside
  <2>2. inside[g] = w
    BY <1>1, <1>3 DEF Locking, Inside
  <2>3. to \notin Holding
    BY DEF Using
  <2>4. CASE v = w
    BY <1>1, <1>2, <1>3, <1>4, <2>1, <2>2, <2>3, <2>4
  <2>5. CASE v # w
    BY <1>1, <1>2, <1>3, <1>4, <2>1, <2>2, <2>5
  <2> QED
    BY <2>4, <2>5
<1> QED
  BY <1>2, <1>3, <1>4, <1>5, <1>6 DEF Locking, Inside

\* The one who gives up has no token in the channel.
LEMMA QuitsKeeps ==
  ASSUME Typed, Locking, NEW w \in Writer, Quits(w)
  PROVE  /\ Locking' /\ pc' \in [Writer -> Phases]
         /\ entry' \in 0..2 /\ refs' \in [1..2 -> Nat] /\ slot' \in [Writer -> 0..2]
         /\ inside' \in [1..2 -> Writer \cup {"nobody"}]
<1>1. /\ "written" \in Phases /\ "written" \notin Using /\ "written" \notin Holding
      /\ "waiting" \in Using /\ "waiting" \notin Holding
  BY DEF Phases, Using, Holding
<1>2. /\ pc' = [pc EXCEPT ![w] = "written"] /\ pc[w] = "waiting" /\ UNCHANGED inside
      /\ releaseEntry(w) /\ slot[w] # 0
      /\ pc \in [Writer -> Phases] /\ inside \in [1..2 -> Writer \cup {"nobody"}]
      /\ slot \in [Writer -> 0..2]
  BY <1>1 DEF Quits, Go, Locking, Slotted, Typed, TypeOK
<1>3. /\ entry' \in 0..2 /\ refs' \in [1..2 -> Nat] /\ slot' = [slot EXCEPT ![w] = 0]
      /\ Counted' /\ OneEntry'
  BY <1>2, Releases DEF Locking
<1>4. Slotted'
  BY <1>1, <1>2, <1>3 DEF Locking, Slotted
<1>5. ASSUME NEW f \in 1..2, NEW v \in Writer
      PROVE  inside'[f] = v <=> slot'[v] = f /\ pc'[v] \in Holding
  <2>1. inside[f] = v <=> slot[v] = f /\ pc[v] \in Holding
    BY DEF Locking, Inside
  <2> QED
    BY <1>1, <1>2, <1>3, <2>1
<1> QED
  BY <1>1, <1>2, <1>3, <1>4, <1>5 DEF Locking, Inside

\* What the steps of a save are to the lock.
LEMMA SaveMoves ==
  ASSUME NEW b \in Save, SaveStep(b)
  PROVE  Stays(b) \/ Tries(b) \/ Frees(b)
<1>1. CASE Load(b)
  BY <1>1 DEF Load, Stays, Go, Phases, Using, Holding
<1>2. CASE PutFiles(b)
  BY <1>2 DEF PutFiles, Stays, Go, Phases, Using, Holding
<1>3. CASE TryLockPath(b)
  BY <1>3 DEF TryLockPath, Stays, Go, Phases, Using, Holding, Tries
<1>4. CASE CheckBase(b)
  BY <1>4 DEF CheckBase, Stays, Go, Phases, Using, Holding, Frees
<1>5. CASE Decide(b)
  BY <1>5 DEF Decide, Stays, Go, Phases, Using, Holding, Frees
<1>6. CASE CheckLatest(b)
  BY <1>6 DEF CheckLatest, Stays, Go, Phases, Using, Holding, Frees
<1>7. CASE SaveWrite(b)
  BY <1>7 DEF SaveWrite, Frees, Go, Phases, Using, Holding
<1>8. CASE WriteFails(b)
  BY <1>8 DEF WriteFails, Frees, Go, Phases, Using, Holding
<1> QED
  BY <1>1, <1>2, <1>3, <1>4, <1>5, <1>6, <1>7, <1>8 DEF SaveStep

\* What the steps of a call are to the lock.
LEMMA CallMoves ==
  ASSUME NEW a \in Call, CallStep(a)
  PROVE  \/ Stays(a) \/ Queues(a) \/ Gets(a) \/ Frees(a) \/ Quits(a)
         \/ UNCHANGED <<pc, lockVars>>
<1>1. CASE AskPermission(a)
  BY <1>1 DEF AskPermission, Stays, Go, Phases, Using, Holding
<1>2. CASE Answer(a)
  BY <1>2 DEF Answer, Stays, Go, Phases, Using, Holding
<1>3. CASE trackFileWriteStart(a)
  BY <1>3 DEF trackFileWriteStart, Stays, Go, Phases, Using, Holding
<1>4. CASE LockPath(a)
  BY <1>4 DEF LockPath, Queues, Go, Using, Holding, lockVars
<1>5. CASE LockTaken(a)
  BY <1>5 DEF LockTaken, Gets, Go
<1>6. CASE LockTimeout(a)
  BY <1>6 DEF LockTimeout, Quits, Go
<1>7. CASE ReadPrior(a)
  BY <1>7 DEF ReadPrior, Stays, Go, Phases, Using, Holding
<1>8. CASE ReadCurrent(a)
  BY <1>8 DEF ReadCurrent, Stays, Go, Phases, Using, Holding, Frees
<1>9. CASE WriteBack(a)
  BY <1>9 DEF WriteBack, Frees, Go, Phases, Using, Holding
<1>10. CASE WriteFails(a)
  <2>1. PICK to \in {"loaded", "written"} : Go(a, to)
    BY <1>10 DEF WriteFails
  <2> QED
    BY <1>10, <2>1 DEF WriteFails, Frees, Phases, Using, Holding
<1>11. CASE trackFileWriteResult(a)
  BY <1>11 DEF trackFileWriteResult, Stays, Go, Phases, Using, Holding
<1> QED
  BY <1>1, <1>2, <1>3, <1>4, <1>5, <1>6, <1>7, <1>8, <1>9, <1>10, <1>11 DEF CallStep

\* The lock is one writer's at a time, whatever they do.
LEMMA LockingStep ==
  ASSUME "nobody" \notin Writer, Typed, Locking, [Next]_vars
  PROVE  /\ Locking' /\ pc' \in [Writer -> Phases]
         /\ entry' \in 0..2 /\ refs' \in [1..2 -> Nat] /\ slot' \in [Writer -> 0..2]
         /\ inside' \in [1..2 -> Writer \cup {"nobody"}]
<1>1. /\ entry \in 0..2 /\ refs \in [1..2 -> Nat] /\ slot \in [Writer -> 0..2]
      /\ inside \in [1..2 -> Writer \cup {"nobody"}] /\ pc \in [Writer -> Phases]
  BY DEF Typed, TypeOK
<1>2. ASSUME UNCHANGED <<pc, lockVars>> PROVE Locking'
  BY <1>2 DEF lockVars, Locking, Slotted, Inside, Counted, OneEntry, Users
<1>3. ASSUME NEW w \in Writer,
             Stays(w) \/ Queues(w) \/ Gets(w) \/ Tries(w) \/ Frees(w) \/ Quits(w)
      PROVE  /\ Locking' /\ pc' \in [Writer -> Phases]
             /\ entry' \in 0..2 /\ refs' \in [1..2 -> Nat] /\ slot' \in [Writer -> 0..2]
             /\ inside' \in [1..2 -> Writer \cup {"nobody"}]
  <2>1. CASE Stays(w)
    <3>1. UNCHANGED lockVars
      BY <2>1 DEF Stays
    <3> QED
      BY <1>1, <2>1, <3>1, StaysKeeps DEF lockVars
  <2>2. CASE Queues(w)
    BY <2>2, QueuesKeeps
  <2>3. CASE Gets(w)
    <3>1. UNCHANGED <<entry, refs, slot>>
      BY <2>3 DEF Gets
    <3> QED
      BY <1>1, <2>3, <3>1, GetsKeeps
  <2>4. CASE Tries(w)
    BY <2>4, TriesKeeps
  <2>5. CASE Frees(w)
    BY <2>5, FreesKeeps
  <2>6. CASE Quits(w)
    BY <2>6, QuitsKeeps
  <2> QED
    BY <1>3, <2>1, <2>2, <2>3, <2>4, <2>5, <2>6
<1>4. CASE \E b \in Save : SaveStep(b)
  BY <1>3, <1>4, SaveMoves DEF Writer
<1>5. CASE \E a \in Call : CallStep(a)
  BY <1>1, <1>2, <1>3, <1>5, CallMoves DEF Writer, lockVars
<1>6. CASE (\E range \in {"all", "part"} : FileRead(range)) \/ Shell \/ UNCHANGED vars
  <2>1. UNCHANGED <<pc, lockVars>>
    BY <1>6 DEF FileRead, Shell, vars
  <2> QED
    BY <1>1, <1>2, <2>1 DEF lockVars
<1> QED
  BY <1>4, <1>5, <1>6 DEF Next

-----------------------------------------------------------------------------
(* Types, step by step.                                                    *)

\* The types of all but the lock and the program counters.
Rest == /\ {file, snap, known} \subseteq Content /\ ranged \subseteq {"all", "part"}
        /\ shells \in 0..MaxShell
        /\ base \in [Save -> Content] /\ seen \in [Writer -> Content]
        /\ whole \in BOOLEAN /\ confirm \subseteq Save
        /\ prompts \subseteq Call /\ activeWrites \subseteq Call

\* Contents, tabs and tracking keep their types.
LEMMA RestStep ==
  ASSUME MaxShell \in Nat, Typed, [Next]_vars
  PROVE  Rest'
<1> USE DEF Rest
<1>0. Rest /\ Save \subseteq Writer /\ Call \subseteq Writer
  BY DEF Typed, TypeOK, Writer
<1>1. ASSUME NEW b \in Save, SaveStep(b) PROVE Rest'
  <2>1. CASE Load(b)
    BY <1>0, <2>1 DEF Load, readVars, trackVars
  <2>2. CASE \/ PutFiles(b) \/ TryLockPath(b) \/ Decide(b) \/ CheckLatest(b) \/ WriteFails(b)
    BY <1>0, <2>2 DEF PutFiles, TryLockPath, Decide, CheckLatest, WriteFails,
                      readVars, tabVars, trackVars
  <2>3. CASE CheckBase(b)
    BY <1>0, <2>3 DEF CheckBase, readVars, tabVars, trackVars
  <2>4. CASE SaveWrite(b)
    <3>1. Next_(b) \in Content
      BY <1>0, NextContent
    <3> QED
      BY <1>0, <2>4, <3>1 DEF SaveWrite, tabVars, trackVars
  <2> QED
    BY <1>1, <2>1, <2>2, <2>3, <2>4 DEF SaveStep
<1>2. ASSUME NEW a \in Call, CallStep(a) PROVE Rest'
  <2>1. CASE \/ AskPermission(a) \/ Answer(a) \/ trackFileWriteStart(a) \/ trackFileWriteResult(a)
    BY <1>0, <2>1 DEF AskPermission, Answer, trackFileWriteStart, trackFileWriteResult,
                      readVars, tabVars
  <2>2. CASE \/ LockPath(a) \/ LockTaken(a) \/ LockTimeout(a) \/ WriteFails(a)
    BY <1>0, <2>2 DEF LockPath, LockTaken, LockTimeout, WriteFails, readVars, tabVars, trackVars
  <2>3. CASE ReadPrior(a) \/ ReadCurrent(a)
    BY <1>0, <2>3 DEF ReadPrior, ReadCurrent, readVars, tabVars, trackVars
  <2>4. CASE WriteBack(a)
    <3>1. Next_(a) \in Content
      BY <1>0, NextContent
    <3>2. /\ {file, snap, known}' \subseteq Content /\ ranged' = {}
          /\ UNCHANGED <<shells, base, seen, confirm, prompts, activeWrites>>
      BY <1>0, <2>4, <3>1 DEF WriteBack, tabVars, trackVars
    <3>3. whole' \in BOOLEAN
      BY <1>0, <2>4 DEF WriteBack
    <3> QED
      BY <1>0, <3>2, <3>3
  <2> QED
    BY <1>2, <2>1, <2>2, <2>3, <2>4 DEF CallStep
<1>3. ASSUME NEW range \in {"all", "part"}, FileRead(range) PROVE Rest'
  BY <1>0, <1>3 DEF FileRead, tabVars, trackVars
<1>4. CASE Shell
  <2>1. shells \in Nat /\ shells + 1 \in 0..MaxShell /\ shells + 1 \in Nat
    BY <1>0, <1>4 DEF Shell
  <2>2. [by |-> "shell", n |-> shells + 1] \in Content
    BY <2>1 DEF Content
  <2> QED
    BY <1>0, <1>4, <2>1, <2>2 DEF Shell, tabVars, trackVars
<1>5. CASE UNCHANGED vars
  BY <1>0, <1>5 DEF vars, readVars, tabVars, trackVars
<1> QED
  BY <1>1, <1>2, <1>3, <1>4, <1>5 DEF Next

-----------------------------------------------------------------------------
(* No write is lost.                                                       *)

\* He has read, and has yet to write.
Reading == {"deciding", "decided", "writing", "read"}

\* A step that leaves the file alone, or is the shell's.
LEMMA NoWriterWrote ==
  ASSUME NoWriteIsLost, UNCHANGED file \/ file'.by = "shell",
         \A v \in Writer : pc'[v] \in Reading =>
           (pc[v] \in Reading /\ seen'[v] = seen[v]) \/ seen'[v] = file'
  PROVE  NoWriteIsLost'
  BY DEF NoWriteIsLost, Reading, Writer, Call

\* The one who writes was the one who held the lock.
LEMMA HolderWrote ==
  ASSUME Typed, Locking, NEW w \in Writer, pc[w] \in Holding, NEW to, to \notin Reading,
         pc' = [pc EXCEPT ![w] = to]
  PROVE  NoWriteIsLost'
<1>1. \A v \in Writer : pc'[v] \notin Reading
  <2>1. ASSUME NEW v \in Writer, pc'[v] \in Reading PROVE FALSE
    <3>1. v # w /\ pc[v] \in Holding
      BY <2>1 DEF Typed, Reading, Holding
    <3> QED
      BY <3>1, OneHolder
  <2> QED
    BY <2>1
<1> QED
  BY <1>1 DEF NoWriteIsLost, Reading, Writer, Call

\* Every step leaves a reader with what he read, or the shell's writing.
LEMMA NoWriteIsLostStep ==
  ASSUME Typed, Locking, NoWriteIsLost, [Next]_vars
  PROVE  NoWriteIsLost'
<1>0. /\ pc \in [Writer -> Phases] /\ seen \in [Writer -> Content]
      /\ Save \subseteq Writer /\ Call \subseteq Writer
  BY DEF Typed, TypeOK, Writer
<1>1. ASSUME NEW w \in Writer, NEW to, Go(w, to), UNCHANGED <<file, seen>>,
             to \in Reading => pc[w] \in Reading
      PROVE  NoWriteIsLost'
  BY <1>0, <1>1, NoWriterWrote DEF Go
<1>2. ASSUME NEW w \in Writer, NEW to, Go(w, to), UNCHANGED file,
             seen' = [seen EXCEPT ![w] = file]
      PROVE  NoWriteIsLost'
  BY <1>0, <1>2, NoWriterWrote DEF Go
<1>3. ASSUME NEW b \in Save, SaveStep(b) PROVE NoWriteIsLost'
  <2>1. CASE Load(b) \/ PutFiles(b) \/ TryLockPath(b)
    BY <1>0, <1>1, <2>1 DEF Load, PutFiles, TryLockPath, Reading
  <2>2. CASE CheckBase(b)
    BY <1>0, <1>1, <1>2, <2>2 DEF CheckBase, Reading
  <2>3. CASE Decide(b) \/ CheckLatest(b)
    BY <1>0, <1>1, <2>3 DEF Decide, CheckLatest, Reading
  <2>4. CASE SaveWrite(b)
    BY <1>0, <2>4, HolderWrote DEF SaveWrite, Go, Holding, Reading
  <2>5. CASE WriteFails(b)
    BY <1>0, <1>1, <2>5 DEF WriteFails, Reading
  <2> QED
    BY <1>3, <2>1, <2>2, <2>3, <2>4, <2>5 DEF SaveStep
<1>4. ASSUME NEW a \in Call, CallStep(a) PROVE NoWriteIsLost'
  <2>1. CASE \/ AskPermission(a) \/ Answer(a) \/ trackFileWriteResult(a)
             \/ LockPath(a) \/ LockTaken(a) \/ LockTimeout(a) \/ WriteFails(a)
    BY <1>0, <1>1, <2>1 DEF AskPermission, Answer, trackFileWriteResult,
       LockPath, LockTaken, LockTimeout, WriteFails, Reading
  <2>2. CASE trackFileWriteStart(a)
    <3>1. UNCHANGED <<pc, file, seen>>
      BY <2>2 DEF trackFileWriteStart
    <3> QED
      BY <3>1, NoWriterWrote
  <2>3. CASE ReadPrior(a) \/ ReadCurrent(a)
    BY <1>0, <1>2, <2>3 DEF ReadPrior, ReadCurrent
  <2>4. CASE WriteBack(a)
    BY <1>0, <2>4, HolderWrote DEF WriteBack, Go, Holding, Reading
  <2> QED
    BY <1>4, <2>1, <2>2, <2>3, <2>4 DEF CallStep
<1>5. CASE (\E range \in {"all", "part"} : FileRead(range)) \/ UNCHANGED vars
  <2>1. UNCHANGED <<pc, file, seen>>
    BY <1>5 DEF FileRead, vars
  <2> QED
    BY <2>1, NoWriterWrote
<1>6. CASE Shell
  <2>1. UNCHANGED <<pc, seen>> /\ file'.by = "shell"
    BY <1>6 DEF Shell
  <2> QED
    BY <2>1, NoWriterWrote
<1> QED
  BY <1>3, <1>4, <1>5, <1>6 DEF Next

-----------------------------------------------------------------------------
(* The theorems.                                                           *)

\* At first nobody uses the lock and nobody has read.
LEMMA InitInvariant == ASSUME "nobody" \notin Writer, MaxShell \in Nat, Init PROVE IInv
<1>1. \A w \in Writer : slot[w] = 0 /\ pc[w] = "idle"
  BY DEF Init
<1>2. \A g \in 1..2 : inside[g] = "nobody" /\ refs[g] = 0
  BY DEF Init
<1>3. \A g \in 1..2 : Users(g) = {}
  BY <1>1 DEF Users
<1>4. Slotted /\ OneEntry /\ Inside
  BY <1>1, <1>2 DEF Slotted, OneEntry, Inside, Using, Holding
<1>5. Counted
  BY <1>2, <1>3, FS_EmptySet DEF Counted
<1>6. NoWriteIsLost
  BY <1>1 DEF NoWriteIsLost, Writer, Call
<1> QED
  BY <1>4, <1>5, <1>6, InitTyped DEF IInv, Locking

\* Every step keeps the invariant.
LEMMA Inductive ==
  ASSUME "nobody" \notin Writer, MaxShell \in Nat, IInv, [Next]_vars
  PROVE  IInv'
<1>1. Locking' /\ NoWriteIsLost'
  BY LockingStep, NoWriteIsLostStep DEF IInv
<1>2. Typed'
  <2>1. Rest'
    BY RestStep DEF IInv
  <2>2. /\ pc' \in [Writer -> Phases]
        /\ entry' \in 0..2 /\ refs' \in [1..2 -> Nat] /\ slot' \in [Writer -> 0..2]
        /\ inside' \in [1..2 -> Writer \cup {"nobody"}]
    BY LockingStep DEF IInv
  <2> QED
    BY <2>1, <2>2 DEF Rest, Typed, TypeOK
<1> QED
  BY <1>1, <1>2 DEF IInv

\* Every variable keeps its type (handler_files.go, filewrite, fileedit, lock.go).
THEOREM EditTypes ==
  ASSUME "nobody" \notin Writer, MaxShell \in Nat
  PROVE  Spec => []TypeOK
<1>1. Init => IInv
  BY InitInvariant
<1>2. IInv /\ [Next]_vars => IInv'
  BY Inductive
<1>3. IInv => TypeOK
  BY DEF IInv, Typed
<1> QED
  BY <1>1, <1>2, <1>3, PTL DEF Spec

\* What a save or an edit is about to replace is what it read, unless the
\* shell, which takes no lock, came between (LockPath, TryLockPath).
THEOREM NothingOverwritten ==
  ASSUME "nobody" \notin Writer, MaxShell \in Nat
  PROVE  Spec => []NoWriteIsLost
<1>1. Init => IInv
  BY InitInvariant
<1>2. IInv /\ [Next]_vars => IInv'
  BY Inductive
<1>3. IInv => NoWriteIsLost
  BY DEF IInv
<1> QED
  BY <1>1, <1>2, <1>3, PTL DEF Spec

-----------------------------------------------------------------------------
(* Editor.  What is in the textarea and what it is held against are texts  *)
(* the user has seen or written (Told), wherever they are carried (Carried); *)
(* the mark of the front tab and the state of the editor agree with it     *)
(* (Fits), and the saves of a tab are counted by its state (Single).       *)

EditorAssumption == MaxTexts \in Nat \ {0} /\ MaxOpens \in Nat

Texts == 0..MaxTexts
NoText == Editor!None
NoCard == Editor!NoConfirm

Tabs == [open : BOOLEAN, front : BOOLEAN, dirty : BOOLEAN, content : Texts, sha : Texts,
         error : BOOLEAN]
Cards == [content : Texts, base : Texts]
Drafts == [here : BOOLEAN, ta : Texts, saved : Texts, seen : Texts, base : Texts,
           stale : BOOLEAN, changed : BOOLEAN, conflict : BOOLEAN, diff : Texts,
           saving : BOOLEAN, confirm : Cards]
Asks == [kind : {"load", "save", "reload", "diff", "overwrite"}, gen : Nat, content : Texts,
         base : Texts, confirmed : BOOLEAN,
         answer : {"none", "ok", "failed", "conflict", "confirm"}, text : Texts]
News == [what : {"written", "saved"}, sha : Texts]
Hashes == [sha : Texts, held : Texts, old : Texts, gen : Nat]

\* Every variable has its type.
EditorTyped ==
  /\ disk \in Editor!Text /\ texts \in Editor!Text /\ tab \in Tabs /\ ed \in Drafts
  /\ gen \in 0..MaxOpens /\ gen \in Nat
  /\ loading \in BOOLEAN /\ again \in BOOLEAN
  /\ requests \subseteq Asks /\ events \in Seq(News) /\ hashing \in Seq(Hashes)
  /\ shown \subseteq Editor!Text /\ typed \subseteq Editor!Text

Ours == shown \cup typed

\* A tab and its editor: what it shows, and that its mark is true.
Fits(t, e) ==
  /\ t.front => t.open
  /\ e.here => t.open /\ t.content # NoText
  /\ e.here /\ t.front /\ Editor!claims(t) => e.seen = t.content /\ t.dirty = Editor!Draft(e)
  /\ e.here /\ ~e.stale => e.seen = e.saved

\* Their texts are among those the user has seen, or has seen or written.
Told(t, e, viewed, ours) ==
  /\ e.here => /\ e.saved \in viewed /\ e.diff \in viewed \cup {NoText}
               /\ e.ta \in ours /\ e.base \in ours
  /\ e.here /\ e.confirm # NoCard => e.confirm.content \in ours /\ e.confirm.base \in ours
  /\ t.sha \in ours \cup {t.content}

\* So are those on their way.
Carried ==
  /\ \A r \in requests : r.kind = "save" => r.content \in Ours /\ r.base \in Ours
  /\ \A r \in requests : r.answer = "ok" => r.text \in Editor!Text
  /\ \A r \in requests : r.answer = "ok" /\ r.kind = "save" => r.text = r.content
  /\ \A i \in 1..Len(events) : events[i].what = "saved" => events[i].sha \in Ours
  /\ \A i \in 1..Len(hashing) : hashing[i].sha \in Ours

Own == {r \in requests : r.kind = "save" /\ r.gen = gen}

\* The saves of this opening of the tab.
Single ==
  /\ \A r \in requests : r.gen <= gen
  /\ \A r, s \in Own : r = s
  /\ ed.here => (ed.saving <=> Own # {}) /\ (ed.confirm # NoCard => Own = {})
  /\ ~ed.here /\ tab.open => Own = {}

EditorInv ==
  /\ EditorTyped /\ Fits(tab, ed) /\ Told(tab, ed, shown, Ours) /\ Carried /\ Single /\ ~lost

\* What rendering does to the editor of a tab.
LEMMA RenderMeans ==
  ASSUME EditorAssumption, NEW t \in Tabs, NEW e \in Drafts, Editor!claims(t),
         e.here /\ ~e.stale => e.seen = e.saved,
         NEW d, d = Editor!render(t, e)
  PROVE  /\ d \in Drafts /\ d.here /\ d.seen = t.content /\ t.content # NoText
         /\ d.saving <=> e.here /\ e.saving
         /\ d.confirm = IF e.here THEN e.confirm ELSE NoCard
         /\ d.diff = IF e.here THEN e.diff ELSE NoText
         /\ IF d.stale THEN e.here /\ d.base = e.base /\ d.saved = e.saved
                       ELSE d.base = t.sha /\ d.saved = t.content
         /\ \/ e.here /\ d.saved = e.saved /\ d.ta = e.ta
            \/ d.saved = t.content /\ d.ta = t.content
         /\ Editor!Draft(e) => d.ta = e.ta
         /\ e.here /\ e.seen = t.content => d.ta = e.ta /\ d.saved = e.saved
<1>0. 0 \in Texts /\ NoCard \in Cards /\ NoText = 0
  BY DEF EditorAssumption, Texts, NoCard, Cards, Editor!NoConfirm, Editor!None, NoText
<1> DEFINE now == Editor!stateOf(t, e)
           new == IF t.content # now.seen THEN Editor!Refreshed(t, now) ELSE now
<1>1. d = [new EXCEPT !.base = Editor!Base(t, new)]
  BY DEF Editor!render
<1>2. /\ now \in Drafts /\ now.here
      /\ e.here => now = e
      /\ ~e.here => /\ now.ta = t.content /\ now.saved = t.content /\ now.seen = t.content
                    /\ now.base = t.sha /\ ~now.stale /\ ~now.saving /\ now.confirm = NoCard
                    /\ now.diff = NoText
  BY <1>0 DEF Editor!stateOf, Editor!NoEditor, Drafts, Tabs, Editor!None, NoCard, NoText
<1> HIDE DEF now
<1>6. t.content \in Texts /\ t.sha \in Texts
  BY DEF Tabs
<1>3. CASE t.content = now.seen
  <2>1. new = now
    BY <1>3
  <2>2. d = [now EXCEPT !.base = IF now.stale THEN now.base ELSE t.sha]
    BY <1>1, <2>1 DEF Editor!Base
  <2>3. d \in Drafts
    BY <1>2, <1>6, <2>2 DEF Drafts
  <2> QED
    BY <1>2, <1>3, <2>2, <2>3 DEF Editor!claims, Editor!Draft, NoText, Drafts
<1>4. CASE t.content # now.seen /\ Editor!Draft(now)
  <2>1. new = [now EXCEPT !.seen = t.content, !.changed = TRUE, !.stale = TRUE]
    BY <1>4 DEF Editor!Refreshed
  <2> HIDE DEF new
  <2>2. new \in Drafts /\ new.stale
    BY <1>2, <1>6, <2>1 DEF Drafts
  <2>4. d = new
    BY <1>1, <2>2 DEF Editor!Base, Drafts
  <2>3. e.here
    BY <1>2, <1>4
  <2> QED
    BY <1>2, <1>4, <2>1, <2>2, <2>3, <2>4 DEF Editor!claims, Editor!Draft, NoText, Drafts
<1>5. CASE t.content # now.seen /\ ~Editor!Draft(now)
  <2>1. new = [now EXCEPT !.seen = t.content, !.saved = t.content, !.ta = t.content,
                          !.changed = FALSE, !.stale = FALSE]
    BY <1>5 DEF Editor!Refreshed
  <2> HIDE DEF new
  <2>2. new \in Drafts /\ ~new.stale
    BY <1>2, <1>6, <2>1 DEF Drafts
  <2>4. d = [new EXCEPT !.base = t.sha]
    BY <1>1, <2>2 DEF Editor!Base
  <2>5. d \in Drafts
    BY <1>6, <2>2, <2>4 DEF Drafts
  <2>3. e.here
    BY <1>2, <1>5
  <2> QED
    BY <1>2, <1>5, <2>1, <2>2, <2>3, <2>4, <2>5 DEF Editor!claims, Editor!Draft, NoText, Drafts
<1> QED
  BY <1>3, <1>4, <1>5

\* A tab and its editor as they may be published: what they show is the user's once
\* it is shown.
Ready(t, e) ==
  /\ t \in Tabs /\ e \in Drafts /\ (t.front => t.open)
  /\ e.here => t.open /\ t.content # NoText
  /\ e.here /\ ~e.stale => e.seen = e.saved
  /\ e.here => /\ e.saved \in Editor!Text
               /\ e.ta \in Ours \cup {e.saved} /\ e.base \in Ours \cup {e.saved}
  /\ e.here /\ e.confirm # NoCard => e.confirm.content \in Ours /\ e.confirm.base \in Ours
  /\ t.sha \in Ours \cup {t.content}

\* Publishing leaves them so, and no draft goes.
LEMMA Published ==
  ASSUME EditorAssumption, EditorTyped, NEW t, NEW e, Ready(t, e),
         Editor!Publish(t, e) \/ Editor!Patch(t, e), Editor!Sees
  PROVE  /\ tab' \in Tabs /\ ed' \in Drafts /\ shown' \subseteq Editor!Text
         /\ Fits(tab', ed') /\ Told(tab', ed', shown', shown' \cup typed')
         /\ shown \subseteq shown' /\ typed' = typed /\ tab'.open = t.open
         /\ e.here => /\ ed'.here /\ (ed'.saving <=> e.saving) /\ ed'.confirm = e.confirm
         /\ ~e.here /\ ed'.here => t.open /\ ~ed'.saving /\ ed'.confirm = NoCard
         /\ Editor!Draft(e) => ed'.ta = e.ta
         /\ e.here /\ e.seen = t.content => ed'.ta = e.ta
<1> USE DEF Ready
<1>0. /\ Editor!Text \subseteq Texts /\ NoText = 0 /\ NoText \notin Editor!Text
      /\ Editor!Text = Texts \ {NoText} /\ Editor!None = NoText
  BY DEF EditorAssumption, Editor!Text, Texts, Editor!None, NoText
<1>1. CASE t.front /\ Editor!claims(t)
  <2> DEFINE d == Editor!render(t, e)
  <2>1. ed' = d /\ tab' = [t EXCEPT !.dirty = Editor!Draft(d)]
    BY <1>1 DEF Editor!Publish, Editor!Patch
  <2>2. /\ d \in Drafts /\ d.here /\ d.seen = t.content /\ t.content # NoText
        /\ d.saving <=> e.here /\ e.saving
        /\ d.confirm = IF e.here THEN e.confirm ELSE NoCard
        /\ d.diff = IF e.here THEN e.diff ELSE NoText
        /\ IF d.stale THEN e.here /\ d.base = e.base /\ d.saved = e.saved
                      ELSE d.base = t.sha /\ d.saved = t.content
        /\ \/ e.here /\ d.saved = e.saved /\ d.ta = e.ta
           \/ d.saved = t.content /\ d.ta = t.content
        /\ Editor!Draft(e) => d.ta = e.ta
        /\ e.here /\ e.seen = t.content => d.ta = e.ta /\ d.saved = e.saved
    BY <1>1, RenderMeans
  <2> HIDE DEF d
  <2>3. tab' \in Tabs
    BY <2>1, <2>2 DEF Tabs, Editor!Draft, Drafts
  <2>4. /\ tab'.open = t.open /\ tab'.front = t.front /\ tab'.content = t.content
        /\ tab'.sha = t.sha /\ tab'.error = t.error /\ tab'.dirty = Editor!Draft(d)
    BY <2>1 DEF Tabs
  <2>5. Editor!claims(tab') <=> Editor!claims(t)
    BY <2>4 DEF Editor!claims
  <2>6. d.saved \in Editor!Text /\ d.diff \in Texts /\ t.content \in Texts
    BY <1>0, <2>2 DEF Tabs, Drafts
  <2>7. /\ shown' = shown \cup ({d.saved, d.diff} \ {NoText}) /\ typed' = typed
    BY <1>0, <2>1, <2>2 DEF Editor!Sees
  <2>8. /\ shown' \subseteq Editor!Text /\ shown \subseteq shown' /\ d.saved \in shown'
        /\ d.diff \in shown' \cup {NoText} /\ Ours \subseteq shown' \cup typed'
    BY <1>0, <2>6, <2>7 DEF EditorTyped, Ours
  <2>9. Fits(tab', ed')
    BY <1>1, <2>1, <2>2, <2>4, <2>5 DEF Fits
  <2>10. d.ta \in shown' \cup typed' /\ d.base \in shown' \cup typed'
    BY <2>2, <2>8
  <2>11. Told(tab', ed', shown', shown' \cup typed')
    BY <2>1, <2>2, <2>4, <2>8, <2>10 DEF Told
  <2> QED
    BY <1>1, <2>1, <2>2, <2>3, <2>4, <2>7, <2>8, <2>9, <2>11
<1>2. CASE ~(t.front /\ Editor!claims(t))
  <2>1. tab' = t /\ ed' = e
    BY <1>2 DEF Editor!Publish, Editor!Patch
  <2>2. /\ shown' = shown \cup (IF e.here THEN {e.saved, e.diff} \ {NoText} ELSE {})
        /\ typed' = typed
    BY <1>0, <2>1 DEF Editor!Sees
  <2>3. e.diff \in Texts
    BY DEF Drafts
  <2>4. /\ shown' \subseteq Editor!Text /\ shown \subseteq shown'
        /\ e.here => e.saved \in shown' /\ e.diff \in shown' \cup {NoText}
        /\ Ours \subseteq shown' \cup typed'
    BY <1>0, <2>2, <2>3 DEF EditorTyped, Ours
  <2>5. Fits(tab', ed')
    BY <1>2, <2>1 DEF Fits
  <2>6. Told(tab', ed', shown', shown' \cup typed')
    BY <2>1, <2>4 DEF Told
  <2> QED
    BY <2>1, <2>2, <2>4, <2>5, <2>6
<1> QED
  BY <1>1, <1>2

\* A load adds at most a request that is no save.
LEMMA LoadAdds ==
  ASSUME EditorAssumption, EditorTyped, NEW rest \in SUBSET Asks, Editor!Load(rest)
  PROVE  /\ requests' \subseteq Asks /\ rest \subseteq requests'
         /\ loading' \in BOOLEAN /\ again' \in BOOLEAN
         /\ \A r \in requests' :
              r \in rest \/ (r.kind = "load" /\ r.gen = gen /\ r.answer = "none")
<1> DEFINE r0 == Editor!Request("load", Editor!None, Editor!None, FALSE)
<1>1. Editor!None \in Texts
  BY DEF EditorAssumption, Texts, Editor!None
<1>2. r0 \in Asks /\ r0.kind = "load" /\ r0.gen = gen /\ r0.answer = "none"
  BY <1>1 DEF Editor!Request, Asks, EditorTyped
<1> HIDE DEF r0
<1>3. /\ requests' = rest \/ requests' = rest \cup {r0}
      /\ loading' \in BOOLEAN /\ again' \in BOOLEAN
  BY DEF Editor!Load, EditorTyped, r0
<1> QED
  BY <1>2, <1>3

\* What is left of a sequence was in it.
LEMMA TailWas ==
  ASSUME NEW S, NEW s \in Seq(S), s # <<>>
  PROVE  /\ Head(s) \in S /\ 1 \in 1..Len(s) /\ Head(s) = s[1] /\ Tail(s) \in Seq(S)
         /\ \A i \in 1..Len(Tail(s)) : \E j \in 1..Len(s) : Tail(s)[i] = s[j]
<1>1. Len(s) \in Nat \ {0}
  BY EmptySeq
<1>2. \A i \in 1..Len(Tail(s)) : i + 1 \in 1..Len(s) /\ Tail(s)[i] = s[i + 1]
  BY <1>1, HeadTailProperties
<1> QED
  BY <1>1, <1>2, HeadTailProperties

\* What is carried stays, if no save and no answer is new.
LEMMA CarriedOn ==
  ASSUME EditorTyped, Carried, Ours \subseteq Ours',
         \A r \in requests' : r \in requests \/ (r.kind # "save" /\ r.answer # "ok"),
         events' = events \/ (events # <<>> /\ events' = Tail(events)),
         hashing' = hashing \/ (hashing # <<>> /\ hashing' = Tail(hashing))
  PROVE  Carried' /\ events' \in Seq(News) /\ hashing' \in Seq(Hashes)
<1>1. /\ \A r \in requests' : r.kind = "save" => r.content \in Ours' /\ r.base \in Ours'
      /\ \A r \in requests' : r.answer = "ok" => r.text \in Editor!Text
      /\ \A r \in requests' : r.answer = "ok" /\ r.kind = "save" => r.text = r.content
  BY DEF Carried
<1>2. /\ events' \in Seq(News)
      /\ \A i \in 1..Len(events') : events'[i].what = "saved" => events'[i].sha \in Ours'
  <2>1. CASE events' = events
    BY <2>1 DEF Carried, EditorTyped
  <2>2. CASE events # <<>> /\ events' = Tail(events)
    <3>1. events \in Seq(News)
      BY DEF EditorTyped
    <3>2. /\ events' \in Seq(News)
          /\ \A i \in 1..Len(events') : \E j \in 1..Len(events) : events'[i] = events[j]
      BY <2>2, <3>1, TailWas
    <3> QED
      BY <3>2 DEF Carried
  <2> QED
    BY <2>1, <2>2
<1>3. /\ hashing' \in Seq(Hashes)
      /\ \A i \in 1..Len(hashing') : hashing'[i].sha \in Ours'
  <2>1. CASE hashing' = hashing
    BY <2>1 DEF Carried, EditorTyped
  <2>2. CASE hashing # <<>> /\ hashing' = Tail(hashing)
    <3>1. hashing \in Seq(Hashes)
      BY DEF EditorTyped
    <3>2. /\ hashing' \in Seq(Hashes)
          /\ \A i \in 1..Len(hashing') : \E j \in 1..Len(hashing) : hashing'[i] = hashing[j]
      BY <2>2, <3>1, TailWas
    <3> QED
      BY <3>2 DEF Carried
  <2> QED
    BY <2>1, <2>2
<1> QED
  BY <1>1, <1>2, <1>3 DEF Carried, Editor!Text

\* So are the saves counted, if none comes or goes.
LEMMA SingleOn ==
  ASSUME EditorTyped, Single, gen' = gen,
         \A r \in requests : r.kind = "save" => r \in requests',
         \A r \in requests' : r \in requests \/ (r.kind # "save" /\ r.gen = gen),
         tab'.open => tab.open,
         ed.here => ed'.here /\ (ed'.saving <=> ed.saving) /\ ed'.confirm = ed.confirm,
         ~ed.here /\ ed'.here => tab.open /\ ~ed'.saving /\ ed'.confirm = NoCard
  PROVE  Single'
<1>1. \A r \in requests' : r.gen <= gen'
  BY DEF Single, EditorTyped
<1>2. Own' = Own
  BY DEF Own
<1>3. NoCard' = NoCard
  BY DEF NoCard, Editor!NoConfirm, Editor!None
<1> QED
  BY <1>1, <1>2, <1>3 DEF Single

\* The parts are the whole.
LEMMA EditorWhole ==
  ASSUME EditorInv,
         disk' \in Editor!Text, texts' \in Editor!Text, gen' \in 0..MaxOpens, gen' \in Nat,
         tab' \in Tabs, ed' \in Drafts,
         loading' \in BOOLEAN, again' \in BOOLEAN, requests' \subseteq Asks,
         events' \in Seq(News), hashing' \in Seq(Hashes),
         shown' \subseteq Editor!Text, typed' \subseteq Editor!Text,
         Fits(tab', ed'), Told(tab', ed', shown', shown' \cup typed'), Carried', Single', ~lost'
  PROVE  EditorInv'
<1>1. EditorTyped'
  BY DEF EditorInv, EditorTyped, Texts, Tabs, Cards, Drafts, Asks, News, Hashes, Editor!Text
<1>2. Fits(tab, ed)' /\ Told(tab, ed, shown, Ours)'
  BY DEF Ours
<1> QED
  BY <1>1, <1>2 DEF EditorInv

\* What is ready while nothing is changed.
LEMMA AlwaysReady ==
  ASSUME EditorAssumption, EditorInv
  PROVE  /\ Ready(tab, ed)
         /\ Editor!Text \subseteq Texts /\ NoText = 0 /\ NoText \notin Editor!Text
         /\ Editor!None = NoText /\ NoText \in Texts /\ gen \in Nat
<1>1. /\ Editor!Text \subseteq Texts /\ NoText = 0 /\ NoText \notin Editor!Text
      /\ Editor!None = NoText /\ NoText \in Texts /\ gen \in Nat
  BY DEF EditorInv, EditorTyped, EditorAssumption, Editor!Text, Texts, Editor!None, NoText
<1>2. tab \in Tabs /\ ed \in Drafts /\ shown \subseteq Editor!Text
  BY DEF EditorInv, EditorTyped
<1>3. Ready(tab, ed)
  BY <1>2 DEF EditorInv, Ready, Fits, Told
<1> QED
  BY <1>1, <1>3

\* tabs.js: a tab is opened, left, and closed.
LEMMA TabsMove ==
  ASSUME EditorAssumption, EditorInv, Editor!Open \/ Editor!Leave \/ Editor!Close
  PROVE  EditorInv'
<1> USE DEF EditorInv
<1>0. /\ Ready(tab, ed) /\ NoText \in Texts /\ Editor!None = NoText /\ gen \in Nat
      /\ NoText \notin Editor!Text
  BY AlwaysReady
<1>1. CASE Editor!Open
  <2>1. /\ tab' = [Editor!NoTab EXCEPT !.open = TRUE, !.front = TRUE] /\ ed' = ed /\ ~ed.here
        /\ gen' = gen + 1 /\ gen < MaxOpens
        /\ UNCHANGED <<disk, texts, events, hashing, shown, typed, lost>>
    BY <1>1 DEF Editor!Open, Editor!diskVars, Editor!pageVars, Editor!history, Fits
  <2>2. /\ requests' \subseteq Asks /\ requests \subseteq requests'
        /\ loading' \in BOOLEAN /\ again' \in BOOLEAN
        /\ \A r \in requests' :
             r \in requests \/ (r.kind = "load" /\ r.gen = gen /\ r.answer = "none")
    BY <1>1, LoadAdds DEF Editor!Open, Editor!viewVars, EditorTyped
  <2>3. tab' \in Tabs /\ tab'.content = NoText /\ tab'.sha = NoText
    BY <1>0, <2>1 DEF Editor!NoTab, Tabs
  <2>4. Carried'
    BY <2>1, <2>2, CarriedOn DEF Ours
  <2>5. gen' \in Nat /\ gen' \in 0..MaxOpens
    BY <1>0, <2>1 DEF EditorAssumption
  <2>6. Single'
    <3>1. \A r \in requests' : r.gen <= gen /\ r.gen \in Nat
      BY <1>0, <2>2 DEF Single, Asks
    <3>2. Own' = {}
      BY <1>0, <2>1, <3>1 DEF Own
    <3> QED
      BY <1>0, <2>1, <3>1, <3>2 DEF Single
  <2>7. Fits(tab', ed') /\ Told(tab', ed', shown', shown' \cup typed')
    BY <2>1, <2>3 DEF Fits, Told, Editor!NoTab
  <2> QED
    BY <2>1, <2>2, <2>3, <2>4, <2>5, <2>6, <2>7, EditorWhole DEF EditorTyped
<1>2. CASE Editor!Leave
  <2>1. /\ tab' = [tab EXCEPT !.front = FALSE]
        /\ UNCHANGED <<disk, texts, ed, gen, loading, again, requests, events, hashing, shown,
                       typed, lost>>
    BY <1>2 DEF Editor!Leave, Editor!diskVars, Editor!viewVars, Editor!pageVars, Editor!history
  <2>2. tab' \in Tabs /\ Fits(tab', ed') /\ Told(tab', ed', shown', shown' \cup typed')
        /\ tab'.open = tab.open
    BY <2>1 DEF EditorTyped, Fits, Told, Tabs, Ours
  <2>3. Carried' /\ Single'
    BY <2>1, <2>2 DEF Carried, Single, Own, Ours
  <2> QED
    BY <2>1, <2>2, <2>3, EditorWhole DEF EditorTyped
<1>3. CASE Editor!Close
  <2>1. /\ tab' = Editor!NoTab /\ ed' = Editor!NoEditor
        /\ UNCHANGED <<disk, texts, gen, loading, again, requests, events, hashing, shown, typed>>
    BY <1>3 DEF Editor!Close, Editor!diskVars, Editor!viewVars, Editor!pageVars
  <2>2. /\ tab' \in Tabs /\ ed' \in Drafts /\ ~ed'.here /\ ~tab'.open
    BY <1>0, <2>1 DEF Editor!NoTab, Tabs, Editor!NoEditor, Drafts, Cards, Editor!NoConfirm
  <2>3. Fits(tab', ed') /\ Told(tab', ed', shown', shown' \cup typed')
    BY <2>1, <2>2 DEF Fits, Told, Editor!NoTab
  <2>4. Carried' /\ Single'
    BY <2>1, <2>2 DEF Carried, Single, Own, Ours
  <2>5. ~lost'
    BY <1>3 DEF Editor!Close, Editor!Unkept, Editor!Draft, Fits
  <2> QED
    BY <2>1, <2>2, <2>3, <2>4, <2>5, EditorWhole DEF EditorTyped
<1> QED
  BY <1>1, <1>2, <1>3

\* A tab is shown again, or its loading is tried again.
LEMMA TabsShow ==
  ASSUME EditorAssumption, EditorInv, Editor!Select \/ Editor!Retry
  PROVE  EditorInv'
<1> USE DEF EditorInv
<1>0. Ready(tab, ed)
  BY AlwaysReady
<1>1. PICK t : /\ t = [tab EXCEPT !.front = TRUE] \/ t = [tab EXCEPT !.error = FALSE]
               /\ Editor!Publish(t, ed) /\ Editor!Sees /\ Editor!Keeps /\ tab.open
  BY DEF Editor!Select, Editor!Retry, Fits
<1>2. Ready(t, ed) /\ t.open /\ t.content = tab.content
  BY <1>0, <1>1 DEF Ready, Tabs
<1>3. /\ tab' \in Tabs /\ ed' \in Drafts /\ shown' \subseteq Editor!Text
      /\ Fits(tab', ed') /\ Told(tab', ed', shown', shown' \cup typed')
      /\ shown \subseteq shown' /\ typed' = typed /\ tab'.open = t.open
      /\ ed.here => /\ ed'.here /\ (ed'.saving <=> ed.saving) /\ ed'.confirm = ed.confirm
      /\ ~ed.here /\ ed'.here => t.open /\ ~ed'.saving /\ ed'.confirm = NoCard
      /\ Editor!Draft(ed) => ed'.ta = ed.ta
  BY <1>1, <1>2, Published
<1>4. ~lost'
  BY <1>1, <1>3 DEF Editor!Keeps, Editor!Unkept
<1>5. UNCHANGED <<disk, texts, gen, events, hashing>>
  BY DEF Editor!Select, Editor!Retry, Editor!diskVars, Editor!pageVars
<1>6. /\ requests' \subseteq Asks /\ requests \subseteq requests'
      /\ loading' \in BOOLEAN /\ again' \in BOOLEAN
      /\ \A r \in requests' :
           r \in requests \/ (r.kind = "load" /\ r.gen = gen /\ r.answer = "none")
  BY LoadAdds DEF Editor!Select, Editor!Retry, Editor!viewVars, EditorTyped
<1>7. Carried'
  BY <1>3, <1>5, <1>6, CarriedOn DEF Ours
<1>8. Single'
  BY <1>1, <1>2, <1>3, <1>5, <1>6, SingleOn
<1> QED
  BY <1>3, <1>4, <1>5, <1>6, <1>7, <1>8, EditorWhole DEF EditorTyped

\* A save is sent where none is.
LEMMA SaveSent ==
  ASSUME EditorTyped, Single, ed.here, ~ed.saving, gen' = gen, NEW r0,
         r0.kind = "save", r0.gen = gen, NEW rest \in SUBSET requests,
         requests' = rest \cup {r0}, ed'.here, ed'.saving, ed'.confirm = NoCard
  PROVE  Single'
<1>1. Own = {}
  BY DEF Single
<1>2. gen \in Nat
  BY DEF EditorTyped
<1>3. \A r \in requests' : r.gen <= gen'
  BY <1>2 DEF Single
<1>4. Own' = {r0}
  BY <1>1 DEF Own
<1>5. NoCard' = NoCard
  BY DEF NoCard, Editor!NoConfirm, Editor!None
<1> QED
  BY <1>3, <1>4, <1>5 DEF Single

\* What is carried, when one more request is sent.
LEMMA SentCarried ==
  ASSUME Carried, UNCHANGED <<events, hashing, shown, typed>>, NEW r0, r0.answer = "none",
         r0.kind = "save" => r0.content \in Ours /\ r0.base \in Ours,
         NEW rest \in SUBSET requests, requests' = rest \cup {r0}
  PROVE  Carried'
  BY DEF Carried, Ours, Editor!Text

\* editor.js: the user types.
LEMMA UserTypes ==
  ASSUME EditorAssumption, EditorInv, Editor!Type
  PROVE  EditorInv'
<1> USE DEF EditorInv
<1>0. /\ Ready(tab, ed) /\ NoText \notin Editor!Text /\ Editor!Text \subseteq Texts
      /\ ed.here /\ tab.front /\ Editor!claims(tab) /\ ed.seen = tab.content
      /\ shown \subseteq Editor!Text /\ typed \subseteq Editor!Text
  BY AlwaysReady DEF Editor!Type, Editor!Editing, Fits, EditorTyped
<1>1. PICK x : /\ \/ x = texts + 1 /\ texts' = x /\ texts < MaxTexts /\ typed' = typed \cup {x}
                  \/ x = ed.saved /\ UNCHANGED <<texts, typed>>
               /\ Editor!Publish(tab, [ed EXCEPT !.ta = x])
  BY DEF Editor!Type
<1>2. /\ UNCHANGED <<disk, gen, loading, again, requests, events, hashing, shown, lost>>
  BY DEF Editor!Type, Editor!viewVars, Editor!pageVars
<1>3. /\ texts' \in Editor!Text /\ typed' \subseteq Editor!Text /\ x \in Editor!Text
      /\ x \in shown \cup typed' /\ typed \subseteq typed'
  BY <1>0, <1>1 DEF Editor!Text, EditorTyped, EditorAssumption, Told
<1> DEFINE e == [ed EXCEPT !.ta = x]
           d == Editor!render(tab, e)
<1>4. /\ e \in Drafts /\ e.here /\ e.ta = x /\ e.saved = ed.saved /\ e.base = ed.base
      /\ (e.saving <=> ed.saving) /\ e.confirm = ed.confirm /\ e.diff = ed.diff
      /\ e.seen = ed.seen /\ (e.stale <=> ed.stale)
  BY <1>0, <1>3 DEF Ready, Drafts
<1>5. ed' = d /\ tab' = [tab EXCEPT !.dirty = Editor!Draft(d)]
  BY <1>0, <1>1 DEF Editor!Publish
<1> HIDE DEF e
<1>6. /\ d \in Drafts /\ d.here /\ d.seen = tab.content
      /\ d.saving <=> e.here /\ e.saving
      /\ d.confirm = IF e.here THEN e.confirm ELSE NoCard
      /\ d.diff = IF e.here THEN e.diff ELSE NoText
      /\ IF d.stale THEN e.here /\ d.base = e.base /\ d.saved = e.saved
                    ELSE d.base = tab.sha /\ d.saved = tab.content
      /\ e.here /\ e.seen = tab.content => d.ta = e.ta /\ d.saved = e.saved
  <2>1. tab \in Tabs
    BY DEF EditorTyped
  <2>2. ed.here /\ ~ed.stale => ed.seen = ed.saved
    BY DEF Fits
  <2>3. e.here /\ ~e.stale => e.seen = e.saved
    BY <1>0, <1>4, <2>2
  <2> QED
    BY <1>0, <1>4, <2>1, <2>3, RenderMeans
<1> HIDE DEF d
<1>7. /\ d.confirm = ed.confirm /\ d.diff = ed.diff /\ d.ta = x /\ d.saved = ed.saved
      /\ d.base = ed.base \/ (d.base = tab.sha /\ tab.content = ed.saved)
      /\ (d.saving <=> ed.saving) /\ (~d.stale => d.seen = d.saved)
  BY <1>0, <1>4, <1>6
<1>8. /\ tab' \in Tabs /\ tab'.open = tab.open /\ tab'.front = tab.front
      /\ tab'.content = tab.content /\ tab'.sha = tab.sha /\ tab'.error = tab.error
      /\ tab'.dirty = Editor!Draft(d)
  BY <1>0, <1>5, <1>6 DEF Ready, Tabs, Editor!Draft, Drafts
<1>9. Fits(tab', ed')
  <2>1. Editor!claims(tab')
    BY <1>0, <1>8 DEF Editor!claims
  <2>2. tab.front => tab.open
    BY DEF Fits
  <2> QED
    BY <1>0, <1>5, <1>6, <1>7, <1>8, <2>1, <2>2 DEF Fits, Editor!claims, NoText, Editor!None
<1>10. Told(tab', ed', shown', shown' \cup typed')
  <2>1. d.base \in shown \cup typed
    BY <1>0, <1>7 DEF Told, Ours
  <2>2. d.ta \in shown' \cup typed' /\ d.base \in shown' \cup typed'
    BY <1>2, <1>3, <1>7, <2>1
  <2> QED
    BY <1>0, <1>2, <1>3, <1>5, <1>7, <1>8, <2>2 DEF Told, Ours
<1>11. Carried'
  BY <1>2, <1>3 DEF Carried, Ours, Editor!Text
<1>12. Single'
  BY <1>0, <1>2, <1>5, <1>6, <1>7, <1>8, SingleOn
<1> QED
  BY <1>2, <1>3, <1>5, <1>6, <1>8, <1>9, <1>10, <1>11, <1>12, EditorWhole DEF EditorTyped

\* The user saves, and answers the card.
LEMMA UserSaves ==
  ASSUME EditorAssumption, EditorInv, Editor!Save \/ Editor!Decide
  PROVE  EditorInv'
<1> USE DEF EditorInv
<1>0. /\ ed.here /\ ed \in Drafts
      /\ ed.ta \in Ours /\ ed.base \in Ours /\ Ours \subseteq Editor!Text
      /\ Editor!Text \subseteq Texts /\ NoCard \in Cards
      /\ ed.confirm # NoCard => ed.confirm.content \in Ours /\ ed.confirm.base \in Ours
  BY AlwaysReady DEF Editor!Save, Editor!Decide, Editor!Editing, EditorTyped, Told, Ours, NoCard,
     Cards, Editor!NoConfirm
<1>1. UNCHANGED <<disk, texts, tab, gen, loading, again, events, hashing, shown, typed, lost>>
  BY DEF Editor!Save, Editor!Decide, Editor!diskVars, Editor!viewVars, Editor!pageVars,
     Editor!history
<1>2. \/ /\ ~ed.saving
         /\ \E content \in Ours, from \in Ours, confirmed \in BOOLEAN :
              requests' = requests \cup {Editor!Request("save", content, from, confirmed)}
         /\ ed' = [ed EXCEPT !.confirm = NoCard, !.saving = TRUE]
      \/ ed' = [ed EXCEPT !.confirm = NoCard] /\ requests' = requests
  <2>1. CASE Editor!Save
    <3>1. ~ed.saving /\ ed.confirm = NoCard
      BY <2>1 DEF Editor!Save, NoCard
    <3>2. /\ ed' = [ed EXCEPT !.saving = TRUE]
          /\ requests' = requests \cup {Editor!Request("save", ed.ta, ed.base, FALSE)}
      BY <2>1, <3>1 DEF Editor!Save, Editor!Saves, NoCard
    <3>3. ed' = [ed EXCEPT !.confirm = NoCard, !.saving = TRUE]
      BY <1>0, <3>1, <3>2 DEF Drafts
    <3> QED
      BY <1>0, <3>1, <3>2, <3>3
  <2>2. CASE Editor!Decide
    <3>1. ed.confirm # NoCard
      BY <2>2 DEF Editor!Decide, NoCard
    <3> QED
      BY <1>0, <2>2, <3>1 DEF Editor!Decide, Editor!Asks, NoCard
  <2> QED
    BY <2>1, <2>2
<1>3. /\ ed' \in Drafts /\ ed'.here /\ ed'.ta = ed.ta /\ ed'.saved = ed.saved
      /\ ed'.base = ed.base /\ ed'.diff = ed.diff /\ ed'.seen = ed.seen /\ ed'.confirm = NoCard
      /\ (ed'.stale <=> ed.stale)
  BY <1>0, <1>2 DEF Drafts
<1>4. Fits(tab', ed') /\ Told(tab', ed', shown', shown' \cup typed')
  BY <1>0, <1>1, <1>3 DEF Fits, Told, Editor!Draft, Ours
<1>5. requests' \subseteq Asks /\ Carried' /\ Single'
  <2>1. CASE requests' = requests /\ ed' = [ed EXCEPT !.confirm = NoCard]
    <3>1. ed'.saving <=> ed.saving
      BY <1>0, <2>1 DEF Drafts
    <3>2. NoCard' = NoCard
      BY DEF NoCard, Editor!NoConfirm, Editor!None
    <3> QED
      BY <1>0, <1>1, <1>3, <2>1, <3>1, <3>2
         DEF Carried, Single, Own, Ours, EditorTyped, Editor!Text
  <2>2. CASE /\ ~ed.saving /\ ed' = [ed EXCEPT !.confirm = NoCard, !.saving = TRUE]
             /\ \E content \in Ours, from \in Ours, confirmed \in BOOLEAN :
                  requests' = requests \cup {Editor!Request("save", content, from, confirmed)}
    <3>1. PICK content \in Ours, from \in Ours, confirmed \in BOOLEAN :
            requests' = requests \cup {Editor!Request("save", content, from, confirmed)}
      BY <2>2
    <3> DEFINE r0 == Editor!Request("save", content, from, confirmed)
    <3>2. content \in Texts /\ from \in Texts
      BY <1>0
    <3>3. /\ r0 \in Asks /\ r0.kind = "save" /\ r0.gen = gen /\ r0.answer = "none"
          /\ r0.content \in Ours /\ r0.base \in Ours
      BY <3>1, <3>2 DEF Editor!Request, Asks, EditorTyped, EditorAssumption, Texts, Editor!None
    <3> HIDE DEF r0
    <3>4. requests' = requests \cup {r0} /\ ed'.saving
      BY <1>0, <2>2, <3>1 DEF r0, Drafts
    <3>5. Carried'
      BY <1>1, <3>3, <3>4, SentCarried
    <3>6. Single'
      BY <1>0, <1>1, <1>3, <2>2, <3>3, <3>4, SaveSent
    <3> QED
      BY <3>3, <3>4, <3>5, <3>6 DEF EditorTyped
  <2> QED
    BY <1>2, <2>1, <2>2
<1> QED
  BY <1>1, <1>3, <1>4, <1>5, EditorWhole DEF EditorTyped

\* The buttons of the banners.
LEMMA UserAsks ==
  ASSUME EditorAssumption, EditorInv, Editor!Fetch \/ Editor!Keep
  PROVE  EditorInv'
<1> USE DEF EditorInv
<1>0. NoText \in Texts /\ Editor!None = NoText /\ ed \in Drafts
  BY AlwaysReady DEF EditorTyped
<1>1. UNCHANGED <<disk, texts, tab, gen, loading, again, events, hashing, shown, typed, lost>>
  BY DEF Editor!Fetch, Editor!Keep, Editor!diskVars, Editor!viewVars, Editor!pageVars,
     Editor!history
<1>2. \/ ed' = ed /\ \E kind \in {"reload", "diff", "overwrite"} :
                        requests' = requests \cup {Editor!Request(kind, NoText, NoText, FALSE)}
      \/ ed' = [ed EXCEPT !.changed = FALSE] /\ requests' = requests
  BY <1>0 DEF Editor!Fetch, Editor!Keep, Editor!Asks
<1>3. /\ ed' \in Drafts /\ (ed'.here <=> ed.here) /\ ed'.ta = ed.ta /\ ed'.saved = ed.saved
      /\ ed'.base = ed.base /\ ed'.diff = ed.diff /\ ed'.seen = ed.seen
      /\ ed'.confirm = ed.confirm /\ (ed'.saving <=> ed.saving) /\ (ed'.stale <=> ed.stale)
  BY <1>0, <1>2 DEF Drafts
<1>4. Fits(tab', ed') /\ Told(tab', ed', shown', shown' \cup typed')
  BY <1>0, <1>1, <1>3 DEF Fits, Told, Editor!Draft, Ours
<1>5. requests' \subseteq Asks /\ Carried' /\ Single'
  <2>1. CASE requests' = requests
    BY <1>1, <1>3, <2>1, SingleOn DEF Carried, Ours, Editor!Text, EditorTyped
  <2>2. CASE \E kind \in {"reload", "diff", "overwrite"} :
               requests' = requests \cup {Editor!Request(kind, NoText, NoText, FALSE)}
    <3>1. PICK kind \in {"reload", "diff", "overwrite"} :
            requests' = requests \cup {Editor!Request(kind, NoText, NoText, FALSE)}
      BY <2>2
    <3> DEFINE r0 == Editor!Request(kind, NoText, NoText, FALSE)
    <3>2. r0 \in Asks /\ r0.kind # "save" /\ r0.gen = gen /\ r0.answer = "none"
      BY <1>0, <3>1 DEF Editor!Request, Asks, EditorTyped
    <3> HIDE DEF r0
    <3>3. requests' = requests \cup {r0}
      BY <3>1 DEF r0
    <3>4. Carried'
      BY <1>1, <3>2, <3>3, SentCarried
    <3>5. Single'
      BY <1>1, <1>3, <3>2, <3>3, SingleOn
    <3> QED
      BY <3>2, <3>3, <3>4, <3>5 DEF EditorTyped
  <2> QED
    BY <1>2, <2>1, <2>2
<1> QED
  BY <1>1, <1>3, <1>4, <1>5, EditorWhole DEF EditorTyped

\* What is told at the end of the events.
LEMMA NewsAdded ==
  ASSUME events \in Seq(News), NEW n \in News, events' = Append(events, n)
  PROVE  /\ events' \in Seq(News)
         /\ \A i \in 1..Len(events') :
              events'[i] = n \/ \E j \in 1..Len(events) : events'[i] = events[j]
  BY AppendProperties

\* The agent writes the file.
LEMMA DiskWritten ==
  ASSUME EditorAssumption, EditorInv, Editor!AgentWrites
  PROVE  EditorInv'
<1> USE DEF EditorInv
<1>1. UNCHANGED <<tab, ed, gen, loading, again, requests, hashing, shown, typed, lost>>
  BY DEF Editor!AgentWrites, Editor!viewVars, Editor!history
<1>2. /\ disk' = texts + 1 /\ texts' = texts + 1 /\ texts + 1 \in Editor!Text
      /\ events' = Append(events, [what |-> "written", sha |-> texts + 1])
  BY DEF Editor!AgentWrites, EditorTyped, EditorAssumption, Editor!Text
<1> DEFINE n == [what |-> "written", sha |-> texts + 1]
<1>3. n \in News /\ n.what # "saved"
  BY <1>2, AlwaysReady DEF News
<1> HIDE DEF n
<1>4. events \in Seq(News) /\ events' = Append(events, n)
  BY <1>2 DEF n, EditorTyped
<1>5. /\ events' \in Seq(News)
      /\ \A i \in 1..Len(events') :
           events'[i] = n \/ \E j \in 1..Len(events) : events'[i] = events[j]
  BY <1>3, <1>4, NewsAdded
<1>6. Carried'
  BY <1>1, <1>3, <1>5 DEF Carried, Ours, Editor!Text
<1>7. Single'
  BY <1>1 DEF Single, Own, NoCard, Editor!NoConfirm, Editor!None
<1> QED
  BY <1>1, <1>2, <1>5, <1>6, <1>7, EditorWhole DEF EditorTyped, Ours

\* A request is served: its answer is on its way.
LEMMA RequestServed ==
  ASSUME EditorAssumption, EditorInv, Editor!Serve
  PROVE  EditorInv'
<1> USE DEF EditorInv
<1>0. /\ NoText \in Texts /\ Editor!None = NoText /\ Editor!Text \subseteq Texts
      /\ disk \in Editor!Text /\ requests \subseteq Asks /\ Ours \subseteq Editor!Text
      /\ events \in Seq(News)
  BY AlwaysReady DEF EditorTyped, Ours
<1>1. UNCHANGED <<texts, tab, ed, gen, loading, again, hashing, shown, typed, lost>>
  BY DEF Editor!Serve, Editor!viewVars, Editor!history
<1>2. PICK r \in requests, answer \in {"ok", "failed", "conflict", "confirm"}, text \in Texts :
        /\ Editor!Answered(r, answer, text) /\ (answer = "ok" => text \in Editor!Text)
        /\ answer = "ok" /\ r.kind = "save" => text = r.content
        /\ \/ UNCHANGED <<disk, events>>
           \/ /\ r.kind = "save" /\ disk' = r.content
              /\ events' = Append(events, [what |-> "saved", sha |-> r.content])
  <2>1. PICK r \in requests :
          \/ /\ r.kind # "save"
             /\ Editor!Answered(r, "ok", disk) /\ UNCHANGED <<disk, events>>
          \/ Editor!Answered(r, "failed", NoText) /\ UNCHANGED <<disk, events>>
          \/ Editor!Answered(r, "conflict", NoText) /\ UNCHANGED <<disk, events>>
          \/ Editor!Answered(r, "confirm", NoText) /\ UNCHANGED <<disk, events>>
          \/ /\ r.kind = "save" /\ disk' = r.content
             /\ events' = Append(events, [what |-> "saved", sha |-> r.content])
             /\ \E answer \in {"ok", "failed"} : Editor!Answered(r, answer, r.content)
    BY <1>0 DEF Editor!Serve, Editor!Waiting
  <2>2. r.kind = "save" => r.content \in Editor!Text /\ r.content \in Texts
    BY <1>0 DEF Carried
  <2>3. CASE \E answer \in {"ok", "failed"} :
               /\ r.kind = "save" /\ disk' = r.content
               /\ events' = Append(events, [what |-> "saved", sha |-> r.content])
               /\ Editor!Answered(r, answer, r.content)
    BY <2>2, <2>3
  <2>4. CASE UNCHANGED <<disk, events>>
    BY <1>0, <2>1, <2>2, <2>4
  <2> QED
    BY <2>1, <2>3, <2>4
<1> DEFINE s == [r EXCEPT !.answer = answer, !.text = text]
<1>3. /\ s \in Asks /\ s.kind = r.kind /\ s.gen = r.gen /\ s.content = r.content
      /\ s.base = r.base /\ s.answer = answer /\ s.text = text
  BY <1>0, <1>2 DEF Asks
<1>4. requests' = (requests \ {r}) \cup {s}
  BY <1>2 DEF Editor!Answered
<1> HIDE DEF s
<1>5. disk' \in Editor!Text /\ events' \in Seq(News)
      /\ \A i \in 1..Len(events') : events'[i].what = "saved" => events'[i].sha \in Ours
  <2>1. CASE UNCHANGED <<disk, events>>
    BY <1>0, <2>1 DEF Carried
  <2>2. CASE /\ r.kind = "save" /\ disk' = r.content
             /\ events' = Append(events, [what |-> "saved", sha |-> r.content])
    <3> DEFINE n == [what |-> "saved", sha |-> r.content]
    <3>1. r.content \in Ours /\ r.content \in Texts
      BY <1>0, <2>2 DEF Carried
    <3>2. n \in News /\ n.sha \in Ours
      BY <3>1 DEF News
    <3> HIDE DEF n
    <3>3. events' = Append(events, n)
      BY <2>2 DEF n
    <3>4. /\ events' \in Seq(News)
          /\ \A i \in 1..Len(events') :
               events'[i] = n \/ \E j \in 1..Len(events) : events'[i] = events[j]
      BY <1>0, <3>2, <3>3, NewsAdded
    <3> QED
      BY <1>0, <2>2, <3>1, <3>2, <3>4 DEF Carried
  <2> QED
    BY <1>2, <2>1, <2>2
<1>6. Carried'
  BY <1>1, <1>2, <1>3, <1>4, <1>5 DEF Carried, Ours, Editor!Text
<1>7. Single'
  <2>1. Own' = IF r \in Own THEN {s} ELSE Own
    <3>1. CASE r \in Own
      <4>1. Own = {r}
        BY <3>1 DEF Single
      <4> QED
        BY <1>1, <1>3, <1>4, <3>1, <4>1 DEF Own
    <3>2. CASE r \notin Own
      BY <1>1, <1>3, <1>4, <3>2 DEF Own
    <3> QED
      BY <3>1, <3>2
  <2>2. \A x \in requests' : x.gen <= gen'
    BY <1>1, <1>3, <1>4 DEF Single
  <2>3. NoCard' = NoCard
    BY DEF NoCard, Editor!NoConfirm, Editor!None
  <2> QED
    BY <1>1, <2>1, <2>2, <2>3 DEF Single
<1>8. requests' \subseteq Asks
  BY <1>0, <1>3, <1>4
<1> QED
  BY <1>1, <1>5, <1>6, <1>7, <1>8, EditorWhole DEF EditorTyped, Ours

\* What is seen while the tab is left as it is, and the editor but for its cards.
LEMMA StillShown ==
  ASSUME EditorAssumption, EditorInv, tab' = tab, Editor!Sees,
         ed' \in Drafts, ed'.here <=> ed.here, ed'.ta = ed.ta, ed'.saved = ed.saved,
         ed'.seen = ed.seen, ed'.base = ed.base, ed'.stale <=> ed.stale,
         ed'.diff = ed.diff \/ ed'.diff \in Editor!Text,
         \/ ed'.confirm = ed.confirm \/ ed'.confirm = NoCard
         \/ ed'.confirm.content \in Ours /\ ed'.confirm.base \in Ours
  PROVE  /\ tab' \in Tabs /\ shown' \subseteq Editor!Text
         /\ Fits(tab', ed') /\ Told(tab', ed', shown', shown' \cup typed')
         /\ shown \subseteq shown' /\ typed' = typed
<1> USE DEF EditorInv
<1>0. /\ Editor!None = NoText /\ NoText \notin Editor!Text /\ Editor!Text = Texts \ {NoText}
      /\ shown \subseteq Editor!Text /\ tab \in Tabs /\ ed \in Drafts
      /\ ed.here => ed.saved \in shown /\ ed.diff \in shown \cup {NoText}
  BY AlwaysReady DEF EditorTyped, Told, Editor!Text, Texts, EditorAssumption
<1>1. /\ shown' = shown \cup (IF ed'.here THEN {ed'.saved, ed'.diff} \ {NoText} ELSE {})
      /\ typed' = typed
  BY <1>0 DEF Editor!Sees
<1>2. /\ shown' \subseteq Editor!Text /\ shown \subseteq shown'
      /\ ed'.here => ed'.diff \in shown' \cup {NoText}
  BY <1>0, <1>1
<1>3. Fits(tab', ed')
  BY DEF Fits, Editor!Draft
<1>4. Told(tab', ed', shown', shown' \cup typed')
  BY <1>1, <1>2 DEF Told, Ours
<1> QED
  BY <1>0, <1>1, <1>2, <1>3, <1>4

\* The saves are counted as one of them is answered.
LEMMA SaveGone ==
  ASSUME EditorTyped, Single, gen' = gen, NEW r \in requests, r.kind = "save",
         requests' = requests \ {r}, tab'.open => tab.open, ed.here => tab.open,
         Editor!Mine(r) => ~ed'.saving,
         ~Editor!Mine(r) =>
           /\ ed.here => ed'.here /\ (ed'.saving <=> ed.saving) /\ ed'.confirm = ed.confirm
           /\ ~ed.here /\ ed'.here => tab.open /\ ~ed'.saving /\ ed'.confirm = NoCard
  PROVE  Single'
<1>1. \A x \in requests' : x.gen <= gen'
  BY DEF Single
<1>2. NoCard' = NoCard
  BY DEF NoCard, Editor!NoConfirm, Editor!None
<1>3. Own' = Own \ {r}
  BY DEF Own
<1>4. CASE r \in Own
  <2>1. Own' = {} /\ r.gen = gen
    BY <1>3, <1>4 DEF Single, Own
  <2>2. CASE ed.here
    BY <1>1, <2>1, <2>2 DEF Single, Editor!Mine
  <2>3. CASE ~ed.here
    <3>1. ~tab.open
      BY <1>4, <2>3 DEF Single
    <3> QED
      BY <1>1, <2>1, <2>3, <3>1 DEF Single, Editor!Mine
  <2> QED
    BY <2>2, <2>3
<1>5. CASE r \notin Own
  <2>1. Own' = Own /\ ~Editor!Mine(r)
    BY <1>3, <1>5 DEF Own, Editor!Mine
  <2> QED
    BY <1>1, <1>2, <2>1 DEF Single
<1> QED
  BY <1>4, <1>5

\* codeview.js: a load is answered.
LEMMA LoadAnswered ==
  ASSUME EditorAssumption, EditorInv, NEW r \in requests, Editor!Loaded(r)
  PROVE  EditorInv'
<1> USE DEF EditorInv
<1>0. /\ Ready(tab, ed) /\ Editor!None = NoText /\ NoText \in Texts /\ r \in Asks
      /\ NoText \notin Editor!Text /\ Editor!Text \subseteq Texts
  BY AlwaysReady DEF EditorTyped
<1>1. /\ r.kind = "load" /\ Editor!Sees /\ Editor!Keeps
      /\ UNCHANGED <<disk, texts, gen, events, hashing>>
  BY DEF Editor!Loaded, Editor!Came, Editor!diskVars, Editor!pageVars
<1>2. PICK t : Ready(t, ed) /\ t.open = tab.open /\ Editor!Patch(t, ed)
  <2>1. CASE ~tab.open
    BY <1>0, <2>1 DEF Editor!Loaded, Editor!Patch, Ready
  <2>2. CASE tab.open /\ r.answer = "ok"
    <3> DEFINE t == [Editor!Patched(tab, r.text) EXCEPT !.error = FALSE]
    <3>1. r.text \in Editor!Text /\ Editor!Patch(t, ed)
      BY <1>0, <2>2 DEF Editor!Loaded, Carried
    <3>2. /\ t \in Tabs /\ t.content = r.text /\ t.sha = r.text /\ t.open = tab.open
      BY <1>0, <3>1 DEF Editor!Patched, Tabs, Ready
    <3> HIDE DEF t
    <3> QED
      BY <1>0, <2>2, <3>1, <3>2 DEF Ready
  <2>3. CASE tab.open /\ r.answer # "ok"
    <3> DEFINE t == [tab EXCEPT !.error = TRUE]
    <3>1. Editor!Patch(t, ed)
      BY <2>3 DEF Editor!Loaded
    <3>2. /\ t \in Tabs /\ t.content = tab.content /\ t.sha = tab.sha /\ t.open = tab.open
      BY <1>0 DEF Tabs, Ready
    <3> HIDE DEF t
    <3> QED
      BY <1>0, <2>3, <3>1, <3>2 DEF Ready
  <2> QED
    BY <2>1, <2>2, <2>3
<1>3. /\ tab' \in Tabs /\ ed' \in Drafts /\ shown' \subseteq Editor!Text
      /\ Fits(tab', ed') /\ Told(tab', ed', shown', shown' \cup typed')
      /\ shown \subseteq shown' /\ typed' = typed /\ tab'.open = t.open
      /\ ed.here => /\ ed'.here /\ (ed'.saving <=> ed.saving) /\ ed'.confirm = ed.confirm
      /\ ~ed.here /\ ed'.here => t.open /\ ~ed'.saving /\ ed'.confirm = NoCard
      /\ Editor!Draft(ed) => ed'.ta = ed.ta
  BY <1>1, <1>2, Published
<1>4. ~lost'
  BY <1>1, <1>3 DEF Editor!Keeps, Editor!Unkept
<1> DEFINE r0 == Editor!Request("load", Editor!None, Editor!None, FALSE)
<1>5. r0 \in Asks /\ r0.kind = "load" /\ r0.gen = gen /\ r0.answer = "none"
  BY <1>0 DEF Editor!Request, Asks, EditorTyped
<1>6. /\ requests' = requests \ {r} \/ requests' = (requests \ {r}) \cup {r0}
      /\ loading' \in BOOLEAN /\ again' \in BOOLEAN
  BY DEF Editor!Loaded, EditorTyped
<1> HIDE DEF r0
<1>7. /\ requests' \subseteq Asks
      /\ \A x \in requests : x.kind = "save" => x \in requests'
      /\ \A x \in requests' : x \in requests \/ (x.kind # "save" /\ x.gen = gen /\ x.answer # "ok")
  BY <1>1, <1>5, <1>6 DEF EditorTyped
<1>8. Carried'
  BY <1>1, <1>3, <1>7, CarriedOn DEF Ours
<1>9. Single'
  BY <1>1, <1>2, <1>3, <1>7, SingleOn
<1> QED
  BY <1>1, <1>3, <1>4, <1>6, <1>7, <1>8, <1>9, EditorWhole DEF EditorTyped

\* editor.js: a save is answered.
LEMMA SaveAnswered ==
  ASSUME EditorAssumption, EditorInv, NEW r \in requests, Editor!Saved(r)
  PROVE  EditorInv'
<1> USE DEF EditorInv
<1>0. /\ Ready(tab, ed) /\ Editor!None = NoText /\ NoText \in Texts /\ r \in Asks
      /\ NoText \notin Editor!Text /\ Editor!Text \subseteq Texts /\ ed \in Drafts
      /\ ed.here => tab.open
  BY AlwaysReady DEF EditorTyped, Ready
<1>1. /\ r.kind = "save" /\ requests' = requests \ {r} /\ Editor!Sees /\ Editor!Keeps
      /\ r.answer \in {"ok", "failed", "conflict", "confirm"}
      /\ r.content \in Ours /\ r.base \in Ours /\ r.content \in Editor!Text
      /\ r.answer = "ok" => r.text = r.content
      /\ UNCHANGED <<disk, texts, gen, loading, again, events, hashing>>
  BY <1>0 DEF Editor!Saved, Editor!Came, Editor!diskVars, Editor!viewVars, Editor!pageVars,
     Carried, Asks, Ours, EditorTyped
<1>2. /\ tab' \in Tabs /\ ed' \in Drafts /\ shown' \subseteq Editor!Text
      /\ Fits(tab', ed') /\ Told(tab', ed', shown', shown' \cup typed')
      /\ shown \subseteq shown' /\ typed' = typed /\ tab'.open = tab.open
      /\ Editor!Draft(ed) => ed'.ta = ed.ta
      /\ Editor!Mine(r) => ~ed'.saving
      /\ ~Editor!Mine(r) =>
           /\ ed.here => ed'.here /\ (ed'.saving <=> ed.saving) /\ ed'.confirm = ed.confirm
           /\ ~ed.here /\ ed'.here => tab.open /\ ~ed'.saving /\ ed'.confirm = NoCard
  <2>1. CASE r.answer = "ok" /\ Editor!Mine(r)
    <3> DEFINE e == Editor!SavedState(r)
               t == [Editor!Patched(tab, r.content) EXCEPT !.dirty = ed.ta # r.content]
    <3>1. Editor!Patch(t, e)
      BY <2>1 DEF Editor!Saved
    <3>2. /\ t \in Tabs /\ t.content = r.content /\ t.sha = r.content
          /\ t.open = tab.open /\ t.front = tab.front
      BY <1>0, <1>1 DEF Editor!Patched, Tabs, Ready
    <3>3. /\ e \in Drafts /\ e.here /\ e.ta = ed.ta /\ e.saved = r.content
          /\ e.seen = r.content /\ e.base = r.content /\ ~e.stale /\ ~e.saving
          /\ e.confirm = ed.confirm
      BY <1>0, <1>1, <2>1 DEF Editor!SavedState, Drafts, Editor!Mine
    <3> HIDE DEF e, t
    <3>4. Ready(t, e)
      BY <1>0, <1>1, <2>1, <3>2, <3>3 DEF Ready, Told, Editor!Mine
    <3>5. /\ tab' \in Tabs /\ ed' \in Drafts /\ shown' \subseteq Editor!Text
          /\ Fits(tab', ed') /\ Told(tab', ed', shown', shown' \cup typed')
          /\ shown \subseteq shown' /\ typed' = typed /\ tab'.open = t.open
          /\ e.here => /\ ed'.here /\ (ed'.saving <=> e.saving) /\ ed'.confirm = e.confirm
          /\ e.here /\ e.seen = t.content => ed'.ta = e.ta
      BY <1>1, <3>1, <3>4, Published
    <3> QED
      BY <2>1, <3>2, <3>3, <3>5
  <2>2. CASE r.answer = "ok" /\ ~Editor!Mine(r) /\ tab.open /\ ed.here
    <3>1. PICK dirty \in BOOLEAN :
            Editor!Patch([Editor!Patched(tab, r.content) EXCEPT !.dirty = dirty], ed)
      BY <2>2 DEF Editor!Saved
    <3> DEFINE t == [Editor!Patched(tab, r.content) EXCEPT !.dirty = dirty]
    <3>2. /\ t \in Tabs /\ t.content = r.content /\ t.sha = r.content
          /\ t.open = tab.open /\ t.front = tab.front
      BY <1>0, <1>1 DEF Editor!Patched, Tabs, Ready
    <3>3. Editor!Patch(t, ed)
      BY <3>1
    <3> HIDE DEF t
    <3>4. Ready(t, ed)
      BY <1>0, <1>1, <2>2, <3>2 DEF Ready
    <3>5. /\ tab' \in Tabs /\ ed' \in Drafts /\ shown' \subseteq Editor!Text
          /\ Fits(tab', ed') /\ Told(tab', ed', shown', shown' \cup typed')
          /\ shown \subseteq shown' /\ typed' = typed /\ tab'.open = t.open
          /\ ed.here => /\ ed'.here /\ (ed'.saving <=> ed.saving) /\ ed'.confirm = ed.confirm
          /\ Editor!Draft(ed) => ed'.ta = ed.ta
      BY <1>1, <3>3, <3>4, Published
    <3> QED
      BY <2>2, <3>2, <3>5
  <2>3. CASE r.answer # "ok" /\ Editor!Mine(r)
    <3> DEFINE card == [content |-> r.content, base |-> r.base]
    <3>1. /\ tab' = tab
          /\ \/ ed' = [ed EXCEPT !.saving = FALSE, !.confirm = card]
             \/ ed' = [ed EXCEPT !.saving = FALSE, !.conflict = @ \/ r.answer = "conflict"]
      BY <1>1, <2>3 DEF Editor!Saved
    <3>2. card \in Cards /\ card.content \in Ours /\ card.base \in Ours
      BY <1>0, <1>1 DEF Cards, Asks
    <3> HIDE DEF card
    <3>3. /\ ed' \in Drafts /\ ed'.here = ed.here /\ ed'.ta = ed.ta /\ ed'.saved = ed.saved
          /\ ed'.seen = ed.seen /\ ed'.base = ed.base /\ ed'.stale = ed.stale
          /\ ed'.diff = ed.diff /\ (ed'.confirm = ed.confirm \/ ed'.confirm = card)
          /\ ~ed'.saving
      BY <1>0, <3>1, <3>2 DEF Drafts
    <3> QED
      BY <1>1, <2>3, <3>1, <3>2, <3>3, StillShown
  <2>4. CASE ~Editor!Mine(r) /\ ~(r.answer = "ok" /\ tab.open /\ ed.here)
    <3>1. tab' = tab /\ ed' = ed
      BY <1>1, <2>4 DEF Editor!Saved
    <3> QED
      BY <1>0, <1>1, <2>4, <3>1, StillShown
  <2> QED
    BY <2>1, <2>2, <2>3, <2>4
<1>3. ~lost'
  BY <1>1, <1>2 DEF Editor!Keeps, Editor!Unkept
<1>4. Carried'
  BY <1>1, <1>2, CarriedOn DEF Ours
<1>5. Single'
  BY <1>0, <1>1, <1>2, SaveGone
<1> QED
  BY <1>1, <1>2, <1>3, <1>4, <1>5, EditorWhole DEF EditorTyped

\* editor.js: a reload is answered.
LEMMA ReloadAnswered ==
  ASSUME EditorAssumption, EditorInv, NEW r \in requests, Editor!Reloaded(r)
  PROVE  EditorInv'
<1> USE DEF EditorInv
<1>0. /\ Ready(tab, ed) /\ Editor!None = NoText /\ NoText \in Texts /\ r \in Asks
      /\ NoText \notin Editor!Text /\ Editor!Text \subseteq Texts /\ ed \in Drafts
      /\ ed.here => tab.open
  BY AlwaysReady DEF EditorTyped, Ready
<1>1. /\ r.kind = "reload" /\ requests' = requests \ {r} /\ Editor!Sees
      /\ IF Editor!Mine(r) THEN UNCHANGED lost ELSE Editor!Keeps
      /\ r.answer = "ok" => r.text \in Editor!Text
      /\ UNCHANGED <<disk, texts, gen, loading, again, events, hashing>>
  BY <1>0 DEF Editor!Reloaded, Editor!Came, Editor!diskVars, Editor!viewVars, Editor!pageVars,
     Carried
<1>2. /\ tab' \in Tabs /\ ed' \in Drafts /\ shown' \subseteq Editor!Text
      /\ Fits(tab', ed') /\ Told(tab', ed', shown', shown' \cup typed')
      /\ shown \subseteq shown' /\ typed' = typed /\ tab'.open = tab.open
      /\ Editor!Draft(ed) /\ ~Editor!Mine(r) => ed'.ta = ed.ta
      /\ ed.here => /\ ed'.here /\ (ed'.saving <=> ed.saving) /\ ed'.confirm = ed.confirm
      /\ ~ed.here /\ ed'.here => tab.open /\ ~ed'.saving /\ ed'.confirm = NoCard
  <2>1. CASE r.answer = "ok" /\ tab.open
    <3> DEFINE e == IF Editor!Mine(r)
                    THEN [ed EXCEPT !.ta = r.text, !.saved = r.text, !.seen = r.text,
                                    !.base = r.text, !.stale = FALSE, !.changed = FALSE,
                                    !.conflict = FALSE, !.diff = NoText]
                    ELSE ed
               t == [Editor!Patched(tab, r.text) EXCEPT !.dirty = FALSE]
    <3>1. Editor!Patch(t, e)
      BY <1>0, <2>1 DEF Editor!Reloaded
    <3>2. /\ t \in Tabs /\ t.content = r.text /\ t.sha = r.text
          /\ t.open = tab.open /\ t.front = tab.front
      BY <1>0, <1>1, <2>1 DEF Editor!Patched, Tabs, Ready
    <3>3. /\ e \in Drafts /\ e.here = ed.here /\ (e.saving <=> ed.saving)
          /\ e.confirm = ed.confirm
          /\ \/ e = ed
             \/ /\ Editor!Mine(r) /\ e.ta = r.text /\ e.saved = r.text /\ e.seen = r.text
                /\ e.base = r.text /\ ~e.stale
          /\ ~Editor!Mine(r) => e = ed
      BY <1>0, <1>1, <2>1 DEF Drafts
    <3> HIDE DEF e, t
    <3>4. Ready(t, e)
      BY <1>0, <1>1, <2>1, <3>2, <3>3 DEF Ready
    <3>5. /\ tab' \in Tabs /\ ed' \in Drafts /\ shown' \subseteq Editor!Text
          /\ Fits(tab', ed') /\ Told(tab', ed', shown', shown' \cup typed')
          /\ shown \subseteq shown' /\ typed' = typed /\ tab'.open = t.open
          /\ e.here => /\ ed'.here /\ (ed'.saving <=> e.saving) /\ ed'.confirm = e.confirm
          /\ ~e.here /\ ed'.here => t.open /\ ~ed'.saving /\ ed'.confirm = NoCard
          /\ Editor!Draft(e) => ed'.ta = e.ta
      BY <1>1, <3>1, <3>4, Published
    <3> QED
      BY <2>1, <3>2, <3>3, <3>5
  <2>2. CASE ~(r.answer = "ok" /\ tab.open)
    <3>1. tab' = tab /\ ed' = ed
      BY <2>2 DEF Editor!Reloaded
    <3> QED
      BY <1>0, <1>1, <3>1, StillShown
  <2> QED
    BY <2>1, <2>2
<1>3. ~lost'
  BY <1>1, <1>2 DEF Editor!Keeps, Editor!Unkept
<1>4. Carried'
  BY <1>1, <1>2, CarriedOn DEF Ours
<1>5. Single'
  BY <1>1, <1>2, SingleOn
<1> QED
  BY <1>1, <1>2, <1>3, <1>4, <1>5, EditorWhole DEF EditorTyped

\* editor.js: the text to compare with has come; a save may follow.
LEMMA CompareAnswered ==
  ASSUME EditorAssumption, EditorInv, NEW r \in requests, Editor!Compared(r)
  PROVE  EditorInv'
<1> USE DEF EditorInv
<1>0. /\ Editor!None = NoText /\ NoText \in Texts /\ r \in Asks /\ NoText \notin Editor!Text
      /\ Editor!Text \subseteq Texts /\ ed \in Drafts /\ Ours \subseteq Editor!Text
      /\ ed.here => ed.diff \in Ours \cup {NoText} /\ ed.ta \in Ours
  BY AlwaysReady DEF EditorTyped, Told, Ours
<1>1. /\ r.kind # "save" /\ Editor!Sees /\ Editor!Keeps /\ tab' = tab
      /\ r.answer = "ok" => r.text \in Editor!Text
      /\ UNCHANGED <<disk, texts, gen, loading, again, events, hashing>>
  BY DEF Editor!Compared, Editor!diskVars, Editor!viewVars, Editor!pageVars, Carried
<1>2. \/ requests' = requests \ {r} /\ ed' = ed
      \/ /\ requests' = requests \ {r} /\ r.text \in Editor!Text
         /\ ed' = [ed EXCEPT !.diff = r.text]
      \/ /\ ed.here /\ ~ed.saving /\ ed.confirm = NoCard /\ r.text = ed.diff
         /\ r.text \in Editor!Text /\ ed' = [ed EXCEPT !.saving = TRUE]
         /\ requests' = (requests \ {r}) \cup {Editor!Request("save", ed.ta, r.text, FALSE)}
  BY <1>1 DEF Editor!Compared, Editor!Saves, Editor!Mine, NoCard
<1>3. /\ ed' \in Drafts /\ ed'.here = ed.here /\ ed'.ta = ed.ta /\ ed'.saved = ed.saved
      /\ ed'.base = ed.base /\ ed'.seen = ed.seen /\ ed'.confirm = ed.confirm
      /\ ed'.stale = ed.stale /\ (ed'.diff = ed.diff \/ ed'.diff \in Editor!Text)
  BY <1>0, <1>2 DEF Drafts
<1>4. /\ tab' \in Tabs /\ shown' \subseteq Editor!Text
      /\ Fits(tab', ed') /\ Told(tab', ed', shown', shown' \cup typed')
      /\ shown \subseteq shown' /\ typed' = typed
  BY <1>1, <1>3, StillShown
<1>5. ~lost'
  BY <1>1, <1>3 DEF Editor!Keeps, Editor!Unkept
<1>6. requests' \subseteq Asks /\ Carried' /\ Single'
  <2>1. CASE requests' = requests \ {r} /\ (ed'.saving <=> ed.saving)
    <3>1. requests' \subseteq Asks
      BY <2>1 DEF EditorTyped
    <3>2. Carried'
      BY <1>1, <1>4, <2>1, CarriedOn DEF Ours
    <3>3. Single'
      BY <1>1, <1>3, <2>1, SingleOn
    <3> QED
      BY <3>1, <3>2, <3>3
  <2>2. CASE /\ ed.here /\ ~ed.saving /\ ed.confirm = NoCard /\ r.text = ed.diff
             /\ r.text \in Editor!Text /\ ed' = [ed EXCEPT !.saving = TRUE]
             /\ requests' = (requests \ {r}) \cup {Editor!Request("save", ed.ta, r.text, FALSE)}
    <3> DEFINE r0 == Editor!Request("save", ed.ta, r.text, FALSE)
    <3>1. ed.ta \in Ours /\ r.text \in Ours
      BY <1>0, <2>2
    <3>2. /\ r0 \in Asks /\ r0.kind = "save" /\ r0.gen = gen /\ r0.answer = "none"
          /\ r0.content \in Ours /\ r0.base \in Ours
      <4>1. ed.ta \in Texts /\ r.text \in Texts
        BY <1>0, <3>1
      <4> QED
        BY <1>0, <3>1, <4>1 DEF Editor!Request, Asks, EditorTyped
    <3> HIDE DEF r0
    <3>3. requests' = (requests \ {r}) \cup {r0} /\ ed'.saving
      BY <1>0, <2>2 DEF r0, Drafts
    <3>4. requests' \subseteq Asks
      BY <3>2, <3>3 DEF EditorTyped
    <3>5. Single'
      BY <1>1, <1>3, <2>2, <3>2, <3>3, SaveSent
    <3>6. Carried'
      <4>1. Ours \subseteq Ours'
        BY <1>4 DEF Ours
      <4> QED
        BY <1>1, <3>2, <3>3, <4>1 DEF Carried, Editor!Text
    <3> QED
      BY <3>4, <3>5, <3>6
  <2>3. CASE ed' = [ed EXCEPT !.diff = r.text] /\ requests' = requests \ {r}
    <3>1. ed'.saving <=> ed.saving
      BY <1>0, <2>3 DEF Drafts
    <3> QED
      BY <2>1, <2>3, <3>1
  <2> QED
    BY <1>2, <2>1, <2>2, <2>3
<1> QED
  BY <1>1, <1>3, <1>4, <1>5, <1>6, EditorWhole DEF EditorTyped

\* What an event of the disk does to the editor and the requests.
LEMMA ChangeMeans ==
  ASSUME EditorAssumption, EditorInv, Editor!DiskChange
  PROVE  /\ ed' \in Drafts /\ ed'.here = ed.here /\ ed'.ta = ed.ta /\ ed'.saved = ed.saved
         /\ ed'.base = ed.base /\ ed'.seen = ed.seen /\ ed'.confirm = ed.confirm
         /\ ed'.stale = ed.stale /\ ed'.diff = ed.diff /\ ed'.saving = ed.saving
         /\ requests' \subseteq Asks /\ requests \subseteq requests'
         /\ loading' \in BOOLEAN /\ again' \in BOOLEAN
         /\ \A r \in requests' :
              r \in requests \/ (r.kind = "load" /\ r.gen = gen /\ r.answer = "none")
<1>1. ed \in Drafts /\ ed' = [ed EXCEPT !.changed = @ \/ Editor!Draft(ed)]
  BY DEF EditorInv, EditorTyped, Editor!DiskChange
<1>2. /\ ed' \in Drafts /\ ed'.here = ed.here /\ ed'.ta = ed.ta /\ ed'.saved = ed.saved
      /\ ed'.base = ed.base /\ ed'.seen = ed.seen /\ ed'.confirm = ed.confirm
      /\ ed'.stale = ed.stale /\ ed'.diff = ed.diff /\ ed'.saving = ed.saving
  BY <1>1 DEF Drafts, Editor!Draft
<1>3. EditorTyped /\ requests \in SUBSET Asks
  BY DEF EditorInv, EditorTyped
<1>4. CASE tab.dirty
  BY <1>2, <1>3, <1>4 DEF Editor!DiskChange, Editor!viewVars, EditorTyped
<1>5. CASE ~tab.dirty
  <2>1. Editor!Load(requests)
    BY <1>5 DEF Editor!DiskChange
  <2> QED
    BY <1>2, <1>3, <2>1, LoadAdds
<1> QED
  BY <1>4, <1>5

\* tabs.js: the file was written, and a save was told of.
LEMMA EventsCome ==
  ASSUME EditorAssumption, EditorInv, Editor!Written \/ Editor!HashSaved
  PROVE  EditorInv'
<1> USE DEF EditorInv
<1>0. events \in Seq(News) /\ hashing \in Seq(Hashes) /\ ed \in Drafts /\ tab \in Tabs
  BY DEF EditorTyped
<1>1. /\ events # <<>> /\ events' = Tail(events)
      /\ UNCHANGED <<disk, texts, tab, gen, shown, typed, lost>>
  BY DEF Editor!Written, Editor!HashSaved, Editor!diskVars, Editor!history
<1>2. CASE Editor!Written
  <2>1. /\ ed' \in Drafts /\ ed'.here = ed.here /\ ed'.ta = ed.ta /\ ed'.saved = ed.saved
        /\ ed'.base = ed.base /\ ed'.seen = ed.seen /\ ed'.confirm = ed.confirm
        /\ ed'.stale = ed.stale /\ ed'.diff = ed.diff /\ ed'.saving = ed.saving
        /\ requests' \subseteq Asks /\ requests \subseteq requests'
        /\ loading' \in BOOLEAN /\ again' \in BOOLEAN
        /\ \A r \in requests' :
             r \in requests \/ (r.kind = "load" /\ r.gen = gen /\ r.answer = "none")
    <3>1. CASE tab.open
      <4>1. Editor!DiskChange
        BY <1>2, <3>1 DEF Editor!Written
      <4> QED
        BY <4>1, ChangeMeans
    <3>2. CASE ~tab.open
      BY <1>0, <1>2, <3>2 DEF Editor!Written, Editor!viewVars, EditorTyped
    <3> QED
      BY <3>1, <3>2
  <2>2. Fits(tab', ed') /\ Told(tab', ed', shown', shown' \cup typed')
    BY <1>1, <2>1 DEF Fits, Told, Editor!Draft, Ours
  <2>3. hashing' = hashing
    BY <1>2 DEF Editor!Written
  <2>4. Carried' /\ events' \in Seq(News)
    BY <1>1, <2>1, <2>3, CarriedOn DEF Ours
  <2>5. Single'
    BY <1>1, <2>1, SingleOn
  <2> QED
    BY <1>1, <2>1, <2>2, <2>3, <2>4, <2>5, EditorWhole DEF EditorTyped
<1>3. CASE Editor!HashSaved
  <2>1. /\ UNCHANGED <<ed, loading, again, requests>> /\ Head(events).what = "saved"
    BY <1>3 DEF Editor!HashSaved, Editor!viewVars
  <2>2. Head(events) \in News /\ Head(events).sha \in Ours
    BY <1>0, <1>1, <2>1, TailWas DEF Carried
  <2>3. /\ events' \in Seq(News)
        /\ \A i \in 1..Len(events') : \E j \in 1..Len(events) : events'[i] = events[j]
    BY <1>0, <1>1, TailWas
  <2>4. hashing' \in Seq(Hashes) /\ \A i \in 1..Len(hashing') : hashing'[i].sha \in Ours
    <3>1. CASE tab.open
      <4> DEFINE n == [sha |-> Head(events).sha, held |-> tab.content, old |-> tab.sha,
                       gen |-> gen]
      <4>1. hashing' = Append(hashing, n)
        BY <1>3, <3>1 DEF Editor!HashSaved
      <4>2. n \in Hashes /\ n.sha \in Ours
        BY <1>0, <2>2 DEF Hashes, News, Tabs, EditorTyped
      <4> HIDE DEF n
      <4>3. /\ hashing' \in Seq(Hashes)
            /\ \A i \in 1..Len(hashing') :
                 hashing'[i] = n \/ \E j \in 1..Len(hashing) : hashing'[i] = hashing[j]
        BY <1>0, <4>1, <4>2, AppendProperties
      <4> QED
        BY <4>2, <4>3 DEF Carried
    <3>2. CASE ~tab.open
      <4>1. hashing' = hashing
        BY <1>3, <3>2 DEF Editor!HashSaved
      <4> QED
        BY <1>0, <4>1 DEF Carried
    <3> QED
      BY <3>1, <3>2
  <2>5. Carried'
    BY <1>1, <2>1, <2>3, <2>4 DEF Carried, Ours, Editor!Text
  <2>6. Single'
    BY <1>1, <2>1 DEF Single, Own, NoCard, Editor!NoConfirm, Editor!None
  <2> QED
    BY <1>1, <2>1, <2>3, <2>4, <2>5, <2>6, EditorWhole DEF EditorTyped, Ours
<1> QED
  BY <1>2, <1>3

\* tabs.js: the text that was hashed is held against the save that was told of.
LEMMA HashCompared ==
  ASSUME EditorAssumption, EditorInv, Editor!SavedEvent
  PROVE  EditorInv'
<1> USE DEF EditorInv
<1>0. /\ Ready(tab, ed) /\ Editor!None = NoText /\ NoText \in Texts
      /\ NoText \notin Editor!Text /\ Editor!Text \subseteq Texts /\ ed \in Drafts
      /\ hashing \in Seq(Hashes) /\ tab \in Tabs
  BY AlwaysReady DEF EditorTyped
<1>1. /\ hashing # <<>> /\ hashing' = Tail(hashing) /\ Editor!Sees /\ Editor!Keeps
      /\ UNCHANGED <<disk, texts, gen, events>>
  BY DEF Editor!SavedEvent, Editor!diskVars
<1> DEFINE h == Head(hashing)
<1>2. h \in Hashes /\ h.sha \in Ours /\ h.sha \in Texts
  <2>1. h \in Hashes /\ 1 \in 1..Len(hashing) /\ h = hashing[1]
    BY <1>0, <1>1, TailWas
  <2> HIDE DEF h
  <2> QED
    BY <2>1 DEF Carried, Hashes
<1>3. \/ tab' = tab /\ ed' = ed /\ UNCHANGED <<loading, again, requests>>
      \/ /\ Editor!Patch([tab EXCEPT !.sha = h.sha, !.dirty = FALSE], ed)
         /\ UNCHANGED <<loading, again, requests>>
      \/ Editor!DiskChange /\ tab' = tab
  BY DEF Editor!SavedEvent, Editor!viewVars
<1> HIDE DEF h
<1>4. /\ tab' \in Tabs /\ ed' \in Drafts /\ shown' \subseteq Editor!Text
      /\ Fits(tab', ed') /\ Told(tab', ed', shown', shown' \cup typed')
      /\ shown \subseteq shown' /\ typed' = typed /\ tab'.open = tab.open
      /\ ed.here => /\ ed'.here /\ (ed'.saving <=> ed.saving) /\ ed'.confirm = ed.confirm
      /\ ~ed.here /\ ed'.here => tab.open /\ ~ed'.saving /\ ed'.confirm = NoCard
      /\ Editor!Draft(ed) => ed'.ta = ed.ta
  <2>1. CASE tab' = tab /\ ed' = ed
    BY <1>0, <1>1, <2>1, StillShown
  <2>2. CASE Editor!Patch([tab EXCEPT !.sha = h.sha, !.dirty = FALSE], ed)
    <3> DEFINE t == [tab EXCEPT !.sha = h.sha, !.dirty = FALSE]
    <3>1. /\ t \in Tabs /\ t.content = tab.content /\ t.sha = h.sha
          /\ t.open = tab.open /\ t.front = tab.front
      BY <1>0, <1>2 DEF Tabs
    <3>2. Editor!Patch(t, ed)
      BY <2>2
    <3> HIDE DEF t
    <3>3. Ready(t, ed)
      BY <1>0, <1>2, <3>1 DEF Ready
    <3>4. /\ tab' \in Tabs /\ ed' \in Drafts /\ shown' \subseteq Editor!Text
          /\ Fits(tab', ed') /\ Told(tab', ed', shown', shown' \cup typed')
          /\ shown \subseteq shown' /\ typed' = typed /\ tab'.open = t.open
          /\ ed.here => /\ ed'.here /\ (ed'.saving <=> ed.saving) /\ ed'.confirm = ed.confirm
          /\ ~ed.here /\ ed'.here => t.open /\ ~ed'.saving /\ ed'.confirm = NoCard
          /\ Editor!Draft(ed) => ed'.ta = ed.ta
      BY <1>1, <3>2, <3>3, Published
    <3> QED
      BY <3>1, <3>4
  <2>3. CASE Editor!DiskChange /\ tab' = tab
    BY <1>0, <1>1, <2>3, ChangeMeans, StillShown
  <2> QED
    BY <1>3, <2>1, <2>2, <2>3
<1>5. ~lost'
  BY <1>1, <1>4 DEF Editor!Keeps, Editor!Unkept
<1>6. /\ requests' \subseteq Asks /\ requests \subseteq requests'
      /\ loading' \in BOOLEAN /\ again' \in BOOLEAN
      /\ \A r \in requests' :
           r \in requests \/ (r.kind = "load" /\ r.gen = gen /\ r.answer = "none")
  BY <1>3, ChangeMeans DEF EditorTyped
<1>7. Carried' /\ hashing' \in Seq(Hashes)
  BY <1>1, <1>4, <1>6, CarriedOn DEF Ours
<1>8. Single'
  BY <1>1, <1>4, <1>6, SingleOn
<1> QED
  BY <1>1, <1>4, <1>5, <1>6, <1>7, <1>8, EditorWhole DEF EditorTyped

LEMMA EditorBegins ==
  ASSUME EditorAssumption, Editor!Init
  PROVE  EditorInv
<1>1. /\ disk = 1 /\ texts = 1 /\ tab = Editor!NoTab /\ ed = Editor!NoEditor /\ gen = 0
      /\ loading = FALSE /\ again = FALSE /\ requests = {} /\ events = <<>> /\ hashing = <<>>
      /\ shown = {} /\ typed = {} /\ lost = FALSE
  BY DEF Editor!Init
<1>2. 0 \in Texts /\ 1 \in Editor!Text /\ 0 \in 0..MaxOpens
  BY DEF EditorAssumption, Texts, Editor!Text
<1>3. tab \in Tabs /\ ~tab.open /\ ~tab.front /\ tab.sha = NoText /\ tab.content = NoText
  BY <1>1, <1>2 DEF Tabs, Editor!NoTab, Editor!None, NoText
<1>4. ed \in Drafts /\ ~ed.here
  BY <1>1, <1>2 DEF Drafts, Editor!NoEditor, Cards, Editor!NoConfirm, Editor!None
<1>5. EditorTyped
  <2>1. events \in Seq(News) /\ hashing \in Seq(Hashes)
    BY <1>1, EmptySeq
  <2> QED
    BY <1>1, <1>2, <1>3, <1>4, <2>1 DEF EditorTyped
<1>6. Fits(tab, ed) /\ Told(tab, ed, shown, Ours)
  BY <1>3, <1>4 DEF Fits, Told
<1>7. Carried
  BY <1>1 DEF Carried
<1>8. Single
  BY <1>1, <1>3, <1>4 DEF Single, Own
<1> QED
  BY <1>1, <1>5, <1>6, <1>7, <1>8 DEF EditorInv

LEMMA EditorStays ==
  ASSUME EditorInv, UNCHANGED Editor!vars
  PROVE  EditorInv'
<1>1. UNCHANGED <<disk, texts, tab, ed, gen, loading, again, requests, events, hashing, shown,
                  typed, lost>>
  BY DEF Editor!vars, Editor!diskVars, Editor!viewVars, Editor!pageVars, Editor!history
<1>2. EditorTyped' /\ Fits(tab, ed)' /\ Carried' /\ Ours' = Ours
  BY <1>1 DEF EditorInv, EditorTyped, Fits, Carried, Ours, Editor!claims, Editor!Draft, NoText,
     Editor!None, Editor!Text, Texts, Tabs, Cards, Drafts, Asks, News, Hashes
<1>3. Told(tab, ed, shown, Ours)'
  BY <1>1, <1>2 DEF EditorInv, Told, NoCard, NoText, Editor!NoConfirm, Editor!None
<1>4. Single'
  BY <1>1 DEF EditorInv, Single, Own, NoCard, Editor!NoConfirm, Editor!None
<1> QED
  BY <1>1, <1>2, <1>3, <1>4 DEF EditorInv

LEMMA EditorSteps ==
  ASSUME EditorAssumption, EditorInv, [Editor!Next]_Editor!vars
  PROVE  EditorInv'
<1>1. CASE \E r \in requests : \/ Editor!Loaded(r) \/ Editor!Saved(r)
                               \/ Editor!Reloaded(r) \/ Editor!Compared(r)
  BY <1>1, LoadAnswered, SaveAnswered, ReloadAnswered, CompareAnswered
<1> QED
  BY <1>1, TabsMove, TabsShow, UserTypes, UserSaves, UserAsks, DiskWritten, RequestServed,
     EventsCome, HashCompared, EditorStays
     DEF Editor!Next

LEMMA EditorCardinality == \A S : Editor!Cardinality(S) = Cardinality(S)
  BY DEF Editor!Cardinality, Cardinality

LEMMA EditorMeans ==
  ASSUME EditorAssumption, EditorInv
  PROVE  Editor!TypeOK /\ Editor!EditorKeepsItsWord
<1> USE DEF EditorInv
<1>1. /\ {NoText} \cup Editor!Text = Texts /\ Editor!None = NoText
  BY DEF EditorAssumption, Editor!Text, Texts, Editor!None, NoText
<1>2. Editor!TypeOK
  BY <1>1 DEF Editor!TypeOK, EditorTyped, Tabs, Drafts, Asks
<1>3. Editor!NothingUnseenIsReplaced
  BY DEF Editor!NothingUnseenIsReplaced, Editor!Waiting, Carried, Ours
<1>4. Editor!DraftsAreKept
  BY DEF Editor!DraftsAreKept
<1>5. Editor!MarkIsTrue
  BY DEF Editor!MarkIsTrue, Fits
<1>6. Editor!OneSaveAtATime
  <2>1. {r \in requests : r.kind = "save" /\ r.gen = gen} = Own
    BY DEF Own
  <2>2. Own = {} \/ \E r \in Own : Own = {r}
    BY DEF Single
  <2>3. Editor!Cardinality(Own) <= 1
    BY <2>2, EditorCardinality, FS_EmptySet, FS_Singleton
  <2> QED
    BY <2>1, <2>3 DEF Editor!OneSaveAtATime, Single, NoCard
<1> QED
  BY <1>2, <1>3, <1>4, <1>5, <1>6 DEF Editor!EditorKeepsItsWord

\* The editor keeps its word, however many texts, requests, openings and events there
\* are: it replaces no text the user has not seen or written, it drops no draft
\* unasked, its mark is true, and one save of a tab is on its way at a time.
THEOREM EditorKept ==
  ASSUME EditorAssumption
  PROVE  Editor!Spec => [](Editor!TypeOK /\ Editor!EditorKeepsItsWord)
<1>1. Editor!Init => EditorInv
  BY EditorBegins
<1>2. EditorInv /\ [Editor!Next]_Editor!vars => EditorInv'
  BY EditorSteps
<1>3. EditorInv => Editor!TypeOK /\ Editor!EditorKeepsItsWord
  BY EditorMeans
<1> QED
  BY <1>1, <1>2, <1>3, PTL DEF Editor!Spec
==============================================================================
