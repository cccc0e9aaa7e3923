------------------------------ MODULE FileEdits ------------------------------
(***************************************************************************)
(* One workspace file and those who write it: the browser's saves          *)
(* (internal/server/handler_files.go, save_permission.go,                  *)
(* file_write_tracking.go), the agent's FileWrite, FileEdit and FileRead   *)
(* (internal/tools) and a shell that asks nobody.  Writers other than the  *)
(* shell hold the path's lock (tools/filewrite/lock.go).                   *)
(***************************************************************************)
EXTENDS Naturals

CONSTANTS Save,      \* browser tabs with an editor open
          Write,     \* FileWrite calls
          Edit,      \* FileEdit calls
          MaxShell,  \* writes of the shell
          Ends       \* whose contents end with a line end

Call == Write \cup Edit
Writer == Save \cup Call

VARIABLES
  file,      \* [by, n]: who wrote the content, and the how-manieth of his
  shells,
  base,      \* base[b]: the content tab b loaded, whose hash it will send
  seen,      \* seen[w]: what w read under the lock
  snap,      \* the agent's snapshot of the file
  whole,     \* the snapshot is that content to the last byte
  ranged,    \* the ranges of the present file the agent was given
  known,     \* the content the agent last read (to the end or not) or wrote
  pc,
  confirm,   \* tabs whose user has confirmed
  prompts,   \* calls that wait for permission in the broker
  activeWrites, \* calls that were announced
  entry, refs, inside, slot   \* the path's lock entry, see below

lockVars == <<entry, refs, inside, slot>>
readVars == <<snap, whole, ranged, known>>
tabVars == <<base, confirm>>
trackVars == <<prompts, activeWrites>>
vars == <<file, shells, seen, pc, tabVars, readVars, trackVars, lockVars>>

None == [by |-> "none", n |-> 0]
First == [by |-> "git", n |-> 1]

Init ==
  /\ file = First /\ shells = 0
  /\ base = [b \in Save |-> None] /\ seen = [w \in Writer |-> None]
  /\ snap = None /\ whole = FALSE /\ ranged = {} /\ known = None
  /\ pc = [w \in Writer |-> "idle"]
  /\ confirm = {}
  /\ prompts = {} /\ activeWrites = {}
  /\ entry = 0 /\ refs = [g \in 1..2 |-> 0] /\ inside = [g \in 1..2 |-> "nobody"]
  /\ slot = [w \in Writer |-> 0]

Go(w, to) == pc' = [pc EXCEPT ![w] = to]

-----------------------------------------------------------------------------
(* lock.go.  pathLocks[key] is an entry, numbered here; refs[g] counts who  *)
(* uses entry g, inside[g] is who has put his token into its channel, and  *)
(* slot[w] is the entry w uses.                                            *)

acquireEntry(w) ==
  LET g == IF entry # 0 THEN entry ELSE CHOOSE f \in 1..2 : refs[f] = 0 IN
    /\ entry # 0 \/ \E f \in 1..2 : refs[f] = 0
    /\ entry' = g
    /\ refs' = [refs EXCEPT ![g] = @ + 1]
    /\ slot' = [slot EXCEPT ![w] = g]

\* Defect: the entry is dropped while others still wait at it.
entryAfterAnyRelease(g) == 0

\* The entry that stays in the map when a user of g goes.
entryAfterRelease(g) == IF refs[g] = 1 /\ entry = g THEN 0 ELSE entry

releaseEntry(w) ==
  LET g == slot[w] IN
    /\ refs' = [refs EXCEPT ![g] = @ - 1]
    /\ entry' = entryAfterRelease(g)
    /\ slot' = [slot EXCEPT ![w] = 0]

Enter(w) == inside[slot[w]] = "nobody" /\ inside' = [inside EXCEPT ![slot[w]] = w]
Unlock(w) == inside' = [inside EXCEPT ![slot[w]] = "nobody"] /\ releaseEntry(w)

-----------------------------------------------------------------------------
(* The file's writers have the content they write: their own next one.     *)

Next_(w) == [by |-> w, n |-> IF file.by = w THEN file.n + 1 ELSE 1]

Shell ==
  /\ shells < MaxShell /\ shells' = shells + 1
  /\ file' = [by |-> "shell", n |-> shells + 1] /\ ranged' = {}
  /\ UNCHANGED <<seen, pc, tabVars, snap, whole, known, trackVars, lockVars>>

-----------------------------------------------------------------------------
(* handleGetFiles and handlePutFiles.                                      *)

Load(b) ==
  /\ pc[b] \in {"idle", "asked"}
  /\ base' = [base EXCEPT ![b] = file] /\ confirm' = confirm \ {b}
  /\ Go(b, "loaded")
  /\ UNCHANGED <<file, shells, seen, readVars, trackVars, lockVars>>

writePending == prompts \cup activeWrites # {}

\* The request, and the two looks at pending writes around the lock; a refused
\* save leaves the user with his editor.
PutFiles(b) ==
  /\ pc[b] \in {"loaded", "asked"}
  /\ confirm' = IF pc[b] = "asked" THEN confirm \cup {b} ELSE confirm \ {b}
  /\ IF writePending THEN Go(b, "loaded") ELSE Go(b, "trying")
  /\ UNCHANGED <<file, shells, base, seen, readVars, trackVars, lockVars>>

TryLockPath(b) ==
  /\ pc[b] = "trying"
  /\ IF entry # 0 /\ inside[entry] # "nobody"
       THEN Go(b, "loaded") /\ UNCHANGED lockVars
       ELSE /\ acquireEntry(b)
            /\ inside' = [inside EXCEPT ![slot'[b]] = b]
            /\ Go(b, "locked")
  /\ UNCHANGED <<file, shells, seen, tabVars, readVars, trackVars>>

CheckBase(b) ==
  /\ pc[b] = "locked"
  /\ IF writePending \/ file # base[b]
       THEN Go(b, "loaded") /\ Unlock(b) /\ UNCHANGED seen
       ELSE Go(b, "deciding") /\ seen' = [seen EXCEPT ![b] = file] /\ UNCHANGED lockVars
  /\ UNCHANGED <<file, shells, tabVars, readVars, trackVars>>

\* Rules, mode and hooks have their say (PermissionResolution); a confirmed save
\* goes through where it would be asked for.
Decide(b) ==
  /\ pc[b] = "deciding"
  /\ \/ Go(b, "loaded") /\ Unlock(b)
     \/ b \notin confirm /\ Go(b, "asked") /\ Unlock(b)
     \/ Go(b, "decided") /\ UNCHANGED lockVars
  /\ UNCHANGED <<file, shells, seen, tabVars, readVars, trackVars>>

\* Hooks may have changed the file while permission was checked.
CheckLatest(b) ==
  /\ pc[b] = "decided"
  /\ IF file # seen[b]
       THEN Go(b, "loaded") /\ Unlock(b)
       ELSE Go(b, "writing") /\ UNCHANGED lockVars
  /\ UNCHANGED <<file, shells, seen, tabVars, readVars, trackVars>>

SaveWrite(b) ==
  /\ pc[b] = "writing"
  /\ file' = Next_(b) /\ ranged' = {}
  /\ Go(b, "saved") /\ Unlock(b)
  /\ UNCHANGED <<shells, seen, tabVars, snap, whole, known, trackVars>>

\* AtomicWrite fails: the file is as it was.
WriteFails(w) ==
  /\ pc[w] \in {"writing", "read"}
  /\ Go(w, IF w \in Save THEN "loaded" ELSE "written") /\ Unlock(w)
  /\ UNCHANGED <<file, shells, seen, tabVars, readVars, trackVars>>

-----------------------------------------------------------------------------
(* The agent's calls.                                                      *)

AskPermission(a) ==
  /\ pc[a] = "idle"
  /\ prompts' = prompts \cup {a} /\ Go(a, "asking")
  /\ UNCHANGED <<file, shells, seen, tabVars, readVars, activeWrites, lockVars>>

\* The answer takes the prompt from the broker.
Answer(a) ==
  /\ pc[a] = "asking"
  /\ prompts' = prompts \ {a}
  /\ \E to \in {"allowed", "refused"} : Go(a, to)
  /\ UNCHANGED <<file, shells, seen, tabVars, readVars, activeWrites, lockVars>>

\* ToolUseStart reaches the session some time after it was sent: the call may
\* be past its lock by then, but not past its result.
trackFileWriteStart(a) ==
  /\ pc[a] \in {"allowed", "waiting", "locked", "read", "written"} /\ a \notin activeWrites
  /\ activeWrites' = activeWrites \cup {a}
  /\ UNCHANGED <<file, shells, seen, pc, tabVars, readVars, prompts, lockVars>>

LockPath(a) ==
  /\ pc[a] = "allowed"
  /\ acquireEntry(a)
  /\ Go(a, "waiting")
  /\ UNCHANGED <<file, shells, seen, tabVars, readVars, trackVars, inside>>

LockTaken(a) ==
  /\ pc[a] = "waiting" /\ Enter(a)
  /\ Go(a, "locked")
  /\ UNCHANGED <<file, shells, seen, tabVars, readVars, trackVars, entry, refs, slot>>

\* PathLockTimeout, or the run is cancelled.
LockTimeout(a) ==
  /\ pc[a] = "waiting"
  /\ releaseEntry(a)
  /\ Go(a, "written")
  /\ UNCHANGED <<file, shells, seen, tabVars, readVars, trackVars, inside>>

\* FileWrite keeps the prior content as its snapshot.
ReadPrior(a) ==
  /\ pc[a] = "locked" /\ a \in Write
  /\ seen' = [seen EXCEPT ![a] = file]
  /\ snap' = file /\ whole' = TRUE
  /\ Go(a, "read")
  /\ UNCHANGED <<file, shells, tabVars, ranged, known, trackVars, lockVars>>

Stale == snap # None /\ ~(whole /\ snap = file)

\* FileEdit refuses a file that is not its snapshot, or without a match.
ReadCurrent(a) ==
  /\ pc[a] = "locked" /\ a \in Edit
  /\ seen' = [seen EXCEPT ![a] = file]
  /\ \/ ~Stale /\ Go(a, "read") /\ UNCHANGED lockVars
     \/ Stale /\ Go(a, "stale") /\ Unlock(a)
     \/ ~Stale /\ Go(a, "written") /\ Unlock(a)
  /\ UNCHANGED <<file, shells, tabVars, readVars, trackVars>>

WriteBack(a) ==
  /\ pc[a] = "read"
  /\ file' = Next_(a) /\ known' = Next_(a) /\ ranged' = {}
  /\ snap' = IF a \in Edit THEN Next_(a) ELSE snap
  /\ whole' = (a \in Edit \/ whole)
  /\ Go(a, "written") /\ Unlock(a)
  /\ UNCHANGED <<shells, seen, tabVars, trackVars>>

\* The result ends the call's tracking; so does the end of the run.
trackFileWriteResult(a) ==
  /\ pc[a] \in {"written", "stale"}
  /\ activeWrites' = activeWrites \ {a}
  /\ Go(a, "done")
  /\ UNCHANGED <<file, shells, seen, tabVars, readVars, prompts, lockVars>>

\* FileRead of the whole file or of its first lines.  A range that was given is
\* not given again while the file keeps its time stamp.  What is kept as the
\* snapshot are the lines, joined again, without the last one's end.
FileRead(range) ==
  /\ IF range \in ranged
       THEN UNCHANGED <<snap, whole, ranged>>
       ELSE /\ snap' = file /\ ranged' = ranged \cup {range}
            /\ whole' = (range = "all" /\ file.by \notin Ends)
  /\ known' = file
  /\ UNCHANGED <<file, shells, seen, pc, tabVars, trackVars, lockVars>>

-----------------------------------------------------------------------------
SaveStep(b) == \/ Load(b) \/ PutFiles(b) \/ TryLockPath(b) \/ CheckBase(b) \/ Decide(b)
               \/ CheckLatest(b) \/ SaveWrite(b) \/ WriteFails(b)
CallStep(a) == \/ AskPermission(a) \/ Answer(a) \/ trackFileWriteStart(a)
               \/ LockPath(a) \/ LockTaken(a) \/ LockTimeout(a)
               \/ ReadPrior(a) \/ ReadCurrent(a) \/ WriteBack(a) \/ WriteFails(a)
               \/ trackFileWriteResult(a)

Next == \/ \E b \in Save : SaveStep(b)
        \/ \E a \in Call : CallStep(a)
        \/ \E range \in {"all", "part"} : FileRead(range)
        \/ Shell

Spec == Init /\ [][Next]_vars

-----------------------------------------------------------------------------
Content == [by : Writer \cup {"none", "git", "shell"}, n : Nat]

TypeOK ==
  /\ {file, snap, known} \subseteq Content /\ ranged \subseteq {"all", "part"} /\ shells \in 0..MaxShell
  /\ base \in [Save -> Content] /\ seen \in [Writer -> Content]
  /\ whole \in BOOLEAN /\ confirm \subseteq Save
  /\ prompts \subseteq Call /\ activeWrites \subseteq Call
  /\ entry \in 0..2 /\ refs \in [1..2 -> Nat] /\ slot \in [Writer -> 0..2]
  /\ inside \in [1..2 -> Writer \cup {"nobody"}]

\* lock.go: "LockPath reserves a path while an agent write is in progress".
\* What a save or an edit is about to replace is what it read: only the shell,
\* which takes no lock, can have come between.
NoWriteIsLost ==
  \A w \in Save \cup Edit :
    pc[w] \in {"deciding", "decided", "writing", "read"} =>
      file = seen[w] \/ file.by = "shell"

\* fileedit.go: "staleness detected -- file has changed since last read".  An
\* edit is refused so only when the file is not what the agent last saw.
StaleMeansChanged == \A a \in Edit : pc[a] = "stale" => known # seen[a]
=============================================================================
