---------------------------- MODULE SemanticIndex ----------------------------
(***************************************************************************)
(* The semantic index of one workspace: Build, Refresh, Clear and Retrieve *)
(* (internal/semantic/service.go), the directories they leave on disk      *)
(* (store.go) and the cache between them.  A build runs in the background  *)
(* (server/handler_session_ops.go) while prompts retrieve; the process may *)
(* die between any two steps.                                              *)
(***************************************************************************)
EXTENDS Naturals, FiniteSets

CONSTANTS File, Content, Model,
          Retrieval,  \* prompts that retrieve
          MaxWrites,  \* builds and refreshes that get to write
          MaxEdits    \* edits of files

VARIABLES
  files,     \* files[f]: a content, or Gone
  edits,
  written,   \* written[n]: what the nth writing held: [model, recs, vecs, scan]
  writes,
  disk,      \* disk[d]: [manifest, records, vectors], each the writing it is of, or 0
  pcB, plan, \* the build that runs, and what it will write
  cache,     \* [key, recs, vecs, beside]: writings, or NoEntry
  pcR, got,  \* Retrieve, and what it has read so far
  clearing,  \* the directory Clear has chosen, or NoDir
  beside,    \* history: retrievals that read while the index was changed
  died       \* history: the process has died

diskVars == <<written, writes, disk>>
buildVars == <<pcB, plan>>
readVars == <<pcR, got>>
vars == <<files, edits, diskVars, buildVars, cache, readVars, clearing, beside, died>>

Gone == "gone"
Empty == [manifest |-> 0, records |-> 0, vectors |-> 0]
NoEntry == [key |-> 0, recs |-> 0, vecs |-> 0, beside |-> FALSE]
NoPlan == [model |-> "none"]
NoDir == <<"none", 0>>

\* A directory for each embedding model (its name is a hash of it), a place
\* each for its predecessor, and a new temporary one for each writing.
Dir == ({"ws", "old"} \X Model) \cup ({"tmp"} \X (1..MaxWrites))

Init ==
  /\ files = [f \in File |-> CHOOSE c \in Content : TRUE] /\ edits = 0
  /\ written = [n \in 1..MaxWrites |-> NoPlan] /\ writes = 0
  /\ disk = [d \in Dir |-> Empty]
  /\ pcB = "idle" /\ plan = NoPlan
  /\ cache = NoEntry
  /\ pcR = [r \in Retrieval |-> "idle"] /\ got = [r \in Retrieval |-> NoEntry]
  /\ clearing = NoDir /\ beside = {} /\ died = FALSE

EditFile(f) ==
  /\ edits < MaxEdits /\ edits' = edits + 1
  /\ \E c \in (Content \cup {Gone}) \ {files[f]} : files' = [files EXCEPT ![f] = c]
  /\ UNCHANGED <<diskVars, buildVars, cache, readVars, clearing, died>>

-----------------------------------------------------------------------------
(* The store.                                                              *)

\* LoadManifest: the newest manifest of any directory, whatever its name; 0 for
\* none.  What is then read is the directory its model names.
LoadManifest == LET found == {disk[d].manifest : d \in Dir} \ {0}
                IN IF found = {} THEN 0 ELSE CHOOSE n \in found : \A m \in found : n >= m
Home(n) == <<"ws", written[n].model>>

\* Records and vectors are only held against the manifest's count.
Count(n) == IF n = 0 THEN 0 ELSE Cardinality({f \in File : written[n].recs[f] # Gone})
Loads(part, n) == part # 0 /\ Count(part) = Count(n)

-----------------------------------------------------------------------------
(* Build and Refresh.  A scan gives each file its record; a record gets the *)
(* vector of its text by the configured model.                             *)

Embed(scan, m) == [f \in File |-> [of |-> scan[f], by |-> m]]

Builds(m) == [model |-> m, recs |-> files, vecs |-> Embed(files, m), scan |-> files]

\* Defect: files that are gone do not count as changed.
changedNew(old) == {f \in File : files[f] # Gone /\ files[f] # old[f]}

changed(old) == {f \in File : files[f] # old[f]}

\* Records and vectors of files that have not changed are kept as they are.
Refreshes(records, vectors, m) ==
  LET old == written[records].recs
      kept == File \ changed(old)
  IN [model |-> m,
      recs  |-> [f \in File |-> IF f \in kept THEN old[f] ELSE files[f]],
      vecs  |-> [f \in File |-> IF f \in kept THEN written[vectors].vecs[f]
                                              ELSE [of |-> files[f], by |-> m]],
      scan  |-> files]

\* One build at a time for a root: acquireIndexRun.
StartBuild(m) ==
  /\ pcB = "idle" /\ writes < MaxWrites
  /\ plan' = Builds(m) /\ pcB' = "embedding"
  /\ UNCHANGED <<files, edits, diskVars, cache, readVars, clearing, died>>

\* No index, or one of another model: all is built anew.
StartRefresh(m) ==
  /\ pcB = "idle" /\ writes < MaxWrites /\ pcB' = "embedding"
  /\ LET n == LoadManifest IN
       \/ n = 0 /\ plan' = Builds(m)
       \/ n # 0 /\ written[n].model # m /\ plan' = Builds(m)
       \/ /\ n # 0 /\ written[n].model = m
          /\ Loads(disk[Home(n)].records, n) /\ Loads(disk[Home(n)].vectors, n)
          /\ plan' = Refreshes(disk[Home(n)].records, disk[Home(n)].vectors, m)
  /\ UNCHANGED <<files, edits, diskVars, cache, readVars, clearing, died>>

EmbedFails ==
  /\ pcB = "embedding"
  /\ pcB' = "idle" /\ plan' = NoPlan
  /\ UNCHANGED <<files, edits, diskVars, cache, readVars, clearing, died>>

Tmp == <<"tmp", writes>>
Ws == <<"ws", plan.model>>
Old == <<"old", plan.model>>

\* Replace, step by step: the manifest comes first.
WriteManifest ==
  /\ pcB = "embedding" /\ writes < MaxWrites
  /\ writes' = writes + 1
  /\ written' = [written EXCEPT ![writes + 1] = plan]
  /\ disk' = [disk EXCEPT ![<<"tmp", writes + 1>>].manifest = writes + 1]
  /\ pcB' = "manifest"
  /\ UNCHANGED <<files, edits, plan, cache, readVars, clearing, died>>

WriteData ==
  /\ \/ pcB = "manifest" /\ disk' = [disk EXCEPT ![Tmp].records = writes] /\ pcB' = "records"
     \/ pcB = "records" /\ disk' = [disk EXCEPT ![Tmp].vectors = writes, ![Old] = Empty]
                        /\ pcB' = "vectors"
  /\ UNCHANGED <<files, edits, written, writes, plan, cache, readVars, clearing, died>>

\* A step fails: the temporary directory goes, and the old one comes back.
WriteFails ==
  /\ \/ pcB \in {"manifest", "records", "vectors"} /\ disk' = [disk EXCEPT ![Tmp] = Empty]
     \/ pcB = "moved" /\ disk' = [disk EXCEPT ![Tmp] = Empty, ![Ws] = disk[Old], ![Old] = Empty]
  /\ pcB' = "idle" /\ plan' = NoPlan
  /\ UNCHANGED <<files, edits, written, writes, cache, readVars, clearing, died>>

MoveOld ==
  /\ pcB = "vectors"
  /\ disk' = [disk EXCEPT ![Old] = disk[Ws], ![Ws] = Empty]
  /\ pcB' = "moved"
  /\ UNCHANGED <<files, edits, written, writes, plan, cache, readVars, clearing, died>>

MoveNew ==
  /\ pcB = "moved"
  /\ disk' = [disk EXCEPT ![Ws] = disk[Tmp], ![Tmp] = Empty]
  /\ pcB' = "in place"
  /\ UNCHANGED <<files, edits, written, writes, plan, cache, readVars, clearing, died>>

RemoveOld ==
  /\ pcB = "in place"
  /\ disk' = [disk EXCEPT ![Old] = Empty]
  /\ pcB' = "written"
  /\ UNCHANGED <<files, edits, written, writes, plan, cache, readVars, clearing, died>>

invalidateIndexCache ==
  /\ pcB = "written"
  /\ cache' = NoEntry /\ pcB' = "idle" /\ plan' = NoPlan
  /\ UNCHANGED <<files, edits, diskVars, readVars, clearing, died>>

\* Clear removes the directory of the newest manifest's model, then the cache.
Clear ==
  /\ clearing = NoDir /\ LoadManifest # 0
  /\ clearing' = Home(LoadManifest)
  /\ UNCHANGED <<files, edits, diskVars, buildVars, cache, readVars, died>>

Cleared ==
  /\ clearing # NoDir
  /\ disk' = [disk EXCEPT ![clearing] = Empty]
  /\ clearing' = NoDir /\ cache' = NoEntry
  /\ UNCHANGED <<files, edits, written, writes, buildVars, readVars, died>>

-----------------------------------------------------------------------------
(* Retrieve.                                                               *)

ReadManifest(r) ==
  /\ pcR[r] = "idle" /\ LoadManifest # 0
  /\ LET n == LoadManifest IN
       IF cache.key = n
         THEN pcR' = [pcR EXCEPT ![r] = "served"] /\ got' = [got EXCEPT ![r] = cache]
         ELSE /\ pcR' = [pcR EXCEPT ![r] = "manifest"]
              /\ got' = [got EXCEPT ![r] = [NoEntry EXCEPT !.key = n]]
  /\ UNCHANGED <<files, edits, diskVars, buildVars, cache, clearing, died>>

\* A part that is missing or has another count is a corrupt index.
ReadPart(r, from, to, part) ==
  /\ pcR[r] = from
  /\ IF Loads(part, got[r].key)
       THEN pcR' = [pcR EXCEPT ![r] = to]
       ELSE pcR' = [pcR EXCEPT ![r] = "served"]
  /\ UNCHANGED <<files, edits, diskVars, buildVars, cache, clearing, died>>

LoadRecords(r) ==
  LET part == disk[Home(got[r].key)].records IN
    /\ ReadPart(r, "manifest", "records", part)
    /\ got' = [got EXCEPT ![r] = IF Loads(part, @.key) THEN [@ EXCEPT !.recs = part] ELSE NoEntry]

LoadVectors(r) ==
  LET part == disk[Home(got[r].key)].vectors IN
    /\ ReadPart(r, "records", "vectors", part)
    /\ got' = [got EXCEPT ![r] = IF Loads(part, @.key) THEN [@ EXCEPT !.vecs = part] ELSE NoEntry]

putCachedIndex(r) ==
  /\ pcR[r] = "vectors"
  /\ cache' = [got[r] EXCEPT !.beside = r \in beside]
  /\ pcR' = [pcR EXCEPT ![r] = "served"]
  /\ UNCHANGED <<files, edits, diskVars, buildVars, got, clearing, died>>

Again(r) ==
  /\ pcR[r] = "served"
  /\ pcR' = [pcR EXCEPT ![r] = "idle"] /\ got' = [got EXCEPT ![r] = NoEntry]
  /\ UNCHANGED <<files, edits, diskVars, buildVars, cache, clearing, died>>

\* The process dies and starts again: only the disk is left.
Die ==
  /\ ~died /\ died' = TRUE
  /\ pcB' = "idle" /\ plan' = NoPlan /\ cache' = NoEntry /\ clearing' = NoDir
  /\ pcR' = [r \in Retrieval |-> "idle"] /\ got' = [r \in Retrieval |-> NoEntry]
  /\ UNCHANGED <<files, edits, diskVars>>

-----------------------------------------------------------------------------
Write == \/ \E m \in Model : StartBuild(m) \/ StartRefresh(m)
         \/ EmbedFails \/ WriteManifest \/ WriteData \/ WriteFails
         \/ MoveOld \/ MoveNew \/ RemoveOld \/ invalidateIndexCache
         \/ Clear \/ Cleared
Read(r) == ReadManifest(r) \/ LoadRecords(r) \/ LoadVectors(r) \/ putCachedIndex(r) \/ Again(r)

\* The index is being changed, as a reader may see it.
Changing == pcB \notin {"idle", "embedding"} \/ clearing # NoDir
Reading(r) == pcR[r] \in {"manifest", "records", "vectors"}

\* Keeps beside: readers for which that was so at some time while they read.
Watch == beside' = {r \in Retrieval : Reading(r)' /\ (r \in beside \/ Changing \/ Changing')}

Step == Write \/ Die \/ (\E r \in Retrieval : Read(r)) \/ (\E f \in File : EditFile(f))
Next == Step /\ Watch

Spec == Init /\ [][Next]_vars

-----------------------------------------------------------------------------
TypeOK ==
  /\ files \in [File -> Content \cup {Gone}] /\ writes \in 0..MaxWrites
  /\ disk \in [Dir -> [manifest : 0..MaxWrites, records : 0..MaxWrites, vectors : 0..MaxWrites]]
  /\ {cache} \cup {got[r] : r \in Retrieval} \subseteq
       [key : 0..MaxWrites, recs : 0..MaxWrites, vecs : 0..MaxWrites, beside : BOOLEAN]
  /\ clearing \in Dir \cup {NoDir} /\ beside \subseteq Retrieval

\* PHASE-28-DETAILED-PLAN.md: "atomic replace by writing to a temp directory/file
\* then renaming"; "Refresh only re-embeds changed files".  As long as the process
\* has not died:
\*   - whatever is written holds each file as it was scanned and the vector of
\*     just that text by the index's own model, refreshed or built;
\*   - when nothing is being changed the newest manifest stands with the records
\*     and vectors of its own writing;
\*   - the cache holds those of the writing it is filed under, unless they were
\*     read while the index was changed: such an entry may be mixed, and be served
\*     until the next writing.
IndexIsWhole ==
  ~died =>
    /\ \A n \in 1..writes : /\ written[n].recs = written[n].scan
                            /\ written[n].vecs = Embed(written[n].scan, written[n].model)
    /\ LET n == LoadManifest IN
         ~Changing /\ n # 0 => disk[Home(n)] = [manifest |-> n, records |-> n, vectors |-> n]
    /\ cache.beside \/ (cache.recs = cache.key /\ cache.vecs = cache.key)
=============================================================================
