----------------------------- MODULE MemoryStore -----------------------------
(***************************************************************************)
(* The memory directory of a project (internal/memory): a run recalls some *)
(* of its active files, and finished runs leave drafts in pending/, from   *)
(* goroutines that nothing waits for.  Contents are numbers; a draft is    *)
(* <<extraction, place>>.                                                  *)
(***************************************************************************)
EXTENDS Naturals, Sequences, FiniteSets

LOCAL INSTANCE SequencesExt
LOCAL INSTANCE FiniteSetsExt

CONSTANTS File,        \* active files, in the order of their names
          Extraction,  \* finished runs that are looked through
          DraftName,   \* names the model proposes
          MaxSelected, MaxDrafts, MaxSeconds, MaxEdits

VARIABLES
  active,     \* [File -> version]; 0: not there, or without a valid header
  edits,
  rpc, scanned, chosen, shown, \* the recall: Scan's entries, the selected, those loaded
  second,     \* the clock, as the drafts' names have it
  epc,        \* of every extraction
  drafts,     \* the drafts it has still to write: [name, content]
  target,     \* the name of the one it is writing
  tmp, pending, \* files: name to content
  written,    \* history: drafts whose writePending returned no error, under which name
  torn        \* history: names two writers were at in the same second

recallVars == <<rpc, scanned, chosen, shown>>
draftVars == <<second, epc, drafts, target, tmp, pending, written, torn>>
vars == <<active, edits, recallVars, draftVars>>

Nothing == [n \in {} |-> 0]
With(f, n, v) == [m \in DOMAIN f \cup {n} |-> IF m = n THEN v ELSE f[m]]
Without(f, n) == [m \in DOMAIN f \ {n} |-> f[m]]
Files == Range(File)
NoTarget == [name |-> "none", at |-> 0]

Init ==
  /\ active = [f \in Files |-> 1] /\ edits = 0
  /\ rpc = "idle" /\ scanned = {} /\ chosen = <<>> /\ shown = Nothing
  /\ second = 0 /\ epc = [e \in Extraction |-> "idle"] /\ drafts = [e \in Extraction |-> <<>>]
  /\ target = [e \in Extraction |-> NoTarget] /\ tmp = Nothing /\ pending = Nothing
  /\ written = {} /\ torn = {}

\* Recall and drafts have no file in common: a behaviour is about one of the two.
apart == (\A e \in Extraction : epc[e] = "idle") /\ rpc = "idle"

-----------------------------------------------------------------------------
(* buildAugmentedPrompt.                                                   *)

ScanActive ==
  /\ rpc = "idle" /\ apart /\ scanned' = {f \in Files : active[f] # 0} /\ rpc' = "choose"
  /\ UNCHANGED <<active, edits, chosen, shown, draftVars>>

\* Defect: as many as the model names.
KnownAll(named) ==
  LET Take(s, f) == IF f \in scanned \ Range(s) THEN Append(s, f) ELSE s
  IN FoldLeft(Take, <<>>, named)

\* Recall: of the names the model gives, those that were scanned, each once.
Known(named) ==
  LET Take(s, f) == IF Len(s) < MaxSelected /\ f \in scanned \ Range(s) THEN Append(s, f) ELSE s
  IN FoldLeft(Take, <<>>, named)

ChooseByModel ==
  /\ rpc = "choose"
  /\ \E named \in UNION {[1..n -> Files \cup {"unknown"}] : n \in 0..Len(File)} :
       chosen' = Known(named)
  /\ rpc' = "load" /\ UNCHANGED <<active, edits, scanned, shown, draftVars>>

\* The fast way: the best by score, of equal scores the first name; too low a score
\* is left out.
ChooseByScore ==
  /\ rpc = "choose"
  /\ \E score \in [Files -> 0..3] :
       LET before(f, g) == \/ score[f] > score[g]
                           \/ /\ score[f] = score[g]
                              /\ \E i, j \in DOMAIN File : i < j /\ File[i] = f /\ File[j] = g
           ranked == SetToSortSeq({f \in scanned : score[f] >= 2}, before)
       IN chosen' = SubSeq(ranked, 1, Min({MaxSelected, Len(ranked)}))
  /\ rpc' = "load" /\ UNCHANGED <<active, edits, scanned, shown, draftVars>>

\* readSelected: one file that has gone takes all of them with it.
LoadNext ==
  /\ rpc = "load" /\ Cardinality(DOMAIN shown) < Len(chosen)
  /\ LET f == chosen[Cardinality(DOMAIN shown) + 1]
     IN IF active[f] = 0 THEN shown' = Nothing /\ rpc' = "done"
                         ELSE shown' = With(shown, f, active[f]) /\ UNCHANGED rpc
  /\ UNCHANGED <<active, edits, scanned, chosen, draftVars>>

LoadDone ==
  /\ rpc = "load" /\ Cardinality(DOMAIN shown) = Len(chosen) /\ rpc' = "done"
  /\ UNCHANGED <<active, edits, scanned, chosen, shown, draftVars>>

\* The user, or the agent's own tools, change or remove a memory.
EditMemory(f) ==
  /\ edits < MaxEdits /\ rpc # "idle" /\ edits' = edits + 1
  /\ active' \in {[active EXCEPT ![f] = 0], [active EXCEPT ![f] = @ + 1]}
  /\ UNCHANGED <<recallVars, draftVars>>

-----------------------------------------------------------------------------
(* extractPending and writePending.                                        *)

Step(e, to) == epc' = [epc EXCEPT ![e] = to]

\* The model's drafts, those without a usable name or content replaced or dropped; an
\* error or anything but JSON leaves none.
ExtractDrafts(e) ==
  /\ epc[e] = "idle" /\ rpc = "idle" /\ Step(e, "next")
  /\ \E names \in UNION {[1..n -> DraftName] : n \in 0..MaxDrafts} :
       drafts' = [drafts EXCEPT ![e] = [i \in DOMAIN names |-> [name |-> names[i], content |-> <<e, i>>]]]
  /\ UNCHANGED <<active, edits, recallVars, second, target, tmp, pending, written, torn>>

Stamped(e) == [name |-> Head(drafts[e]).name, at |-> second]

\* The file beside the target; a name and a second that are taken are written over.
WriteTmp(e) ==
  /\ epc[e] = "next" /\ drafts[e] # <<>> /\ Step(e, "rename")
  /\ LET t == Stamped(e)
     IN /\ target' = [target EXCEPT ![e] = t]
        /\ tmp' = With(tmp, t, Head(drafts[e]).content)
        /\ torn' = IF t \in DOMAIN pending \cup DOMAIN tmp THEN torn \cup {[t EXCEPT !.at = second]}
                                                          ELSE torn
  /\ UNCHANGED <<active, edits, recallVars, second, drafts, pending, written>>

Written(e) ==
  /\ drafts' = [drafts EXCEPT ![e] = Tail(@)] /\ Step(e, "next")
  /\ UNCHANGED <<active, edits, recallVars, second, target, torn>>

Rename(e) ==
  /\ epc[e] = "rename" /\ target[e] \in DOMAIN tmp
  /\ pending' = With(pending, target[e], tmp[target[e]]) /\ tmp' = Without(tmp, target[e])
  /\ written' = written \cup {[file |-> target[e], content |-> Head(drafts[e]).content]}
  /\ Written(e)

\* Another writer of the same name was first, or the disk fails.
RenameFails(e) ==
  /\ epc[e] = "rename" /\ UNCHANGED <<tmp, pending, written>> /\ Written(e)

Tick ==
  /\ second < MaxSeconds /\ rpc = "idle" /\ second' = second + 1
  /\ UNCHANGED <<active, edits, recallVars, epc, drafts, target, tmp, pending, written, torn>>

Next ==
  \/ ScanActive \/ ChooseByModel \/ ChooseByScore \/ LoadNext \/ LoadDone
  \/ \E f \in Files : EditMemory(f)
  \/ \E e \in Extraction : ExtractDrafts(e) \/ WriteTmp(e) \/ Rename(e) \/ RenameFails(e)
  \/ Tick

Spec == Init /\ [][Next]_vars

-----------------------------------------------------------------------------
TypeOK ==
  /\ active \in [Files -> 0..(MaxEdits + 1)] /\ edits \in 0..MaxEdits
  /\ rpc \in {"idle", "choose", "load", "done"} /\ scanned \subseteq Files
  /\ chosen \in Seq(Files) /\ DOMAIN shown \subseteq Range(chosen)
  /\ second \in 0..MaxSeconds /\ epc \in [Extraction -> {"idle", "next", "rename"}]
  /\ \A e \in Extraction : Len(drafts[e]) <= MaxDrafts

\* runner.go, store.go: a draft that was written stays as it was, unless another of
\* its name was written in the same second.
DraftsStay ==
  \A w \in written : w.file \in torn \/ (w.file \in DOMAIN pending /\ pending[w.file] = w.content)

\* recall.go, runner.go: a prompt gets memories that were there, each once and no more
\* than MaxSelected, and all that were chosen or none.
RecallIsBounded ==
  /\ Len(chosen) <= MaxSelected /\ Range(chosen) \subseteq scanned
  /\ rpc = "done" => \/ shown = Nothing
                     \/ Cardinality(DOMAIN shown) = Len(chosen)

MemoryKeepsItsWord == DraftsStay /\ RecallIsBounded
=============================================================================
