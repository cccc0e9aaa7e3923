------------------------------ MODULE TurnPrep ------------------------------
(***************************************************************************)
(* A prompt becomes the input of a run: turnprep.Prepare.  Mentions are    *)
(* resolved and expanded (internal/mentions), packed again under a budget  *)
(* when they do not fit or name a directory (internal/contextpack), and    *)
(* the route decides on retrieval and tools (internal/retrievalroute).     *)
(* Files are read twice, and may change in between.                        *)
(***************************************************************************)
EXTENDS Naturals, Integers, Sequences, FiniteSets

LOCAL INSTANCE SequencesExt
LOCAL INSTANCE FiniteSetsExt

CONSTANTS File,        \* files, by path
          Inside,      \* those under the one directory
          Order,       \* Order: the files and "dir", sorted by path
          Size,        \* sizes files have, in bytes
          Avail,       \* values of AvailableEvidenceTokens, in bytes
          ReadCap, ByteCap, FileCap, \* MaxReadChars, MaxPromptBytes, MaxPromptFiles unclamped
          DirFileCap,  \* MaxDirFiles
          Asked,       \* bytes of the prompt itself
          Large,       \* largeFileBytesThreshold
          Tiny, Marker, \* deterministicExcerpt: 32, and the length of its mark
          MaxSamples,  \* 8 files of a directory
          ContextCap,  \* the route's MaxContextBytes
          MaxEdits

VARIABLES
  size, edits,   \* the files
  request,       \* what was typed, and the surface's state
  pc,
  left,          \* mentions or references still to be handled
  usedFiles, usedBytes, \* promptBudget
  resolved,      \* filesByPath: [bytes, cut] of what expansion kept
  dirCut,        \* a directory block is marked as truncated
  statSize,      \* sizes resolveMentionRefs saw
  reads,         \* readFilesParallelBounded
  remaining,     \* remainingChars
  form,          \* the prompt is "expanded", or "packed", perhaps with "ranges"
  shown,         \* bytes of each file in the prompt
  told,          \* files the prompt says are cut, skipped or omitted
  content,       \* bytes of evidence in the prompt
  attached,      \* Prepared.Files and Dirs
  route,         \* the decision's part that matters: [embed, tools]
  was            \* history: the sizes each file was read with

packVars == <<statSize, reads, remaining, form>>
promptVars == <<shown, told, content, attached, route>>
expandVars == <<usedFiles, usedBytes, resolved, dirCut>>
vars == <<size, edits, request, pc, left, expandVars, packVars, promptVars, was>>

None == "none"
Dir == "dir"
Path == File \cup {Dir}
Least(a, b) == IF a < b THEN a ELSE b
Most(a, b) == IF a > b THEN a ELSE b
NotExpanded == [bytes |-> 0, cut |-> FALSE]

mentioned == Range(request.mentions)
InOrder(paths) == SelectSeq(Order, LAMBDA p : p \in paths)
treeOnly == request.listing /\ Dir \in mentioned

\* Mentions without repetition, in any order.
Mentions == UNION {{s \in [1..n -> Path] : IsInjective(s)} : n \in 1..2}
Nothing == [mentions |-> <<>>, avail |-> 0, listing |-> FALSE, lines |-> None,
            text |-> {}, relevant |-> {}]

Init ==
  /\ size = [f \in File |-> 0] /\ edits = 0 /\ request = Nothing
  /\ pc = "idle" /\ left = <<>>
  /\ usedFiles = 0 /\ usedBytes = 0 /\ resolved = [f \in File |-> NotExpanded] /\ dirCut = FALSE
  /\ statSize = [f \in File |-> 0] /\ reads = [f \in File |-> -1] /\ remaining = 0
  /\ form = "expanded"
  /\ shown = [f \in File |-> 0] /\ told = {} /\ content = 0 /\ attached = {}
  /\ route = [embed |-> FALSE, tools |-> TRUE] /\ was = [f \in File |-> {}]

\* A prompt is typed, in any workspace.  An explicit line range names a mentioned
\* file; a listing is asked of a mentioned directory.
Typed ==
  /\ pc = "idle" /\ size' \in [File -> Size]
  /\ \E m \in Mentions, avail \in Avail, listing \in BOOLEAN, lines \in File \cup {None},
        text \in {File, Inside}, relevant \in {{}, Inside} :
       /\ lines # None => lines \in Range(m)
       /\ listing => Dir \in Range(m)
       /\ request' = [mentions |-> m, avail |-> avail, listing |-> listing, lines |-> lines,
                      text |-> text, relevant |-> relevant]
  /\ pc' = "mentions"
  /\ UNCHANGED <<edits, left, expandVars, packVars, promptVars, was>>

\* Somebody else writes a file meanwhile.
Change(f, n) ==
  /\ edits < MaxEdits /\ pc \notin {"idle", "done", "failed"} /\ n # size[f]
  /\ size' = [size EXCEPT ![f] = n] /\ edits' = edits + 1
  /\ UNCHANGED <<request, pc, left, expandVars, packVars, promptVars, was>>

-----------------------------------------------------------------------------
(* ExpandPromptDetailed.                                                   *)

\* ClampToolContextToBudget leaves the caps alone when nothing is available.
Clamp(cap, to) == IF request.avail > 0 THEN Least(cap, to) ELSE cap
maxBytes == Clamp(ByteCap, request.avail)
maxRead == Clamp(ReadCap, Most(1, request.avail \div 2))

\* Files that a mentioned directory covers are dropped from the mentions.
pruneOverlaps(ms) ==
  SelectSeq(ms, LAMBDA p : ~(p \in Inside /\ Dir \in Range(ms)))

Resolve ==
  /\ pc = "mentions"
  /\ left' = pruneOverlaps(request.mentions) /\ pc' = "expand"
  /\ UNCHANGED <<size, edits, request, expandVars, packVars, promptVars, was>>

Fail(p) ==
  /\ pc' = "failed" /\ left' = <<>>
  /\ UNCHANGED <<size, edits, request, expandVars, packVars, promptVars, was>>

exhausted(bytes, files) == bytes >= maxBytes \/ files >= FileCap

\* expandSingleFile.  A file that is not text fails the turn.
ExpandFile ==
  /\ pc = "expand" /\ left # <<>> /\ Head(left) \in File
  /\ LET f == Head(left)
         kept == Least(size[f], maxRead)
         fits == usedBytes + kept <= maxBytes /\ usedFiles < FileCap
         n == IF fits THEN kept ELSE 0
     IN IF f \notin request.text THEN Fail(f)
        ELSE /\ resolved' = [resolved EXCEPT ![f] = [bytes |-> n,
                                                     cut |-> ~fits \/ size[f] > maxRead]]
             /\ usedBytes' = usedBytes + n /\ usedFiles' = usedFiles + IF n > 0 THEN 1 ELSE 0
             /\ was' = [was EXCEPT ![f] = @ \cup {size[f]}]
             /\ left' = Tail(left)
             /\ UNCHANGED <<size, edits, request, pc, dirCut, packVars, promptVars>>

\* The body of expandDirectory's loop; taken is what the walk has so far.  At a
\* cap it stops; a file that is too large or no text is marked in the tree.
\* MaxDirBytes is not modelled: it is the prompt's limit when both are clamped.
TakeEntry(taken, f) ==
  LET kept == Least(size[f], maxRead)
      stop == \/ taken.files >= DirFileCap \/ usedFiles + taken.files >= FileCap
              \/ /\ size[f] <= 4 * maxRead /\ f \in request.text
                 /\ usedBytes + taken.bytes + kept > maxBytes
      skip == size[f] > 4 * maxRead \/ f \notin request.text
  IN CASE taken.stop -> taken
       [] ~taken.stop /\ stop -> [taken EXCEPT !.stop = TRUE, !.cut = TRUE]
       [] ~taken.stop /\ ~stop /\ skip -> taken
       [] OTHER -> [taken EXCEPT !.resolved[f] = [bytes |-> kept, cut |-> size[f] > maxRead],
                                 !.files = @ + 1, !.bytes = @ + kept,
                                 !.cut = @ \/ size[f] > maxRead]

\* The walk itself may be cut, at a depth or a number of entries.
ExpandDir ==
  /\ pc = "expand" /\ left # <<>> /\ Head(left) = Dir
  /\ \E walkCut \in BOOLEAN :
     LET start == [resolved |-> resolved, files |-> 0, bytes |-> 0, cut |-> walkCut,
                   stop |-> FALSE]
         taken == CASE exhausted(usedBytes, usedFiles) -> [start EXCEPT !.cut = TRUE]
                    [] ~exhausted(usedBytes, usedFiles) /\ request.listing -> start
                    [] OTHER -> FoldLeft(TakeEntry, start, InOrder(Inside))
     IN /\ resolved' = taken.resolved /\ dirCut' = (dirCut \/ taken.cut)
        /\ usedFiles' = usedFiles + taken.files /\ usedBytes' = usedBytes + taken.bytes
        /\ was' = [f \in File |-> IF taken.resolved[f] # resolved[f] THEN was[f] \cup {size[f]}
                                                                     ELSE was[f]]
  /\ left' = Tail(left)
  /\ UNCHANGED <<size, edits, request, pc, packVars, promptVars>>

-----------------------------------------------------------------------------
(* PackCurrentTurnPrompt.                                                  *)

expandedFiles == Range(pruneOverlaps(request.mentions)) \cap File
baseReportPacked ==
  \/ dirCut
  \/ \E f \in File : resolved[f].cut
  \/ \E f \in expandedFiles : resolved[f].bytes = 0

shouldUseRangePipeline(p, sizes) == p \in File /\ (request.lines = p \/ sizes[p] >= Large)
forcePack == (Dir \in mentioned /\ ~request.listing)
             \/ \E f \in mentioned \cap File : shouldUseRangePipeline(f, size)

\* The expanded prompt is used as it is; a listing shows the tree and drops the
\* contents of files that were mentioned with it.
UseExpanded ==
  /\ pc = "expand" /\ left = <<>> /\ ~baseReportPacked /\ ~forcePack
  /\ attached' = Range(pruneOverlaps(request.mentions))
  /\ IF treeOnly THEN UNCHANGED <<shown, told, content>>
                 ELSE /\ shown' = [f \in File |-> resolved[f].bytes]
                      /\ content' = usedBytes /\ UNCHANGED told
  /\ pc' = "route"
  /\ UNCHANGED <<size, edits, request, left, expandVars, packVars, route, was>>

room == Most(0, request.avail - Asked)

StartPacking ==
  /\ pc = "expand" /\ left = <<>> /\ (baseReportPacked \/ forcePack)
  /\ statSize' = size /\ remaining' = room /\ form' = "packed"
  /\ left' = InOrder(mentioned) /\ pc' = "read"
  /\ UNCHANGED <<size, edits, request, expandVars, reads, promptVars, was>>

\* The small files are read at once; a read may fail, or be cut off by the context.
ReadSimple ==
  /\ pc = "read"
  /\ \E ok \in SUBSET (mentioned \cap File) :
       LET simple == {f \in ok : ~shouldUseRangePipeline(f, statSize)}
       IN /\ reads' = [f \in File |-> IF f \in simple THEN size[f] ELSE -1]
          /\ was' = [f \in File |-> IF f \in simple THEN was[f] \cup {size[f]} ELSE was[f]]
  /\ pc' = "pack"
  /\ UNCHANGED <<size, edits, request, left, expandVars, statSize, remaining, form,
                 promptVars>>

\* The bytes of the text that are kept, and the length of the excerpt.
deterministicExcerpt(n, most) ==
  CASE most <= 0 -> [kept |-> 0, length |-> 0]
    [] most > 0 /\ n <= most -> [kept |-> n, length |-> n]
    [] most > 0 /\ n > most /\ most < Tiny -> [kept |-> most, length |-> most]
    [] OTHER -> [kept |-> most, length |-> most + Marker]

\* What one piece of a file does to the prompt: a record of the changes.
Piece(kept, length, omitted) == [kept |-> kept, length |-> length, omitted |-> omitted]

\* A sample of a directory.
SamplePiece(n, most) ==
  LET e == deterministicExcerpt(n, most)
  IN IF most <= 0 THEN Piece(0, 0, TRUE)
     ELSE IF n <= most THEN Piece(n, n, FALSE) ELSE Piece(e.kept, e.length, e.kept < n)

\* Defect: what is left out is counted against what expansion had kept.
FilePieceOfCut(res, total, most) ==
  LET raw == IF res.bytes > 0 THEN Least(total, res.bytes) ELSE total
      e == deterministicExcerpt(raw, most)
  IN CASE total = -1 \/ (res.bytes = 0 /\ res.cut) \/ most <= 0 -> Piece(0, 0, TRUE)
       [] ~(total = -1 \/ (res.bytes = 0 /\ res.cut) \/ most <= 0) /\ raw <= most /\ ~res.cut ->
            Piece(raw, raw, FALSE)
       [] OTHER -> Piece(e.kept, e.length, e.kept < raw)

\* A file mentioned by itself: no more of it than expansion had kept.
FilePiece(res, total, most) ==
  LET raw == IF res.bytes > 0 THEN Least(total, res.bytes) ELSE total
      e == deterministicExcerpt(raw, most)
      nothing == total = -1 \/ (res.bytes = 0 /\ res.cut) \/ most <= 0
  IN CASE nothing -> Piece(0, 0, TRUE)
       [] ~nothing /\ raw <= most /\ ~res.cut -> Piece(raw, raw, FALSE)
       [] OTHER -> Piece(e.kept, e.length, e.kept < total)

\* renderPackedPrompt: the longest text of a file, beside its other blocks.
Shows(before, f, piece) == [before EXCEPT ![f] = Most(@, piece.kept)]

\* The omission notices, and what buildDetailedReport counts as cut.
Tells(before, f, piece) == before \cup IF piece.omitted THEN {f} ELSE {}

\* resolvedFilesFromEvidence: files of which anything is in the prompt.
Attaches(before, f, piece) == before \cup IF piece.length > 0 THEN {f} ELSE {}

\* resolvedDirsFromRefs: a directory is attached whatever became of its files.
attachesDir(before) == before \cup {Dir}

Put(f, piece) ==
  /\ shown' = Shows(shown, f, piece) /\ told' = Tells(told, f, piece)
  /\ attached' = Attaches(attached, f, piece) /\ content' = content + piece.length

PackFile ==
  /\ pc = "pack" /\ left # <<>> /\ Head(left) \in File
  /\ LET f == Head(left) piece == FilePiece(resolved[f], reads[f], remaining)
     IN /\ ~shouldUseRangePipeline(f, statSize)
        /\ Put(f, piece) /\ remaining' = remaining - piece.length
  /\ left' = Tail(left)
  /\ UNCHANGED <<size, edits, request, pc, expandVars, statSize, reads, form, route, was>>

\* buildRangeEvidence (EvidenceRanges has it in detail): some part of the file
\* that fits, and perhaps its headings; what is not in it is counted.
PackRange ==
  /\ pc = "pack" /\ left # <<>> /\ Head(left) \in File
  /\ LET f == Head(left)
     IN /\ shouldUseRangePipeline(f, statSize)
        /\ \E n \in 0..size[f], headings \in 0..1 :
             IF remaining <= 0 \/ f \notin request.text
               THEN Put(f, Piece(0, 0, TRUE)) /\ UNCHANGED <<remaining, form>>
               ELSE /\ n + headings <= remaining
                    /\ Put(f, Piece(n, n + headings, n < size[f] \/ size[f] >= Large))
                    /\ remaining' = remaining - (n + headings) /\ form' = "ranges"
        /\ was' = [was EXCEPT ![f] = @ \cup {size[f]}]
  /\ left' = Tail(left)
  /\ UNCHANGED <<size, edits, request, pc, expandVars, statSize, reads, route>>

\* selectDirectoryEvidence: files whose path has a word of the prompt.  Nothing
\* is said of the others but that they are in the tree.
samples == SubSeq(InOrder(request.relevant), 1,
                  Least(MaxSamples, Cardinality(request.relevant)))

PutSample(prompt, f) ==
  LET piece == SamplePiece(size[f], prompt.remaining)
  IN IF f \notin request.text THEN [prompt EXCEPT !.told = @ \cup {f}]
     ELSE [shown |-> Shows(prompt.shown, f, piece), told |-> Tells(prompt.told, f, piece),
           attached |-> Attaches(prompt.attached, f, piece),
           content |-> prompt.content + piece.length,
           remaining |-> prompt.remaining - piece.length]

PackDir ==
  /\ pc = "pack" /\ left # <<>> /\ Head(left) = Dir
  /\ LET packed == FoldLeft(PutSample,
                            [shown |-> shown, told |-> told, content |-> content,
                             attached |-> attachesDir(attached), remaining |-> remaining], samples)
     IN /\ shown' = packed.shown /\ told' = packed.told /\ content' = packed.content
        /\ attached' = packed.attached /\ remaining' = packed.remaining
  /\ was' = [f \in File |-> IF f \in Range(samples) THEN was[f] \cup {size[f]} ELSE was[f]]
  /\ left' = Tail(left)
  /\ UNCHANGED <<size, edits, request, pc, expandVars, statSize, reads, form, route>>

\* ErrEvidenceTooLarge when nothing at all got in.
Render ==
  /\ pc = "pack" /\ left = <<>>
  /\ pc' = IF attached = {} /\ form # "ranges" THEN "failed" ELSE "route"
  /\ UNCHANGED <<size, edits, request, left, expandVars, packVars, promptVars, was>>

-----------------------------------------------------------------------------
(* retrievalroute.Decide.  words is what the prompt's words point to; a     *)
(* prompt without mentions is not modelled.                                *)

hasExplicitContext == attached # {}
Words == {"command", "recall", "status", "related", "code", "tool", "plain"}

\* Whether the query is embedded, and whether this is the branch of general prompts.
decideRetrieval(words, mode, index, deep) ==
  LET wants == deep \/ mode = "explicit" \/ words = "code"
               \/ (hasExplicitContext /\ words = "related")
      off == \/ words \in {"command", "recall", "status"} \/ request.listing
             \/ (mode # "off" /\ index = "unusable" /\ wants)
             \/ mode = "off"
             \/ (mode = "explicit" /\ ~(hasExplicitContext /\ words = "related"))
      byContext == mode = "auto" /\ ~deep /\ hasExplicitContext
  IN CASE off -> [embed |-> FALSE, general |-> FALSE]
       [] ~off /\ byContext -> [embed |-> words = "related", general |-> FALSE]
       [] ~off /\ ~byContext /\ mode = "auto" /\ ~deep /\ words # "code" ->
            [embed |-> FALSE, general |-> TRUE]
       [] OTHER -> [embed |-> TRUE, general |-> FALSE]

\* decideToolMode.
keepsTools(words, general) ==
  \/ words \in {"command", "recall", "status", "code", "tool", "related"} \/ request.listing
  \/ hasExplicitContext \/ ~general

\* What Decide may say of a prompt.
Decisions ==
  {LET d == decideRetrieval(words, mode, index, deep)
   IN [embed |-> d.embed, tools |-> keepsTools(words, d.general)] :
     words \in Words, mode \in {"off", "explicit", "auto"},
     index \in {"unknown", "unusable", "usable"}, deep \in BOOLEAN}

\* What is retrieved comes on top, up to the route's own limit; a search that
\* fails adds nothing.
retrieve(decision) == {0, IF decision.embed THEN ContextCap ELSE 0}

Route ==
  /\ pc = "route" /\ route' \in Decisions
  /\ \E n \in retrieve(route') : content' = content + n
  /\ pc' = "done"
  /\ UNCHANGED <<size, edits, request, left, expandVars, packVars, shown, told, attached, was>>

-----------------------------------------------------------------------------
Next ==
  \/ \E f \in File, n \in Size : Change(f, n)
  \/ Typed \/ Resolve \/ ExpandFile \/ ExpandDir \/ UseExpanded
  \/ StartPacking \/ ReadSimple \/ PackFile \/ PackRange \/ PackDir \/ Render \/ Route

Spec == Init /\ [][Next]_vars

-----------------------------------------------------------------------------
TypeOK ==
  /\ size \in [File -> Size] /\ edits \in 0..MaxEdits
  /\ pc \in {"idle", "mentions", "expand", "read", "pack", "route", "done", "failed"}
  /\ left \in Seq(Path) /\ usedFiles \in Nat /\ usedBytes \in Nat /\ dirCut \in BOOLEAN
  /\ resolved \in [File -> [bytes : Nat, cut : BOOLEAN]] /\ statSize \in [File -> Nat]
  /\ reads \in [File -> Int] /\ remaining \in Int /\ form \in {"expanded", "packed", "ranges"}
  /\ shown \in [File -> Nat] /\ told \subseteq File /\ content \in Nat
  /\ attached \subseteq Path /\ route \in [embed : BOOLEAN, tools : BOOLEAN]
  /\ was \in [File -> SUBSET Nat]

\* current_turn.go: a file the user mentioned is in the prompt as long as it was
\* when it was read, or the prompt says that something of it is missing -- save in
\* a listing, which drops it -- and a prompt that says so keeps the tools to look.
MissingIsTold ==
  /\ pc \in {"route", "done"} /\ ~treeOnly =>
       \A f \in mentioned \cap File : shown[f] \in was[f] \/ f \in told
  /\ pc = "done" /\ told # {} /\ content > 0 => route.tools

\* budget.go, current_turn.go: the evidence is no longer than what is available,
\* but for one mark of an excerpt and what was retrieved; when nothing is
\* available the caps of the configuration are all that holds.
EvidenceFits ==
  content <= (IF form = "expanded" THEN maxBytes ELSE room + Marker)
               + IF route.embed THEN ContextCap ELSE 0
=============================================================================
