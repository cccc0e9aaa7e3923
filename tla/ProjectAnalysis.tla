--------------------------- MODULE ProjectAnalysis ---------------------------
(***************************************************************************)
(* /analyze (internal/analysis/workflow.go, chunker.go, cache.go,          *)
(* ledger.go): the files asked for and those retrieved are read, cut into  *)
(* chunks and summarized line by line; the summaries are cached under the  *)
(* path within the project, in one directory for all of the user's         *)
(* projects and processes.                                                 *)
(***************************************************************************)
EXTENDS Naturals, Sequences, FiniteSets, SequencesExt

CONSTANTS Project,     \* running processes, each in a project of its own
          Order,       \* the paths, in their order as strings
          Contents,    \* project -> the contents its files may have
          MaxFiles,    \* bounds the files of an analysis (maxFiles)
          MaxBytes,    \* maxBytes of a file
          Window,      \* maxBytes of a chunk
          Near,        \* a newline this near the start is not looked for (64)
          ChunkLines,  \* maxLines of a chunk's summary (4)
          FileLines,   \* and of a file's (6)
          MaxEdits     \* bounds the changes of files, crashes and failed writes

VARIABLES
  tree,      \* the files of each project: path -> bytes
  pc,
  explicit,  \* the paths the question mentions
  selected,  \* those still to be read, in order
  content,   \* what was read of the first of them
  chunks,    \* FileChunkRef's of it: [start, end]
  fresh,     \* the summary that is being saved
  records,   \* fileSummaries: [path, source, summary, of]
  cache,     \* path -> [id, summary]
  edits

runVars == <<pc, explicit, selected, content, chunks, fresh, records>>
vars == <<tree, runVars, cache, edits>>

Path == ToSet(Order)
NoEntry == [id |-> <<"none">>, summary |-> <<>>]
Torn == [id |-> <<"torn">>, summary |-> <<>>]

Init ==
  /\ tree = [p \in Project |-> [f \in {} |-> <<>>]]
  /\ pc = [p \in Project |-> "idle"]
  /\ explicit = [p \in Project |-> {}] /\ selected = [p \in Project |-> <<>>]
  /\ content = [p \in Project |-> <<>>] /\ chunks = [p \in Project |-> <<>>]
  /\ fresh = [p \in Project |-> <<>>] /\ records = [p \in Project |-> <<>>]
  /\ cache = [f \in Path |-> NoEntry] /\ edits = 0

-----------------------------------------------------------------------------
(* Bytes: "n" ends a line, "#" begins one of interest, "L" and "c" are the *)
(* two bytes of one rune, "a" is any other.                                *)

BadAt(s, i) ==
  \/ s[i] = "L" /\ ~(i < Len(s) /\ s[i + 1] = "c")
  \/ s[i] = "c" /\ ~(i > 1 /\ s[i - 1] = "L")

Valid(s) == \A i \in DOMAIN s : ~BadAt(s, i)

Largest(S) == CHOOSE i \in S : \A j \in S : j <= i

\* The last newline of the window, or as many whole runes as it holds, or a
\* byte.
snapToBoundary(raw, start, end) ==
  LET newlines == {i \in start + Near + 1 .. end : raw[i] = "n"}
      whole == {i \in start + 1 .. end : Valid(SubSeq(raw, start + 1, i))}
  IN IF end >= Len(raw) THEN Len(raw)
     ELSE IF newlines # {} THEN Largest(newlines)
     ELSE IF whole # {} THEN Largest(whole)
     ELSE start + 1

ChunkText(raw) ==
  LET end(start) == IF start + Window > Len(raw) THEN Len(raw)
                    ELSE snapToBoundary(raw, start, start + Window)
      from[start \in 0..Len(raw)] ==
        IF start = Len(raw) THEN <<>>
        ELSE <<[start |-> start, end |-> end(start)]>> \o from[end(start)]
  IN from[0]

-----------------------------------------------------------------------------
(* Summaries.                                                              *)

Lines(text) ==
  LET cuts == {0, Len(text) + 1} \cup {i \in DOMAIN text : text[i] = "n"}
      ends(i) == CHOOSE j \in cuts : j > i /\ \A k \in cuts : k > i => j <= k
      from[i \in 0..Len(text) + 1] ==
        IF i = Len(text) + 1 THEN <<>>
        ELSE <<SubSeq(text, i + 1, ends(i) - 1)>> \o from[ends(i)]
  IN SelectSeq(from[0], LAMBDA line : line # <<>>)

Distinct(s) == FoldLeft(LAMBDA seen, x : IF Contains(seen, x) THEN seen ELSE Append(seen, x),
                        <<>>, s)
Capped(s, n) == SubSeq(s, 1, IF Len(s) < n THEN Len(s) ELSE n)

isSignalLine(line) == line[1] = "#"

\* The distinct lines of interest, or else the first line.
summarizeSingleChunk(text) ==
  LET signal == SelectSeq(Lines(text), isSignalLine)
  IN IF signal # <<>> THEN Capped(Distinct(signal), ChunkLines) ELSE Capped(Lines(text), 1)

NothingFound == <<<<"-">>>>

\* What a file of these bytes is told to be.
Summary(raw) ==
  LET of(c) == summarizeSingleChunk(SubSeq(raw, c.start + 1, c.end))
      lines == FoldLeft(LAMBDA all, c : all \o of(c), <<>>, ChunkText(raw))
  IN IF lines = <<>> THEN NothingFound ELSE Capped(Distinct(lines), FileLines)

\* JSON has no place for a broken rune.
Marshalled(summary) ==
  [k \in DOMAIN summary |->
     [i \in DOMAIN summary[k] |-> IF BadAt(summary[k], i) THEN "?" ELSE summary[k][i]]]

-----------------------------------------------------------------------------
(* One analysis, file by file.                                             *)

\* The mentions first, then what was retrieved, and of these the first few;
\* then by name.
Select(mentioned, retrieved) ==
  LET Sorted(S) == SelectSeq(Order, LAMBDA f : f \in S)
      merged == Sorted(mentioned) \o SelectSeq(retrieved, LAMBDA f : f \notin mentioned)
      kept == ToSet(Capped(merged, MaxFiles))
  IN Sorted(kept \cap mentioned) \o Sorted(kept \ mentioned)

\* RetrieveTopFiles: files of the index, in the order of their scores.
Ranked(files) == {s \in UNION {[1..n -> files] : n \in 0..MaxFiles} : IsInjective(s)}

BuildProjectAnalysisPrompt(p) ==
  /\ pc[p] = "idle"
  /\ \E mentioned \in SUBSET Path, retrieved \in Ranked(DOMAIN tree[p]) :
       /\ mentioned # {} \/ retrieved # <<>>
       /\ explicit' = [explicit EXCEPT ![p] = mentioned]
       /\ selected' = [selected EXCEPT ![p] = Select(mentioned, retrieved)]
  /\ records' = [records EXCEPT ![p] = <<>>]
  /\ pc' = [pc EXCEPT ![p] = "read"]
  /\ UNCHANGED <<tree, content, chunks, fresh, cache, edits>>

\* On to the next file, without what was kept of this one.
Go(p, rest) ==
  /\ selected' = [selected EXCEPT ![p] = rest]
  /\ pc' = [pc EXCEPT ![p] = IF rest = <<>> THEN "idle" ELSE "read"]
  /\ explicit' = [explicit EXCEPT ![p] = IF rest = <<>> THEN {} ELSE @]
  /\ content' = [content EXCEPT ![p] = <<>>]
  /\ chunks' = [chunks EXCEPT ![p] = <<>>] /\ fresh' = [fresh EXCEPT ![p] = <<>>]
Done(p) == Go(p, Tail(selected[p]))

\* A path that is no file here is passed over.
Skip(p) ==
  /\ pc[p] = "read" /\ Head(selected[p]) \notin DOMAIN tree[p]
  /\ Done(p)
  /\ UNCHANGED <<tree, records, cache, edits>>

ReadFile(p) ==
  /\ pc[p] = "read" /\ Head(selected[p]) \in DOMAIN tree[p]
  /\ content' = [content EXCEPT ![p] = Capped(tree[p][Head(selected[p])], MaxBytes)]
  /\ pc' = [pc EXCEPT ![p] = "load"]
  /\ UNCHANGED <<tree, explicit, selected, chunks, fresh, records, cache, edits>>

\* LoadSummaryFromCache: for these very bytes (their SHA-256).
Hits(e, raw) == e.id = raw /\ e.summary # <<>>

Record(p, source, summary) ==
  records' = [records EXCEPT ![p] = Append(@,
    [path |-> Head(selected[p]), source |-> source, summary |-> summary, of |-> content[p]])]

LoadSummaryFromCache(p) ==
  LET e == cache[Head(selected[p])] IN
  /\ pc[p] = "load" /\ Hits(e, content[p])
  /\ Record(p, "cache", e.summary)
  /\ Done(p)
  /\ UNCHANGED <<tree, cache, edits>>

\* No file, an unreadable or a torn one are a miss like any other.
Miss(p) ==
  /\ pc[p] = "load" /\ ~Hits(cache[Head(selected[p])], content[p])
  /\ chunks' = [chunks EXCEPT ![p] = ChunkText(content[p])]
  /\ fresh' = [fresh EXCEPT ![p] = Summary(content[p])]
  /\ pc' = [pc EXCEPT ![p] = "save"]
  /\ UNCHANGED <<tree, explicit, selected, content, records, cache, edits>>

\* os.WriteFile truncates, then writes; another process may be at it too.
SaveSummaryToCache(p) ==
  /\ pc[p] = "save"
  /\ cache' = [cache EXCEPT ![Head(selected[p])] = Torn]
  /\ pc' = [pc EXCEPT ![p] = "write"]
  /\ UNCHANGED <<tree, explicit, selected, content, chunks, fresh, records, edits>>

Write(p) ==
  LET f == Head(selected[p]) IN
  /\ pc[p] = "write"
  /\ \/ cache' = [cache EXCEPT ![f] = [id |-> content[p], summary |-> Marshalled(fresh[p])]]
     \/ cache[f] # Torn /\ cache' = [cache EXCEPT ![f] = Torn]
  /\ Record(p, "fresh", fresh[p])
  /\ Done(p)
  /\ UNCHANGED <<tree, edits>>

Event == edits < MaxEdits /\ edits' = edits + 1

\* Its error is dropped.
SaveFails(p) ==
  /\ pc[p] \in {"save", "write"} /\ Event
  /\ Record(p, "fresh", fresh[p])
  /\ Done(p)
  /\ UNCHANGED <<tree, cache>>

Crash(p) ==
  /\ pc[p] # "idle" /\ Event
  /\ Go(p, <<>>)
  /\ records' = [records EXCEPT ![p] = <<>>]
  /\ UNCHANGED <<tree, cache>>

\* A file is written, or removed, at any time.
Edit(p, f) ==
  /\ Event
  /\ \/ \E s \in Contents[p] : tree' = [tree EXCEPT ![p] = (f :> s) @@ @]
     \/ /\ f \in DOMAIN tree[p]
        /\ tree' = [tree EXCEPT ![p] = [g \in DOMAIN @ \ {f} |-> @[g]]]
  /\ UNCHANGED <<runVars, cache>>

Next == \E p \in Project :
  \/ BuildProjectAnalysisPrompt(p) \/ Skip(p) \/ ReadFile(p) \/ LoadSummaryFromCache(p)
  \/ Miss(p) \/ SaveSummaryToCache(p) \/ Write(p) \/ SaveFails(p) \/ Crash(p)
  \/ \E f \in Path : Edit(p, f)

Spec == Init /\ [][Next]_vars

-----------------------------------------------------------------------------
Byte == {"a", "n", "#", "L", "c", "?", "-", "none", "torn"}

TypeOK ==
  /\ \A p \in Project :
       /\ DOMAIN tree[p] \subseteq Path /\ \A f \in DOMAIN tree[p] : tree[p][f] \in Seq(Byte)
       /\ explicit[p] \subseteq Path /\ selected[p] \in Seq(Path) /\ content[p] \in Seq(Byte)
       /\ chunks[p] \in Seq([start : Nat, end : Nat]) /\ fresh[p] \in Seq(Seq(Byte))
       /\ records[p] \in Seq([path : Path, source : {"cache", "fresh"},
                              summary : Seq(Seq(Byte)), of : Seq(Byte)])
  /\ pc \in [Project -> {"idle", "read", "load", "save", "write"}]
  /\ cache \in [Path -> [id : Seq(Byte), summary : Seq(Seq(Byte))]]
  /\ edits \in 0..MaxEdits

\* workflow.go: "bounded project analysis using precomputed evidence".  What
\* the model is told of a file is the summary of the bytes read of that file
\* in this project, whoever else wrote the cache, and never of more files than
\* allowed; one that was retrieved does not take the place of one mentioned;
\* and the chunks behind a summary are the bytes read, in order, all of them,
\* each within its size and with no rune of theirs cut.
EvidenceIsOfTheFiles ==
  \A p \in Project :
    /\ \A i \in DOMAIN records[p] :
         LET r == records[p][i] IN r.summary \in {Summary(r.of), Marshalled(Summary(r.of))}
    /\ Len(records[p]) + Len(selected[p]) <= MaxFiles
    /\ ToSet(selected[p]) \subseteq explicit[p] \/ Cardinality(explicit[p]) < MaxFiles
    /\ pc[p] \in {"save", "write"} =>
         LET c == chunks[p]
             Text(i) == SubSeq(content[p], c[i].start + 1, c[i].end)
         IN /\ FoldLeft(LAMBDA all, i : all \o Text(i), <<>>, [i \in DOMAIN c |-> i]) = content[p]
            /\ \A i \in DOMAIN c : Len(Text(i)) \in 1..Window
            /\ Valid(content[p]) => \A i \in DOMAIN c : Valid(Text(i))
=============================================================================
