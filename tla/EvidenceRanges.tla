--------------------------- MODULE EvidenceRanges ---------------------------
(***************************************************************************)
(* The parts of one long file that go into a prompt: buildRangeEvidence of *)
(* internal/contextpack/range_pipeline.go and ReadRange of                 *)
(* internal/tools/fileread.  The file is opened once to count its lines,   *)
(* once to look for words of the prompt and once for every range, and may  *)
(* grow or be cut in between.  A character is a byte.                      *)
(***************************************************************************)
EXTENDS Naturals, Sequences

LOCAL INSTANCE SequencesExt
LOCAL INSTANCE FiniteSetsExt

CONSTANTS Length,       \* lengths lines have
          MaxLines,     \* of the file
          Room,         \* values of maxChars
          HeadLines, TailLines, MatchBefore, MatchAfter, MaxMatches, \* of the selection
          Gap,          \* mergeSelectedRanges joins ranges this close
          LineGuess,    \* 80: how long rangeReadWindow takes a line to be
          Large,        \* largeFileBytesThreshold
          MaxEdits

VARIABLES
  file,      \* lines: [length, match], match: it has a word of the prompt
  newline,   \* the last line ends with one
  edits,
  asked,     \* [explicit, room, log]: a line range or NoRange, maxChars, LogLike
  pc,
  meta,      \* what scanFileEvidenceMetadata saw: [lines, bytes]
  todo,      \* ranges still to be read, by priority
  shown,     \* contentByKey: [kind, start, kept], kept: the lengths of the lines read
  remaining, \* of maxChars
  digest,    \* length of the heading manifest
  notice,    \* partialNotice: "none", "range", "file"
  omittedBytes

vars == <<file, newline, edits, asked, pc, meta, todo, shown, remaining, digest, notice,
          omittedBytes>>

Line == [length : Length, match : BOOLEAN]
NoRange == [first |-> 0, last |-> 0]
Least(a, b) == IF a < b THEN a ELSE b
Most(a, b) == IF a > b THEN a ELSE b
Sum(s) == FoldLeft(LAMBDA a, b : a + b, 0, s)

\* Lines joined by newlines.
Joined(lengths) == IF lengths = <<>> THEN 0 ELSE Sum(lengths) + Len(lengths) - 1
fileBytes == LET lengths == [i \in DOMAIN file |-> file[i].length]
             IN Joined(lengths) + IF newline THEN 1 ELSE 0

Init ==
  /\ file = <<>> /\ newline = FALSE /\ edits = 0
  /\ asked = [explicit |-> NoRange, room |-> 0, log |-> FALSE]
  /\ pc = "idle" /\ meta = [lines |-> 0, bytes |-> 0] /\ todo = <<>> /\ shown = {}
  /\ remaining = 0 /\ digest = 0 /\ notice = "none" /\ omittedBytes = 0

\* Any file, with or without an explicit range (ParseLineRangeToken: 0 < first <= last).
\* An empty last line without a newline is no line.
Ask ==
  /\ pc = "idle"
  /\ file' \in UNION {[1..n -> Line] : n \in 1..MaxLines} /\ newline' \in BOOLEAN
  /\ newline' \/ file'[Len(file')].length > 0
  /\ \E room \in Room, log \in BOOLEAN, first \in 0..MaxLines, last \in 0..MaxLines :
       /\ (first = 0 /\ last = 0) \/ (0 < first /\ first <= last)
       /\ asked' = [explicit |-> [first |-> first, last |-> last], room |-> room, log |-> log]
       /\ remaining' = room
  /\ pc' = "scan" /\ UNCHANGED <<edits, meta, todo, shown, digest, notice, omittedBytes>>

\* The file grows by a line, or loses its last ones.
Change ==
  /\ edits < MaxEdits /\ pc \in {"scan", "select", "read"}
  /\ \/ /\ Len(file) < MaxLines /\ \E l \in Line : l.length > 0 /\ file' = Append(file, l)
     \/ \E n \in 1..(Len(file) - 1) : file[n].length > 0 /\ file' = SubSeq(file, 1, n)
  /\ edits' = edits + 1
  /\ UNCHANGED <<newline, asked, pc, meta, todo, shown, remaining, digest, notice, omittedBytes>>

scanFileEvidenceMetadata ==
  /\ pc = "scan" /\ meta' = [lines |-> Len(file), bytes |-> fileBytes] /\ pc' = "select"
  /\ UNCHANGED <<file, newline, edits, asked, todo, shown, remaining, digest, notice,
                 omittedBytes>>

-----------------------------------------------------------------------------
(* selectRangesForFile.  recent: the reason of the range is "recent status". *)

Selected(first, last, kind) ==
  [first |-> first, last |-> last, kind |-> kind, recent |-> kind = "tail"]

scanMatchRanges ==
  LET hits == SelectSeq([i \in DOMAIN file |-> i], LAMBDA i : file[i].match)
      firstHits == SubSeq(hits, 1, Least(MaxMatches, Len(hits)))
  IN [k \in DOMAIN firstHits |->
        Selected(IF firstHits[k] > MatchBefore THEN firstHits[k] - MatchBefore ELSE 1,
                 Least(meta.lines, firstHits[k] + MatchAfter), "match")]

byPlace(r, s) == r.first < s.first \/ (r.first = s.first /\ r.last < s.last)
Usable(r) == r.first > 0 /\ r.last >= r.first

\* Ranges that overlap or nearly touch become one, which keeps the first's reason.
mergeSelectedRanges(ranges) ==
  LET Join(merged, r) ==
        LET prev == merged[Len(merged)]
        IN IF merged # <<>> /\ r.first <= prev.last + Gap
             THEN [merged EXCEPT ![Len(merged)] =
                     [prev EXCEPT !.last = Most(prev.last, r.last),
                                  !.kind = IF prev.kind = r.kind THEN @ ELSE "merged"]]
             ELSE Append(merged, r)
  IN FoldLeft(Join, <<>>, SelectSeq(SortSeq(ranges, byPlace), Usable))

selectRangesForFile ==
  IF asked.explicit # NoRange
    THEN <<Selected(asked.explicit.first, asked.explicit.last, "explicit")>>
    ELSE mergeSelectedRanges(
           <<Selected(1, Least(meta.lines, HeadLines), "head"),
             Selected(Most(1, meta.lines - Least(meta.lines, TailLines) + 1), meta.lines, "tail")>>
             \o scanMatchRanges)

isTailLikeRange(r) == r.kind = "tail" \/ r.recent \/ r.last >= meta.lines

rangePriority(r) ==
  LET tail == isTailLikeRange(r)
      order == IF asked.log THEN <<tail, r.kind = "match", r.kind = "head">>
                            ELSE <<r.kind = "head", tail, r.kind = "match">>
  IN IF \E k \in 1..3 : order[k] THEN Min({k \in 1..3 : order[k]}) ELSE 4

prioritizeRangesForBudget(ranges) ==
  SortSeq(ranges, LAMBDA r, s : \/ rangePriority(r) < rangePriority(s)
                                \/ rangePriority(r) = rangePriority(s) /\ r.first < s.first)

Select ==
  /\ pc = "select" /\ todo' = prioritizeRangesForBudget(selectRangesForFile) /\ pc' = "read"
  /\ UNCHANGED <<file, newline, edits, asked, meta, shown, remaining, digest, notice,
                 omittedBytes>>

-----------------------------------------------------------------------------
(* Reading.                                                                *)

\* A tail is read from the line where, by LineGuess, it begins to fit.
rangeReadWindow(r) ==
  LET all == r.last - r.first + 1
      guess == Most(1, remaining \div LineGuess)
  IN IF isTailLikeRange(r) /\ guess < all THEN [start |-> r.last - guess + 1, limit |-> guess]
                                          ELSE [start |-> r.first, limit |-> all]

\* selectLineRangeFromReader: whole lines while they fit, then as much of the next
\* as does.  Truncated also says that the file goes on after the window.
ReadRange(window, maxBytes) ==
  LET end == window.start + window.limit - 1
      Take(got, i) ==
        LET sep == IF got.kept = <<>> THEN 0 ELSE 1
            allowed == maxBytes - Joined(got.kept) - sep
        IN IF got.done THEN got
           ELSE IF file[i].length <= allowed
             THEN [got EXCEPT !.kept = Append(@, file[i].length)]
             ELSE [got EXCEPT !.kept = IF allowed > 0 THEN Append(@, allowed) ELSE @,
                              !.done = TRUE]
      got == FoldLeft(Take, [kept |-> <<>>, done |-> FALSE],
                      [k \in 1..Most(0, Least(end, Len(file)) - (window.start - 1)) |->
                         window.start + k - 1])
  IN [kept |-> got.kept, truncated |-> window.start <= Len(file) /\ (got.done \/ Len(file) > end)]

\* Blank contents are dropped; without room the rest is.
Read ==
  /\ pc = "read" /\ todo # <<>> /\ remaining > 0
  /\ LET window == rangeReadWindow(Head(todo))
         res == ReadRange(window, remaining)
     IN IF Sum(res.kept) = 0
          THEN UNCHANGED <<shown, remaining, notice>>
          ELSE /\ shown' = shown \cup {[kind |-> Head(todo).kind, start |-> window.start,
                                      kept |-> res.kept]}
               /\ remaining' = remaining - Joined(res.kept)
               /\ notice' = IF asked.explicit # NoRange /\ res.truncated THEN "range" ELSE notice
  /\ todo' = Tail(todo)
  /\ UNCHANGED <<file, newline, edits, asked, pc, meta, digest, omittedBytes>>

\* A range that cannot be read is left out, as omitted.
ReadFails ==
  /\ pc = "read" /\ todo # <<>> /\ remaining > 0 /\ todo' = Tail(todo)
  /\ UNCHANGED <<file, newline, edits, asked, pc, meta, shown, remaining, digest, notice,
                 omittedBytes>>

\* The headings come last, if they fit (buildHeadingManifest: of any length).
Finish ==
  /\ pc = "read" /\ (todo = <<>> \/ remaining = 0)
  /\ \E n \in IF asked.explicit = NoRange THEN 0..2 ELSE {0} : digest' = IF n <= remaining THEN n ELSE 0
  /\ remaining' = remaining - digest'
  /\ notice' = IF notice = "none" /\ meta.bytes >= Large THEN "file" ELSE notice
  /\ LET read == MapThenSumSet(LAMBDA part : Joined(part.kept), shown)
     IN omittedBytes' = Most(0, meta.bytes - Least(meta.bytes, read))
  /\ pc' = "done" /\ todo' = <<>>
  /\ UNCHANGED <<file, newline, edits, asked, meta, shown>>

-----------------------------------------------------------------------------
Next == Ask \/ Change \/ scanFileEvidenceMetadata \/ Select \/ Read \/ ReadFails \/ Finish

Spec == Init /\ [][Next]_vars

-----------------------------------------------------------------------------
TypeOK ==
  /\ file \in Seq(Line) /\ Len(file) <= MaxLines /\ newline \in BOOLEAN /\ edits \in 0..MaxEdits
  /\ asked.room \in Room \cup {0} /\ asked.log \in BOOLEAN
  /\ pc \in {"idle", "scan", "select", "read", "done"}
  /\ meta \in [lines : Nat, bytes : Nat] /\ Len(todo) <= MaxMatches + 2
  /\ \A part \in shown : part.start \in Nat \ {0} /\ part.kept \in Seq(Nat)
  /\ remaining \in Nat /\ digest \in Nat /\ notice \in {"none", "range", "file"}
  /\ omittedBytes \in Nat

linesOf(part) == part.start..(part.start + Len(part.kept) - 1)

\* range_pipeline.go: the ranges read and the headings fit in maxChars, no line of
\* the file is in two of them, and when no byte is said to be omitted every line of
\* the file that was counted is there, whole -- if nobody wrote to it meanwhile.
RangesAreTrue ==
  /\ pc # "idle" =>
       digest + MapThenSumSet(LAMBDA part : Joined(part.kept), shown) <= asked.room
  /\ \A p, q \in shown : p # q => linesOf(p) \cap linesOf(q) = {}
  /\ pc = "done" /\ omittedBytes = 0 /\ edits = 0 =>
       \A i \in DOMAIN file : \E part \in shown :
         i \in linesOf(part) /\ part.kept[i - part.start + 1] = file[i].length
=============================================================================
