---------------------------- MODULE Conversation ----------------------------
(***************************************************************************)
(* The agent's pure functions on a conversation: packing a history into a  *)
(* token budget (internal/agent/prompt_packer.go), compacting it           *)
(* (compact.go) and grouping the tool calls of one turn (partition.go).    *)
(*                                                                         *)
(* A message is a record: its role, how many tool calls it makes, which    *)
(* call of its turn it answers, its estimated tokens and whether it still  *)
(* carries thinking.                                                       *)
(***************************************************************************)
EXTENDS Naturals, Sequences, SequencesExt

Role == {"system", "user", "assistant", "tool"}

Msg(role, size) ==
  [role |-> role, calls |-> 0, call |-> 0, size |-> size, thinking |-> FALSE]
Calling(n, size)  == [Msg("assistant", size) EXCEPT !.calls = n]
Answering(i, size) == [Msg("tool", size) EXCEPT !.call = i]

\* The positions of h that are in K, in order, and the messages there.
Sorted(h, K) == SelectSeq([i \in DOMAIN h |-> i], LAMBDA i : i \in K)
At(h, K) == LET pos == Sorted(h, K) IN [j \in DOMAIN pos |-> h[pos[j]]]

-----------------------------------------------------------------------------
(* partition.go                                                            *)

\* Calls from left to right: neighbours that are safe share a batch, an
\* unsafe call has one of its own.
Partition(calls, safe) ==
  LET Open(batches) == batches # <<>> /\ Last(batches).safe
      Put(batches, c) ==
        IF c \in safe /\ Open(batches)
          THEN [batches EXCEPT ![Len(batches)].calls = Append(@, c)]
          ELSE Append(batches, [safe |-> c \in safe, calls |-> <<c>>])
  IN FoldLeft(Put, <<>>, calls)

-----------------------------------------------------------------------------
(* prompt_packer.go                                                        *)

Tokens(h, K) == FoldLeft(LAMBDA n, i : n + h[i].size, 0, Sorted(h, K))

\* A call and the tool messages right after it are kept or dropped together.
Belongs(h, i) ==
  \E k \in 1..(i - 1) : h[k].calls > 0 /\ \A n \in (k + 1)..i : h[n].role = "tool"
UnitStarts(h) == {i \in DOMAIN h : ~Belongs(h, i)}

Unit(h, s) == {i \in s..Len(h) : \A n \in (s + 1)..i : Belongs(h, n)}

\* From the newest unit to the oldest, whatever still fits.
Fill(h, budget, anchor) ==
  FoldRight(LAMBDA s, kept :
              IF s \in kept \/ Tokens(h, kept) + Tokens(h, Unit(h, s)) > budget
                THEN kept ELSE kept \cup Unit(h, s),
            Sorted(h, UnitStarts(h)), anchor)

\* The positions packPromptHistory includes: the system message, what fits,
\* and in any case the last unit.
Included(h, budget) ==
  IF Tokens(h, DOMAIN h) <= budget THEN DOMAIN h
  ELSE LET anchor == IF h[1].role = "system" THEN {1} ELSE {}
           kept   == Fill(h, budget, anchor)
           newest == CHOOSE s \in UnitStarts(h) : \A r \in UnitStarts(h) : r <= s
       IN IF Len(h) \in kept THEN kept ELSE kept \cup Unit(h, newest)

packPromptHistory(h, budget) ==
  IF h = <<>> THEN h ELSE At(h, Included(h, IF budget = 0 THEN 1 ELSE budget))

-----------------------------------------------------------------------------
(* compact.go                                                              *)

\* A turn: a user message, tool messages, the assistant's answer.
TurnPairs(h) ==
  {p \in (DOMAIN h) \X (DOMAIN h) :
     /\ p[1] < p[2] /\ h[p[1]].role = "user" /\ h[p[2]].role = "assistant"
     /\ \A n \in (p[1] + 1)..(p[2] - 1) : h[n].role = "tool"}

countTurns(h) == Cardinality(TurnPairs(h))

\* Where the last n turns begin; the whole history when there are none.
findSplitIndex(h, n) ==
  LET starts == Sorted(h, {p[1] : p \in TurnPairs(h)}) IN
    IF starts = <<>> THEN 1
    ELSE starts[IF Len(starts) > n THEN Len(starts) - n + 1 ELSE 1]

\* How many system messages h begins with.
Leading(h) == Cardinality({i \in DOMAIN h : \A n \in 1..i : h[n].role = "system"})

emergencyTruncate(h, n) ==
  LET s == Leading(h)
      rest == SubSeq(h, s + 1, Len(h))
  IN SubSeq(h, 1, s) \o SubSeq(rest, findSplitIndex(rest, n), Len(rest))

\* All thinking but that from the last two answers on goes.
stripThinkingBlocks(h) ==
  LET answers == Sorted(h, {i \in DOMAIN h : h[i].role = "assistant"})
      from == IF Len(answers) > 2 THEN answers[Len(answers) - 1] ELSE 1
  IN [i \in DOMAIN h |-> IF i < from THEN [h[i] EXCEPT !.thinking = FALSE] ELSE h[i]]

\* Long tool results become one line.
CollapsedSize == 1
collapseToolResults(h) ==
  [i \in DOMAIN h |-> IF h[i].role = "tool" /\ h[i].size > CollapsedSize
                        THEN [h[i] EXCEPT !.size = CollapsedSize] ELSE h[i]]

\* What Compact makes of h when its last n turns must stay: [skipped,
\* messages].  summary is the message made of the older ones, or "failed".
Compact(h, n, summary) ==
  LET processed == collapseToolResults(stripThinkingBlocks(h))
      split == findSplitIndex(processed, n)
      older == SubSeq(processed, 1, split - 1)
      s     == Leading(older)
      Skip  == [skipped |-> TRUE, messages |-> h]
  IN IF countTurns(h) < n \/ s = Len(older) THEN Skip
     ELSE [skipped |-> FALSE,
           messages |-> IF summary = "failed" THEN emergencyTruncate(h, n)
                        ELSE SubSeq(older, 1, s) \o <<Msg("system", 1)>>
                               \o SubSeq(processed, split, Len(processed))]

-----------------------------------------------------------------------------
\* Every call is followed by its answers, in the order of the calls, and
\* every tool message answers such a call.
Paired(h) ==
  /\ \A i \in DOMAIN h : \A k \in 1..h[i].calls :
       i + k \in DOMAIN h /\ h[i + k].role = "tool" /\ h[i + k].call = k
  /\ \A i \in DOMAIN h : h[i].role = "tool" =>
       \E k \in 1..(i - 1) : h[k].calls >= i - k
=============================================================================
