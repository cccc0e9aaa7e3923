------------------------------ MODULE RuleGlob ------------------------------
(***************************************************************************)
(* Matching a permission rule's glob (internal/permissions/match.go) and   *)
(* the rule "always allow" makes of a target (session_rule.go).  The       *)
(* iterative matcher runs step by step beside a recursive definition of    *)
(* what a glob means.  Only characters that mean something are kept, " "   *)
(* for white space, and three that mean nothing.                           *)
(***************************************************************************)
EXTENDS Naturals, Sequences, FiniteSetsExt

CONSTANTS Patterns,  \* pairs <<glob, target>> to match
          Targets    \* targets for which the user says "always"

VARIABLES
  s,         \* the target
  ruleOf,    \* the target the rule was made for, or NoTarget
  pattern,   \* the glob as written
  left,      \* variants of it that are yet to be tried
  p, pi, si, star, mark,   \* wildcardMatch: the variant, and its four variables
  verdict    \* "none", "running", "yes" or "no"

vars == <<s, ruleOf, pattern, left, p, pi, si, star, mark, verdict>>

NoTarget == <<"none">>

\* In the order of their codes.
Ascii == <<" ", "!", "*", "-", "/", "?", "[", "\\", "]", "^", "a", "b", "c">>
Char == {Ascii[i] : i \in DOMAIN Ascii}
Code == [c \in Char |-> CHOOSE i \in DOMAIN Ascii : Ascii[i] = c]

-----------------------------------------------------------------------------
(* Elements of a pattern: where the next one starts, and what it matches.  *)

Element(next, chars) == [next |-> next, chars |-> chars]

\* matchClass: the class that opens at position i of q.  "]" closes it unless it
\* comes first; a class that is not closed is no class, next = 0.
matchClass(q, i) ==
  LET negate == i + 1 <= Len(q) /\ q[i + 1] \in {"!", "^"}
      open == IF negate THEN i + 2 ELSE i + 1
      from[j \in Nat] ==
        IF j > Len(q) THEN Element(0, {})
        ELSE IF q[j] = "]" /\ j # open THEN Element(j + 1, {})
        ELSE LET l == IF q[j] = "\\" /\ j < Len(q) THEN j + 1 ELSE j
                 h == IF l + 2 <= Len(q) /\ q[l + 1] = "-" /\ q[l + 2] # "]" THEN l + 2 ELSE l
                 rest == from[h + 1]
                 range == {c \in Char : Code[q[l]] <= Code[c] /\ Code[c] <= Code[q[h]]}
             IN Element(rest.next, rest.chars \cup range)
      class == from[open]
  IN IF negate THEN [class EXCEPT !.chars = Char \ @] ELSE class

\* matchOne; not for "*".
matchOne(q, i) ==
  LET class == matchClass(q, i) IN
  CASE q[i] = "?" -> Element(i + 1, Char)
    [] q[i] = "\\" -> IF i < Len(q) THEN Element(i + 2, {q[i + 1]}) ELSE Element(i + 1, {"\\"})
    [] q[i] = "[" /\ class.next # 0 -> class
    [] OTHER -> Element(i + 1, {q[i]})

\* doubleStarVariants: the pattern with any of its whole "**" segments left out,
\* adjacent ones being one.  Segments are strings between slashes.
segments(q) ==
  LET cuts == {0, Len(q) + 1} \cup {i \in DOMAIN q : q[i] = "/"}
      after(i) == CHOOSE k \in cuts : k > i /\ \A m \in cuts : m > i => m >= k
      from[i \in Nat] == IF i > Len(q) THEN <<>>
                         ELSE <<SubSeq(q, i + 1, after(i) - 1)>> \o from[after(i)]
  IN from[0]

DoubleStar == <<"*", "*">>

doubleStarVariants(q) ==
  LET segs == segments(q)
      stars == {i \in DOMAIN segs : segs[i] = DoubleStar}
      repeats == {i \in stars : i - 1 \in stars}
      join(dropped) ==
        LET from[i \in Nat] ==   \* each segment that is kept, after a slash
              IF i > Len(segs) THEN <<>>
              ELSE (IF i \in dropped THEN <<>> ELSE <<"/">> \o segs[i]) \o from[i + 1]
        IN IF from[1] = <<>> THEN <<>> ELSE Tail(from[1])
  IN IF stars = {} THEN {q} ELSE {join(repeats \cup d) : d \in SUBSET (stars \ repeats)}

-----------------------------------------------------------------------------
(* SessionAllowRule.                                                       *)

TrimSpace(t) ==
  LET kept == {i \in DOMAIN t : t[i] # " "}
  IN IF kept = {} THEN <<>> ELSE SubSeq(t, Min(kept), Max(kept))

\* Defect: "[" is not escaped.
escapeTwo(t) ==
  LET from[i \in Nat] == IF i > Len(t) THEN <<>>
                         ELSE (IF t[i] \in {"*", "?", "\\"} THEN <<"\\", t[i]>> ELSE <<t[i]>>)
                                \o from[i + 1]
  IN from[1]

escapeGlob(t) ==
  LET from[i \in Nat] == IF i > Len(t) THEN <<>>
                         ELSE (IF t[i] \in {"*", "?", "[", "\\"} THEN <<"\\", t[i]>> ELSE <<t[i]>>)
                                \o from[i + 1]
  IN from[1]

-----------------------------------------------------------------------------
(* globMatch tries the variants; wildcardMatch goes through one of them.   *)

Init ==
  /\ s = <<>> /\ ruleOf = NoTarget /\ pattern = <<>> /\ left = {}
  /\ p = <<>> /\ pi = 1 /\ si = 1 /\ star = 0 /\ mark = 1 /\ verdict = "none"

Begin(q, target, from) ==
  /\ verdict = "none"
  /\ s' = target /\ pattern' = q /\ ruleOf' = from
  /\ \E v \in doubleStarVariants(q) : p' = v /\ left' = doubleStarVariants(q) \ {v}
  /\ verdict' = "running"
  /\ UNCHANGED <<pi, si, star, mark>>

MatchRule == \E m \in Patterns : Begin(m[1], m[2], NoTarget)

\* The user said "always" to t, and the next call is about u.
MatchSessionRule ==
  \E t, u \in Targets : TrimSpace(t) # <<>> /\ Begin(escapeGlob(TrimSpace(t)), u, t)

\* Nothing is left of t: there is no rule, and the user will be asked again.
RefuseSessionRule ==
  /\ verdict = "none" /\ verdict' = "no"
  /\ \E t, u \in Targets : TrimSpace(t) = <<>> /\ ruleOf' = t /\ s' = u
  /\ UNCHANGED <<pattern, left, p, pi, si, star, mark>>

Matching == verdict = "running" /\ si <= Len(s)
At(c) == pi <= Len(p) /\ p[pi] = c

Star ==
  /\ Matching /\ At("*")
  /\ star' = pi /\ mark' = si /\ pi' = pi + 1
  /\ UNCHANGED <<s, ruleOf, pattern, left, p, si, verdict>>

OneMatches == pi <= Len(p) /\ s[si] \in matchOne(p, pi).chars

One ==
  /\ Matching /\ ~At("*") /\ OneMatches
  /\ pi' = matchOne(p, pi).next /\ si' = si + 1
  /\ UNCHANGED <<s, ruleOf, pattern, left, p, star, mark, verdict>>

\* The last star takes one character more.
Backtrack ==
  /\ Matching /\ ~At("*") /\ ~OneMatches /\ star # 0
  /\ mark' = mark + 1 /\ si' = mark + 1 /\ pi' = star + 1
  /\ UNCHANGED <<s, ruleOf, pattern, left, p, star, verdict>>

\* The next variant, or the answer.
Variant(matched) ==
  \/ /\ ~matched /\ left # {}
     /\ \E v \in left : p' = v /\ left' = left \ {v}
     /\ pi' = 1 /\ si' = 1 /\ star' = 0 /\ mark' = 1
     /\ UNCHANGED <<s, ruleOf, pattern, verdict>>
  \/ /\ matched \/ left = {}
     /\ verdict' = IF matched THEN "yes" ELSE "no"
     /\ UNCHANGED <<s, ruleOf, pattern, left, p, pi, si, star, mark>>

Fail == Matching /\ ~At("*") /\ ~OneMatches /\ star = 0 /\ Variant(FALSE)

\* The target is used up: only stars may be left of the pattern.
End ==
  /\ verdict = "running" /\ si > Len(s)
  /\ Variant(\A i \in pi..Len(p) : p[i] = "*")

Next ==
  \/ MatchRule \/ MatchSessionRule \/ RefuseSessionRule
  \/ Star \/ One \/ Backtrack \/ Fail \/ End

Spec == Init /\ [][Next]_vars

-----------------------------------------------------------------------------
TypeOK ==
  /\ p \in Seq(Char) /\ s \in Seq(Char) /\ verdict \in {"none", "running", "yes", "no"}
  /\ pi \in 1..Len(p) + 1 /\ si \in 1..Len(s) + 1
  /\ star \in 0..Len(p) /\ mark \in 1..Len(s) + 1

\* What a glob means: "*" is any run, every other element one character.
Means(q, t) ==
  LET fits[i, j \in Nat] ==
        IF i > Len(q) THEN j > Len(t)
        ELSE IF q[i] = "*" THEN \E k \in j..Len(t) + 1 : fits[i + 1, k]
        ELSE j <= Len(t) /\ t[j] \in matchOne(q, i).chars /\ fits[matchOne(q, i).next, j + 1]
  IN fits[1, 1]

\* A "**" that is a segment may also be no directory at all: it goes, with one
\* of the slashes beside it.
Collapsed(q) ==
  LET goes(i, j) == \/ SubSeq(q, i, j) = DoubleStar /\ i = 1 /\ j = Len(q)
                    \/ SubSeq(q, i, j) = DoubleStar \o <<"/">> /\ (i = 1 \/ q[i - 1] = "/")
                    \/ SubSeq(q, i, j) = <<"/">> \o DoubleStar /\ (j = Len(q) \/ q[j + 1] = "/")
  IN {SubSeq(q, 1, cut[1] - 1) \o SubSeq(q, cut[2] + 1, Len(q)) :
        cut \in {c \in (DOMAIN q) \X (DOMAIN q) : goes(c[1], c[2])}}
Collapses == LET one == {pattern} \cup Collapsed(pattern)
                 two == one \cup UNION {Collapsed(q) : q \in one}
             IN two \cup UNION {Collapsed(q) : q \in two}

\* match.go's account of globs is what the matcher computes, backtracking and
\* variants included; session_rule.go: an "always allow" rule "matches exactly
\* that tool and target, nothing wider" - of a target with white space around it
\* (Bash does not trim its command), the one without; of nothing else, none.
GlobsMeanWhatTheySay ==
  verdict \in {"yes", "no"} =>
    (verdict = "yes" <=> IF ruleOf = NoTarget THEN \E q \in Collapses : Means(q, s)
                         ELSE TrimSpace(ruleOf) # <<>> /\ s = TrimSpace(ruleOf))
=============================================================================
