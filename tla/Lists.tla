------------------------------- MODULE Lists -------------------------------
(***************************************************************************)
(* Two operators on finite sequences, written so that they can be reasoned *)
(* about: what a loop that pushes some of the elements collects, and what  *)
(* std::sort makes of numbers.                                             *)
(***************************************************************************)
EXTENDS Integers, Sequences, FiniteSets

\* The elements of s that are in S, in the order of s.
Only(s, S) ==
  LET kept[n \in 0..Len(s)] ==
        IF n = 0 THEN <<>>
        ELSE IF s[n] \in S THEN Append(kept[n - 1], s[n]) ELSE kept[n - 1]
  IN  kept[Len(s)]

\* The numbers of s in ascending order: the r-th of them has less than r
\* below it, and with itself and its equals at least r.
Sorted(s) ==
  [r \in 1..Len(s) |->
     CHOOSE n \in {s[i] : i \in DOMAIN s} :
       /\ Cardinality({i \in DOMAIN s : s[i] < n}) < r
       /\ Cardinality({i \in DOMAIN s : s[i] <= n}) >= r]
=============================================================================
