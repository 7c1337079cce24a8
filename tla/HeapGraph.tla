----------------------------- MODULE HeapGraph -----------------------------
(***************************************************************************)
(* The managed heap of one interpreter as a graph.  An object is an        *)
(* environment (heap_environments), an array (heap_arrays) or a function   *)
(* (heap_functions); refs[o] is the set of objects that the marker of      *)
(* udonscript.cpp visits from o.  Reachability is stated without           *)
(* recursion, as membership in every closed set that contains the roots,   *)
(* so that it can be reasoned about as well as evaluated.                  *)
(***************************************************************************)
CONSTANTS Env, Arr, Fun, NoObj

ASSUME HeapAssumption ==
  /\ Env \cap Arr = {} /\ Env \cap Fun = {} /\ Arr \cap Fun = {}
  /\ NoObj \notin Env \cup Arr \cup Fun

Obj == Env \cup Arr \cup Fun

\* What a slot, an array entry or a register can hold that the collector
\* cares about: values of type Array or Function.  Numbers, strings and
\* none hold no object and are abstracted away.
Val == Arr \cup Fun

Closed(S, refs) == \A o \in S : refs[o] \subseteq S

\* LET, so that TLC enumerates the closed sets once.
Reach(roots, refs) ==
  LET closed == {S \in SUBSET Obj : roots \subseteq S /\ Closed(S, refs)}
  IN  {o \in Obj : \A S \in closed : o \in S}

\* What a collection can leave of a heap: everything the roots lead to, and
\* any of the rest if it may run out of time.
Survivors(heap, roots, refs, timed) ==
  LET live == Reach(roots, refs) IN
  {h \in SUBSET heap : live \cap heap \subseteq h /\ (~timed => h \subseteq live)}
=============================================================================
