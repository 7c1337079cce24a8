----------------------------- MODULE MCMutator -----------------------------
(* Mutator with few objects of each list.                                  *)
EXTENDS Mutator, FiniteSets, TLC

Symmetry == Permutations(Env) \cup Permutations(Fun)

\* The slots and registers that hold an object, counted once for each object.
Places ==
  Cardinality({<<e, o>> \in Env \X Val : o \in held[e]})
    + Cardinality({<<i, o>> \in (1 .. Depth) \X Val : o \in frames[i].vals})

\* Bounds on the states whose successors are explored.  The first is for all
\* that can be held: two environments, one function and an array, in two
\* frames, and beside the globals and the array three places for them.
SmallHeap ==
  /\ Depth <= 2 /\ Places <= 3
  /\ Cardinality(heap \cap Env) <= 2 /\ Cardinality(heap \cap Fun) <= 1

\* The second is for the nesting of calls: no globals and arrays, no fourth
\* environment but for a fourth frame, and two places.
FewValues ==
  /\ globals = {} /\ heap \cap Arr = {}
  /\ heap \cap Env # Env \/ Depth = MaxFrames
  /\ Places <= 2

Bounds == ~undefined /\ (SmallHeap \/ FewValues)
=============================================================================
