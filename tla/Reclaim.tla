------------------------------ MODULE Reclaim ------------------------------
(***************************************************************************)
(* What a collector promises, whatever its algorithm: the only objects     *)
(* that are ever deleted are those no root leads to.                       *)
(***************************************************************************)
EXTENDS HeapGraph

VARIABLES heap,   \* objects that are allocated and not deleted
          roots,  \* objects the interpreter holds directly
          refs    \* the references between objects

Init ==
  /\ heap \in SUBSET Obj
  /\ refs \in [Obj -> SUBSET Obj]
  /\ roots \in SUBSET Obj
  /\ Reach(roots, refs) \subseteq heap

\* The interpreter lets go of some roots.
Drop ==
  /\ roots' \in SUBSET roots
  /\ UNCHANGED <<heap, refs>>

\* An object nothing leads to is deleted.
Free ==
  /\ \E o \in heap \ Reach(roots, refs) : heap' = heap \ {o}
  /\ UNCHANGED <<roots, refs>>

vars == <<heap, roots, refs>>

Spec == Init /\ [][Drop \/ Free]_vars
=============================================================================
