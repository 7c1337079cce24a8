---------------------------- MODULE Collection ----------------------------
(***************************************************************************)
(* What a program sees of garbage collection: a collection is one step, in *)
(* which function_cache is dropped if it was asked to, and what is left of *)
(* the heap is one of the Survivors.  This is the collection that Mutator  *)
(* has.                                                                    *)
(***************************************************************************)
EXTENDS HeapGraph

VARIABLES heap,   \* objects that are allocated and not deleted
          roots,  \* objects the interpreter holds, function_cache apart
          cache,  \* the wrappers in function_cache
          refs    \* the references between objects

vars == <<heap, roots, cache, refs>>

Init ==
  /\ heap \in SUBSET Obj
  /\ refs \in [Obj -> SUBSET Obj]
  /\ roots \in SUBSET Obj
  /\ cache \in SUBSET Fun
  /\ Reach(roots \cup cache, refs) \subseteq heap

\* The interpreter lets go of some roots.
Drop ==
  /\ roots' \in SUBSET roots
  /\ UNCHANGED <<heap, cache, refs>>

\* collect_garbage(..., time_budget_ms, invalidate_caches), from call to return.
Collect(invalidate, timed) ==
  /\ heap' \in Survivors(heap, IF invalidate THEN roots ELSE roots \cup cache,
                         refs, timed)
  /\ cache' = IF invalidate THEN {} ELSE cache
  /\ UNCHANGED <<roots, refs>>

Next == Drop \/ \E invalidate, timed \in BOOLEAN : Collect(invalidate, timed)

Spec == Init /\ [][Next]_vars
=============================================================================
