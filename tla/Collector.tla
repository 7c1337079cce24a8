----------------------------- MODULE Collector -----------------------------
(***************************************************************************)
(* UdonInterpreter::collect_garbage, one object at a time.  The collector  *)
(* clears every mark, marks from the roots, optionally forgets the         *)
(* function cache, and sweeps the three lists in the order environments,   *)
(* arrays, functions.  A sweep with a time budget stops early in each      *)
(* list and keeps what it has not examined, so that garbage may outlive a  *)
(* collection and still refer to objects deleted by it.                    *)
(*                                                                         *)
(* Nothing else runs during a collection (one thread, no callbacks); the   *)
(* mutator is reduced to letting go of roots between collections.  The     *)
(* order inside a list and of the marker's work list is abstracted to an   *)
(* arbitrary choice.                                                       *)
(***************************************************************************)
EXTENDS HeapGraph

VARIABLES
  heap,       \* heap_environments, heap_arrays and heap_functions together
  held,       \* held[o]: values in slots, entries or rooted_values of o
  link,       \* link[o]: parent of an environment, captured_env of a function
  roots,      \* active_env_roots, globals, stack, active_value_roots, arguments
  cache,      \* the wrappers in function_cache
  phase,      \* "idle", "mark", or the list being swept
  marked,     \* objects whose marked flag is set
  gray,       \* objects found and not yet visited by mark_value/mark_environment
  todo,       \* objects of the list being swept that are not examined yet
  budget,     \* time_budget_ms > 0
  late,       \* time_up() has been true in this collection
  invalidate, \* invalidate_caches
  heapBefore, \* history: heap and cache when the collection under way began,
  cacheBefore \*   between collections what they are now

graph == <<held, link>>
args == <<budget, invalidate>>
before == <<heapBefore, cacheBefore>>
vars == <<heap, held, link, roots, cache, phase, marked, gray, todo, budget,
          late, invalidate, heapBefore, cacheBefore>>

refs == [o \in Obj |-> held[o] \cup ({link[o]} \ {NoObj})]

AllRoots == roots \cup cache

Lists == {"env", "arr", "fun"}

ListOf(p) == CASE p = "env" -> Env [] p = "arr" -> Arr [] p = "fun" -> Fun

\* A parent is allocated before its child, so parent chains end.
ParentsEnd ==
  LET parents == [o \in Obj |-> {link[o]} \cap Env] IN
  \A e \in Env : e \notin Reach(parents[e], parents)

\* Any heap a program can have built, before its first collection.  An
\* object not allocated yet is no different from garbage and left out.
Init ==
  /\ heap = Obj
  /\ held \in [Obj -> SUBSET Val]
  /\ link \in [Obj -> Env \cup {NoObj}]
  /\ \A a \in Arr : link[a] = NoObj
  /\ ParentsEnd
  /\ roots \in SUBSET Obj
  /\ cache \in SUBSET Fun
  /\ phase = "idle"
  /\ marked = {} /\ gray = {} /\ todo = {}
  /\ budget = FALSE /\ late = FALSE /\ invalidate = FALSE
  /\ heapBefore = heap /\ cacheBefore = cache

\* Between collections the program drops references: a frame returns, a
\* ScopedRoot is popped, a global is overwritten.
DropRoots ==
  /\ phase = "idle"
  /\ \E o \in roots : roots' = roots \ {o}
  /\ UNCHANGED <<heap, graph, cache, phase, marked, gray, todo, args, late,
                 before>>

\* Deviations from the code, to show that the properties notice them: a
\* collection that takes the marks of the last one for its own, and one that
\* never looks at function_cache.
StartKeepsMarks ==
  /\ phase = "idle"
  /\ budget' \in BOOLEAN
  /\ invalidate' \in BOOLEAN
  /\ late' = FALSE
  /\ gray' = (IF invalidate' THEN roots ELSE roots \cup cache) \ marked
  /\ phase' = "mark"
  /\ UNCHANGED <<heap, graph, roots, cache, marked, todo, before>>

StartWithoutCache ==
  /\ phase = "idle"
  /\ budget' \in BOOLEAN
  /\ invalidate' \in BOOLEAN
  /\ late' = FALSE
  /\ marked' = {}
  /\ gray' = roots
  /\ phase' = "mark"
  /\ UNCHANGED <<heap, graph, roots, cache, todo, before>>

\* Every mark is cleared and the roots are queued.  function_cache is a
\* root only when the caches are not about to be dropped.
Start ==
  /\ phase = "idle"
  /\ budget' \in BOOLEAN
  /\ invalidate' \in BOOLEAN
  /\ late' = FALSE
  /\ marked' = {}
  /\ gray' = IF invalidate' THEN roots ELSE roots \cup cache
  /\ phase' = "mark"
  /\ UNCHANGED <<heap, graph, roots, cache, todo, before>>

\* Deviations: a marker that does not test a link for null, one that visits
\* what it has marked again, and one that forgets captured_env and parent.
MarkNullLink ==
  /\ phase = "mark"
  /\ \E o \in gray :
       /\ marked' = marked \cup {o}
       /\ gray' = (gray \cup held[o] \cup {link[o]}) \ marked'
  /\ UNCHANGED <<heap, graph, roots, cache, phase, todo, args, late,
                 before>>

MarkAgain ==
  /\ phase = "mark"
  /\ \E o \in gray :
       /\ marked' = marked \cup {o}
       /\ gray' = (gray \ {o}) \cup refs[o]
  /\ UNCHANGED <<heap, graph, roots, cache, phase, todo, args, late,
                 before>>

MarkHeldOnly ==
  /\ phase = "mark"
  /\ \E o \in gray :
       /\ marked' = marked \cup {o}
       /\ gray' = (gray \cup held[o]) \ marked'
  /\ UNCHANGED <<heap, graph, roots, cache, phase, todo, args, late,
                 before>>

\* mark_value and mark_environment: an object already marked is skipped.
Mark ==
  /\ phase = "mark"
  /\ \E o \in gray :
       /\ marked' = marked \cup {o}
       /\ gray' = (gray \cup refs[o]) \ marked'
  /\ UNCHANGED <<heap, graph, roots, cache, phase, todo, args, late,
                 before>>

\* Deviation: function_cache is no root and not cleared either.
BeginSweepKeepsCache ==
  /\ phase = "mark"
  /\ gray = {}
  /\ phase' = "env"
  /\ todo' = heap \cap Env
  /\ UNCHANGED <<heap, graph, roots, cache, marked, gray, args, late, before>>

\* Marking is over: drop the caches if asked to, then sweep environments.
BeginSweep ==
  /\ phase = "mark"
  /\ gray = {}
  /\ cache' = IF invalidate THEN {} ELSE cache
  /\ phase' = "env"
  /\ todo' = heap \cap Env
  /\ UNCHANGED <<heap, graph, roots, marked, gray, args, late, before>>

\* One iteration of a sweep loop: keep or delete, then look at the clock.
\* Once the deadline has passed it stays passed, yet each later list still
\* examines its first object.
Sweep ==
  /\ phase \in Lists
  /\ \E o \in todo :
       /\ heap' = IF o \in marked THEN heap ELSE heap \ {o}
       /\ late' \in BOOLEAN
       /\ late => late'
       /\ late' => budget
       /\ todo' = IF late' THEN {} ELSE todo \ {o}
  /\ UNCHANGED <<graph, roots, cache, phase, marked, gray, args, before>>

\* The loop over a list has ended; go to the next list or return, which
\* ends the life of the arguments and of the clock.
NextList ==
  /\ phase \in Lists
  /\ todo = {}
  /\ phase' = CASE phase = "env" -> "arr" [] phase = "arr" -> "fun"
                [] phase = "fun" -> "idle"
  /\ todo' = IF phase = "fun" THEN {} ELSE heap \cap ListOf(phase')
  /\ IF phase = "fun"
       THEN /\ budget' = FALSE /\ invalidate' = FALSE /\ late' = FALSE
            /\ heapBefore' = heap /\ cacheBefore' = cache
       ELSE UNCHANGED <<args, late, before>>
  /\ UNCHANGED <<heap, graph, roots, cache, marked, gray>>

Collecting == Start \/ Mark \/ BeginSweep \/ Sweep \/ NextList

Next == DropRoots \/ Collecting

Spec == Init /\ [][Next]_vars

-----------------------------------------------------------------------------

TypeOK ==
  /\ heap \in SUBSET Obj
  /\ held \in [Obj -> SUBSET Val]
  /\ link \in [Obj -> Env \cup {NoObj}]
  /\ roots \in SUBSET Obj
  /\ cache \in SUBSET Fun
  /\ phase \in {"idle", "mark"} \cup Lists
  /\ marked \in SUBSET Obj
  /\ gray \in SUBSET Obj
  /\ todo \in SUBSET Obj
  /\ budget \in BOOLEAN /\ late \in BOOLEAN /\ invalidate \in BOOLEAN
  /\ heapBefore \in SUBSET Obj /\ cacheBefore \in SUBSET Fun

\* Nothing the interpreter can still get at is deleted, at any point of a
\* collection and after any number of collections that ran out of time.
NoDangling == Reach(AllRoots, refs) \subseteq heap

\* The marker follows references out of objects that exist: garbage that a
\* timed sweep left behind may refer to deleted objects, and marking must
\* never walk into it.
MarksLiveOnly == marked \cup gray \subseteq heap \/ phase = "idle"

\* A collection without a time budget reclaims every object that is not
\* reachable when it ends (scripts/testsuite/35_gc_stress.udon).
FullCollectionReclaims ==
  [][phase = "fun" /\ phase' = "idle" /\ ~budget
       => heap' = Reach(AllRoots, refs)]_vars

\* A collection ends once it has begun: marking and sweeping terminate on
\* every graph, cyclic ones included.
Fairness == WF_vars(Mark \/ BeginSweep \/ Sweep \/ NextList)
FairSpec == Spec /\ Fairness
CollectionEnds == phase # "idle" ~> phase = "idle"

Abstract == INSTANCE Reclaim WITH roots <- AllRoots
ImplementsReclaim == Abstract!Spec

\* Marking, dropping the caches and sweeping three lists, each up to its
\* deadline, come to one step for the program: to what was there when the
\* collection began happens, when it returns, what Collection says.
Atomic == INSTANCE Collection WITH heap <- heapBefore, cache <- cacheBefore
ImplementsCollection == Atomic!Spec
=============================================================================
