-------------------------- MODULE CollectorProofs --------------------------
(***************************************************************************)
(* The collector is safe and complete on every heap.                       *)
(***************************************************************************)
EXTENDS Collector, TLAPS

\* Every closed set of objects with the roots in it contains what they reach.
LEMMA ReachLeast ==
  ASSUME NEW from, NEW edges, NEW S \in SUBSET Obj,
         from \subseteq S, Closed(S, edges)
  PROVE  Reach(from, edges) \subseteq S
BY DEF Reach

\* Roots are reachable.
LEMMA ReachRoots ==
  ASSUME NEW edges, NEW from \in SUBSET Obj
  PROVE  from \subseteq Reach(from, edges)
BY DEF Reach

\* What a reachable object refers to is reachable.
LEMMA ReachClosed ==
  ASSUME NEW from, NEW edges \in [Obj -> SUBSET Obj]
  PROVE  Closed(Reach(from, edges), edges)
<1> SUFFICES ASSUME NEW o \in Reach(from, edges), NEW p \in edges[o],
                    NEW S \in SUBSET Obj,
                    from \subseteq S, Closed(S, edges)
             PROVE  p \in Obj /\ p \in S
  BY DEF Reach, Closed
<1>1. o \in Obj /\ o \in S
  BY DEF Reach
<1>2. QED
  BY <1>1 DEF Closed

\* Fewer roots reach less.
LEMMA ReachMonotone ==
  ASSUME NEW edges, NEW R1, NEW R2, R1 \subseteq R2
  PROVE  Reach(R1, edges) \subseteq Reach(R2, edges)
BY DEF Reach

LEMMA ReachType ==
  ASSUME NEW from, NEW edges
  PROVE  Reach(from, edges) \in SUBSET Obj
BY DEF Reach

-----------------------------------------------------------------------------
USE DEF Obj, Val

\* The roots of the collection under way.
MarkRoots == IF invalidate THEN roots ELSE AllRoots

\* While marking: every root is marked or queued, so is whatever a marked
\* object refers to, and nothing else is.
MarkInv ==
  phase = "mark" =>
    /\ MarkRoots \subseteq marked \cup gray
    /\ \A o \in marked : refs[o] \subseteq marked \cup gray
    /\ marked \cup gray \subseteq Reach(MarkRoots, refs)

\* While sweeping: exactly the reachable objects are marked.
SweepInv ==
  phase \in Lists =>
    /\ marked = Reach(AllRoots, refs)
    /\ marked \subseteq heap
    /\ todo \subseteq heap
    /\ gray = {}

\* Without a budget, what a finished list still contains is marked.
DoneInv ==
  phase \in Lists /\ ~budget =>
    /\ heap \cap Env \subseteq marked \cup (IF phase = "env" THEN todo ELSE {})
    /\ phase # "env" =>
         heap \cap Arr \subseteq marked \cup (IF phase = "arr" THEN todo ELSE {})
    /\ phase = "fun" => heap \cap Fun \subseteq marked \cup todo

ClockInv == late => budget

\* What has happened to heap and cache since the collection began.
HistInv ==
  /\ phase \in {"idle", "mark"} => heap = heapBefore /\ cache = cacheBefore
  /\ phase \in Lists =>
       heap \subseteq heapBefore /\ cache = IF invalidate THEN {} ELSE cacheBefore

IInv ==
  TypeOK /\ NoDangling /\ MarkInv /\ SweepInv /\ DoneInv /\ ClockInv /\ HistInv

LEMMA RefsType == TypeOK => refs \in [Obj -> SUBSET Obj]
BY DEF TypeOK, refs

LEMMA InitIInv == Init => IInv
<1> SUFFICES ASSUME Init PROVE IInv
  OBVIOUS
<1>1. TypeOK
  BY HeapAssumption DEF Init, TypeOK, Lists
<1>2. NoDangling
  BY ReachType DEF Init, NoDangling
<1>3. QED
  BY <1>1, <1>2 DEF Init, IInv, MarkInv, SweepInv, DoneInv, ClockInv, HistInv, Lists

\* The heap as a graph does not change during a collection.
LEMMA RefsFixed ==
  ASSUME UNCHANGED graph
  PROVE  refs' = refs
BY DEF graph, refs

LEMMA StepType ==
  ASSUME TypeOK, [Next]_vars
  PROVE  TypeOK'
<1> USE DEF TypeOK, Lists, graph, args, before
<1>1. CASE DropRoots
  BY <1>1 DEF DropRoots
<1>2. CASE Start
  BY <1>2 DEF Start
<1>3. CASE Mark
  <2> refs \in [Obj -> SUBSET Obj]
    BY RefsType
  <2> QED
    BY <1>3 DEF Mark
<1>4. CASE BeginSweep
  BY <1>4 DEF BeginSweep
<1>5. CASE Sweep
  BY <1>5 DEF Sweep
<1>6. CASE NextList
  BY <1>6 DEF NextList, ListOf
<1>7. CASE UNCHANGED vars
  BY <1>7 DEF vars
<1>8. QED
  BY <1>1, <1>2, <1>3, <1>4, <1>5, <1>6, <1>7 DEF Next, Collecting

LEMMA StepHist ==
  ASSUME IInv, [Next]_vars
  PROVE  HistInv'
<1> USE DEF HistInv, Lists, args, before
<1>1. CASE DropRoots \/ Start \/ Mark
  BY <1>1 DEF IInv, DropRoots, Start, Mark
<1>2. CASE BeginSweep
  BY <1>2 DEF IInv, BeginSweep
<1>3. CASE Sweep
  BY <1>3 DEF IInv, Sweep
<1>4. CASE NextList
  BY <1>4 DEF IInv, NextList
<1>5. CASE UNCHANGED vars
  BY <1>5 DEF IInv, vars
<1>6. QED
  BY <1>1, <1>2, <1>3, <1>4, <1>5 DEF Next, Collecting

LEMMA StepIInv ==
  ASSUME IInv, [Next]_vars
  PROVE  IInv'
<1>0. TypeOK'
  BY StepType DEF IInv
<1>1. refs \in [Obj -> SUBSET Obj] /\ TypeOK
  BY RefsType DEF IInv
<1>h. HistInv'
  BY StepHist
<1>2. CASE DropRoots
  <2>1. refs' = refs
    BY <1>2, RefsFixed DEF DropRoots
  <2>2. AllRoots' \subseteq AllRoots
    BY <1>2 DEF DropRoots, AllRoots
  <2>3. NoDangling'
    BY <2>1, <2>2, <1>2, ReachMonotone DEF DropRoots, NoDangling, IInv
  <2>4. QED
    BY <1>0, <1>h, <1>2, <2>3
    DEF DropRoots, IInv, MarkInv, SweepInv, DoneInv, ClockInv, Lists, args
<1>3. CASE Start
  <2>1. refs' = refs /\ AllRoots' = AllRoots /\ heap' = heap
    BY <1>3, RefsFixed DEF Start, AllRoots
  <2>2. NoDangling'
    BY <2>1 DEF NoDangling, IInv
  <2>3. MarkRoots' = gray' /\ MarkRoots' \in SUBSET Obj /\ marked' = {}
    BY <1>3, <1>1 DEF Start, MarkRoots, AllRoots, TypeOK
  <2>4. MarkRoots' \subseteq Reach(MarkRoots', refs)
    BY <2>3, ReachRoots
  <2>5. MarkInv'
    BY <2>1, <2>3, <2>4 DEF MarkInv
  <2>6. QED
    BY <1>0, <1>h, <1>3, <2>2, <2>5
    DEF Start, IInv, SweepInv, DoneInv, ClockInv, Lists
<1>4. CASE Mark
  <2>1. PICK o \in gray : marked' = marked \cup {o}
                       /\ gray' = (gray \cup refs[o]) \ marked'
    BY <1>4 DEF Mark
  <2>2. refs' = refs /\ AllRoots' = AllRoots /\ MarkRoots' = MarkRoots
        /\ heap' = heap /\ phase = "mark" /\ phase' = "mark"
    BY <1>4, RefsFixed DEF Mark, AllRoots, MarkRoots, args
  <2>3. MarkInv
    BY DEF IInv
  <2>4. o \in Reach(MarkRoots, refs) /\ o \in Obj
    BY <2>1, <2>2, <2>3, <1>1 DEF MarkInv, TypeOK
  <2>5. refs[o] \subseteq Reach(MarkRoots, refs)
    BY <2>4, <1>1, ReachClosed DEF Closed
  <2>6. marked' \cup gray' = marked \cup gray \cup refs[o]
    BY <2>1
  <2>7. MarkInv'
    <3>1. MarkRoots' \subseteq marked' \cup gray'
      BY <2>2, <2>3, <2>6 DEF MarkInv
    <3>2. ASSUME NEW p \in marked' PROVE refs'[p] \subseteq marked' \cup gray'
      BY <2>1, <2>2, <2>3, <2>6, <3>2 DEF MarkInv
    <3>3. marked' \cup gray' \subseteq Reach(MarkRoots, refs)'
      BY <2>2, <2>3, <2>5, <2>6 DEF MarkInv
    <3>4. QED
      BY <3>1, <3>2, <3>3 DEF MarkInv
  <2>8. NoDangling'
    BY <2>2 DEF NoDangling, IInv
  <2>9. QED
    BY <1>0, <1>h, <1>4, <2>2, <2>7, <2>8
    DEF Mark, IInv, SweepInv, DoneInv, ClockInv, Lists, args
<1>5. CASE BeginSweep
  <2>1. refs' = refs /\ heap' = heap /\ phase = "mark" /\ phase' = "env"
        /\ marked' = marked /\ gray = {} /\ AllRoots' = MarkRoots
    BY <1>5, RefsFixed DEF BeginSweep, AllRoots, MarkRoots
  <2>2. MarkRoots \subseteq marked /\ Closed(marked, refs)
        /\ marked \subseteq Reach(MarkRoots, refs)
    BY <2>1 DEF IInv, MarkInv, Closed
  <2>3. Reach(MarkRoots, refs) \subseteq marked
    BY <2>2, <1>1, ReachLeast DEF TypeOK
  <2>4. MarkRoots \subseteq AllRoots
    BY DEF MarkRoots, AllRoots
  <2>5. Reach(MarkRoots, refs) \subseteq heap
    BY <2>4, ReachMonotone DEF IInv, NoDangling
  <2>6. NoDangling' /\ SweepInv'
    BY <1>5, <2>1, <2>2, <2>3, <2>5 DEF NoDangling, SweepInv, BeginSweep
  <2>7. DoneInv'
    BY <1>5 DEF BeginSweep, DoneInv, Lists
  <2>8. QED
    BY <1>0, <1>h, <1>5, <2>1, <2>6, <2>7
    DEF IInv, MarkInv, BeginSweep, ClockInv, Lists, args
<1>6. CASE Sweep
  <2>1. PICK o \in todo : heap' = IF o \in marked THEN heap ELSE heap \ {o}
    BY <1>6 DEF Sweep
  <2>2. refs' = refs /\ AllRoots' = AllRoots /\ marked' = marked
        /\ phase' = phase /\ phase \in Lists /\ budget' = budget
        /\ (late' => budget) /\ (todo' \subseteq todo)
        /\ gray' = gray
    BY <1>6, RefsFixed DEF Sweep, AllRoots, args
  <2>3. marked = Reach(AllRoots, refs) /\ marked \subseteq heap
        /\ todo \subseteq heap /\ gray = {}
    BY <2>2 DEF IInv, SweepInv
  <2>4. marked \subseteq heap' /\ heap' \subseteq heap
    BY <2>1, <2>3
  <2>5. NoDangling'
    BY <2>2, <2>3, <2>4 DEF NoDangling
  <2>6. PICK p \in todo :
              /\ heap' = IF p \in marked THEN heap ELSE heap \ {p}
              /\ todo' = IF late' THEN {} ELSE todo \ {p}
    BY <1>6 DEF Sweep
  <2>7. SweepInv'
    <3>1. todo' \subseteq heap'
      BY <2>3, <2>6
    <3>2. QED
      BY <2>2, <2>3, <2>4, <3>1 DEF SweepInv
  <2>8. DoneInv'
    BY <2>2, <2>6 DEF IInv, DoneInv
  <2>9. QED
    BY <1>0, <1>h, <2>2, <2>5, <2>7, <2>8 DEF IInv, MarkInv, ClockInv, Lists
<1>7. CASE NextList
  <2>1. refs' = refs /\ AllRoots' = AllRoots /\ marked' = marked
        /\ heap' = heap /\ phase \in Lists /\ todo = {} /\ gray' = gray
    BY <1>7, RefsFixed DEF NextList, AllRoots
  <2>2. NoDangling'
    BY <2>1 DEF NoDangling, IInv
  <2>3. todo' \subseteq heap
    BY <1>7 DEF NextList
  <2>4. SweepInv'
    BY <2>1, <2>3 DEF IInv, SweepInv
  <2>5. DoneInv'
    BY <1>7, <2>1 DEF NextList, IInv, DoneInv, Lists, ListOf, args
  <2>6. QED
    BY <1>0, <1>h, <1>7, <2>2, <2>4, <2>5
    DEF IInv, MarkInv, NextList, ClockInv, Lists, args
<1>8. CASE UNCHANGED vars
  BY <1>8, <1>0, <1>h
  DEF vars, IInv, TypeOK, NoDangling, MarkInv, SweepInv, DoneInv, ClockInv,
      MarkRoots, AllRoots, refs
<1>9. QED
  BY <1>2, <1>3, <1>4, <1>5, <1>6, <1>7, <1>8 DEF Next, Collecting

\* What is on the heap, marked, queued or referred to is an object of its kind,
\* throughout any sequence of collections.
THEOREM CollectorTypeCorrect == Spec => []TypeOK
<1>1. Init => IInv
  BY InitIInv
<1>2. IInv /\ [Next]_vars => IInv'
  BY StepIInv
<1>3. IInv => TypeOK
  BY DEF IInv
<1>4. QED
  BY <1>1, <1>2, <1>3, PTL DEF Spec

\* A collection never deletes an object the interpreter can still get at.
THEOREM NoDanglingHolds == Spec => []NoDangling
<1>1. Init => IInv
  BY InitIInv
<1>2. IInv /\ [Next]_vars => IInv'
  BY StepIInv
<1>3. IInv => NoDangling
  BY DEF IInv
<1>4. QED
  BY <1>1, <1>2, <1>3, PTL DEF Spec

\* The marker never visits a deleted object, though garbage may refer to one.
THEOREM MarksLiveOnlyHolds == Spec => []MarksLiveOnly
<1>1. Init => IInv
  BY InitIInv
<1>2. IInv /\ [Next]_vars => IInv'
  BY StepIInv
<1>3. IInv => MarksLiveOnly
  <2> SUFFICES ASSUME IInv, phase # "idle"
               PROVE  marked \cup gray \subseteq heap
    BY DEF MarksLiveOnly
  <2>1. CASE phase = "mark"
    <3>1. MarkRoots \subseteq AllRoots
      BY DEF MarkRoots, AllRoots
    <3>2. Reach(MarkRoots, refs) \subseteq heap
      BY <3>1, ReachMonotone DEF IInv, NoDangling
    <3>3. QED
      BY <2>1, <3>2 DEF IInv, MarkInv
  <2>2. CASE phase \in Lists
    BY <2>2 DEF IInv, SweepInv
  <2>3. QED
    BY <2>1, <2>2 DEF IInv, TypeOK
<1>4. QED
  BY <1>1, <1>2, <1>3, PTL DEF Spec

\* A collection without a budget leaves exactly the reachable objects.
THEOREM FullCollectionReclaimsHolds == Spec => FullCollectionReclaims
<1>1. Init => IInv
  BY InitIInv
<1>2. IInv /\ [Next]_vars => IInv'
  BY StepIInv
<1>3. IInv /\ [Next]_vars
        => [phase = "fun" /\ phase' = "idle" /\ ~budget
              => heap' = Reach(AllRoots, refs)]_vars
  <2> SUFFICES ASSUME IInv, Next, phase = "fun", phase' = "idle", ~budget
               PROVE  heap' = Reach(AllRoots, refs)
    OBVIOUS
  <2>1. NextList
    BY DEF Next, Collecting, DropRoots, Start, Mark, BeginSweep, Sweep
  <2>2. heap' = heap /\ todo = {} /\ phase \in Lists
    BY <2>1 DEF NextList
  <2>3. heap \subseteq marked
    BY <2>2 DEF IInv, DoneInv, TypeOK
  <2>4. QED
    BY <2>2, <2>3 DEF IInv, SweepInv
<1>4. QED
  BY <1>1, <1>2, <1>3, PTL DEF Spec, FullCollectionReclaims

\* Both specifications mean the same by reachable.
LEMMA SameReach ==
  Abstract!Obj = Obj /\ Abstract!Reach(AllRoots, refs) = Reach(AllRoots, refs)
BY DEF Abstract!Obj, Abstract!Reach, Abstract!Closed, Reach, Closed

\* Every step of the collector is a step of the abstract specification, in
\* which only unreachable objects are deleted, or leaves its view alone.
THEOREM CollectorImplementsReclaim == Spec => ImplementsReclaim
<1>1. Init => Abstract!Init
  <2> SUFFICES ASSUME Init PROVE Abstract!Init
    OBVIOUS
  <2>1. IInv
    BY InitIInv
  <2>2. refs \in [Obj -> SUBSET Obj]
    BY <2>1, RefsType DEF IInv
  <2>3. QED
    BY <2>1, <2>2, SameReach DEF IInv, TypeOK, NoDangling, AllRoots, Abstract!Init
<1>2. Init => IInv
  BY InitIInv
<1>3. IInv /\ [Next]_vars => IInv'
  BY StepIInv
<1>4. IInv /\ [Next]_vars => [Abstract!Drop \/ Abstract!Free]_(Abstract!vars)
  <2> SUFFICES ASSUME IInv, [Next]_vars
               PROVE  [Abstract!Drop \/ Abstract!Free]_(Abstract!vars)
    OBVIOUS
  <2> USE DEF Abstract!vars, graph, args
  <2>1. CASE DropRoots
    <3>1. AllRoots' \in SUBSET AllRoots /\ heap' = heap
      BY <2>1 DEF DropRoots, AllRoots
    <3>2. refs' = refs
      BY <2>1, RefsFixed DEF DropRoots
    <3>3. QED
      BY <3>1, <3>2 DEF Abstract!Drop
  <2>2. CASE Start \/ Mark \/ NextList
    <3>1. refs' = refs
      BY <2>2, RefsFixed DEF Start, Mark, NextList
    <3>2. heap' = heap /\ AllRoots' = AllRoots
      BY <2>2 DEF Start, Mark, NextList, AllRoots
    <3>3. QED
      BY <3>1, <3>2
  <2>3. CASE BeginSweep
    <3>1. AllRoots' \in SUBSET AllRoots /\ heap' = heap
      BY <2>3 DEF BeginSweep, AllRoots
    <3>2. refs' = refs
      BY <2>3, RefsFixed DEF BeginSweep
    <3>3. QED
      BY <3>1, <3>2 DEF Abstract!Drop
  <2>4. CASE Sweep
    <3>1. PICK o \in todo : heap' = IF o \in marked THEN heap ELSE heap \ {o}
      BY <2>4 DEF Sweep
    <3>2. refs' = refs /\ AllRoots' = AllRoots /\ phase \in Lists
      BY <2>4, RefsFixed DEF Sweep, AllRoots
    <3>3. o \in heap /\ marked = Reach(AllRoots, refs)
      BY <3>1, <3>2 DEF IInv, SweepInv
    <3>4. CASE o \in marked
      BY <3>1, <3>2, <3>4
    <3>5. CASE o \notin marked
      BY <3>1, <3>2, <3>3, <3>5, SameReach DEF Abstract!Free
    <3>6. QED
      BY <3>4, <3>5
  <2>5. CASE UNCHANGED vars
    BY <2>5 DEF vars, refs, AllRoots
  <2>6. QED
    BY <2>1, <2>2, <2>3, <2>4, <2>5 DEF Next, Collecting
<1>5. QED
  BY <1>1, <1>2, <1>3, <1>4, PTL DEF Spec, ImplementsReclaim, Abstract!Spec

-----------------------------------------------------------------------------

LEMMA SameSurvivors ==
  ASSUME NEW h, NEW from, NEW edges, NEW timed
  PROVE  Atomic!Survivors(h, from, edges, timed) = Survivors(h, from, edges, timed)
BY DEF Atomic!Survivors, Survivors, Atomic!Reach, Reach, Atomic!Obj, Atomic!Closed, Closed

\* When the last list has been swept, the heap is one of those a collection
\* can leave of the heap it found.
LEMMA ReturnsCollected ==
  ASSUME IInv, NextList, phase = "fun"
  PROVE  Atomic!Collect(invalidate, budget)
<1> DEFINE From == IF invalidate THEN roots ELSE roots \cup cacheBefore
<1>1. heapBefore' = heap /\ cacheBefore' = cache /\ roots' = roots /\ todo = {}
  BY DEF NextList
<1>2. refs' = refs
  BY RefsFixed DEF NextList
<1>3. heap \subseteq heapBefore /\ cache = (IF invalidate THEN {} ELSE cacheBefore)
  BY DEF IInv, HistInv, Lists
<1>4. AllRoots = From
  BY <1>3 DEF AllRoots
<1>5. Reach(From, refs) \subseteq heap
  BY <1>4 DEF IInv, NoDangling
<1>6. ~budget => heap \subseteq Reach(From, refs)
  <2> SUFFICES ASSUME ~budget PROVE heap \subseteq marked /\ marked = Reach(From, refs)
    OBVIOUS
  <2>1. heap \subseteq marked
    BY <1>1 DEF IInv, DoneInv, TypeOK, Lists
  <2>2. QED
    BY <2>1, <1>4 DEF IInv, SweepInv, Lists
<1>7. heap \in Survivors(heapBefore, From, refs, budget)
  BY <1>3, <1>5, <1>6 DEF Survivors
<1>8. QED
  BY <1>1, <1>2, <1>3, <1>7, SameSurvivors DEF Atomic!Collect

\* Seen by the program a collection is one step, that of Collection: all that a
\* collection does before it returns is invisible.
THEOREM CollectorImplementsCollection == Spec => ImplementsCollection
<1>1. Init => Atomic!Init
  <2> SUFFICES ASSUME Init PROVE Atomic!Init
    OBVIOUS
  <2>1. IInv
    BY InitIInv
  <2>2. refs \in [Obj -> SUBSET Obj]
    BY <2>1, RefsType DEF IInv
  <2>3. Atomic!Obj = Obj
    BY DEF Atomic!Obj
  <2>4. Atomic!Reach(AllRoots, refs) = Reach(AllRoots, refs)
    BY DEF Atomic!Reach, Reach, Atomic!Obj, Atomic!Closed, Closed
  <2>5. heapBefore = heap /\ cacheBefore = cache
    BY DEF Init
  <2>6. QED
    BY <2>1, <2>2, <2>3, <2>4, <2>5 DEF IInv, TypeOK, NoDangling, AllRoots, Atomic!Init
<1>2. Init => IInv
  BY InitIInv
<1>3. IInv /\ [Next]_vars => IInv'
  BY StepIInv
<1>4. IInv /\ [Next]_vars => [Atomic!Next]_(Atomic!vars)
  <2> SUFFICES ASSUME IInv, [Next]_vars
               PROVE  [Atomic!Next]_(Atomic!vars)
    OBVIOUS
  <2> USE DEF Atomic!vars, graph, before
  <2>1. CASE DropRoots
    <3>1. roots' \in SUBSET roots /\ UNCHANGED before
      BY <2>1 DEF DropRoots
    <3>2. refs' = refs
      BY <2>1, RefsFixed DEF DropRoots
    <3>3. QED
      BY <3>1, <3>2 DEF Atomic!Drop, Atomic!Next
  <2>2. CASE Start \/ Mark \/ BeginSweep \/ Sweep
    <3>1. refs' = refs
      BY <2>2, RefsFixed DEF Start, Mark, BeginSweep, Sweep
    <3>2. QED
      BY <2>2, <3>1 DEF Start, Mark, BeginSweep, Sweep
  <2>3. CASE NextList /\ phase # "fun"
    <3>1. refs' = refs
      BY <2>3, RefsFixed DEF NextList
    <3>2. QED
      BY <2>3, <3>1 DEF NextList
  <2>4. CASE NextList /\ phase = "fun"
    <3>1. Atomic!Collect(invalidate, budget)
      BY <2>4, ReturnsCollected
    <3>2. invalidate \in BOOLEAN /\ budget \in BOOLEAN
      BY DEF IInv, TypeOK
    <3>3. QED
      BY <3>1, <3>2 DEF Atomic!Next
  <2>5. CASE UNCHANGED vars
    BY <2>5 DEF vars, refs
  <2>6. QED
    BY <2>1, <2>2, <2>3, <2>4, <2>5 DEF Next, Collecting
<1>5. QED
  BY <1>1, <1>2, <1>3, <1>4, PTL DEF Spec, ImplementsCollection, Atomic!Spec
=============================================================================
