--------------------------- MODULE MutatorProofs ---------------------------
(***************************************************************************)
(* No collection deletes what the interpreter can still touch, whatever    *)
(* the program, the depth of calls and the moment of the collection.       *)
(*                                                                         *)
(* The inductive invariant relates the frames to the heap.  CallersAreParents *)
(* is what makes one environment root per run enough: the environments of  *)
(* the frames below the topmost are reached through parent links.          *)
(***************************************************************************)
EXTENDS Mutator, WellFoundedInduction, TLAPS

\* Every closed set of objects with the roots in it contains what they reach.
LEMMA ReachLeast ==
  ASSUME NEW from, NEW edges, NEW S \in SUBSET Obj,
         from \subseteq S, Closed(S, edges)
  PROVE  Reach(from, edges) \subseteq S
BY DEF Reach

\* Roots are reachable.
LEMMA ReachRoots ==
  ASSUME NEW edges, NEW from \in SUBSET Obj
  PROVE  from \subseteq Reach(from, edges)
BY DEF Reach

\* What a reachable object refers to is reachable.
LEMMA ReachClosed ==
  ASSUME NEW from, NEW edges \in [Obj -> SUBSET Obj]
  PROVE  Closed(Reach(from, edges), edges)
<1> SUFFICES ASSUME NEW o \in Reach(from, edges), NEW p \in edges[o],
                    NEW S \in SUBSET Obj,
                    from \subseteq S, Closed(S, edges)
             PROVE  p \in Obj /\ p \in S
  BY DEF Reach, Closed
<1>1. o \in Obj /\ o \in S
  BY DEF Reach
<1>2. QED
  BY <1>1 DEF Closed

\* Fewer roots reach less.
LEMMA ReachMonotone ==
  ASSUME NEW edges, NEW R1, NEW R2, R1 \subseteq R2
  PROVE  Reach(R1, edges) \subseteq Reach(R2, edges)
BY DEF Reach

LEMMA ReachType ==
  ASSUME NEW from, NEW edges
  PROVE  Reach(from, edges) \in SUBSET Obj
BY DEF Reach

-----------------------------------------------------------------------------
USE DEF Obj, Val, Active

\* Code that a function or a running frame has is code of the program.
CodeOK ==
  /\ \A f \in heap \cap Fun : body[f] \in Code
  /\ \A i \in 1 .. Depth :
       frames[i].kind = "legacy" => frames[i].code \in Code

\* What is not in the heap is empty, as a new object is.
Blank == \A o \in Obj \ heap : held[o] = {} /\ link[o] = NoObj

\* What the frames and the roots hold: all that can be touched but for what
\* CALL sites remember.
Grasp == Roots(FALSE) \cup {frames[i].env : i \in 1 .. Depth}

GraspExists == Reach(Grasp, refs) \subseteq heap

\* What function_cache and CALL sites remember, and what a site is waiting to
\* remember, is a wrapper: a function that refers to nothing.  What a CALL
\* site remembers exists as long as the site does not know that it is gone.
Wrappers ==
  /\ \A f \in Fun : held[f] = {}
  /\ \A n \in Named : cache[n] # NoObj => link[cache[n]] = NoObj
  /\ \A c \in Code, n \in Named :
       site[c][n] \in Fun => site[c][n] \in heap /\ link[site[c][n]] = NoObj
  /\ \A i \in 1 .. Depth :
       frames[i].fill # {} => frames[i].fn \in Fun /\ link[frames[i].fn] = NoObj

IInv == TypeOK /\ CodeOK /\ Blank /\ Wrappers /\ GraspExists /\ CallersAreParents

Live == Reach(Grasp, refs)

LEMMA InitIInv == Init => IInv
<1> SUFFICES ASSUME Init PROVE IInv
  OBVIOUS
<1> USE DEF Init
<1>1. frames = <<>> /\ Depth = 0
  BY DEF Depth
<1>2. TypeOK
  <2>1. undefined \in BOOLEAN
    OBVIOUS
  <2>2. site \in [Code -> [Named -> Fun \cup {NoObj, Gone}]]
    OBVIOUS
  <2>3. QED
    BY <1>1, <2>1, <2>2, MutatorAssumption DEF TypeOK
<1>3. CodeOK /\ Blank /\ CallersAreParents
  BY <1>1 DEF CodeOK, Blank, CallersAreParents
<1>8. Wrappers
  BY <1>1, HeapAssumption DEF Wrappers
<1>4. Grasp = {}
  BY <1>1 DEF Grasp, Roots, EnvRoots, ValueRoots, InvokeRoots, CacheRoots
<1>5. Closed({}, refs)
  BY DEF Closed
<1>6. GraspExists
  BY <1>4, <1>5, ReachLeast DEF GraspExists
<1>7. QED
  BY <1>2, <1>3, <1>6, <1>8 DEF IInv

LEMMA RefsType == TypeOK => refs \in [Obj -> SUBSET Obj]
BY DEF TypeOK, refs

LEMMA DepthType ==
  TypeOK => Depth \in Nat /\ \A i \in 1 .. Depth : frames[i] \in Frame
BY DEF TypeOK, Depth

\* What a frame touches lies in S.
FrameIn(fr, S) ==
  /\ fr.env \in S
  /\ fr.vals \subseteq S
  /\ fr.fn \in S \cup {NoObj}

\* Nothing outside S is touched, and S is closed under references.
Kept(S) ==
  /\ \A i \in 1 .. Depth : FrameIn(frames[i], S)
  /\ globals \subseteq S
  /\ \A n \in Named : cache[n] \in S \cup {NoObj}
  /\ \A o \in S : held[o] \subseteq S /\ link[o] \in S \cup {NoObj}

LEMMA KeptGrasp == \A S : Kept(S) => Grasp \subseteq S
<1> SUFFICES ASSUME NEW S, Kept(S), NEW x \in Grasp PROVE x \in S
  OBVIOUS
<1> USE DEF Kept, FrameIn
<1>1. x \in EnvRoots => x \in S
  BY DEF EnvRoots
<1>2. x \in ValueRoots => x \in S
  BY DEF ValueRoots
<1>3. x \in InvokeRoots => x \in S
  BY DEF InvokeRoots
<1>4. x \in CacheRoots => x \in S
  BY DEF CacheRoots
<1>5. QED
  BY <1>1, <1>2, <1>3, <1>4 DEF Grasp, Roots

\* A set of existing objects that is Kept shows that nothing dangles.
LEMMA KeptExists ==
  \A S \in SUBSET Obj : Kept(S) /\ S \subseteq heap => GraspExists
<1> SUFFICES ASSUME NEW S \in SUBSET Obj, Kept(S), S \subseteq heap
             PROVE  GraspExists
  OBVIOUS
<1>1. Grasp \subseteq S
  BY KeptGrasp
<1>2. Closed(S, refs)
  BY DEF Kept, Closed, refs
<1>3. QED
  BY <1>1, <1>2, ReachLeast DEF GraspExists

LEMMA KeptExistsNext ==
  \A S \in SUBSET Obj : Kept(S)' /\ S \subseteq heap' => GraspExists'
<1>1. (\A S \in SUBSET Obj : Kept(S) /\ S \subseteq heap => GraspExists)'
  BY KeptExists, PTL
<1>2. QED
  BY <1>1

\* What is live is Kept and exists.
LEMMA LiveKept ==
  ASSUME TypeOK, GraspExists
  PROVE  Kept(Live) /\ Live \subseteq heap /\ Live \subseteq Obj
<1>1. Live \subseteq heap /\ Live \subseteq Obj
  BY ReachType DEF Live, GraspExists
<1>2. Grasp \in SUBSET Obj
  <2> SUFFICES ASSUME NEW x \in Grasp PROVE x \in Obj
    OBVIOUS
  <2>1. \A i \in 1 .. Depth : frames[i] \in Frame
    BY DepthType
  <2>2. Kept(Obj)
    BY <2>1 DEF Kept, FrameIn, Frame, TypeOK
  <2>3. QED
    BY <2>2, KeptGrasp
<1>3. Grasp \subseteq Live
  BY <1>2, ReachRoots DEF Live
<1>4. Closed(Live, refs)
  BY RefsType, ReachClosed DEF Live
<1>5. \A o \in Live : held[o] \subseteq Live /\ link[o] \in Live \cup {NoObj}
  BY <1>1, <1>4 DEF Closed, refs
<1>6. ASSUME NEW i \in 1 .. Depth PROVE FrameIn(frames[i], Live)
  <2>1. frames[i].env \in Grasp
    BY DEF Grasp
  <2>2. frames[i].vals \subseteq Grasp
    BY DEF Grasp, Roots, ValueRoots
  <2>3. frames[i].fn # NoObj => frames[i].fn \in Grasp
    BY DEF Grasp, Roots, InvokeRoots
  <2>4. QED
    BY <1>3, <2>1, <2>2, <2>3 DEF FrameIn
<1>7. globals \subseteq Live
  BY <1>3 DEF Grasp, Roots
<1>8. ASSUME NEW n \in Named PROVE cache[n] \in Live \cup {NoObj}
  BY <1>3 DEF Grasp, Roots, CacheRoots
<1>9. QED
  BY <1>1, <1>5, <1>6, <1>7, <1>8 DEF Kept

\* The environments in scope are live.
LEMMA ScopeLive ==
  ASSUME TypeOK, GraspExists, Depth > 0
  PROVE  Scope \subseteq Live \cap Env
<1> DEFINE up == [o \in Obj |-> {link[o]} \cap Env]
<1>1. Top.env \in Live \cap Env
  BY LiveKept, DepthType DEF Top, Kept, FrameIn, Frame
<1>2. ASSUME NEW o \in Live \cap Env PROVE up[o] \subseteq Live \cap Env
  <2>1. o \in Obj /\ link[o] \in Live \cup {NoObj}
    BY LiveKept DEF Kept
  <2>2. QED
    BY <2>1, HeapAssumption
<1>3. Closed(Live \cap Env, up)
  BY <1>2 DEF Closed
<1> HIDE DEF up
<1>4. Reach({Top.env}, up) \subseteq Live \cap Env
  BY <1>1, <1>3, LiveKept, ReachLeast
<1>5. QED
  BY <1>4 DEF Scope, up

-----------------------------------------------------------------------------
(* Steps of a frame that is on top before and after *)

\* fs is the call nesting as it is, up to the values in its frames.
SameCalls(fs) ==
  /\ fs \in Seq(Frame) /\ Len(fs) = Depth
  /\ \A i \in 1 .. Depth :
       /\ fs[i].env = frames[i].env /\ fs[i].kind = frames[i].kind
       /\ fs[i].fn = frames[i].fn /\ fs[i].code = frames[i].code
       /\ fs[i].fill = frames[i].fill

LEMMA SameFrames == TypeOK => SameCalls(frames)
BY DEF TypeOK, SameCalls, Depth

LEMMA RegistersCalls ==
  ASSUME TypeOK, Depth > 0, NEW gone, NEW vs \in SUBSET Val
  PROVE  /\ SameCalls(Registers(gone, vs))
         /\ \A i \in 1 .. Depth :
              Registers(gone, vs)[i].vals \subseteq frames[i].vals \cup vs
<1> DEFINE fr == [Top EXCEPT !.vals = (@ \ gone) \cup vs]
<1>1. Depth \in Nat /\ frames \in Seq(Frame) /\ Depth = Len(frames)
  BY DEF TypeOK, Depth
<1>2. Top \in Frame
  BY <1>1 DEF Top
<1>3. fr \in Frame /\ fr.vals = (Top.vals \ gone) \cup vs /\ fr.env = Top.env
      /\ fr.kind = Top.kind /\ fr.fn = Top.fn /\ fr.code = Top.code
      /\ fr.fill = Top.fill
  BY <1>2 DEF Frame
<1>4. Registers(gone, vs) = [frames EXCEPT ![Depth] = fr]
  BY <1>1 DEF Registers, Top
<1> HIDE DEF fr
<1>5. QED
  BY <1>1, <1>3, <1>4 DEF SameCalls, Top

\* A step that adds the objects N to the heap and refers only to them and to
\* what is live.
LEMMA StayStep ==
  ASSUME IInv, NEW N \in SUBSET (Obj \ heap), heap' = heap \cup N,
         SameCalls(frames'),
         held' \in [Obj -> SUBSET Val],
         link' \in [Obj -> Env \cup {NoObj}],
         body' \in [Fun -> Code \cup {NoCode}],
         \A o \in heap : link'[o] = link[o],
         \A f \in Fun : held'[f] = {},
         \A o \in Obj \ heap' : held'[o] = {} /\ link'[o] = NoObj,
         \A f \in heap \cap Fun : body'[f] = body[f],
         \A f \in N \cap Fun : body'[f] \in Code,
         \A o \in Live \cup N : held'[o] \subseteq Live \cup N,
         \A o \in N : link'[o] \in Live \cup {NoObj},
         \A i \in 1 .. Depth : frames'[i].vals \subseteq Live \cup N,
         globals' \subseteq Live \cup N, globals' \subseteq Val,
         UNCHANGED caches
  PROVE  IInv'
<1> USE DEF IInv
<1>1. Depth \in Nat /\ Depth' = Depth
  BY DEF SameCalls, TypeOK, Depth
<1>2. TypeOK'
  BY <1>1 DEF TypeOK, SameCalls, caches
<1>3. CodeOK'
  BY <1>1 DEF CodeOK, SameCalls
<1>4. Kept(Live) /\ Live \subseteq heap /\ Live \subseteq Obj
  BY LiveKept
<1>5. GraspExists'
  <2> PICK S : S = Live \cup N
    OBVIOUS
  <2>1. S \in SUBSET Obj /\ S \subseteq heap'
    BY <1>4
  <2>2. \A i \in 1 .. Depth' : FrameIn(frames'[i], S)
    BY <1>1, <1>4 DEF Kept, FrameIn, SameCalls
  <2>3. \A n \in Named : cache'[n] \in S \cup {NoObj}
    BY <1>4 DEF Kept, caches
  <2>4. \A o \in S : held'[o] \subseteq S /\ link'[o] \in S \cup {NoObj}
    BY <1>4 DEF Kept
  <2>5. Kept(S)'
    BY <2>2, <2>3, <2>4 DEF Kept
  <2>6. QED
    BY <2>1, <2>5, KeptExistsNext
<1>6. CallersAreParents'
  <2>1. \A i \in 1 .. Depth : link'[frames[i].env] = link[frames[i].env]
    BY <1>4 DEF Kept, FrameIn
  <2>2. QED
    BY <1>1, <2>1 DEF CallersAreParents, SameCalls
<1>7. Blank'
  BY DEF Blank
<1>8. Wrappers'
  <2>1. ASSUME NEW n \in Named, cache'[n] # NoObj PROVE link'[cache'[n]] = NoObj
    BY <1>4, <2>1 DEF Wrappers, Kept, caches
  <2>2. ASSUME NEW c \in Code, NEW n \in Named, site'[c][n] \in Fun
        PROVE  site'[c][n] \in heap' /\ link'[site'[c][n]] = NoObj
    BY <2>2 DEF Wrappers, caches
  <2>3. ASSUME NEW i \in 1 .. Depth, frames'[i].fill # {}
        PROVE  frames'[i].fn \in Fun /\ link'[frames'[i].fn] = NoObj
    <3>1. frames[i].fn \in Fun /\ link[frames[i].fn] = NoObj /\ frames'[i].fn = frames[i].fn
      BY <2>3 DEF Wrappers, SameCalls
    <3>2. frames[i].fn \in heap
      BY <1>4, <3>1, HeapAssumption DEF Kept, FrameIn
    <3>3. QED
      BY <3>1, <3>2
  <2>4. QED
    BY <1>1, <2>1, <2>2, <2>3 DEF Wrappers
<1>9. QED
  BY <1>2, <1>3, <1>5, <1>6, <1>7, <1>8

LEMMA TopKept ==
  ASSUME IInv, Depth > 0
  PROVE  /\ Depth \in 1 .. Depth /\ Top \in Frame
         /\ Top.env \in Live \cap Env /\ Top.vals \subseteq Live
<1>1. Depth \in 1 .. Depth
  BY DepthType DEF IInv
<1>2. QED
  BY <1>1, DepthType, LiveKept DEF IInv, Kept, FrameIn, Top, Frame

\* Registers(gone, vs) keep in touch with live objects if vs does.
LEMMA RegistersKept ==
  ASSUME IInv, Depth > 0, NEW gone, NEW vs \in SUBSET Val
  PROVE  /\ SameCalls(Registers(gone, vs))
         /\ \A i \in 1 .. Depth : Registers(gone, vs)[i].vals \subseteq Live \cup vs
<1>1. \A i \in 1 .. Depth : frames[i].vals \subseteq Live
  BY LiveKept DEF IInv, Kept, FrameIn
<1>2. QED
  BY <1>1, RegistersCalls DEF IInv

LEMMA RegistersLive ==
  ASSUME IInv, Depth > 0, NEW gone, NEW vs \in SUBSET Val, vs \subseteq Live
  PROVE  /\ SameCalls(Registers(gone, vs))
         /\ \A i \in 1 .. Depth : Registers(gone, vs)[i].vals \subseteq Live
BY RegistersKept

LEMMA MirrorKept ==
  ASSUME IInv, Depth > 0, NEW h \in [Obj -> SUBSET Val], NEW vs \in SUBSET Val
  PROVE  /\ Mirror(h, vs) \in [Obj -> SUBSET Val]
         /\ \A o \in Obj : Mirror(h, vs)[o] \subseteq h[o] \cup vs
         /\ \A o \in Obj \ heap : Mirror(h, vs)[o] = h[o]
         /\ \A f \in Fun : Mirror(h, vs)[f] = h[f]
<1>1. Live \subseteq heap
  BY LiveKept DEF IInv
<1>2. QED
  BY <1>1, TopKept, HeapAssumption DEF Mirror

LEMMA MoveStep == IInv /\ Move => IInv'
<1> SUFFICES ASSUME IInv, Move PROVE IInv'
  OBVIOUS
<1> USE DEF IInv
<1>1. /\ Live \subseteq heap /\ Live \subseteq Obj /\ globals \subseteq Live
      /\ \A o \in Live : held[o] \subseteq Live
      /\ \A i \in 1 .. Depth : frames[i].vals \subseteq Live
  BY LiveKept DEF Kept, FrameIn
<1>2. ASSUME SameCalls(frames'), UNCHANGED <<heap, link, body, caches>>,
             held' \in [Obj -> SUBSET Val],
             \A o \in Live : held'[o] \subseteq Live,
             \A o \in Obj \ heap : held'[o] = held[o],
             \A f \in Fun : held'[f] = held[f],
             \A i \in 1 .. Depth : frames'[i].vals \subseteq Live,
             globals' \subseteq Live, globals' \subseteq Val
      PROVE  IInv'
  <2>1. heap' = heap \cup {} /\ {} \in SUBSET (Obj \ heap)
    BY <1>2
  <2>2. link' = link /\ body' = body /\ UNCHANGED caches
    BY <1>2
  <2>3. link' \in [Obj -> Env \cup {NoObj}] /\ body' \in [Fun -> Code \cup {NoCode}]
    BY <2>2 DEF TypeOK
  <2>4. (\A o \in Obj \ heap' : held'[o] = {} /\ link'[o] = NoObj)
        /\ \A f \in Fun : held'[f] = {}
    BY <1>2 DEF Blank, Wrappers
  <2>5. QED
    BY <1>2, <2>1, <2>2, <2>3, <2>4, StayStep
<1>3. CASE Forget
  <2>1. PICK w \in Maybe(Top.vals), u \in Maybe(held[Top.env]) :
           /\ frames' = Registers(w, {})
           /\ held' = IF OnVM2 THEN [held EXCEPT ![Top.env] = @ \ u] ELSE held
    BY <1>3 DEF Forget
  <2>2. SameCalls(frames') /\ \A i \in 1 .. Depth : frames'[i].vals \subseteq Live
    BY <1>3, <2>1, RegistersLive DEF Forget
  <2>3. /\ held' \in [Obj -> SUBSET Val]
        /\ \A o \in Obj : held'[o] \subseteq held[o]
        /\ \A o \in Obj \ heap : held'[o] = held[o]
        /\ \A f \in Fun : held'[f] = held[f]
    BY <1>1, <1>3, <2>1, TopKept, HeapAssumption DEF TypeOK, Forget
  <2>4. QED
    BY <1>1, <1>2, <1>3, <2>2, <2>3 DEF Forget, TypeOK
<1>4. CASE LoadLocal
  <2>a. PICK e \in Scope : \E v \in held[e] : frames' = Registers({}, {v})
    BY <1>4 DEF LoadLocal
  <2>1. PICK v \in held[e] : frames' = Registers({}, {v})
    BY <2>a
  <2>2. v \in Val /\ v \in Live
    BY <1>1, <1>4, <2>1, ScopeLive DEF LoadLocal, OnLegacy, TypeOK
  <2>3. SameCalls(frames') /\ \A i \in 1 .. Depth : frames'[i].vals \subseteq Live
    <3>1. Depth > 0 /\ {v} \in SUBSET Val /\ {v} \subseteq Live
      BY <1>4, <2>2 DEF LoadLocal, OnLegacy
    <3>2. QED
      BY <2>1, <3>1, RegistersLive
  <2>4. QED
    BY <1>1, <1>2, <1>4, <2>3 DEF LoadLocal, objects, TypeOK
<1>5. CASE StoreLocal
  <2>a. PICK e \in Scope, v \in Top.vals : \E u \in Maybe(held[e]) :
           /\ held' = [held EXCEPT ![e] = (@ \ u) \cup {v}]
           /\ frames' \in {Registers({v}, {}), frames}
    BY <1>5 DEF StoreLocal
  <2>1. PICK u \in Maybe(held[e]) :
           /\ held' = [held EXCEPT ![e] = (@ \ u) \cup {v}]
           /\ frames' \in {Registers({v}, {}), frames}
    BY <2>a
  <2>2. Depth > 0 /\ e \in Live /\ e \in Env /\ v \in Live /\ v \in Val
    BY <1>5, <2>1, ScopeLive, TopKept DEF StoreLocal, OnLegacy, Frame
  <2>3. SameCalls(frames') /\ \A i \in 1 .. Depth : frames'[i].vals \subseteq Live
    BY <1>1, <2>1, <2>2, RegistersLive, SameFrames
  <2>4. /\ held' \in [Obj -> SUBSET Val]
        /\ \A o \in Live : held'[o] \subseteq Live
        /\ \A o \in Obj \ heap : held'[o] = held[o]
        /\ \A f \in Fun : held'[f] = held[f]
    BY <1>1, <2>1, <2>2, HeapAssumption DEF TypeOK
  <2>5. QED
    BY <1>1, <1>2, <1>5, <2>3, <2>4 DEF StoreLocal, TypeOK
<1>6. CASE LoadGlobal
  <2>1. PICK v \in globals : /\ frames' = Registers({}, {v})
                             /\ held' = Mirror(held, {v})
    BY <1>6 DEF LoadGlobal
  <2>2. v \in Val /\ v \in Live /\ Depth > 0
    BY <1>1, <1>6, <2>1 DEF TypeOK, LoadGlobal
  <2>3. SameCalls(frames') /\ \A i \in 1 .. Depth : frames'[i].vals \subseteq Live
    BY <2>1, <2>2, RegistersLive
  <2>4. /\ held' \in [Obj -> SUBSET Val]
        /\ \A o \in Live : held'[o] \subseteq Live
        /\ \A o \in Obj \ heap : held'[o] = held[o]
        /\ \A f \in Fun : held'[f] = held[f]
    <3>1. held \in [Obj -> SUBSET Val] /\ {v} \in SUBSET Val
      BY <2>2 DEF TypeOK
    <3>2. /\ Mirror(held, {v}) \in [Obj -> SUBSET Val]
          /\ \A o \in Obj : Mirror(held, {v})[o] \subseteq held[o] \cup {v}
          /\ \A o \in Obj \ heap : Mirror(held, {v})[o] = held[o]
          /\ \A f \in Fun : Mirror(held, {v})[f] = held[f]
      BY <2>2, <3>1, MirrorKept
    <3>3. QED
      BY <1>1, <2>1, <2>2, <3>2
  <2>5. QED
    BY <1>1, <1>2, <1>6, <2>3, <2>4 DEF LoadGlobal, TypeOK
<1>7. CASE StoreGlobal
  <2>1. PICK v \in Maybe(Top.vals), u \in Maybe(globals) :
           globals' = (globals \ u) \cup v
    BY <1>7 DEF StoreGlobal
  <2>2. v \subseteq Val /\ v \subseteq Live
    BY <1>7, <2>1, TopKept DEF StoreGlobal, Maybe, Frame
  <2>3. QED
    BY <1>1, <1>2, <1>7, <2>1, <2>2, SameFrames DEF StoreGlobal, objects, TypeOK
<1>8. CASE GetProp
  <2>a. PICK a \in Top.vals \cap Arr : \E v \in held[a] :
           frames' = Registers({}, {v}) /\ held' = Mirror(held, {v})
    BY <1>8 DEF GetProp
  <2>1. PICK v \in held[a] :
           frames' = Registers({}, {v}) /\ held' = Mirror(held, {v})
    BY <2>a
  <2>2. v \in Val /\ v \in Live /\ Depth > 0
    BY <1>1, <1>8, <2>1, TopKept DEF TypeOK, GetProp
  <2>3. SameCalls(frames') /\ \A i \in 1 .. Depth : frames'[i].vals \subseteq Live
    BY <2>1, <2>2, RegistersLive
  <2>4. /\ held' \in [Obj -> SUBSET Val]
        /\ \A o \in Live : held'[o] \subseteq Live
        /\ \A o \in Obj \ heap : held'[o] = held[o]
        /\ \A f \in Fun : held'[f] = held[f]
    <3>1. held \in [Obj -> SUBSET Val] /\ {v} \in SUBSET Val
      BY <2>2 DEF TypeOK
    <3>2. /\ Mirror(held, {v}) \in [Obj -> SUBSET Val]
          /\ \A o \in Obj : Mirror(held, {v})[o] \subseteq held[o] \cup {v}
          /\ \A o \in Obj \ heap : Mirror(held, {v})[o] = held[o]
          /\ \A f \in Fun : Mirror(held, {v})[f] = held[f]
      BY <2>2, <3>1, MirrorKept
    <3>3. QED
      BY <1>1, <2>1, <2>2, <3>2
  <2>5. QED
    BY <1>1, <1>2, <1>8, <2>3, <2>4 DEF GetProp, TypeOK
<1>9. CASE StoreProp
  <2>a. PICK a \in Top.vals \cap Arr, v \in Maybe(Top.vals) :
           \E u \in Maybe(held[a]) : held' = [held EXCEPT ![a] = (@ \ u) \cup v]
    BY <1>9 DEF StoreProp
  <2>1. PICK u \in Maybe(held[a]) : held' = [held EXCEPT ![a] = (@ \ u) \cup v]
    BY <2>a
  <2>2. v \subseteq Val /\ v \subseteq Live /\ a \in Live
    BY <1>9, <2>1, TopKept DEF StoreProp, Maybe, Frame
  <2>3. /\ held' \in [Obj -> SUBSET Val]
        /\ \A o \in Live : held'[o] \subseteq Live
        /\ \A o \in Obj \ heap : held'[o] = held[o]
        /\ \A f \in Fun : held'[f] = held[f]
    BY <1>1, <2>1, <2>2, HeapAssumption DEF TypeOK
  <2>4. QED
    BY <1>1, <1>2, <1>9, <2>3, SameFrames DEF StoreProp, TypeOK
<1>10. QED
  BY <1>3, <1>4, <1>5, <1>6, <1>7, <1>8, <1>9 DEF Move

LEMMA MakeStep == IInv /\ Make => IInv'
<1> SUFFICES ASSUME IInv, Make PROVE IInv'
  OBVIOUS
<1> USE DEF IInv
<1>1. /\ Live \subseteq heap /\ Live \subseteq Obj /\ globals \subseteq Live
      /\ \A o \in Live : held[o] \subseteq Live
  BY LiveKept DEF Kept, FrameIn
<1>2. CASE MakeArray
  <2>1. PICK a \in Arr \ heap, as \in SUBSET Top.vals :
           /\ heap' = heap \cup {a}
           /\ held' = Mirror([held EXCEPT ![a] = as], {a})
           /\ frames' = Registers({}, {a})
    BY <1>2 DEF MakeArray
  <2>2. Depth > 0 /\ {a} \in SUBSET (Obj \ heap) /\ {a} \in SUBSET Val
        /\ as \subseteq Live /\ as \subseteq Val /\ a \notin Fun
    BY <1>2, <2>1, TopKept, HeapAssumption DEF MakeArray, Frame
  <2>3. SameCalls(frames')
        /\ \A i \in 1 .. Depth : frames'[i].vals \subseteq Live \cup {a}
    BY <2>1, <2>2, RegistersKept
  <2>4. PICK h \in [Obj -> SUBSET Val] : h = [held EXCEPT ![a] = as]
    BY <2>2 DEF TypeOK
  <2>b. held' = Mirror(h, {a})
    BY <2>1, <2>4
  <2>5. /\ held' \in [Obj -> SUBSET Val]
        /\ \A o \in Obj : held'[o] \subseteq h[o] \cup {a}
        /\ \A o \in Obj \ heap : held'[o] = h[o]
        /\ \A f \in Fun : held'[f] = h[f]
    BY <2>b, <2>2, MirrorKept
  <2>5a. \A f \in Fun : held'[f] = {}
    BY <2>2, <2>4, <2>5 DEF Wrappers, TypeOK
  <2>6. \A o \in Live \cup {a} : held'[o] \subseteq Live \cup {a}
    BY <1>1, <2>2, <2>4, <2>5 DEF TypeOK
  <2>7. UNCHANGED <<link, body, globals>> /\ UNCHANGED caches
    BY <1>2 DEF MakeArray
  <2>8. \A o \in {a} : link'[o] = NoObj
    BY <2>2, <2>7 DEF Blank
  <2>9. \A o \in Obj \ heap' : held'[o] = {} /\ link'[o] = NoObj
    BY <2>1, <2>4, <2>5, <2>7 DEF Blank, TypeOK
  <2>10. PICK N : N = {a}
    OBVIOUS
  <2>11. /\ link' \in [Obj -> Env \cup {NoObj}] /\ body' \in [Fun -> Code \cup {NoCode}]
         /\ \A o \in heap : link'[o] = link[o]
         /\ \A f \in heap \cap Fun : body'[f] = body[f]
         /\ \A f \in N \cap Fun : body'[f] \in Code
         /\ globals' \subseteq Live \cup N /\ globals' \subseteq Val
    BY <1>1, <2>2, <2>7, <2>10 DEF TypeOK
  <2>12. /\ N \in SUBSET (Obj \ heap) /\ heap' = heap \cup N
         /\ \A o \in Live \cup N : held'[o] \subseteq Live \cup N
         /\ \A o \in N : link'[o] \in Live \cup {NoObj}
         /\ \A i \in 1 .. Depth : frames'[i].vals \subseteq Live \cup N
    BY <2>1, <2>2, <2>3, <2>6, <2>8, <2>10
  <2>13. QED
    BY <2>3, <2>5, <2>5a, <2>7, <2>9, <2>11, <2>12, StayStep
<1>3. CASE MakeClosure
  <2>1. PICK f \in Fun \ heap, c \in Code \ Named :
           /\ heap' = heap \cup {f}
           /\ held' = Mirror(held, {f})
           /\ link' = [link EXCEPT ![f] = Top.env]
           /\ body' = [body EXCEPT ![f] = c]
           /\ frames' = Registers({}, {f})
    BY <1>3 DEF MakeClosure
  <2>2. Depth > 0 /\ {f} \in SUBSET (Obj \ heap) /\ {f} \in SUBSET Val
        /\ Top.env \in Live /\ Top.env \in Env
    BY <1>3, <2>1, TopKept DEF MakeClosure
  <2>3. SameCalls(frames')
        /\ \A i \in 1 .. Depth : frames'[i].vals \subseteq Live \cup {f}
    BY <2>1, <2>2, RegistersKept
  <2>4. /\ held' \in [Obj -> SUBSET Val]
        /\ \A o \in Obj : held'[o] \subseteq held[o] \cup {f}
        /\ \A o \in Obj \ heap : held'[o] = held[o]
        /\ \A g \in Fun : held'[g] = held[g]
    <3>1. held \in [Obj -> SUBSET Val]
      BY DEF TypeOK
    <3>2. QED
      BY <2>1, <2>2, <3>1, MirrorKept
  <2>4a. \A g \in Fun : held'[g] = {}
    BY <2>4 DEF Wrappers
  <2>5. \A o \in Live \cup {f} : held'[o] \subseteq Live \cup {f}
    BY <1>1, <2>2, <2>4 DEF Blank, TypeOK
  <2>6. UNCHANGED globals /\ UNCHANGED caches
    BY <1>3 DEF MakeClosure
  <2>7. /\ link' \in [Obj -> Env \cup {NoObj}]
        /\ body' \in [Fun -> Code \cup {NoCode}]
        /\ \A o \in heap : link'[o] = link[o]
        /\ \A g \in heap \cap Fun : body'[g] = body[g]
        /\ \A g \in {f} \cap Fun : body'[g] \in Code
        /\ \A o \in {f} : link'[o] \in Live \cup {NoObj}
    BY <2>1, <2>2 DEF TypeOK
  <2>8. \A o \in Obj \ heap' : held'[o] = {} /\ link'[o] = NoObj
    BY <2>1, <2>4 DEF Blank, TypeOK
  <2>9. PICK N : N = {f}
    OBVIOUS
  <2>10. globals' \subseteq Live \cup N /\ globals' \subseteq Val
    BY <1>1, <2>6 DEF TypeOK
  <2>11. QED
    BY <2>1, <2>2, <2>3, <2>4, <2>4a, <2>5, <2>6, <2>7, <2>8, <2>9, <2>10, StayStep
<1>4. QED
  BY <1>2, <1>3 DEF Make

\* A step that leaves all but the flag undefined as it is.
LEMMA SameStateStep ==
  ASSUME IInv, undefined' \in BOOLEAN,
         UNCHANGED <<heap, held, link, body, globals, cache, site, fresh, struck, frames>>
  PROVE  IInv'
<1>1. TypeOK' /\ CodeOK' /\ Blank' /\ CallersAreParents' /\ Wrappers'
  BY DEF IInv, TypeOK, CodeOK, Blank, CallersAreParents, Wrappers, Depth
<1>2. PICK S : S = Live
  OBVIOUS
<1>3. Kept(S) /\ S \subseteq heap /\ S \in SUBSET Obj
  BY <1>2, LiveKept DEF IInv
<1>4. Kept(S)'
  BY <1>3 DEF Kept, Depth
<1>5. GraspExists'
  BY <1>3, <1>4, KeptExistsNext
<1>6. QED
  BY <1>1, <1>5 DEF IInv

-----------------------------------------------------------------------------
(* Calls and returns *)

\* A call puts the frame fr on top; N is what it allocates, X what it refers
\* to that nothing else may hold: the function a CALL site remembers.
LEMMA PushStep ==
  ASSUME IInv, NEW fs, SameCalls(fs),
         \A i \in 1 .. Depth : fs[i].vals \subseteq Live,
         Depth < MaxFrames,
         NEW N \in SUBSET (Obj \ heap), heap' = heap \cup N,
         NEW fr \in Frame, frames' = Append(fs, fr),
         held' \in [Obj -> SUBSET Val],
         link' \in [Obj -> Env \cup {NoObj}],
         body' \in [Fun -> Code \cup {NoCode}],
         cache' \in [Named -> Fun \cup {NoObj}],
         site' \in [Code -> [Named -> Fun \cup {NoObj, Gone}]],
         fresh' \in SUBSET Code, struck' \in SUBSET Code, undefined' \in BOOLEAN,
         UNCHANGED globals,
         \A o \in Obj \ N : held'[o] = held[o] /\ link'[o] = link[o],
         \A f \in heap \cap Fun : body'[f] = body[f],
         \A f \in N \cap Fun : body'[f] \in Code,
         \A o \in N : /\ held'[o] \subseteq Live \cup N
                      /\ link'[o] \in Live \cup {NoObj},
         \A n \in Named : cache'[n] \in Live \cup N \cup {NoObj},
         NEW X \in SUBSET (Fun \cap heap), \A f \in X : link[f] = NoObj,
         FrameIn(fr, Live \cup N \cup X),
         \A f \in Fun : held'[f] = {},
         \A n \in Named : cache'[n] # NoObj => link'[cache'[n]] = NoObj,
         \A c \in Code, n \in Named : site'[c][n] \in {NoObj, site[c][n]},
         fr.fill # {} => fr.fn \in Fun /\ link'[fr.fn] = NoObj,
         fr.kind = "legacy" => fr.code \in Code,
         fr.kind = "vm2" => Depth > 0 /\ link'[fr.env] = Top.env
  PROVE  IInv'
<1> USE DEF IInv
<1>1. /\ Depth \in Nat /\ Depth' = Depth + 1
      /\ \A i \in 1 .. Depth : frames'[i] = fs[i]
      /\ frames'[Depth + 1] = fr
      /\ \A i \in 1 .. Depth' : i \in 1 .. Depth \/ i = Depth + 1
  <2>1. Depth \in Nat /\ fs \in Seq(Frame) /\ Len(fs) = Depth
    BY DEF SameCalls, TypeOK, Depth
  <2>2. Depth' = Depth + 1
    BY <2>1 DEF Depth
  <2>3. \A i \in 1 .. Depth : frames'[i] = fs[i]
    BY <2>1
  <2>4. frames'[Depth + 1] = fr
    BY <2>1
  <2>5. QED
    BY <2>1, <2>2, <2>3, <2>4
<1>2. TypeOK'
  <2>1. frames' \in Seq(Frame)
    BY DEF SameCalls
  <2>2. Depth' <= MaxFrames
    BY <1>1, MutatorAssumption
  <2>3. heap' \in SUBSET Obj /\ globals' \in SUBSET Val
    BY DEF TypeOK
  <2>4. QED
    BY <2>1, <2>2, <2>3 DEF TypeOK
<1>3. CodeOK'
  <2>1. \A f \in heap' \cap Fun : body'[f] \in Code
    BY DEF CodeOK
  <2>2. ASSUME NEW i \in 1 .. Depth, frames'[i].kind = "legacy"
        PROVE  frames'[i].code \in Code
    <3>1. /\ frames'[i] = fs[i]
          /\ fs[i].kind = frames[i].kind /\ fs[i].code = frames[i].code
      BY <1>1 DEF SameCalls
    <3>2. QED
      BY <2>2, <3>1 DEF CodeOK
  <2>3. QED
    BY <1>1, <2>1, <2>2 DEF CodeOK
<1>4. Blank'
  BY DEF Blank
<1>5. Kept(Live) /\ Live \subseteq heap /\ Live \subseteq Obj
  BY LiveKept
<1>6. GraspExists'
  <2> PICK S : S = Live \cup N \cup X
    OBVIOUS
  <2>1. S \in SUBSET Obj /\ S \subseteq heap'
    BY <1>5
  <2>2. \A i \in 1 .. Depth' : FrameIn(frames'[i], S)
    <3>1. ASSUME NEW i \in 1 .. Depth PROVE FrameIn(frames'[i], S)
      <4>1. FrameIn(frames[i], Live) /\ frames'[i] = fs[i]
        BY <1>1, <1>5 DEF Kept
      <4>2. fs[i].env = frames[i].env /\ fs[i].fn = frames[i].fn
        BY DEF SameCalls
      <4>3. QED
        BY <4>1, <4>2 DEF FrameIn
    <3>2. FrameIn(frames'[Depth + 1], S)
      BY <1>1
    <3>3. QED
      BY <1>1, <3>1, <3>2
  <2>3. \A o \in S : held'[o] \subseteq S /\ link'[o] \in S \cup {NoObj}
    <3>1. ASSUME NEW o \in Live
          PROVE  held'[o] \subseteq S /\ link'[o] \in S \cup {NoObj}
      BY <1>5 DEF Kept
    <3>2. ASSUME NEW o \in X
          PROVE  held'[o] \subseteq S /\ link'[o] \in S \cup {NoObj}
      BY <3>2
    <3>3. QED
      BY <3>1, <3>2
  <2>4. globals' \subseteq S /\ \A n \in Named : cache'[n] \in S \cup {NoObj}
    BY <1>5 DEF Kept
  <2>5. Kept(S)'
    BY <2>2, <2>3, <2>4 DEF Kept
  <2>6. QED
    BY <2>1, <2>5, KeptExistsNext
<1>7. CallersAreParents'
  <2>1. \A i \in 1 .. Depth : link'[frames[i].env] = link[frames[i].env]
    BY <1>5 DEF Kept, FrameIn
  <2>2. \A i \in 1 .. Depth : frames'[i].env = frames[i].env
                            /\ frames'[i].kind = frames[i].kind
    BY <1>1 DEF SameCalls
  <2>3. ASSUME NEW i \in 1 .. Depth' - 1, frames'[i + 1].kind = "vm2"
        PROVE  link'[frames'[i + 1].env] = frames'[i].env
    <3>a. i \in Int /\ (i \in 1 .. Depth - 1 \/ i = Depth)
      BY <1>1
    <3>1. CASE i \in 1 .. Depth - 1
      <4>1. i \in 1 .. Depth /\ i + 1 \in 1 .. Depth
        BY <1>1, <3>1
      <4>2. frames[i + 1].kind = "vm2"
        BY <2>2, <2>3, <4>1
      <4>3. link[frames[i + 1].env] = frames[i].env
        BY <3>1, <4>2 DEF CallersAreParents
      <4>4. QED
        BY <2>1, <2>2, <4>1, <4>3
    <3>2. CASE i = Depth
      <4>1. i \in 1 .. Depth
        BY <1>1, <3>2
      <4>2. frames'[i + 1] = fr
        BY <1>1, <3>2
      <4>3. link'[fr.env] = Top.env
        BY <2>3, <4>2
      <4>4. QED
        BY <2>2, <3>2, <4>1, <4>2, <4>3 DEF Top
    <3>3. QED
      BY <3>a, <3>1, <3>2
  <2>4. QED
    BY <2>3 DEF CallersAreParents
<1>8. Wrappers'
  <2>1. ASSUME NEW c \in Code, NEW n \in Named, site'[c][n] \in Fun
        PROVE  site'[c][n] \in heap' /\ link'[site'[c][n]] = NoObj
    <3>1. site'[c][n] = site[c][n]
      BY <2>1, HeapAssumption
    <3>2. QED
      BY <2>1, <3>1 DEF Wrappers
  <2>2. ASSUME NEW i \in 1 .. Depth, frames'[i].fill # {}
        PROVE  frames'[i].fn \in Fun /\ link'[frames'[i].fn] = NoObj
    <3>1. frames'[i].fill = frames[i].fill /\ frames'[i].fn = frames[i].fn
      BY <1>1 DEF SameCalls
    <3>2. frames[i].fn \in Fun /\ link[frames[i].fn] = NoObj
      BY <2>2, <3>1 DEF Wrappers
    <3>3. frames[i].fn \in heap
      BY <1>5, <3>2, HeapAssumption DEF Kept, FrameIn
    <3>4. QED
      BY <3>1, <3>2, <3>3
  <2>3. QED
    BY <1>1, <2>1, <2>2 DEF Wrappers
<1>9. QED
  BY <1>2, <1>3, <1>4, <1>6, <1>7, <1>8

\* The step allocates N: an environment e with its parent, the functions w
\* and perhaps an array.
Allocates(N, e, parent, w) ==
  /\ heap' = heap \cup N /\ e \in N /\ w \subseteq N /\ N \cap Fun = w
  /\ held' \in [Obj -> SUBSET Val]
  /\ link' \in [Obj -> Env \cup {NoObj}]
  /\ \A o \in Obj \ N : held'[o] = held[o] /\ link'[o] = link[o]
  /\ \A o \in N : /\ held'[o] \subseteq Live \cup N
                  /\ link'[o] \in Live \cup {NoObj}
  /\ link'[e] = parent
  /\ \A f \in Fun : held'[f] = {}
  /\ \A f \in w : link'[f] = NoObj

\* What Placed allocates.
LEMMA PlacedFacts ==
  ASSUME IInv, NEW e \in Env \ heap, NEW parent \in Env \cup {NoObj},
         parent \in Live \cup {NoObj},
         NEW as \in SUBSET Val, as \subseteq Live,
         NEW w \in SUBSET (Fun \ heap),
         Placed(e, parent, as, w)
  PROVE  \E N \in SUBSET (Obj \ heap) : Allocates(N, e, parent, w)
<1> USE DEF IInv
<1>1. PICK a \in Maybe(Arr \ heap), rest \in SUBSET as :
        /\ heap' = heap \cup {e} \cup a \cup w
        /\ held' = [o \in Obj |-> CASE o = e -> (as \ rest) \cup a
                                    [] o \in a -> rest
                                    [] OTHER -> held[o]]
  BY DEF Placed
<1>2. link' = [link EXCEPT ![e] = parent]
  BY DEF Placed
<1>3. a \in SUBSET (Arr \ heap)
  BY DEF Maybe
<1>4. PICK N \in SUBSET (Obj \ heap) : N = {e} \cup a \cup w
  BY <1>3
<1>5. N \cap Fun = w
  BY <1>3, <1>4, HeapAssumption
<1>6. held' \in [Obj -> SUBSET Val] /\ link' \in [Obj -> Env \cup {NoObj}]
  BY <1>1, <1>2, <1>3 DEF TypeOK
<1>7. ASSUME NEW o \in Obj \ N
      PROVE  held'[o] = held[o] /\ link'[o] = link[o]
  BY <1>1, <1>2, <1>4 DEF TypeOK
<1>8. ASSUME NEW o \in N
      PROVE  held'[o] \subseteq Live \cup N /\ link'[o] \in Live \cup {NoObj}
  <2>1. held[o] = {} /\ link[o] = NoObj
    BY DEF Blank
  <2>2. held'[o] \subseteq Live \cup N
    BY <1>1, <1>4, <2>1
  <2>3. QED
    BY <1>2, <2>1, <2>2 DEF TypeOK
<1>9. link'[e] = parent
  BY <1>2 DEF TypeOK
<1>10. heap' = heap \cup N /\ e \in N /\ w \subseteq N
  BY <1>1, <1>4
<1>11. ASSUME NEW f \in Fun PROVE held'[f] = {}
  <2>1. f \in Obj /\ f # e /\ f \notin a /\ held[f] = {}
    BY <1>3, HeapAssumption DEF Wrappers
  <2>2. QED
    BY <1>1, <2>1
<1>12. \A f \in w : link'[f] = NoObj
  BY <1>2, HeapAssumption DEF Blank, TypeOK
<1>13. QED
  BY <1>5, <1>6, <1>7, <1>8, <1>9, <1>10, <1>11, <1>12 DEF Allocates

\* The step puts the frame fr of a function f with code c on top of caller.
Enters(fr, caller, e, f, c, fill) ==
  /\ frames' = Append(caller, fr)
  /\ fr.kind = "legacy" /\ fr.env = e /\ fr.vals = {}
  /\ fr.fn = f /\ fr.code = c /\ fr.fill = fill
  /\ site' \in [Code -> [Named -> Fun \cup {NoObj, Gone}]]
  /\ \A d \in Code, n \in Named : site'[d][n] \in {NoObj, site[d][n]}
  /\ fresh' \in SUBSET Code /\ struck' \in SUBSET Code /\ undefined' \in BOOLEAN

\* What Execute puts on top of caller.
LEMMA ExecuteFacts ==
  ASSUME IInv, NEW caller, NEW e \in Env, NEW f \in Fun, NEW c \in Code,
         NEW fill \in SUBSET Named,
         Execute(caller, e, f, c, fill)
  PROVE  \E fr \in Frame : Enters(fr, caller, e, f, c, fill)
<1>1. NewFrame("legacy", e, {}, f, c, fill) \in Frame
  BY DEF NewFrame, Frame
<1>2. frames' = Append(caller, NewFrame("legacy", e, {}, f, c, fill))
  BY DEF Execute
<1>3. [n \in Named |-> NoObj] \in [Named -> Fun \cup {NoObj, Gone}]
  OBVIOUS
<1>4. site' \in [Code -> [Named -> Fun \cup {NoObj, Gone}]] /\ fresh' \in SUBSET Code
      /\ struck' \in SUBSET Code /\ undefined' \in BOOLEAN
      /\ \A d \in Code, n \in Named : site'[d][n] \in {NoObj, site[d][n]}
  BY <1>3 DEF Execute, IInv, TypeOK
<1>5. QED
  BY <1>1, <1>2, <1>4 DEF NewFrame, Enters

\* A call that executes f in an environment below parent.
LEMMA ExecuteStep ==
  ASSUME IInv, NEW caller, SameCalls(caller),
         \A i \in 1 .. Depth : caller[i].vals \subseteq Live,
         Depth < MaxFrames,
         NEW e \in Env \ heap, NEW parent \in Env \cup {NoObj},
         parent \in Live \cup {NoObj},
         NEW as \in SUBSET Val, as \subseteq Live,
         NEW w \in SUBSET (Fun \ heap), Placed(e, parent, as, w),
         NEW f \in Fun, f \in Live \cup w \/ (f \in heap /\ link[f] = NoObj),
         NEW c \in Code, NEW fill \in SUBSET Named,
         Execute(caller, e, f, c, fill),
         body' \in [Fun -> Code \cup {NoCode}],
         \A g \in heap \cap Fun : body'[g] = body[g],
         \A g \in w : body'[g] \in Code,
         cache' \in [Named -> Fun \cup {NoObj}],
         \A n \in Named : cache'[n] = cache[n] \/ cache'[n] \in w,
         fill # {} => f \in w \/ \E n \in Named : f = cache[n],
         UNCHANGED globals
  PROVE  IInv'
<1>1. PICK fr \in Frame : Enters(fr, caller, e, f, c, fill)
  BY ExecuteFacts
<1>2. PICK N \in SUBSET (Obj \ heap) : Allocates(N, e, parent, w)
  BY PlacedFacts
<1>3. PICK X \in SUBSET (Fun \cap heap) :
        X = IF f \in Live \cup w THEN {} ELSE {f}
  OBVIOUS
<1>4. \A g \in X : link[g] = NoObj
  BY <1>3
<1>5. FrameIn(fr, Live \cup N \cup X)
  BY <1>1, <1>2, <1>3 DEF FrameIn, Enters, Allocates
<1>6. \A g \in N \cap Fun : body'[g] \in Code
  BY <1>2 DEF Allocates
<1>7. /\ Live \subseteq heap
      /\ \A n \in Named : cache[n] \in Live \cup {NoObj}
  BY LiveKept DEF IInv, Kept
<1>8. \A n \in Named : cache'[n] \in Live \cup N \cup {NoObj}
  BY <1>2, <1>7 DEF Allocates
<1>9. ASSUME NEW n \in Named, cache[n] # NoObj PROVE link'[cache[n]] = NoObj
  <2>1. cache[n] \in Obj \ N /\ link[cache[n]] = NoObj
    BY <1>7, <1>9 DEF Wrappers, IInv, TypeOK
  <2>2. QED
    BY <1>2, <2>1 DEF Allocates
<1>10. \A n \in Named : cache'[n] # NoObj => link'[cache'[n]] = NoObj
  BY <1>2, <1>9 DEF Allocates
<1>11. fr.fill # {} => fr.fn \in Fun /\ link'[fr.fn] = NoObj
  BY <1>1, <1>2, <1>9, HeapAssumption DEF Enters, Allocates
<1>12. (fr.kind = "legacy" => fr.code \in Code) /\ fr.kind # "vm2"
  BY <1>1 DEF Enters
<1>13. QED
  BY <1>1, <1>2, <1>4, <1>5, <1>6, <1>8, <1>10, <1>11, <1>12, PushStep
     DEF Enters, Allocates

LEMMA ReturnStep == IInv /\ Return => IInv'
<1> SUFFICES ASSUME IInv, Return PROVE IInv'
  OBVIOUS
<1> USE DEF IInv
<1>1. Depth > 1 /\ Depth \in Nat /\ Depth - 1 \in 1 .. Depth
      /\ frames \in Seq(Frame) /\ Depth = Len(frames)
  BY DEF Return, TypeOK, Depth
<1> DEFINE caller == frames[Depth - 1]
<1>2. PICK v \in Maybe(Top.vals) :
        /\ frames' = [SubSeq(frames, 1, Depth - 1) EXCEPT
                        ![Depth - 1].vals = @ \cup v]
        /\ held' = IF caller.kind = "legacy" THEN held
                   ELSE [held EXCEPT ![caller.env] = @ \cup v]
        /\ site' = IF caller.kind # "legacy" THEN site
                   ELSE [site EXCEPT ![caller.code] =
                           [n \in Named |-> IF n \in Top.fill THEN Top.fn
                                                              ELSE @[n]]]
  BY DEF Return
<1>3. UNCHANGED <<heap, link, body, globals, cache, fresh, struck, undefined>>
  BY DEF Return
<1>4. Kept(Live) /\ Live \subseteq heap /\ Live \subseteq Obj
  BY LiveKept
<1>5. v \in SUBSET Val /\ v \subseteq Live /\ Top \in Frame
  BY <1>1, TopKept DEF Maybe, Frame
<1>6. caller \in Frame /\ caller.env \in Live /\ caller.env \in Env
  <2>1. caller \in Frame /\ FrameIn(caller, Live)
    BY <1>1, <1>4 DEF Kept
  <2>2. QED
    BY <2>1 DEF Frame, FrameIn
<1>7. PICK fr \in Frame : fr = [caller EXCEPT !.vals = @ \cup v]
  BY <1>5, <1>6 DEF Frame
<1>8. PICK fs \in Seq(Frame) :
        /\ fs = SubSeq(frames, 1, Depth - 1) /\ Len(fs) = Depth - 1
        /\ \A i \in 1 .. Depth - 1 : fs[i] = frames[i]
  <2>1. Depth - 1 \in 0 .. Len(frames)
    BY <1>1
  <2>2. SubSeq(frames, 1, Depth - 1) \in Seq(Frame)
        /\ Len(SubSeq(frames, 1, Depth - 1)) = Depth - 1
        /\ \A i \in 1 .. Depth - 1 : SubSeq(frames, 1, Depth - 1)[i] = frames[i]
    BY <1>1, <2>1
  <2>3. QED
    BY <2>2
<1>9. frames' = [fs EXCEPT ![Depth - 1] = fr]
  BY <1>1, <1>2, <1>7, <1>8
<1>10. /\ frames' \in Seq(Frame) /\ Depth' = Depth - 1
       /\ \A i \in 1 .. Depth' :
            /\ i \in 1 .. Depth
            /\ frames'[i] = IF i = Depth - 1 THEN fr ELSE frames[i]
  <2>1. Depth - 1 \in 1 .. Len(fs)
    BY <1>1, <1>8
  <2>2. /\ frames' \in Seq(Frame) /\ Len(frames') = Depth - 1
        /\ \A i \in 1 .. Depth - 1 :
             frames'[i] = IF i = Depth - 1 THEN fr ELSE fs[i]
    <3>1. fs \in Seq(Frame) /\ fr \in Frame /\ Depth - 1 \in DOMAIN fs
      BY <1>8, <2>1
    <3>2. [fs EXCEPT ![Depth - 1] = fr] \in Seq(Frame)
          /\ Len([fs EXCEPT ![Depth - 1] = fr]) = Len(fs)
      BY <3>1
    <3>3. \A i \in 1 .. Depth - 1 :
             [fs EXCEPT ![Depth - 1] = fr][i] = IF i = Depth - 1 THEN fr ELSE fs[i]
      <4>1. DOMAIN fs = 1 .. Depth - 1
        BY <1>8
      <4>2. QED
        BY <3>1, <4>1
    <3>4. QED
      BY <1>8, <1>9, <3>2, <3>3
  <2>3. Depth' = Depth - 1
    BY <2>2 DEF Depth
  <2>4. QED
    BY <1>1, <1>8, <2>2, <2>3
<1> HIDE DEF caller
<1>11. fr.env = caller.env /\ fr.kind = caller.kind /\ fr.fn = caller.fn
       /\ fr.code = caller.code /\ fr.fill = caller.fill
       /\ fr.vals = caller.vals \cup v
  BY <1>6, <1>7 DEF Frame
<1>12. \A i \in 1 .. Depth' :
         /\ i \in 1 .. Depth /\ frames'[i].env = frames[i].env
         /\ frames'[i].kind = frames[i].kind
         /\ frames'[i].fn = frames[i].fn /\ frames'[i].code = frames[i].code
         /\ frames'[i].fill = frames[i].fill
         /\ frames'[i].vals \subseteq frames[i].vals \cup v
  BY <1>10, <1>11 DEF caller
<1>13. held' \in [Obj -> SUBSET Val]
       /\ \A o \in Obj : held'[o] \subseteq held[o] \cup v
  BY <1>2, <1>5, <1>6 DEF TypeOK
<1>14. \A o \in Obj \ heap : held'[o] = held[o]
  BY <1>2, <1>4, <1>6 DEF TypeOK
<1>15. TypeOK'
  <2>1. site' \in [Code -> [Named -> Fun \cup {NoObj, Gone}]]
    <3>1. CASE caller.kind # "legacy"
      BY <1>2, <3>1 DEF TypeOK
    <3>2. CASE caller.kind = "legacy"
      <4>1. caller.code \in Code
        BY <1>1, <3>2 DEF CodeOK, caller
      <4>2. [n \in Named |-> IF n \in Top.fill THEN Top.fn ELSE site[caller.code][n]]
              \in [Named -> Fun \cup {NoObj, Gone}]
        BY <1>5, <4>1 DEF TypeOK, Frame
      <4>3. QED
        BY <1>2, <3>2, <4>1, <4>2 DEF TypeOK
    <3>3. QED
      BY <3>1, <3>2
  <2>2. Depth' <= MaxFrames
    BY <1>1, <1>10, MutatorAssumption DEF TypeOK
  <2>3. QED
    BY <1>3, <1>10, <1>13, <2>1, <2>2 DEF TypeOK
<1>16. CodeOK'
  BY <1>3, <1>12 DEF CodeOK
<1>17. Blank'
  BY <1>3, <1>14 DEF Blank
<1>18. GraspExists'
  <2>1. PICK S : S = Live
    OBVIOUS
  <2>2. S \in SUBSET Obj /\ S \subseteq heap'
    BY <1>3, <1>4, <2>1
  <2>3. \A i \in 1 .. Depth' : FrameIn(frames'[i], S)
    BY <1>4, <1>5, <1>12, <2>1 DEF Kept, FrameIn
  <2>4. \A o \in S : held'[o] \subseteq S /\ link'[o] \in S \cup {NoObj}
    BY <1>3, <1>4, <1>5, <1>13, <2>1 DEF Kept
  <2>5. globals' \subseteq S /\ \A n \in Named : cache'[n] \in S \cup {NoObj}
    BY <1>3, <1>4, <2>1 DEF Kept
  <2>6. Kept(S)'
    BY <2>3, <2>4, <2>5 DEF Kept
  <2>7. QED
    BY <2>2, <2>6, KeptExistsNext
<1>19. CallersAreParents'
  <2>1. ASSUME NEW i \in 1 .. Depth' - 1
        PROVE  i \in 1 .. Depth' /\ i + 1 \in 1 .. Depth' /\ i \in 1 .. Depth - 1
    BY <1>1, <1>10
  <2>2. QED
    BY <1>3, <1>12, <2>1 DEF CallersAreParents
<1>20. Wrappers'
  <2>1. \A f \in Fun : held'[f] = {}
    BY <1>2, <1>6, HeapAssumption DEF Wrappers, TypeOK
  <2>2. Top.fill # {} => Top.fn \in Fun \cap heap /\ link[Top.fn] = NoObj
    <3>1. Depth \in 1 .. Depth
      BY <1>1
    <3>2. QED
      BY <1>4, <3>1, HeapAssumption DEF Wrappers, Top, Kept, FrameIn
  <2>3. ASSUME NEW c \in Code, NEW n \in Named, site'[c][n] \in Fun
        PROVE  site'[c][n] \in heap /\ link[site'[c][n]] = NoObj
    <3>1. site'[c][n] = site[c][n] \/ (n \in Top.fill /\ site'[c][n] = Top.fn)
      BY <1>2 DEF TypeOK
    <3>2. QED
      BY <2>2, <2>3, <3>1 DEF Wrappers
  <2>4. QED
    BY <1>3, <1>12, <2>1, <2>3 DEF Wrappers
<1>21. QED
  BY <1>15, <1>16, <1>17, <1>18, <1>19, <1>20

LEMMA CallStep == IInv /\ Call => IInv'
<1> SUFFICES ASSUME IInv, Call PROVE IInv'
  OBVIOUS
<1>1. /\ TypeOK /\ Live \subseteq heap /\ Live \subseteq Obj /\ globals \subseteq Live
      /\ \A o \in Live : held[o] \subseteq Live /\ link[o] \in Live \cup {NoObj}
      /\ \A i \in 1 .. Depth : frames[i].vals \subseteq Live
      /\ \A n \in Named : cache[n] \in Live \cup {NoObj}
      /\ SameCalls(frames) /\ Wrappers
  BY LiveKept, SameFrames DEF IInv, Kept, FrameIn
<1>2. \A o \in Obj : link[o] \in Env \cup {NoObj}
  BY <1>1 DEF TypeOK
<1>3. ASSUME Depth > 0, NEW as \in SUBSET Top.vals
      PROVE  as \in SUBSET Val /\ as \subseteq Live
  BY <1>3, TopKept DEF Frame
<1>4. CASE Run
  <2>1. PICK e \in Env \ heap :
          /\ Placed(e, NoObj, {}, {})
          /\ frames' = <<NewFrame("base", e, {}, NoObj, NoCode, {})>>
    BY <1>4 DEF Run
  <2>2. UNCHANGED <<body, globals>> /\ UNCHANGED caches /\ Depth = 0 /\ Depth < MaxFrames
    BY <1>4 DEF Run
  <2>3. PICK fr \in Frame : fr = NewFrame("base", e, {}, NoObj, NoCode, {})
    BY DEF NewFrame, Frame
  <2>4. frames' = Append(frames, fr)
    BY <1>1, <2>1, <2>2, <2>3 DEF SameCalls
  <2>a. PICK as \in SUBSET Val, w \in SUBSET (Fun \ heap), parent \in Env \cup {NoObj} :
          as = {} /\ w = {} /\ parent = NoObj
    OBVIOUS
  <2>b. as \subseteq Live /\ parent \in Live \cup {NoObj} /\ Placed(e, parent, as, w)
    BY <2>1, <2>a
  <2>5. PICK N \in SUBSET (Obj \ heap) : Allocates(N, e, parent, w)
    BY <2>b, PlacedFacts
  <2>6. FrameIn(fr, Live \cup N) /\ fr.kind = "base" /\ fr.fill = {}
    BY <2>3, <2>5 DEF FrameIn, NewFrame, Allocates
  <2>7. /\ body' \in [Fun -> Code \cup {NoCode}]
        /\ \A f \in heap \cap Fun : body'[f] = body[f]
        /\ cache' \in [Named -> Fun \cup {NoObj}]
        /\ site' \in [Code -> [Named -> Fun \cup {NoObj, Gone}]]
        /\ fresh' \in SUBSET Code /\ struck' \in SUBSET Code /\ undefined' \in BOOLEAN
        /\ \A n \in Named : cache'[n] \in Live \cup N \cup {NoObj}
        /\ \A c \in Code, n \in Named : site'[c][n] \in {NoObj, site[c][n]}
    BY <1>1, <2>2 DEF TypeOK, caches
  <2>7a. \A n \in Named : cache'[n] # NoObj => link'[cache'[n]] = NoObj
    <3>1. ASSUME NEW n \in Named, cache[n] # NoObj PROVE link'[cache[n]] = NoObj
      <4>1. cache[n] \in heap /\ cache[n] \in Obj /\ link[cache[n]] = NoObj
        BY <1>1, <3>1 DEF Wrappers
      <4>2. QED
        BY <2>5, <4>1 DEF Allocates
    <3>2. QED
      BY <2>2, <3>1 DEF caches
  <2>7b. PICK X \in SUBSET (Fun \cap heap) : X = {}
    OBVIOUS
  <2>7c. FrameIn(fr, Live \cup N \cup X)
    BY <2>6, <2>7b DEF FrameIn
  <2>8. QED
    BY <1>1, <2>2, <2>4, <2>5, <2>6, <2>7, <2>7a, <2>7b, <2>7c, <2>a, PushStep DEF Allocates
<1>5. CASE CallVM2
  <2>1. PICK e \in Env \ heap, as \in SUBSET Top.vals :
          /\ Placed(e, Top.env, as, {})
          /\ frames' = Append(frames, NewFrame("vm2", e, held'[e], NoObj, NoCode, {}))
    BY <1>5 DEF CallVM2
  <2>2. UNCHANGED <<body, globals>> /\ UNCHANGED caches /\ Depth > 0 /\ Depth < MaxFrames
    BY <1>5 DEF CallVM2, OnVM2
  <2>3. Top.env \in Live /\ Top.env \in Env
    BY <2>2, TopKept
  <2>a. PICK w \in SUBSET (Fun \ heap), parent \in Env \cup {NoObj} :
          w = {} /\ parent = Top.env
    BY <2>3
  <2>b. /\ as \in SUBSET Val /\ as \subseteq Live
        /\ parent \in Live \cup {NoObj} /\ Placed(e, parent, as, w)
    BY <1>3, <2>1, <2>2, <2>3, <2>a
  <2>4. PICK N \in SUBSET (Obj \ heap) : Allocates(N, e, parent, w)
    BY <2>b, PlacedFacts
  <2>5. PICK fr \in Frame : fr = NewFrame("vm2", e, held'[e], NoObj, NoCode, {})
    <3>1. held'[e] \in SUBSET Val
      BY <2>4 DEF Allocates
    <3>2. QED
      BY <3>1 DEF NewFrame, Frame
  <2>6. FrameIn(fr, Live \cup N) /\ fr.kind = "vm2" /\ fr.env = e /\ fr.fill = {}
    BY <2>4, <2>5 DEF FrameIn, NewFrame, Allocates
  <2>7. /\ body' \in [Fun -> Code \cup {NoCode}]
        /\ \A f \in heap \cap Fun : body'[f] = body[f]
        /\ cache' \in [Named -> Fun \cup {NoObj}]
        /\ site' \in [Code -> [Named -> Fun \cup {NoObj, Gone}]]
        /\ fresh' \in SUBSET Code /\ struck' \in SUBSET Code /\ undefined' \in BOOLEAN
        /\ \A n \in Named : cache'[n] \in Live \cup N \cup {NoObj}
        /\ \A c \in Code, n \in Named : site'[c][n] \in {NoObj, site[c][n]}
    BY <1>1, <2>2 DEF TypeOK, caches
  <2>7a. \A n \in Named : cache'[n] # NoObj => link'[cache'[n]] = NoObj
    <3>1. ASSUME NEW n \in Named, cache[n] # NoObj PROVE link'[cache[n]] = NoObj
      <4>1. cache[n] \in heap /\ cache[n] \in Obj /\ link[cache[n]] = NoObj
        BY <1>1, <3>1 DEF Wrappers
      <4>2. QED
        BY <2>4, <4>1 DEF Allocates
    <3>2. QED
      BY <2>2, <3>1 DEF caches
  <2>7b. PICK X \in SUBSET (Fun \cap heap) : X = {}
    OBVIOUS
  <2>7c. FrameIn(fr, Live \cup N \cup X)
    BY <2>6, <2>7b DEF FrameIn
  <2>8. frames' = Append(frames, fr)
    BY <2>1, <2>5
  <2>9. QED
    BY <1>1, <2>2, <2>4, <2>6, <2>7, <2>7a, <2>7b, <2>7c, <2>8, <2>a, PushStep DEF Allocates
<1>6. CASE CallClosure
  <2>1. Depth > 0 /\ Depth < MaxFrames /\ UNCHANGED <<body, globals, cache>>
    BY <1>6 DEF CallClosure, Active
  <2>2. PICK f \in Top.vals \cap Fun, e \in Env \ heap, as \in SUBSET Top.vals :
          \E popped \in IF OnLegacy THEN {{}, {f} \ as} ELSE {{}} :
            /\ Placed(e, link[f], as, {})
            /\ Execute(Registers(popped, {}), e, f, body[f], {})
    BY <1>6 DEF CallClosure
  <2>3. PICK popped : /\ Placed(e, link[f], as, {})
                      /\ Execute(Registers(popped, {}), e, f, body[f], {})
    BY <2>2
  <2>4. f \in Live /\ as \in SUBSET Val /\ as \subseteq Live
    BY <1>3, <2>1, TopKept
  <2>5. body[f] \in Code /\ link[f] \in Env \cup {NoObj} /\ link[f] \in Live \cup {NoObj}
    BY <1>1, <1>2, <2>4 DEF IInv, CodeOK
  <2>6. SameCalls(Registers(popped, {}))
        /\ \A i \in 1 .. Depth : Registers(popped, {})[i].vals \subseteq Live
    BY <2>1, RegistersLive
  <2>7. /\ body' \in [Fun -> Code \cup {NoCode}]
        /\ \A g \in heap \cap Fun : body'[g] = body[g]
        /\ cache' \in [Named -> Fun \cup {NoObj}]
    BY <1>1, <2>1 DEF TypeOK
  <2>8. QED
    <3>1. PICK w \in SUBSET (Fun \ heap) : w = {}
      OBVIOUS
    <3>2. PICK caller : caller = Registers(popped, {})
      OBVIOUS
    <3>3. f \in Live \cup w /\ (\A g \in w : body'[g] \in Code)
          /\ {} \in SUBSET Named /\ f \in Fun
          /\ Placed(e, link[f], as, w) /\ Execute(caller, e, f, body[f], {})
      BY <2>3, <2>4, <3>1, <3>2
    <3>4. UNCHANGED globals /\ \A n \in Named : cache'[n] = cache[n]
      BY <2>1
    <3>5. QED
      BY <2>1, <2>4, <2>5, <2>6, <2>7, <3>2, <3>3, <3>4, ExecuteStep
<1>7. CASE CallCached
  <2>1. Depth > 0 /\ Depth < MaxFrames /\ UNCHANGED <<body, globals, cache>>
        /\ Top.kind = "legacy"
    BY <1>7 DEF CallCached, OnLegacy, Active
  <2>2. PICK n \in Named, e \in Env \ heap, as \in SUBSET Top.vals :
          /\ site[Top.code][n] \in Fun
          /\ Placed(e, link[site[Top.code][n]], as, {})
          /\ Execute(frames, e, site[Top.code][n], body[site[Top.code][n]], {})
    BY <1>7 DEF CallCached
  <2>3. Top.code \in Code
    BY <2>1, TopKept DEF IInv, CodeOK, Top
  <2>4. PICK f \in Fun : f = site[Top.code][n]
    BY <2>2
  <2>5. f \in heap /\ link[f] = NoObj /\ body[f] \in Code
    BY <1>1, <2>3, <2>4 DEF IInv, CodeOK, Wrappers
  <2>6. as \in SUBSET Val /\ as \subseteq Live
    BY <1>3, <2>1
  <2>7. /\ body' \in [Fun -> Code \cup {NoCode}]
        /\ \A g \in heap \cap Fun : body'[g] = body[g]
        /\ cache' \in [Named -> Fun \cup {NoObj}]
        /\ \A m \in Named : cache'[m] = cache[m]
    BY <1>1, <2>1 DEF TypeOK
  <2>8. PICK parent \in Env \cup {NoObj}, w \in SUBSET (Fun \ heap), fill \in SUBSET Named :
          parent = NoObj /\ w = {} /\ fill = {}
    OBVIOUS
  <2>9. /\ parent \in Live \cup {NoObj} /\ \A g \in w : body'[g] \in Code
        /\ Placed(e, parent, as, w) /\ Execute(frames, e, f, body[f], fill)
    BY <2>2, <2>4, <2>5, <2>8
  <2>10. QED
    BY <1>1, <2>1, <2>5, <2>6, <2>7, <2>8, <2>9, ExecuteStep
<1>7a. CASE CallDeleted
  <2>1. UNCHANGED <<heap, held, link, body, globals, cache, site, fresh, struck, frames>>
        /\ undefined' = TRUE
    BY <1>7a DEF CallDeleted, objects
  <2>2. QED
    BY <2>1, SameStateStep
<1>8. CASE CallKnown
  <2>1. Depth > 0 /\ Depth < MaxFrames /\ UNCHANGED <<body, globals, cache>>
    BY <1>8 DEF CallKnown, OnLegacy, Active
  <2>2. PICK n \in Named, e \in Env \ heap, as \in SUBSET Top.vals :
          /\ cache[n] # NoObj
          /\ Placed(e, NoObj, as, {})
          /\ Execute(frames, e, cache[n], n, {n})
    BY <1>8 DEF CallKnown
  <2>3. PICK f \in Fun : f = cache[n] /\ f \in Live
    BY <1>1, <2>2 DEF TypeOK
  <2>4. n \in Code /\ {n} \in SUBSET Named
    BY MutatorAssumption
  <2>5. as \in SUBSET Val /\ as \subseteq Live
    BY <1>3, <2>1
  <2>6. /\ body' \in [Fun -> Code \cup {NoCode}]
        /\ \A g \in heap \cap Fun : body'[g] = body[g]
        /\ cache' \in [Named -> Fun \cup {NoObj}]
        /\ \A m \in Named : cache'[m] = cache[m]
    BY <1>1, <2>1 DEF TypeOK
  <2>7. PICK parent \in Env \cup {NoObj}, w \in SUBSET (Fun \ heap), fill \in SUBSET Named :
          parent = NoObj /\ w = {} /\ fill = {n}
    BY <2>4
  <2>8. /\ parent \in Live \cup {NoObj} /\ (\A g \in w : body'[g] \in Code)
        /\ Placed(e, parent, as, w) /\ Execute(frames, e, f, n, fill)
        /\ \E m \in Named : f = cache[m]
    BY <2>2, <2>3, <2>7
  <2>9. QED
    BY <1>1, <2>1, <2>3, <2>4, <2>5, <2>6, <2>8, ExecuteStep
<1>9. CASE CallUnknown
  <2>1. Depth > 0 /\ Depth < MaxFrames /\ UNCHANGED globals
    BY <1>9 DEF CallUnknown, OnLegacy, Active
  <2>2. PICK n \in Named, f \in Fun \ heap, e \in Env \ heap, as \in SUBSET Top.vals :
          /\ Placed(e, NoObj, as, {f})
          /\ body' = [body EXCEPT ![f] = n]
          /\ cache' = [cache EXCEPT ![n] = f]
          /\ Execute(frames, e, f, n, {n})
    BY <1>9 DEF CallUnknown
  <2>3. n \in Code /\ {n} \in SUBSET Named /\ {f} \in SUBSET (Fun \ heap) /\ f \in Live \cup {f}
    BY MutatorAssumption
  <2>4. as \in SUBSET Val /\ as \subseteq Live
    BY <1>3, <2>1
  <2>5. /\ body' \in [Fun -> Code \cup {NoCode}]
        /\ \A g \in heap \cap Fun : body'[g] = body[g]
        /\ \A g \in {f} : body'[g] \in Code
        /\ cache' \in [Named -> Fun \cup {NoObj}]
        /\ \A m \in Named : cache'[m] = cache[m] \/ cache'[m] \in {f}
    BY <1>1, <2>2, <2>3 DEF TypeOK
  <2>6. PICK parent \in Env \cup {NoObj}, w \in SUBSET (Fun \ heap), fill \in SUBSET Named :
          parent = NoObj /\ w = {f} /\ fill = {n}
    BY <2>3
  <2>7. /\ parent \in Live \cup {NoObj} /\ f \in w /\ (\A g \in w : body'[g] \in Code)
        /\ Placed(e, parent, as, w) /\ Execute(frames, e, f, n, fill)
        /\ \A m \in Named : cache'[m] = cache[m] \/ cache'[m] \in w
    BY <2>2, <2>5, <2>6
  <2>8. QED
    BY <1>1, <2>1, <2>3, <2>4, <2>5, <2>7, ExecuteStep
<1>10. CASE Return
  BY <1>10, ReturnStep
<1>11. CASE Finish
  <2>1. frames' = <<>> /\ Depth' = 0
    BY <1>11 DEF Finish, Depth
  <2>2. UNCHANGED <<heap, held, link, body, globals, cache, site, fresh, struck, undefined>>
    BY <1>11 DEF Finish, objects, caches
  <2>3. TypeOK' /\ CodeOK' /\ Blank' /\ CallersAreParents' /\ Wrappers'
    BY <2>1, <2>2, MutatorAssumption
       DEF IInv, TypeOK, CodeOK, Blank, CallersAreParents, Wrappers
  <2>4. PICK S : S = Live
    OBVIOUS
  <2>5. S \in SUBSET Obj /\ S \subseteq heap'
    BY <1>1, <2>2, <2>4
  <2>6. Kept(S)'
    BY <1>1, <2>1, <2>2, <2>4 DEF Kept
  <2>7. GraspExists'
    BY <2>5, <2>6, KeptExistsNext
  <2>8. QED
    BY <2>3, <2>7 DEF IInv
<1>12. QED
  BY <1>4, <1>5, <1>6, <1>7, <1>7a, <1>8, <1>9, <1>10, <1>11 DEF Call

-----------------------------------------------------------------------------
(* Collections *)

\* A non-empty set of numbers has a least element.
LEMMA LeastNumber ==
  ASSUME NEW T \in SUBSET Nat, T # {}
  PROVE  \E d \in T : \A e \in T : d <= e
<1> DEFINE less == {p \in Nat \X Nat : p[1] < p[2]}
<1>1. IsWellFoundedOn(OpToRel(<, Nat), Nat)
  BY NatLessThanWellFounded
<1>2. OpToRel(<, Nat) = less
  BY DEF OpToRel
<1>3. IsWellFoundedOn(less, Nat)
  BY <1>1, <1>2
<1>4. \E d \in T : \A e \in T : <<e, d>> \notin less
  <2> HIDE DEF less
  <2>1. QED
    BY <1>3, WFMin
<1>5. PICK d \in T : \A e \in T : <<e, d>> \notin less
  BY <1>4
<1>6. ASSUME NEW e \in T PROVE d <= e
  <2>1. d \in Nat /\ e \in Nat /\ <<e, d>> \in Nat \X Nat
    OBVIOUS
  <2>2. ~(<<e, d>>[1] < <<e, d>>[2])
    BY <1>5, <2>1
  <2>3. QED
    BY <2>1, <2>2
<1>7. QED
  BY <1>6

\* The environments of all frames are reached from the roots, although only
\* one per run is a root: the others are its ancestors.
LEMMA FramesReached ==
  ASSUME IInv, NEW invalidate \in BOOLEAN
  PROVE  \A i \in 1 .. Depth : frames[i].env \in Reach(Roots(invalidate), refs)
<1> DEFINE S == Reach(Roots(invalidate), refs)
           unreached == {d \in Nat : /\ Depth - d \in 1 .. Depth
                                     /\ frames[Depth - d].env \notin S}
<1>1. Depth \in Nat /\ \A i \in 1 .. Depth : frames[i] \in Frame
  BY DepthType DEF IInv
<1>2. Roots(invalidate) \subseteq S
  <2>1. Roots(invalidate) \subseteq Grasp
    BY DEF Grasp, Roots
  <2>2. Grasp \subseteq Obj
    <3>1. Kept(Live) /\ Live \subseteq Obj
      BY LiveKept DEF IInv
    <3>2. QED
      BY <3>1, KeptGrasp
  <2>3. QED
    BY <2>1, <2>2, ReachRoots
<1>3. Closed(S, refs)
  BY RefsType, ReachClosed DEF IInv
<1>4. S \subseteq Obj
  BY ReachType
<1> HIDE DEF S
<1>5. SUFFICES unreached = {}
  <2>1. ASSUME NEW i \in 1 .. Depth, frames[i].env \notin S PROVE FALSE
    <3>1. Depth - i \in Nat /\ Depth - (Depth - i) = i
      BY <1>1
    <3>2. Depth - i \in unreached
      BY <2>1, <3>1
    <3>3. QED
      BY <1>5, <3>2
  <2>2. QED
    BY <2>1 DEF S
<1>6. SUFFICES ASSUME unreached # {} PROVE FALSE
  OBVIOUS
<1>7. PICK d \in unreached : \A e \in unreached : d <= e
  BY <1>6, LeastNumber
<1>8. PICK i \in 1 .. Depth : i = Depth - d /\ frames[i].env \notin S
  BY <1>7
<1>9. CASE EnvIsRoot(i)
  BY <1>2, <1>8, <1>9 DEF Roots, EnvRoots
<1>10. CASE ~EnvIsRoot(i)
  <2>1. i + 1 \in 1 .. Depth /\ i \in 1 .. Depth - 1 /\ frames[i + 1].kind = "vm2"
    BY <1>1, <1>10 DEF EnvIsRoot
  <2>2. frames[i + 1].env \in S
    <3>1. SUFFICES ASSUME frames[i + 1].env \notin S PROVE FALSE
      OBVIOUS
    <3>2. Depth - (d - 1) = i + 1 /\ d - 1 \in Nat
      BY <1>1, <1>7, <1>8, <2>1
    <3>3. d - 1 \in unreached
      BY <2>1, <3>1, <3>2
    <3>4. QED
      BY <1>7, <3>2, <3>3
  <2>3. link[frames[i + 1].env] = frames[i].env
    BY <2>1 DEF IInv, CallersAreParents
  <2>4. frames[i].env \in refs[frames[i + 1].env]
    <3>1. frames[i].env # NoObj /\ frames[i + 1].env \in Obj
      BY <1>1, <2>1, HeapAssumption DEF Frame
    <3>2. QED
      BY <2>3, <3>1 DEF refs
  <2>5. QED
    BY <1>3, <1>8, <2>2, <2>4 DEF Closed
<1>11. QED
  BY <1>9, <1>10

LEMMA CollectedStep ==
  ASSUME IInv, NEW invalidate \in BOOLEAN, NEW timed \in BOOLEAN,
         Collected(invalidate, timed), UNCHANGED <<globals, frames>>,
         cache' = IF invalidate THEN [n \in Named |-> NoObj] ELSE cache,
         fresh' \in SUBSET Code, struck' \in SUBSET Code, UNCHANGED undefined
  PROVE  IInv'
<1> USE DEF IInv
<1>1. PICK S : S = Reach(Roots(invalidate), refs)
  OBVIOUS
<1>2. Roots(invalidate) \subseteq Grasp /\ Grasp \subseteq Obj
  <2>1. Kept(Live) /\ Live \subseteq Obj
    BY LiveKept
  <2>2. QED
    BY <2>1, KeptGrasp DEF Grasp, Roots
<1>3. Roots(invalidate) \subseteq S /\ Closed(S, refs) /\ S \in SUBSET Obj
  BY <1>1, <1>2, ReachRoots, ReachClosed, RefsType, ReachType
<1>4. S \subseteq heap
  BY <1>1, <1>2, ReachMonotone DEF GraspExists
<1>5. /\ heap' \subseteq heap /\ S \subseteq heap'
      /\ held' = [o \in Obj |-> IF o \in heap' THEN held[o] ELSE {}]
      /\ link' = [o \in Obj |-> IF o \in heap' THEN link[o] ELSE NoObj]
      /\ body' = [f \in Fun |-> IF f \in heap' THEN body[f] ELSE NoCode]
      /\ site' = [c \in Code |-> [n \in Named |->
                   IF site[c][n] \in Fun \ heap' THEN Gone ELSE site[c][n]]]
  BY <1>1, <1>4 DEF Collected, Survivors, Deleted
<1>6. Depth' = Depth /\ Depth \in Nat
  BY DepthType DEF Depth
<1>7. TypeOK'
  <2>1. cache' \in [Named -> Fun \cup {NoObj}]
    BY DEF TypeOK
  <2>2. heap' \in SUBSET Obj /\ held' \in [Obj -> SUBSET Val]
        /\ link' \in [Obj -> Env \cup {NoObj}]
        /\ body' \in [Fun -> Code \cup {NoCode}]
    BY <1>5 DEF TypeOK
  <2>3. site' \in [Code -> [Named -> Fun \cup {NoObj, Gone}]]
    BY <1>5 DEF TypeOK
  <2>4. QED
    BY <1>6, <2>1, <2>2, <2>3 DEF TypeOK
<1>8. CodeOK' /\ Blank'
  BY <1>5, <1>6 DEF CodeOK, Blank
<1>9. \A i \in 1 .. Depth : frames[i].env \in S
  BY <1>1, FramesReached
<1>10. GraspExists'
  <2>1. ASSUME NEW i \in 1 .. Depth PROVE FrameIn(frames[i], S)
    <3>1. frames[i].vals \subseteq Roots(invalidate)
      BY DEF Roots, ValueRoots
    <3>2. frames[i].fn # NoObj => frames[i].fn \in Roots(invalidate)
      BY DEF Roots, InvokeRoots
    <3>3. QED
      BY <1>3, <1>9, <3>1, <3>2 DEF FrameIn
  <2>2. globals \subseteq S
    BY <1>3 DEF Roots
  <2>3. ASSUME NEW n \in Named PROVE cache'[n] \in S \cup {NoObj}
    <3>1. CASE invalidate
      BY <3>1
    <3>2. CASE ~invalidate
      BY <1>3, <3>2 DEF Roots, CacheRoots
    <3>3. QED
      BY <3>1, <3>2
  <2>4. ASSUME NEW o \in S PROVE held'[o] \subseteq S /\ link'[o] \in S \cup {NoObj}
    <3>1. o \in heap' /\ o \in Obj
      BY <1>3, <1>5
    <3>2. held'[o] = held[o] /\ link'[o] = link[o]
      BY <1>5, <3>1
    <3>3. refs[o] \subseteq S
      BY <1>3 DEF Closed
    <3>4. QED
      BY <3>1, <3>2, <3>3 DEF refs
  <2>5. Kept(S)'
    BY <1>6, <2>1, <2>2, <2>3, <2>4 DEF Kept
  <2>6. QED
    BY <1>3, <1>5, <2>5, KeptExistsNext
<1>11. CallersAreParents'
  <2>1. ASSUME NEW i \in 1 .. Depth PROVE link'[frames[i].env] = link[frames[i].env]
    BY <1>3, <1>5, <1>9
  <2>2. ASSUME NEW i \in 1 .. Depth - 1 PROVE i + 1 \in 1 .. Depth
    BY <1>6
  <2>3. QED
    BY <1>6, <2>1, <2>2 DEF CallersAreParents
<1>12. Wrappers'
  <2>1. \A o \in Obj : held[o] = {} => held'[o] = {}
    BY <1>5
  <2>2. \A o \in Obj : link[o] = NoObj => link'[o] = NoObj
    BY <1>5
  <2>3. ASSUME NEW n \in Named, cache'[n] # NoObj PROVE link'[cache'[n]] = NoObj
    <3>1. cache'[n] = cache[n] /\ cache[n] # NoObj
      BY <2>3
    <3>2. cache[n] \in Obj /\ link[cache[n]] = NoObj
      BY <3>1 DEF Wrappers, TypeOK
    <3>3. QED
      BY <2>2, <3>1, <3>2
  <2>4. ASSUME NEW c \in Code, NEW n \in Named, site'[c][n] \in Fun
        PROVE  site'[c][n] \in heap' /\ link'[site'[c][n]] = NoObj
    <3>1. site'[c][n] = site[c][n] /\ site[c][n] \in heap'
      BY <1>5, <2>4, MutatorAssumption
    <3>2. QED
      BY <2>2, <2>4, <3>1 DEF Wrappers
  <2>5. \A i \in 1 .. Depth : frames[i].fill # {} =>
           frames[i].fn \in Fun /\ link'[frames[i].fn] = NoObj
    BY <2>2 DEF Wrappers
  <2>6. QED
    BY <1>6, <2>1, <2>3, <2>4, <2>5 DEF Wrappers
<1>13. QED
  BY <1>7, <1>8, <1>10, <1>11, <1>12

LEMMA CollectStep == IInv /\ Collect => IInv'
<1> SUFFICES ASSUME IInv, Collect PROVE IInv'
  OBVIOUS
<1>1. CASE PeriodicGc
  BY <1>1, CollectedStep DEF PeriodicGc, IInv, TypeOK
<1>2. CASE ExplicitCollect
  <2>1. RunningCode \subseteq Code
    BY DEF IInv, CodeOK, RunningCode
  <2>2. PICK timed \in BOOLEAN : Collected(TRUE, timed)
    BY <1>2 DEF ExplicitCollect
  <2>3. struck' \in SUBSET Code
    BY <1>2, <2>1 DEF ExplicitCollect, IInv, TypeOK
  <2>4. QED
    BY <1>2, <2>2, <2>3, CollectedStep DEF ExplicitCollect
<1>3. QED
  BY <1>1, <1>2 DEF Collect

LEMMA StutterStep == IInv /\ UNCHANGED vars => IInv'
<1> SUFFICES ASSUME IInv, UNCHANGED vars PROVE IInv'
  OBVIOUS
<1>1. UNCHANGED <<heap, held, link, body, globals, cache, site, fresh, struck, frames>>
      /\ undefined' \in BOOLEAN
  BY DEF vars, objects, caches, IInv, TypeOK
<1>2. QED
  BY <1>1, SameStateStep

LEMMA Invariance == Spec => []IInv
<1>1. IInv /\ [Next]_vars => IInv'
  BY MoveStep, MakeStep, CallStep, CollectStep, StutterStep DEF Next
<1>2. QED
  BY <1>1, InitIInv, PTL DEF Spec

-----------------------------------------------------------------------------
(* Call sites *)

\* A code that has started since the caches were last dropped remembers only
\* wrappers of function_cache, and so does a call under way, unless they were
\* dropped under it.
CallerKnown(i) ==
  \A n \in frames[i].fill :
    /\ i > 1 /\ frames[i - 1].kind = "legacy"
    /\ frames[i - 1].code \notin struck =>
         frames[i].fn = cache[n] /\ cache[n] # NoObj

SiteInv ==
  /\ \A c \in fresh \ struck, n \in Named : site[c][n] \in {NoObj, cache[n]}
  /\ \A i \in 1 .. Depth :
       frames[i].kind = "legacy" => frames[i].code \in fresh \cup struck
  /\ \A i \in 1 .. Depth : CallerKnown(i)
  /\ undefined => Depth > 0 /\ Top.code \in struck

SameSites(fr, g) ==
  /\ fr.kind = g.kind /\ fr.code = g.code
  /\ fr.fn = g.fn /\ fr.fill = g.fill

LEMMA RegistersSites ==
  ASSUME TypeOK, Depth > 0, NEW gone, NEW vs \in SUBSET Val
  PROVE  /\ Registers(gone, vs) \in Seq(Frame)
         /\ Len(Registers(gone, vs)) = Depth
         /\ \A i \in 1 .. Depth : SameSites(Registers(gone, vs)[i], frames[i])
<1> DEFINE fr == [Top EXCEPT !.vals = (@ \ gone) \cup vs]
<1>1. Depth \in Nat /\ frames \in Seq(Frame) /\ Depth = Len(frames)
  BY DEF TypeOK, Depth
<1>2. Top \in Frame
  BY <1>1 DEF Top
<1>3. fr \in Frame /\ fr.kind = Top.kind /\ fr.fn = Top.fn
      /\ fr.code = Top.code /\ fr.fill = Top.fill
  BY <1>2 DEF Frame
<1>4. Registers(gone, vs) = [frames EXCEPT ![Depth] = fr]
  BY <1>1 DEF Registers, Top
<1> HIDE DEF fr
<1>5. QED
  BY <1>1, <1>3, <1>4 DEF SameSites, Top

\* The caller of frame i is frame i - 1.
LEMMA CallerIndex ==
  ASSUME TypeOK, NEW i \in 1 .. Depth
  PROVE  i > 1 => i - 1 \in 1 .. Depth
BY DepthType

\* Frames that keep what SameSites names keep what is known of their callers.
LEMMA QuietCaller ==
  ASSUME TypeOK, NEW i \in 1 .. Depth, CallerKnown(i),
         SameSites(frames'[i], frames[i]),
         i > 1 => SameSites(frames'[i - 1], frames[i - 1]),
         \A n \in Named : cache[n] # NoObj => cache'[n] = cache[n],
         i > 1 /\ frames[i - 1].kind = "legacy" /\ frames[i - 1].code \in struck
           => frames[i - 1].code \in struck'
  PROVE  CallerKnown(i)'
<1>1. frames[i] \in Frame
  BY DepthType
<1>2. frames[i].fill \subseteq Named
  BY <1>1 DEF Frame
<1>3. QED
  BY <1>2 DEF CallerKnown, SameSites

\* A step that leaves the caches alone and starts no call.
LEMMA QuietStep ==
  ASSUME TypeOK, SiteInv, UNCHANGED caches,
         Depth' = Depth,
         \A i \in 1 .. Depth : SameSites(frames'[i], frames[i])
  PROVE  SiteInv'
<1>1. UNCHANGED <<cache, site, fresh, struck, undefined>>
  BY DEF caches
<1>2. ASSUME NEW i \in 1 .. Depth PROVE CallerKnown(i)'
  <2>1. i > 1 => SameSites(frames'[i - 1], frames[i - 1])
    BY CallerIndex
  <2>2. QED
    BY <1>1, <2>1, QuietCaller DEF SiteInv
<1>3. \A i \in 1 .. Depth' :
        frames'[i].kind = "legacy" => frames'[i].code \in fresh' \cup struck'
  BY <1>1 DEF SiteInv, SameSites
<1>4. undefined' => Depth' > 0 /\ Top'.code \in struck'
  <2>1. Depth > 0 => SameSites(frames'[Depth], frames[Depth])
    BY DepthType
  <2>2. QED
    BY <1>1, <2>1 DEF SiteInv, Top, SameSites
<1>5. QED
  BY <1>1, <1>2, <1>3, <1>4 DEF SiteInv

LEMMA QuietSites ==
  ASSUME IInv, SiteInv, Move \/ Make
  PROVE  SiteInv'
<1>1. UNCHANGED caches
  BY DEF Move, Make, Forget, LoadLocal, StoreLocal, LoadGlobal, StoreGlobal,
         GetProp, StoreProp, MakeArray, MakeClosure
<1>2. \/ UNCHANGED frames
      \/ Depth > 0 /\ \E gone, vs : vs \in SUBSET Val /\ frames' = Registers(gone, vs)
  <2>1. CASE Forget
    BY <2>1 DEF Forget
  <2>2. CASE LoadLocal
    <3>1. PICK e \in Scope : \E v \in held[e] : frames' = Registers({}, {v})
      BY <2>2 DEF LoadLocal
    <3>2. e \in Obj
      BY ReachType, <3>1 DEF Scope
    <3>3. held[e] \subseteq Val
      BY <3>2 DEF IInv, TypeOK
    <3>4. QED
      BY <2>2, <3>1, <3>3 DEF LoadLocal, OnLegacy
  <2>3. CASE StoreLocal
    BY <2>3 DEF StoreLocal, OnLegacy
  <2>4. CASE LoadGlobal
    BY <2>4 DEF LoadGlobal, IInv, TypeOK
  <2>5. CASE StoreGlobal
    BY <2>5 DEF StoreGlobal
  <2>6. CASE GetProp
    <3>1. PICK a \in Top.vals \cap Arr : \E v \in held[a] : frames' = Registers({}, {v})
      BY <2>6 DEF GetProp
    <3>2. held[a] \subseteq Val
      BY <3>1 DEF IInv, TypeOK
    <3>3. QED
      BY <2>6, <3>1, <3>2 DEF GetProp
  <2>7. CASE StoreProp
    BY <2>7 DEF StoreProp
  <2>8. CASE MakeArray
    BY <2>8 DEF MakeArray
  <2>9. CASE MakeClosure
    BY <2>9 DEF MakeClosure
  <2>11. QED
    BY <2>1, <2>2, <2>3, <2>4, <2>5, <2>6, <2>7, <2>8, <2>9 DEF Move, Make
<1>3. CASE UNCHANGED frames
  BY <1>1, <1>3, QuietStep DEF Depth, SameSites, IInv
<1>4. CASE Depth > 0 /\ \E gone, vs : vs \in SUBSET Val /\ frames' = Registers(gone, vs)
  <2>1. PICK gone, vs : vs \in SUBSET Val /\ frames' = Registers(gone, vs)
    BY <1>4
  <2>2. Len(frames') = Depth /\ \A i \in 1 .. Depth : SameSites(frames'[i], frames[i])
    BY <1>4, <2>1, RegistersSites DEF IInv
  <2>3. Depth' = Depth
    BY <2>2 DEF Depth
  <2>4. QED
    BY <1>1, <2>2, <2>3, QuietStep DEF IInv
<1>5. QED
  BY <1>2, <1>3, <1>4

\* Entering f, whose code is c, from caller.  The wrapper of each name that
\* had one stays.
LEMMA ExecuteSites ==
  ASSUME IInv, SiteInv, Active, NEW caller \in Seq(Frame), Len(caller) = Depth,
         \A i \in 1 .. Depth : SameSites(caller[i], frames[i]),
         NEW e, NEW f, NEW c \in Code, NEW fill \in SUBSET Named,
         Execute(caller, e, f, c, fill),
         \A n \in Named : cache[n] # NoObj => cache'[n] = cache[n],
         \A n \in fill : Top.kind = "legacy" /\ f = cache'[n] /\ f # NoObj
  PROVE  SiteInv'
<1> USE DEF IInv
<1>1. Depth \in Nat /\ frames' = Append(caller, NewFrame("legacy", e, {}, f, c, fill))
  BY DepthType DEF Execute
<1>2. /\ Depth' = Depth + 1
      /\ \A i \in 1 .. Depth : frames'[i] = caller[i]
      /\ frames'[Depth + 1] = NewFrame("legacy", e, {}, f, c, fill)
  BY <1>1 DEF Depth
<1>3. /\ fresh' = fresh \cup {c} /\ undefined' = undefined
      /\ struck' = IF c \in fresh \cup RunningCode THEN struck ELSE struck \ {c}
  BY DEF Execute
<1>4. ASSUME NEW d \in fresh' \ struck', NEW n \in Named
      PROVE  site'[d][n] \in {NoObj, cache'[n]}
  <2>1. d \in Code /\ site \in [Code -> [Named -> Fun \cup {NoObj, Gone}]]
    BY <1>3 DEF TypeOK
  <2>2. CASE d \in fresh
    <3>1. site'[d] = site[d] /\ d \notin struck
      BY <1>3, <2>1, <2>2 DEF Execute
    <3>2. QED
      BY <2>2, <3>1 DEF SiteInv
  <2>3. CASE d \notin fresh
    <3>1. site' = [site EXCEPT ![c] = [m \in Named |-> NoObj]] /\ d = c
      BY <1>3, <2>3 DEF Execute
    <3>2. QED
      BY <2>1, <3>1
  <2>4. QED
    BY <2>2, <2>3
<1>5. ASSUME NEW i \in 1 .. Depth, frames[i].kind = "legacy"
      PROVE  /\ frames[i].code \in RunningCode
             /\ frames[i].code \in struck => frames[i].code \in struck' \cup {c}
             /\ frames[i].code \in struck => frames[i].code \in struck'
  BY <1>3, <1>5 DEF RunningCode
<1>6. ASSUME NEW i \in 1 .. Depth PROVE CallerKnown(i)'
  <2>1. i > 1 => i - 1 \in 1 .. Depth
    BY CallerIndex
  <2>2. SameSites(frames'[i], frames[i])
        /\ (i > 1 => SameSites(frames'[i - 1], frames[i - 1]))
    BY <1>2, <2>1
  <2>3. QED
    BY <1>5, <2>1, <2>2, QuietCaller DEF SiteInv
<1>7. ASSUME NEW i \in 1 .. Depth', i = Depth + 1 PROVE CallerKnown(i)'
  <2>1. Depth + 1 > 1 /\ (Depth + 1) - 1 = Depth /\ Depth \in 1 .. Depth
    BY <1>1 DEF Active
  <2>2. SameSites(frames'[Depth], frames[Depth])
    BY <1>2, <2>1
  <2>3. frames'[i].fill = fill /\ frames'[i].fn = f
    BY <1>2, <1>7 DEF NewFrame
  <2>4. i > 1 /\ frames'[i - 1].kind = Top.kind
    BY <1>7, <2>1, <2>2 DEF SameSites, Top
  <2>5. QED
    BY <2>3, <2>4 DEF CallerKnown
<1>8. ASSUME NEW i \in 1 .. Depth', frames'[i].kind = "legacy"
      PROVE  frames'[i].code \in fresh' \cup struck'
  <2>1. CASE i \in 1 .. Depth
    <3>1. SameSites(frames'[i], frames[i])
      BY <1>2, <2>1
    <3>2. QED
      BY <1>3, <1>5, <1>8, <2>1, <3>1 DEF SameSites, SiteInv
  <2>2. CASE i = Depth + 1
    BY <1>2, <1>3, <2>2 DEF NewFrame
  <2>3. QED
    BY <1>1, <1>2, <2>1, <2>2
<1>9. \A i \in 1 .. Depth' : i \in 1 .. Depth \/ i = Depth + 1
  BY <1>1, <1>2
<1>10. ~undefined'
  BY <1>3 DEF Active
<1>11. ASSUME NEW i \in 1 .. Depth' PROVE CallerKnown(i)'
  <2>1. CASE i \in 1 .. Depth
    BY <1>6, <2>1
  <2>2. CASE i = Depth + 1
    BY <1>7, <2>2
  <2>3. QED
    BY <1>9, <2>1, <2>2
<1>12. QED
  BY <1>4, <1>8, <1>10, <1>11 DEF SiteInv

LEMMA ReturnSites == ASSUME IInv, SiteInv, Return PROVE SiteInv'
<1> USE DEF IInv
<1> DEFINE caller == frames[Depth - 1]
<1>1. Depth > 1 /\ Depth \in Nat /\ Depth \in 1 .. Depth /\ Depth - 1 \in 1 .. Depth
      /\ frames \in Seq(Frame) /\ Depth = Len(frames)
  BY DEF Return, TypeOK, Depth
<1>2. PICK v :
        /\ frames' = [SubSeq(frames, 1, Depth - 1) EXCEPT
                        ![Depth - 1].vals = @ \cup v]
        /\ site' = IF caller.kind # "legacy" THEN site
                   ELSE [site EXCEPT ![caller.code] =
                           [n \in Named |-> IF n \in Top.fill THEN Top.fn
                                                              ELSE @[n]]]
  BY DEF Return
<1>3. UNCHANGED <<cache, fresh, struck, undefined>> /\ ~undefined
  BY DEF Return, Active
<1>4. caller \in Frame /\ Top \in Frame /\ CallerKnown(Depth)
  BY <1>1 DEF SiteInv, Top
<1>5. Depth' = Depth - 1
      /\ \A i \in 1 .. Depth - 1 : SameSites(frames'[i], frames[i])
  <2>1. PICK k \in Nat : k = Depth - 1 /\ k \in 1 .. Len(frames)
    BY <1>1
  <2>2. PICK fs \in Seq(Frame) :
          fs = SubSeq(frames, 1, k) /\ Len(fs) = k
          /\ \A i \in 1 .. k : fs[i] = frames[i]
    <3>1. SubSeq(frames, 1, k) \in Seq(Frame) /\ Len(SubSeq(frames, 1, k)) = k
          /\ \A i \in 1 .. k : SubSeq(frames, 1, k)[i] = frames[i]
      BY <1>1, <2>1
    <3>2. QED
      BY <3>1
  <2>3. frames' = [fs EXCEPT ![k].vals = @ \cup v]
    BY <1>2, <2>1, <2>2
  <2>4. Len(frames') = k /\ DOMAIN fs = 1 .. k
    BY <2>2, <2>3
  <2>5. fs[k] \in Frame
    BY <2>1, <2>2
  <2>6. \A i \in 1 .. k : SameSites(frames'[i], fs[i])
    BY <2>3, <2>4, <2>5 DEF SameSites, Frame
  <2>7. QED
    BY <2>1, <2>2, <2>4, <2>6 DEF Depth
<1> HIDE DEF caller
<1>6. ASSUME NEW i \in 1 .. Depth' PROVE CallerKnown(i)'
  <2>1. i \in 1 .. Depth - 1 /\ i \in 1 .. Depth
    BY <1>1, <1>5
  <2>2. i > 1 => i - 1 \in 1 .. Depth - 1
    BY <1>1, <2>1
  <2>3. SameSites(frames'[i], frames[i])
        /\ (i > 1 => SameSites(frames'[i - 1], frames[i - 1]))
    BY <1>5, <2>1, <2>2
  <2>4. QED
    BY <1>3, <2>1, <2>3, QuietCaller DEF SiteInv
<1>7. ASSUME NEW i \in 1 .. Depth', frames'[i].kind = "legacy"
      PROVE  frames'[i].code \in fresh' \cup struck'
  <2>1. i \in 1 .. Depth - 1 /\ i \in 1 .. Depth
    BY <1>1, <1>5
  <2>2. QED
    BY <1>3, <1>5, <1>7, <2>1 DEF SameSites, SiteInv
<1>8. ASSUME NEW c \in fresh' \ struck', NEW n \in Named
      PROVE  site'[c][n] \in {NoObj, cache'[n]}
  <2>1. c \in fresh \ struck /\ c \in Code /\ site[c][n] \in {NoObj, cache[n]}
        /\ site \in [Code -> [Named -> Fun \cup {NoObj, Gone}]]
    BY <1>3 DEF SiteInv, TypeOK
  <2>2. CASE site'[c][n] = site[c][n]
    BY <1>3, <2>1, <2>2
  <2>3. CASE site'[c][n] # site[c][n]
    <3>1. n \in Top.fill /\ site'[c][n] = Top.fn /\ c = caller.code
      BY <1>2, <2>1, <2>3
    <3>2. site'[c][n] = cache[n]
      BY <1>4, <2>1, <3>1 DEF CallerKnown, Top, caller
    <3>3. QED
      BY <1>3, <3>2
  <2>4. QED
    BY <2>2, <2>3
<1>9. QED
  BY <1>3, <1>6, <1>7, <1>8 DEF SiteInv

\* __gc_collect strikes all codes that are running and leaves none fresh.
LEMMA CollectSites == ASSUME IInv, SiteInv, Collect PROVE SiteInv'
<1> USE DEF IInv
<1>1. Active /\ UNCHANGED <<frames, undefined>> /\ Depth' = Depth
  BY DEF Collect, PeriodicGc, ExplicitCollect, OnLegacy, Depth
<1>2. CASE PeriodicGc
  <2>1. UNCHANGED <<cache, fresh, struck>> /\ Collected(FALSE, TRUE)
    BY <1>2 DEF PeriodicGc
  <2>2. /\ Reach(Roots(FALSE), refs) \cap heap \subseteq heap'
        /\ site' = [c \in Code |-> [n \in Named |->
                      IF site[c][n] \in Fun \ heap' THEN Gone ELSE site[c][n]]]
    BY <2>1 DEF Collected, Deleted, Survivors
  <2>3. ASSUME NEW n \in Named PROVE cache[n] \in heap' \cup {NoObj}
    <3>1. CacheRoots \subseteq Roots(FALSE) /\ Roots(FALSE) \subseteq Grasp
      BY DEF Roots, Grasp
    <3>2. Grasp \subseteq Obj
      <4>1. Kept(Live) /\ Live \subseteq Obj
        BY LiveKept
      <4>2. QED
        BY <4>1, KeptGrasp
    <3>3. CacheRoots \subseteq Reach(Roots(FALSE), refs)
      BY <3>1, <3>2, ReachRoots
    <3>4. cache[n] \in CacheRoots \cup {NoObj}
      BY DEF CacheRoots
    <3>5. cache[n] \in heap \cup {NoObj}
      BY LiveKept DEF Kept
    <3>6. QED
      BY <2>2, <3>3, <3>4, <3>5
  <2>4. ASSUME NEW c \in fresh \ struck, NEW n \in Named
        PROVE  site'[c][n] \in {NoObj, cache[n]}
    <3>1. c \in Code /\ site[c][n] \in {NoObj, cache[n]}
      BY DEF SiteInv, TypeOK
    <3>2. site[c][n] \notin Fun \ heap'
      BY <2>3, <3>1, HeapAssumption
    <3>3. QED
      BY <2>2, <3>1, <3>2
  <2>5. QED
    BY <1>1, <2>1, <2>4 DEF SiteInv, CallerKnown, Top
<1>3. CASE ExplicitCollect
  <2>1. fresh' = {} /\ struck' = struck \cup RunningCode /\ ~undefined'
    BY <1>1, <1>3 DEF ExplicitCollect, Active
  <2>2. ASSUME NEW i \in 1 .. Depth, frames[i].kind = "legacy"
        PROVE  frames[i].code \in struck'
    BY <2>1, <2>2 DEF RunningCode
  <2>3. ASSUME NEW i \in 1 .. Depth PROVE CallerKnown(i)'
    <3>1. i > 1 => i - 1 \in 1 .. Depth
      BY CallerIndex
    <3>2. QED
      BY <1>1, <2>2, <3>1 DEF SiteInv, CallerKnown
  <2>4. QED
    BY <1>1, <2>1, <2>2, <2>3 DEF SiteInv
<1>4. QED
  BY <1>2, <1>3 DEF Collect

LEMMA CallSites == ASSUME IInv, SiteInv, Call PROVE SiteInv'
<1>1. /\ TypeOK /\ frames \in Seq(Frame) /\ Len(frames) = Depth /\ Depth \in Nat
      /\ \A i \in 1 .. Depth : SameSites(frames[i], frames[i])
  BY DEF IInv, TypeOK, Depth, SameSites
<1>2. CASE Run
  <2>1. PICK e : frames' = <<NewFrame("base", e, {}, NoObj, NoCode, {})>>
    BY <1>2 DEF Run
  <2>2. UNCHANGED caches /\ Depth = 0
    BY <1>2 DEF Run
  <2>3. Depth' = 1 /\ frames'[1] = NewFrame("base", e, {}, NoObj, NoCode, {})
    BY <2>1 DEF Depth
  <2>4. QED
    BY <2>2, <2>3 DEF SiteInv, CallerKnown, NewFrame, caches
<1>3. CASE CallVM2
  <2>1. PICK e : frames' = Append(frames, NewFrame("vm2", e, held'[e], NoObj, NoCode, {}))
    BY <1>3 DEF CallVM2
  <2>2. UNCHANGED <<cache, site, fresh, struck, undefined>> /\ ~undefined
    BY <1>3 DEF CallVM2, caches, OnVM2, Active
  <2>3. /\ Depth' = Depth + 1
        /\ \A i \in 1 .. Depth : frames'[i] = frames[i]
        /\ frames'[Depth + 1] = NewFrame("vm2", e, held'[e], NoObj, NoCode, {})
    BY <1>1, <2>1 DEF Depth
  <2>4. \A i \in 1 .. Depth' : i \in 1 .. Depth \/ i = Depth + 1
    BY <1>1, <2>3
  <2>5. ASSUME NEW i \in 1 .. Depth' PROVE CallerKnown(i)'
    <3>1. CASE i \in 1 .. Depth
      <4>1. i > 1 => i - 1 \in 1 .. Depth
        BY <1>1, <3>1, CallerIndex
      <4>2. SameSites(frames'[i], frames[i])
            /\ (i > 1 => SameSites(frames'[i - 1], frames[i - 1]))
        BY <1>1, <2>3, <3>1, <4>1
      <4>3. QED
        BY <1>1, <2>2, <3>1, <4>2, QuietCaller DEF SiteInv
    <3>2. CASE i = Depth + 1
      BY <2>3, <3>2 DEF CallerKnown, NewFrame
    <3>3. QED
      BY <2>4, <3>1, <3>2
  <2>6. ASSUME NEW i \in 1 .. Depth', frames'[i].kind = "legacy"
        PROVE  frames'[i].code \in fresh' \cup struck'
    BY <2>2, <2>3, <2>4, <2>6 DEF SiteInv, NewFrame
  <2>7. QED
    BY <2>2, <2>5, <2>6 DEF SiteInv
<1>4. CASE CallClosure
  <2>0. PICK f \in Top.vals \cap Fun, e \in Env :
          \E popped : Execute(Registers(popped, {}), e, f, body[f], {})
    BY <1>4 DEF CallClosure
  <2>1. PICK popped : Execute(Registers(popped, {}), e, f, body[f], {})
    BY <2>0
  <2>2. Depth > 0 /\ Active /\ UNCHANGED cache
    BY <1>4 DEF CallClosure
  <2>3. f \in Live /\ Live \subseteq heap
    BY <2>0, <2>2, TopKept, LiveKept DEF IInv
  <2>4. body[f] \in Code
    BY <2>1, <2>3 DEF IInv, CodeOK
  <2>5. PICK caller : caller = Registers(popped, {})
    OBVIOUS
  <2>6. caller \in Seq(Frame) /\ Len(caller) = Depth
        /\ \A i \in 1 .. Depth : SameSites(caller[i], frames[i])
    BY <2>2, <2>5, RegistersSites DEF IInv
  <2>7. PICK fill \in SUBSET Named : fill = {}
    OBVIOUS
  <2>8. Execute(caller, e, f, body[f], fill)
    BY <2>1, <2>5, <2>7
  <2>9. QED
    BY <2>2, <2>4, <2>6, <2>7, <2>8, ExecuteSites
<1>5. CASE CallCached
  <2>1. PICK n \in Named, e \in Env, as \in SUBSET Top.vals :
          /\ site[Top.code][n] \in Fun
          /\ Execute(frames, e, site[Top.code][n], body[site[Top.code][n]], {})
    BY <1>5 DEF CallCached
  <2>2. Depth > 0 /\ Active /\ UNCHANGED cache /\ Top.kind = "legacy"
    BY <1>5 DEF CallCached, OnLegacy
  <2>3. Top.code \in Code
    BY <2>2, TopKept DEF IInv, CodeOK, Top
  <2>4. PICK f \in Fun : f = site[Top.code][n]
    BY <2>1
  <2>5. body[f] \in Code
    BY <2>3, <2>4 DEF IInv, CodeOK, Wrappers
  <2>6. PICK fill \in SUBSET Named : fill = {}
    OBVIOUS
  <2>7. Execute(frames, e, f, body[f], fill)
    BY <2>1, <2>4, <2>6
  <2>8. QED
    BY <1>1, <2>2, <2>5, <2>6, <2>7, ExecuteSites
<1>5a. CASE CallDeleted
  <2>1. UNCHANGED <<cache, site, fresh, struck, frames>> /\ undefined' = TRUE
        /\ Depth > 0 /\ Depth' = Depth /\ Top.kind = "legacy"
    BY <1>5a DEF CallDeleted, OnLegacy, Depth
  <2>2. PICK n \in Named : site[Top.code][n] = Gone
    BY <1>5a DEF CallDeleted
  <2>3. Depth \in 1 .. Depth
    BY <1>1, <2>1
  <2>4. Top.code \in fresh \cup struck /\ Top.code \in Code
    BY <2>1, <2>3 DEF SiteInv, Top, IInv, CodeOK
  <2>5. cache[n] # Gone /\ NoObj # Gone
    BY <1>1, MutatorAssumption DEF TypeOK
  <2>6. Top.code \in struck
    BY <2>2, <2>4, <2>5 DEF SiteInv
  <2>7. QED
    BY <2>1, <2>6 DEF SiteInv, CallerKnown, Top
<1>6. CASE CallKnown
  <2>1. PICK n \in Named, e \in Env :
          cache[n] # NoObj /\ Execute(frames, e, cache[n], n, {n})
    BY <1>6 DEF CallKnown
  <2>2. UNCHANGED cache /\ n \in Code /\ Active /\ Top.kind = "legacy"
    BY <1>6, MutatorAssumption DEF CallKnown, OnLegacy
  <2>3. PICK fill \in SUBSET Named : fill = {n}
    OBVIOUS
  <2>4. PICK f : f = cache[n]
    OBVIOUS
  <2>5. Execute(frames, e, f, n, fill)
    BY <2>1, <2>3, <2>4
  <2>6. \A m \in fill : f = cache'[m] /\ f # NoObj
    BY <2>1, <2>2, <2>3, <2>4
  <2>7. QED
    BY <1>1, <2>2, <2>5, <2>6, ExecuteSites
<1>7. CASE CallUnknown
  <2>1. PICK n \in Named, f \in Fun \ heap, e \in Env \ heap :
          /\ cache[n] = NoObj
          /\ cache' = [cache EXCEPT ![n] = f]
          /\ Execute(frames, e, f, n, {n})
    BY <1>7 DEF CallUnknown
  <2>2. n \in Code /\ f # NoObj /\ Active /\ Top.kind = "legacy"
    BY <1>7, <2>1, MutatorAssumption, HeapAssumption DEF CallUnknown, OnLegacy
  <2>3. PICK fill \in SUBSET Named : fill = {n}
    OBVIOUS
  <2>4. Execute(frames, e, f, n, fill)
    BY <2>1, <2>3
  <2>5. (\A m \in Named : cache[m] # NoObj => cache'[m] = cache[m])
        /\ \A m \in fill : f = cache'[m] /\ f # NoObj
    BY <2>1, <2>2, <2>3 DEF IInv, TypeOK
  <2>6. QED
    BY <1>1, <2>2, <2>4, <2>5, ExecuteSites
<1>8. CASE Return
  BY <1>8, ReturnSites
<1>9. CASE Finish
  BY <1>9 DEF Finish, SiteInv, Depth, caches
<1>10. QED
  BY <1>2, <1>3, <1>4, <1>5, <1>5a, <1>6, <1>7, <1>8, <1>9 DEF Call

LEMMA SiteInvariance == Spec => []SiteInv
<1>1. Init => SiteInv
  BY DEF Init, SiteInv, Depth
<1>2. IInv /\ SiteInv /\ [Next]_vars => SiteInv'
  <2> SUFFICES ASSUME IInv, SiteInv, [Next]_vars PROVE SiteInv'
    OBVIOUS
  <2>1. CASE UNCHANGED vars
    <3>1. UNCHANGED caches /\ UNCHANGED frames
      BY <2>1 DEF vars, caches
    <3>2. QED
      BY <3>1, QuietStep DEF Depth, SameSites, IInv
  <2>2. CASE Next
    BY <2>2, QuietSites, CallSites, CollectSites DEF Next
  <2>3. QED
    BY <2>1, <2>2
<1>3. QED
  BY <1>1, <1>2, Invariance, PTL DEF Spec

-----------------------------------------------------------------------------
(* Theorems *)

\* Frames, slots, globals and caches hold objects of the heap, or none, whatever a
\* program does.
THEOREM MutatorTypeCorrect == Spec => []TypeOK
<1>1. IInv => TypeOK
  BY DEF IInv
<1>2. QED
  BY <1>1, Invariance, PTL

\* A CALL site of running code remembers the wrapper in function_cache unless
\* __gc_collect has dropped the caches under that code, and only code that it
\* has dropped them under ever calls a deleted function.
THEOREM NoStaleCallSiteHolds == Spec => []NoStaleCallSite
<1>1. IInv /\ SiteInv => NoStaleCallSite
  <2> SUFFICES ASSUME IInv, SiteInv PROVE NoStaleCallSite
    OBVIOUS
  <2>1. RunningCode \ struck \subseteq fresh \ struck
    BY DEF RunningCode, SiteInv
  <2>2. QED
    BY <2>1 DEF NoStaleCallSite, SiteInv
<1>2. QED
  BY <1>1, Invariance, SiteInvariance, PTL

\* Whatever a program does, through whatever mixture of the two machines,
\* and whenever it collects, no object that a frame, a global, the function
\* cache or a CALL site leads to is deleted; the CALL sites of code under
\* which __gc_collect has dropped the caches are excepted.
THEOREM NoDanglingHolds == Spec => []NoDangling
<1>1. IInv /\ SiteInv => NoDangling
  <2> SUFFICES ASSUME IInv, SiteInv PROVE NoDangling
    OBVIOUS
  <2>1. RunningCode \ struck \subseteq fresh \ struck
    BY DEF RunningCode, SiteInv
  <2>2. SiteTargets \subseteq CacheRoots
    BY <2>1 DEF SiteTargets, CacheRoots, SiteInv
  <2>3. Touchable = Grasp
    BY <2>2 DEF Touchable, Grasp, Roots
  <2>4. Grasp \subseteq Live /\ Live \subseteq heap
    <3>1. Kept(Live) /\ Live \subseteq heap
      BY LiveKept DEF IInv
    <3>2. QED
      BY <3>1, KeptGrasp
  <2>5. QED
    BY <2>3, <2>4 DEF NoDangling, Live
<1>2. QED
  BY <1>1, Invariance, SiteInvariance, PTL

\* In a run of the register machine, each frame's environment is the parent
\* of the next one's: the chain that one environment root keeps alive.
THEOREM CallersAreParentsHolds == Spec => []CallersAreParents
<1>1. IInv => CallersAreParents
  BY DEF IInv
<1>2. QED
  BY <1>1, Invariance, PTL
=============================================================================
