------------------------------ MODULE Mutator ------------------------------
(***************************************************************************)
(* The interpreter as the user of the managed heap: which objects the two  *)
(* virtual machines hold, where they hold them, and which of those places  *)
(* a collection looks at.                                                  *)
(*                                                                         *)
(* frames is the C++ call nesting.  A frame is                             *)
(*   "base"    the first frame of a UdonInterpreter2::run,                 *)
(*   "vm2"     a further frame of the same run (a CALL of a named          *)
(*             function), or                                               *)
(*   "legacy"  an activation of execute_function (a closure, or what a     *)
(*             closure calls).                                             *)
(* A run registers ONE environment root, env_root, which holds its         *)
(* topmost frame's environment, and one value root, the value_stack that   *)
(* all its frames share; an execute_function registers its own             *)
(* environment, its eval_stack and, during a CALL, the popped arguments;   *)
(* invoke_function registers the function it runs.                         *)
(*                                                                         *)
(* Registers and slots that hold no object are abstracted away, so a       *)
(* frame's registers and an environment's slots are sets of objects.       *)
(* A collection is one step here; Collector shows what it does inside.     *)
(***************************************************************************)
EXTENDS HeapGraph, Naturals, Sequences

CONSTANTS
  Code,       \* legacy code vectors: one per function and lambda
  Named,      \* those that have a name a CALL can use
  NoCode,     \* the code of a frame that runs on the register machine
  Gone,       \* at a CALL site: the object it remembers has been deleted
  MaxFrames   \* bound on the depth of calls

ASSUME MutatorAssumption ==
  /\ Named \subseteq Code
  /\ NoCode \notin Code
  /\ Gone \notin Obj \cup {NoObj}
  /\ MaxFrames \in Nat

VARIABLES
  heap,     \* objects allocated and not deleted
  held,     \* held[o]: slots of an environment, entries of an array
  link,     \* link[o]: parent of an environment, captured_env of a function
  body,     \* body[f]: code_ptr of a function
  globals,  \* values of the globals
  cache,    \* function_cache: the wrapper of each named function
  site,     \* site[c][n]: cached_fn of the CALL to n in code c
  fresh,    \* codes whose code_cache_versions entry is the cache_version
  frames,   \* the call nesting, outermost first
  struck,   \* codes that were running when the caches were dropped and have
            \* not started anew since: a history, only the properties look at it
  undefined \* a CALL has used an object that has been deleted: nothing is
            \* known from then on, and nothing more is followed

objects == <<heap, held, link, body>>
caches == <<cache, site, fresh, struck, undefined>>

vars == <<objects, globals, caches, frames>>

\* fill names the CALL site of the caller that is waiting to remember fn.
Frame == [kind: {"base", "vm2", "legacy"}, env: Env, vals: SUBSET Val,
          fn: Fun \cup {NoObj}, code: Code \cup {NoCode},
          fill: SUBSET Named]

Depth == Len(frames)
Top == frames[Depth]
Active == Depth > 0 /\ ~undefined
OnLegacy == Active /\ Top.kind = "legacy"
OnVM2 == Active /\ Top.kind # "legacy"

\* The codes that activations of execute_function are in the middle of.
RunningCode == {frames[i].code : i \in {j \in 1 .. Depth : frames[j].kind = "legacy"}}

refs == [o \in Obj |-> held[o] \cup ({link[o]} \ {NoObj})]

\* Deviation from the code, to show that the properties notice it: env_root
\* is not moved when a run enters or leaves a frame.
EnvIsRootOfRun(i) == frames[i].kind # "vm2"

\* Frame i is the topmost frame of its run or is an execute_function, so
\* that its environment is a registered root.
EnvIsRoot(i) == i = Depth \/ frames[i + 1].kind # "vm2"

EnvRoots == {frames[i].env : i \in {j \in 1 .. Depth : EnvIsRoot(j)}}
ValueRoots == UNION {frames[i].vals : i \in 1 .. Depth}
InvokeRoots == {frames[i].fn : i \in 1 .. Depth} \ {NoObj}
CacheRoots == {cache[n] : n \in Named} \ {NoObj}

Roots(invalidate) ==
  EnvRoots \cup ValueRoots \cup InvokeRoots \cup globals
    \cup (IF invalidate THEN {} ELSE CacheRoots)

\* What the CALL sites of running code remember, of code that has not been
\* struck.
SiteTargets == {site[c][n] : c \in RunningCode \ struck, n \in Named} \ {NoObj}

\* Everything either machine can still touch: what the collector treats as
\* a root, and what it does not: the environments of ALL frames of a run, of
\* which only the topmost is a root, and what CALL sites remember.
Touchable == Roots(FALSE) \cup {frames[i].env : i \in 1 .. Depth} \cup SiteTargets

Init ==
  /\ heap = {}
  /\ held = [o \in Obj |-> {}]
  /\ link = [o \in Obj |-> NoObj]
  /\ body = [f \in Fun |-> NoCode]
  /\ globals = {}
  /\ cache = [n \in Named |-> NoObj]
  /\ site = [c \in Code |-> [n \in Named |-> NoObj]]
  /\ fresh = {}
  /\ frames = <<>>
  /\ struck = {} /\ undefined = FALSE

-----------------------------------------------------------------------------
(* Moving values *)

Maybe(S) == {{}} \cup {{x} : x \in S}

\* The top frame's registers lose gone and gain vs.  The register machine
\* writes every register through to the same slot of the frame's
\* environment (store_value); the stack machine does not.
Registers(gone, vs) == [frames EXCEPT ![Depth].vals = (@ \ gone) \cup vs]

Mirror(h, vs) ==
  IF OnVM2 THEN [h EXCEPT ![Top.env] = @ \cup vs] ELSE h

\* A register is overwritten by, or popped of, a value that is no object.
\* The slot behind it may hold something else, written by a closure.
Forget ==
  /\ Active
  /\ \E w \in Maybe(Top.vals), u \in Maybe(held[Top.env]) :
       /\ frames' = Registers(w, {})
       /\ held' = IF OnVM2 THEN [held EXCEPT ![Top.env] = @ \ u] ELSE held
  /\ UNCHANGED <<heap, link, body, globals, caches>>

\* The environments LOAD_LOCAL and STORE_LOCAL reach by depth.
Scope == Reach({Top.env}, [o \in Obj |-> {link[o]} \cap Env])

\* Deviation: a slot number off by one reads the parent pointer.
LoadLocalOffByOne ==
  /\ OnLegacy
  /\ \E e \in Scope : \E v \in refs[e] : frames' = Registers({}, {v})
  /\ UNCHANGED <<objects, globals, caches>>

LoadLocal ==
  /\ OnLegacy
  /\ \E e \in Scope : \E v \in held[e] : frames' = Registers({}, {v})
  /\ UNCHANGED <<objects, globals, caches>>

StoreLocal ==
  /\ OnLegacy
  /\ \E e \in Scope, v \in Top.vals : \E u \in Maybe(held[e]) :
       /\ held' = [held EXCEPT ![e] = (@ \ u) \cup {v}]
       /\ frames' \in {Registers({v}, {}), frames}
  /\ UNCHANGED <<heap, link, body, globals, caches>>

LoadGlobal ==
  /\ Active
  /\ \E v \in globals :
       /\ frames' = Registers({}, {v})
       /\ held' = Mirror(held, {v})
  /\ UNCHANGED <<heap, link, body, globals, caches>>

StoreGlobal ==
  /\ Active
  /\ \E v \in Maybe(Top.vals), u \in Maybe(globals) :
       globals' = (globals \ u) \cup v
  /\ UNCHANGED <<objects, caches, frames>>

\* GET_PROP of an array's entry.
GetProp ==
  /\ Active
  /\ \E a \in Top.vals \cap Arr : \E v \in held[a] :
       /\ frames' = Registers({}, {v})
       /\ held' = Mirror(held, {v})
  /\ UNCHANGED <<heap, link, body, globals, caches>>

\* STORE_PROP: array_set adds an entry or replaces one.
StoreProp ==
  /\ Active
  /\ \E a \in Top.vals \cap Arr, v \in Maybe(Top.vals) :
       \E u \in Maybe(held[a]) : held' = [held EXCEPT ![a] = (@ \ u) \cup v]
  /\ UNCHANGED <<heap, link, body, globals, caches, frames>>

-----------------------------------------------------------------------------
(* Allocation: a new object joins its list; nothing is collected. *)

\* The array built-in, a list or an object literal: its arguments are
\* copied into a new array.
MakeArray ==
  /\ Active
  /\ \E a \in Arr \ heap, as \in SUBSET Top.vals :
       /\ heap' = heap \cup {a}
       /\ held' = Mirror([held EXCEPT ![a] = as], {a})
       /\ frames' = Registers({}, {a})
  /\ UNCHANGED <<link, body, globals, caches>>

\* MAKE_CLOSURE captures the environment of the frame that executes it.
MakeClosure ==
  /\ Active
  /\ \E f \in Fun \ heap, c \in Code \ Named :
       /\ heap' = heap \cup {f}
       /\ held' = Mirror(held, {f})
       /\ link' = [link EXCEPT ![f] = Top.env]
       /\ body' = [body EXCEPT ![f] = c]
       /\ frames' = Registers({}, {f})
  /\ UNCHANGED <<globals, caches>>

\* A frame's environment e with the given parent; its slots receive the
\* arguments as, those beyond the parameters of a variadic function in a new
\* array (place_args, the prologue of execute_function).  w is what else the
\* call allocates.
Placed(e, parent, as, w) ==
  /\ \E a \in Maybe(Arr \ heap) : \E rest \in SUBSET as :
       /\ a = {} => rest = {}
       /\ heap' = heap \cup {e} \cup a \cup w
       /\ held' = [o \in Obj |-> CASE o = e -> (as \ rest) \cup a
                                   [] o \in a -> rest
                                   [] OTHER -> held[o]]
  /\ link' = [link EXCEPT ![e] = parent]

-----------------------------------------------------------------------------
(* Calls *)

NewFrame(kind, e, vals, f, c, fill) ==
  [kind |-> kind, env |-> e, vals |-> vals, fn |-> f, code |-> c, fill |-> fill]

\* The host calls a function: UdonInterpreter2::run starts with a frame
\* whose environment has no parent.
Run ==
  /\ Depth = 0 /\ MaxFrames > 0
  /\ \E e \in Env \ heap :
       /\ Placed(e, NoObj, {}, {})
       /\ frames' = <<NewFrame("base", e, {}, NoObj, NoCode, {})>>
  /\ UNCHANGED <<body, globals, caches>>

\* Deviation: the new environment takes the caller's parent for its own.
CallVM2AsSibling ==
  /\ OnVM2 /\ Depth < MaxFrames
  /\ \E e \in Env \ heap, as \in SUBSET Top.vals :
       /\ Placed(e, link[Top.env], as, {})
       /\ frames' = Append(frames, NewFrame("vm2", e, held'[e], NoObj, NoCode, {}))
  /\ UNCHANGED <<body, globals, caches>>

\* CALL of a named function in the register machine.  The new frame's
\* environment has the CALLER's as parent; arguments go to the registers
\* and, mirrored, to the slots.
CallVM2 ==
  /\ OnVM2 /\ Depth < MaxFrames
  /\ \E e \in Env \ heap, as \in SUBSET Top.vals :
       /\ Placed(e, Top.env, as, {})
       /\ frames' = Append(frames, NewFrame("vm2", e, held'[e], NoObj, NoCode, {}))
  /\ UNCHANGED <<body, globals, caches>>

\* Deviation: the CALL sites remember what they remember when the code
\* starts anew.
ExecuteRemembering(caller, e, f, c, fill) ==
  /\ frames' = Append(caller, NewFrame("legacy", e, {}, f, c, fill))
  /\ site' = site
  /\ struck' = IF c \in fresh \cup RunningCode THEN struck ELSE struck \ {c}
  /\ fresh' = fresh \cup {c}
  /\ UNCHANGED undefined

\* invoke_function and execute_function for f, whose code is c.  The CALL
\* sites of c forget their targets if the caches were invalidated since c
\* last started.  (They are those of all activations of c; one that is
\* waiting for the function it called will enter that function there.)
\* caller is the stack of frames with the operands popped.
Execute(caller, e, f, c, fill) ==
  /\ frames' = Append(caller, NewFrame("legacy", e, {}, f, c, fill))
  /\ site' = IF c \in fresh THEN site
             ELSE [site EXCEPT ![c] = [n \in Named |-> NoObj]]
  /\ struck' = IF c \in fresh \cup RunningCode THEN struck ELSE struck \ {c}
  /\ fresh' = fresh \cup {c}
  /\ UNCHANGED undefined

\* A dynamic CALL, from either machine: the callable is in a register.  The
\* stack machine pops it before invoke_function roots it.
CallClosure ==
  /\ Active /\ Depth < MaxFrames
  /\ \E f \in Top.vals \cap Fun, e \in Env \ heap, as \in SUBSET Top.vals :
       \E popped \in IF OnLegacy THEN {{}, {f} \ as} ELSE {{}} :
         /\ Placed(e, link[f], as, {})
         /\ Execute(Registers(popped, {}), e, f, body[f], {})
  /\ UNCHANGED <<body, globals, cache>>

\* A CALL by name in the stack machine, through the target its site
\* remembers.  The site compares no version and asks nothing of the object.
CallCached ==
  /\ OnLegacy /\ Depth < MaxFrames
  /\ \E n \in Named, e \in Env \ heap, as \in SUBSET Top.vals :
       LET f == site[Top.code][n] IN
       /\ f \in Fun
       /\ Placed(e, link[f], as, {})
       /\ Execute(frames, e, f, body[f], {})
  /\ UNCHANGED <<body, globals, cache>>

\* The same CALL when the object has been deleted.
CallDeleted ==
  /\ OnLegacy
  /\ \E n \in Named : site[Top.code][n] = Gone
  /\ undefined' = TRUE
  /\ UNCHANGED <<objects, globals, cache, site, fresh, struck, frames>>

\* The same CALL with nothing cached at the site: resolve_function_by_name
\* finds the wrapper in function_cache ...
CallKnown ==
  /\ OnLegacy /\ Depth < MaxFrames
  /\ \E n \in Named, e \in Env \ heap, as \in SUBSET Top.vals :
       /\ site[Top.code][n] = NoObj
       /\ cache[n] # NoObj
       /\ Placed(e, NoObj, as, {})
       /\ Execute(frames, e, cache[n], n, {n})
  /\ UNCHANGED <<body, globals, cache>>

\* ... or makes one and enters it there.
CallUnknown ==
  /\ OnLegacy /\ Depth < MaxFrames
  /\ \E n \in Named, f \in Fun \ heap, e \in Env \ heap, as \in SUBSET Top.vals :
       /\ site[Top.code][n] = NoObj
       /\ cache[n] = NoObj
       /\ Placed(e, NoObj, as, {f})
       /\ body' = [body EXCEPT ![f] = n]
       /\ cache' = [cache EXCEPT ![n] = f]
       /\ Execute(frames, e, f, n, {n})
  /\ UNCHANGED globals

\* Return: the value, if it is an object, goes to a register of the caller;
\* a site that resolved its target remembers it now, whatever happened to
\* the caches during the call.
Return ==
  /\ Active /\ Depth > 1
  /\ \E v \in Maybe(Top.vals) :
       LET caller == frames[Depth - 1] IN
       /\ frames' = [SubSeq(frames, 1, Depth - 1) EXCEPT
                       ![Depth - 1].vals = @ \cup v]
       /\ held' = IF caller.kind = "legacy" THEN held
                  ELSE [held EXCEPT ![caller.env] = @ \cup v]
       /\ site' = IF caller.kind # "legacy" THEN site
                  ELSE [site EXCEPT ![caller.code] =
                          [n \in Named |-> IF n \in Top.fill THEN Top.fn
                                                             ELSE @[n]]]
  /\ UNCHANGED <<heap, link, body, globals, cache, fresh, struck, undefined>>

\* The run ends and its roots are gone.
Finish ==
  /\ Active /\ Depth = 1
  /\ frames' = <<>>
  /\ UNCHANGED <<objects, globals, caches>>

-----------------------------------------------------------------------------
(* Collection *)

\* Deleted objects lose their contents; a CALL site does not learn of it.
Deleted ==
  /\ held' = [o \in Obj |-> IF o \in heap' THEN held[o] ELSE {}]
  /\ link' = [o \in Obj |-> IF o \in heap' THEN link[o] ELSE NoObj]
  /\ body' = [f \in Fun |-> IF f \in heap' THEN body[f] ELSE NoCode]
  /\ site' = [c \in Code |-> [n \in Named |->
                IF site[c][n] \in Fun \ heap' THEN Gone ELSE site[c][n]]]

\* Deviation: a collection that does not look at the globals.
CollectedNoGlobals(invalidate, timed) ==
  /\ heap' \in Survivors(heap, EnvRoots \cup ValueRoots \cup InvokeRoots \cup CacheRoots,
                         refs, timed)
  /\ Deleted

\* A collection is one step here, of which Collector has the steps.
Collected(invalidate, timed) ==
  /\ heap' \in Survivors(heap, Roots(invalidate), refs, timed)
  /\ Deleted

\* The stack machine collects every million steps or every second, for at
\* most 10 ms.
PeriodicGc ==
  /\ OnLegacy
  /\ Collected(FALSE, TRUE)
  /\ UNCHANGED <<globals, cache, fresh, struck, undefined, frames>>

\* __gc_collect(budget?) drops the caches: function_cache is no root, and
\* every code's CALL sites are to be refreshed when it is next entered.
ExplicitCollect ==
  /\ Active
  /\ \E timed \in BOOLEAN : Collected(TRUE, timed)
  /\ cache' = [n \in Named |-> NoObj]
  /\ fresh' = {}
  /\ struck' = struck \cup RunningCode
  /\ UNCHANGED <<globals, undefined, frames>>

Move == Forget \/ LoadLocal \/ StoreLocal \/ LoadGlobal \/ StoreGlobal
          \/ GetProp \/ StoreProp
Make == MakeArray \/ MakeClosure
Call == Run \/ CallVM2 \/ CallClosure \/ CallCached \/ CallDeleted \/ CallKnown \/ CallUnknown
          \/ Return \/ Finish
Collect == PeriodicGc \/ ExplicitCollect

Next == Move \/ Make \/ Call \/ Collect

Spec == Init /\ [][Next]_vars

-----------------------------------------------------------------------------
(* Properties *)

TypeOK ==
  /\ heap \in SUBSET Obj
  /\ held \in [Obj -> SUBSET Val]
  /\ link \in [Obj -> Env \cup {NoObj}]
  /\ body \in [Fun -> Code \cup {NoCode}]
  /\ globals \in SUBSET Val
  /\ cache \in [Named -> Fun \cup {NoObj}]
  /\ site \in [Code -> [Named -> Fun \cup {NoObj, Gone}]]
  /\ fresh \in SUBSET Code
  /\ struck \in SUBSET Code /\ undefined \in BOOLEAN
  /\ frames \in Seq(Frame) /\ Depth <= MaxFrames

\* No collection deletes an object that a frame, a global, the function
\* cache, a CALL site or anything they lead to refers to.  In particular a
\* frame of the register machine finds its environment where it left it when
\* the functions it called, which may have collected, return; and a CALL site
\* finds the function it remembers, which no root names for it.  The CALL
\* sites of code that __gc_collect has struck are left out: they do not.
NoDangling == Touchable \subseteq heap /\ Reach(Touchable, refs) \subseteq heap

\* The frames of a run keep each other's environments alive: each is the
\* parent of the next one's.
CallersAreParents ==
  \A i \in 1 .. Depth - 1 :
    frames[i + 1].kind = "vm2" => link[frames[i + 1].env] = frames[i].env

\* A CALL site of running code remembers the wrapper that function_cache
\* keeps alive, unless __gc_collect has dropped the caches while the code was
\* running: only then can a deleted function be called.  That goes on when
\* the code is entered again before all its activations have ended, since
\* one of them may still enter what it called before the collection.
NoStaleCallSite ==
  /\ \A c \in RunningCode \ struck, n \in Named : site[c][n] \in {NoObj, cache[n]}
  /\ undefined => Top.code \in struck
=============================================================================
