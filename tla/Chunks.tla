------------------------------- MODULE Chunks -------------------------------
(***************************************************************************)
(* Interpreters and the source they are given: compile starts afresh,      *)
(* compile_append adds a chunk, and code compiled earlier goes on being    *)
(* called with what its instructions have cached of globals and functions. *)
(*                                                                         *)
(* The register machine looks everything up by name, each time; it has no  *)
(* state here but the table functions_v2.  The stack machine, which runs   *)
(* closures, caches a slot number in every access to a global and a        *)
(* function in every call, guarded by two version numbers.  A function is  *)
(* reduced to one access to a global and one call.                         *)
(*                                                                         *)
(* Left out: built-ins, which either machine finds before these tables or  *)
(* after them, and a compile from inside a running program, which no       *)
(* built-in offers: import compiles in an interpreter of its own.          *)
(***************************************************************************)
EXTENDS Integers, Sequences

CONSTANTS
  Interp,     \* interpreters: a program, and the files it imports
  Global,     \* names of globals
  Context,    \* the global every interpreter declares first
  Function,   \* names of functions
  Code,       \* compiled functions, in memory as long as a closure is
  Value, None,
  MaxDepth,   \* bound on calls in progress
  MaxVersion, \* bound on cache_version
  Crossing    \* closures are passed from one interpreter to another

ASSUME ChunkAssumption ==
  /\ Context \in Global /\ None \in Value
  /\ Code \subseteq Nat
  /\ MaxDepth \in Nat /\ MaxVersion \in Nat \ {0} /\ Crossing \in BOOLEAN

UNKNOWN == -1  \* GLOBAL_SLOT_UNKNOWN
MISS == -2     \* GLOBAL_SLOT_MISS
NoCode == -1

VARIABLES
  declared,   \* declared_global_order of each interpreter
  lookup,     \* global_slot_lookup: names to slots, counted from 0
  slots,      \* global_slots
  globals,    \* globals
  functions,  \* instructions: the code of each name
  v2,         \* functions_v2: the code it was translated from
  cache,      \* function_cache: the code of each wrapper
  version,    \* cache_version
  entered,    \* code_cache_versions
  text,       \* what a compiled function does: its global, callee and owner
  hint,       \* what its instructions have cached
  frames,     \* the stack machine's calls in progress
  replaced    \* history: names compiled again since the caches were dropped

tables == <<declared, lookup, slots, globals, functions, v2, cache, replaced>>
vars == <<declared, lookup, slots, globals, functions, v2, cache, replaced,
          version, entered, text, hint, frames>>

Empty == [x \in {} |-> x]
Set(f, k, v) == [x \in DOMAIN f \cup {k} |-> IF x = k THEN v ELSE f[x]]
Names(s) == {s[j] : j \in DOMAIN s}
At(f, k, default) == IF k \in DOMAIN f THEN f[k] ELSE default

----------------------------------------------------------------------------
\* Globals of interpreter i

Slot(i, n) == At(lookup[i], n, -1)

\* get_global_value and set_global_value: a hint below 0 is no hint.
Chosen(i, n, s) == IF s >= 0 THEN s ELSE Slot(i, n)

GetGlobal(i, n, s) ==
  IF Chosen(i, n, s) \in 0..(Len(slots[i]) - 1) THEN slots[i][Chosen(i, n, s) + 1]
  ELSE At(globals[i], n, None)

\* slots as set_global_value leaves them, grown with none where needed
Stored(sl, s, v) ==
  IF s < 0 THEN sl
  ELSE [j \in 1..(IF s < Len(sl) THEN Len(sl) ELSE s + 1) |->
          IF j = s + 1 THEN v ELSE IF j <= Len(sl) THEN sl[j] ELSE None]

SetGlobal(i, n, v, s) ==
  /\ slots' = [slots EXCEPT ![i] = Stored(@, Chosen(i, n, s), v)]
  /\ globals' = [globals EXCEPT ![i] = Set(@, n, v)]

----------------------------------------------------------------------------
\* Compiling.  A chunk declares some globals and then, maybe, one function;
\* the parser writes both into the tables as it reads them, and stops at an
\* error.  Only a chunk without one is translated and initialised.

\* An interpreter's tables as records, so that a compile can reset them first.
Tables(i) == [declared |-> declared[i], functions |-> functions[i],
              slots |-> slots[i], globals |-> globals[i], v2 |-> v2[i],
              lookup |-> lookup[i], cache |-> cache[i], entered |-> entered[i],
              version |-> version[i], replaced |-> replaced[i]]

\* reset_state and seed_builtin_globals
Fresh == [declared |-> <<Context>>, functions |-> Empty, slots |-> <<>>,
          globals |-> Empty, v2 |-> Empty, lookup |-> Empty, cache |-> Empty,
          entered |-> Empty, version |-> 1, replaced |-> {}]

\* parse_global_var refuses a name that is there, even one a failed chunk left.
Clash(t, vs) == \E j \in DOMAIN vs : vs[j] \in Names(t.declared)

Declare(t, vs) == IF Clash(t, vs) THEN t ELSE [t EXCEPT !.declared = @ \o vs]

Define(t, f, c) ==
  [t EXCEPT !.functions = Set(@, f, c),
            !.replaced = IF f \in DOMAIN t.functions THEN @ \cup {f} ELSE @]

\* Mutant: the slots are not grown for the names of a new chunk.
RebuildUnsized(t) ==
  [t EXCEPT
    !.lookup = [x \in Names(t.declared) |->
                  (CHOOSE j \in DOMAIN t.declared : t.declared[j] = x) - 1],
    !.slots = [j \in DOMAIN t.slots |->
                 IF j <= Len(t.declared) /\ t.declared[j] \in DOMAIN t.globals
                 THEN t.globals[t.declared[j]] ELSE t.slots[j]]]

\* Mutant: a new slot starts without the value its name may have.
RebuildKeepsSlots(t) ==
  LET n == Len(t.declared)
      size == IF Len(t.slots) < n THEN n ELSE Len(t.slots) IN
  [t EXCEPT
    !.lookup = [x \in Names(t.declared) |-> (CHOOSE j \in 1..n : t.declared[j] = x) - 1],
    !.slots = [j \in 1..size |-> IF j <= Len(t.slots) THEN t.slots[j] ELSE None]]

\* rebuild_global_slots: values come from globals, slots keep what they hold
\* otherwise.
Rebuild(t) ==
  LET n == Len(t.declared)
      size == IF Len(t.slots) < n THEN n ELSE Len(t.slots) IN
  [t EXCEPT
    !.lookup = [x \in Names(t.declared) |-> (CHOOSE j \in 1..n : t.declared[j] = x) - 1],
    !.slots = [j \in 1..size |->
                 IF j <= n /\ t.declared[j] \in DOMAIN t.globals THEN t.globals[t.declared[j]]
                 ELSE IF j <= Len(t.slots) THEN t.slots[j] ELSE None]]

\* set_global_value on the record of tables, by name
Assigned(t, n, v) ==
  [t EXCEPT !.slots = Stored(@, At(t.lookup, n, -1), v), !.globals = Set(@, n, v)]

\* A successful parse: slots, the context global, every function translated
\* again, and the initialiser, unless it fails before its store.
Finish(t, ctx, vs, v, initialised) ==
  LET built == [Assigned(Rebuild(t), Context, ctx) EXCEPT !.v2 = t.functions] IN
  IF initialised THEN Assigned(built, vs[1], v) ELSE built

Install(i, t) ==
  /\ declared' = [declared EXCEPT ![i] = t.declared]
  /\ functions' = [functions EXCEPT ![i] = t.functions]
  /\ slots' = [slots EXCEPT ![i] = t.slots]
  /\ globals' = [globals EXCEPT ![i] = t.globals]
  /\ v2' = [v2 EXCEPT ![i] = t.v2]
  /\ lookup' = [lookup EXCEPT ![i] = t.lookup]
  /\ cache' = [cache EXCEPT ![i] = t.cache]
  /\ entered' = [entered EXCEPT ![i] = t.entered]
  /\ version' = [version EXCEPT ![i] = t.version]
  /\ replaced' = [replaced EXCEPT ![i] = t.replaced]

NewHint == [version |-> 0, global |-> UNKNOWN, callee |-> NoCode]

\* No frames: nothing that runs can compile in its own interpreter.  A chunk
\* is "var n" or nothing and a function f, which uses global g and calls h, or
\* none, in either order; context, always first, is left out.  The parse fails
\* somewhere or not at all; the initialiser stores its value or fails before.
Chunk(i, t) ==
  /\ frames = <<>>
  /\ \E vs \in {<<>>} \cup {<<n>> : n \in Global \ {Context}},
        v \in Value, ctx \in Value \ {None} :
       \/ /\ \/ Install(i, Declare(t, vs))
             \/ \E d \in {FALSE, vs # <<>>} :
                  ~Clash(t, vs) /\ Install(i, Finish(Declare(t, vs), ctx, vs, v, d))
          /\ UNCHANGED <<text, hint>>
       \/ \E f, h \in Function, g \in Names(t.declared \o vs) \ {Context},
          c \in Code \ DOMAIN text :
            /\ \A d \in Code \ DOMAIN text : c <= d
            /\ text' = Set(text, c, [global |-> g, callee |-> h, owner |-> i])
            /\ hint' = Set(hint, c, NewHint)
            /\ \/ Install(i, Define(t, f, c))
               \/ LET read == Define(Declare(t, vs), f, c) IN
                  /\ ~Clash(t, vs)
                  /\ \/ Install(i, read)
                     \/ \E d \in {FALSE, vs # <<>>} : Install(i, Finish(read, ctx, vs, v, d))
  /\ UNCHANGED frames

\* Mutant: the reset forgets the versions at which code was last entered.
CompileKeepsEntries(i) == Chunk(i, [Fresh EXCEPT !.entered = entered[i]])

Compile(i) == Chunk(i, Fresh)

\* seed_builtin_globals finds the context declared.
CompileAppend(i) == Chunk(i, Tables(i))

----------------------------------------------------------------------------
\* The stack machine: what the code on top of the stack does

Running == frames # <<>>
Top == frames[Len(frames)]
Here == Top.interp
Now == hint[Top.code]

\* execute_function: hints are dropped unless they were made at this version.
Enter(below, i, c, how) ==
  /\ Len(below) < MaxDepth
  /\ frames' = Append(below, [interp |-> i, code |-> c, how |-> how, stale |-> replaced[i]])
  /\ IF At(entered[i], c, 0) = version[i] THEN UNCHANGED <<hint, entered>>
     ELSE /\ hint' = [hint EXCEPT ![c] = [NewHint EXCEPT !.version = version[i]]]
          /\ entered' = [entered EXCEPT ![i] = Set(@, c, version[i])]
  /\ UNCHANGED <<declared, lookup, slots, globals, functions, v2, version, text, replaced>>

\* A closure called by the register machine, a built-in or the host
Closure(i, c) ==
  /\ Crossing \/ text[c].owner = i
  /\ Enter(frames, i, c, "closure")
  /\ UNCHANGED cache

\* The slot LOAD_GLOBAL and STORE_GLOBAL use, and what they remember of it
Resolves == Now.global = UNKNOWN \/ Now.version # version[Here]
SlotUsed == IF Resolves THEN Slot(Here, text[Top.code].global) ELSE Now.global
Remember ==
  hint' = IF Resolves
          THEN [hint EXCEPT ![Top.code].global = IF SlotUsed >= 0 THEN SlotUsed ELSE MISS]
          ELSE hint

Load ==
  /\ Running /\ Remember
  /\ UNCHANGED <<tables, version, entered, text, frames>>

Store ==
  /\ Running /\ Remember
  /\ \E v \in Value : SetGlobal(Here, text[Top.code].global, v, SlotUsed)
  /\ UNCHANGED <<declared, lookup, functions, v2, cache, replaced, version, entered, text, frames>>

\* resolve_function_by_name: what function_cache has, or else a new wrapper
Resolved(i, f) == At(cache[i], f, At(functions[i], f, NoCode))

\* CALL: the site's own function, of whatever version, or the one of the name
Callee == IF Now.callee # NoCode THEN Now.callee ELSE Resolved(Here, text[Top.code].callee)

CallByName(below, i, f) ==
  /\ Resolved(i, f) # NoCode
  /\ cache' = [cache EXCEPT ![i] = Set(@, f, Resolved(i, f))]
  /\ Enter(below, i, Resolved(i, f), "named")

Call ==
  /\ Running
  /\ \/ Now.callee # NoCode /\ Enter(frames, Here, Now.callee, "cached") /\ UNCHANGED cache
     \/ Now.callee = NoCode /\ CallByName(frames, Here, text[Top.code].callee)

\* A call by name fills its caller's site once it has returned, whatever
\* became of the caches meanwhile.
Return ==
  /\ Running
  /\ frames' = SubSeq(frames, 1, Len(frames) - 1)
  /\ hint' = IF Top.how = "named" THEN [hint EXCEPT ![frames[Len(frames) - 1].code].callee = Top.code]
             ELSE hint
  /\ UNCHANGED <<tables, version, entered, text>>

\* A run-time error ends the calls down to one k: made by a built-in or the
\* host, which may go on, or from a site's own function; that is looked up and
\* called again.
Below(k) == SubSeq(frames, 1, k - 1)

Fail ==
  \E k \in DOMAIN frames :
    /\ \A j \in k + 1 .. Len(frames) : frames[j].how # "cached"
    /\ \/ /\ frames[k].how = "closure" /\ frames' = Below(k)
          /\ UNCHANGED <<tables, version, entered, text, hint>>
       \/ /\ frames[k].how = "cached"
          /\ CallByName(Below(k), frames[k].interp, text[frames[k - 1].code].callee)

\* Mutant: the functions that names resolve to survive a collection.
CollectKeepsFunctions(i) ==
  /\ version[i] < MaxVersion
  /\ version' = [version EXCEPT ![i] = @ + 1]
  /\ entered' = [entered EXCEPT ![i] = Empty]
  /\ replaced' = IF Len(frames) <= 1 THEN [replaced EXCEPT ![i] = {}] ELSE replaced
  /\ UNCHANGED <<declared, lookup, slots, globals, functions, v2, cache, text, hint, frames>>

\* __gc_collect: caches are dropped, and with no call pending in between what
\* was compiled again is now what names resolve to.
Collect(i) ==
  /\ version[i] < MaxVersion
  /\ version' = [version EXCEPT ![i] = @ + 1]
  /\ cache' = [cache EXCEPT ![i] = Empty]
  /\ entered' = [entered EXCEPT ![i] = Empty]
  /\ replaced' = IF Len(frames) <= 1 THEN [replaced EXCEPT ![i] = {}] ELSE replaced
  /\ UNCHANGED <<declared, lookup, slots, globals, functions, v2, text, hint, frames>>

\* A machine that runs nothing is as it was reset.
Init ==
  /\ declared = [i \in Interp |-> Fresh.declared]
  /\ lookup = [i \in Interp |-> Empty] /\ slots = [i \in Interp |-> <<>>]
  /\ globals = [i \in Interp |-> Empty] /\ functions = [i \in Interp |-> Empty]
  /\ v2 = [i \in Interp |-> Empty] /\ cache = [i \in Interp |-> Empty]
  /\ version = [i \in Interp |-> 1] /\ entered = [i \in Interp |-> Empty]
  /\ replaced = [i \in Interp |-> {}]
  /\ text = Empty /\ hint = Empty /\ frames = <<>>

Next ==
  \/ \E i \in Interp : Compile(i) \/ CompileAppend(i) \/ Collect(i)
  \/ \E i \in Interp, c \in DOMAIN text : Closure(i, c)
  \/ Load \/ Store \/ Call \/ Return \/ Fail

Spec == Init /\ [][Next]_vars

----------------------------------------------------------------------------
Maps(f, S, T) == DOMAIN f \subseteq S /\ \A x \in DOMAIN f : f[x] \in T

\* Every cache and hint is of a slot, a function or a version that exists.
\* (seed_builtin_globals, rebuild_global_slots, resolve_function_by_name)
ChunkTypeOK ==
  /\ \A i \in Interp :
       /\ declared[i] \in Seq(Global) /\ declared[i][1] = Context
       /\ \A j, k \in DOMAIN declared[i] : declared[i][j] = declared[i][k] => j = k
       /\ Maps(lookup[i], Names(declared[i]), 0 .. Len(slots[i]) - 1)
       /\ Maps(globals[i], Global, Value) /\ Names(slots[i]) \subseteq Value
       /\ Maps(functions[i], Function, DOMAIN text)
       /\ Maps(v2[i], DOMAIN functions[i], DOMAIN text)
       /\ Maps(cache[i], DOMAIN functions[i], DOMAIN text)
       /\ version[i] \in 1..MaxVersion
       /\ Maps(entered[i], DOMAIN text, 1 .. MaxVersion)
       /\ replaced[i] \subseteq DOMAIN functions[i]
  /\ \A c \in DOMAIN text :
       /\ hint[c].version \in 0..MaxVersion
       /\ hint[c].global >= MISS /\ hint[c].callee \in {NoCode} \cup DOMAIN text
  /\ Len(frames) <= MaxDepth

\* An access to a global in running code, through whatever slot its
\* instruction has cached, reaches what the name stands for now: the hint may
\* be of an earlier program, another interpreter or a chunk that failed.
LoadsNamedGlobal ==
  Running => LET n == text[Top.code].global IN
             GetGlobal(Here, n, SlotUsed) = GetGlobal(Here, n, -1)

\* The two stores of an interpreter's variables agree wherever both have one;
\* functions that go by slot and functions that go by name see one variable.
\* (set_global_value, rebuild_global_slots)
SlotsMirrorGlobals ==
  \A i \in Interp : \A n \in DOMAIN lookup[i] \cap DOMAIN globals[i] :
    slots[i][lookup[i][n] + 1] = globals[i][n]

\* A call in a closure reaches the function that the same call in a function
\* of the register machine would, unless that name was compiled again while
\* function_cache held it, or by a chunk that then failed.
SameCallee ==
  Running => LET h == text[Top.code].callee IN
             h \in DOMAIN v2[Here] /\ v2[Here][h] = functions[Here][h] /\ h \notin Top.stale
               => Callee = v2[Here][h]
=============================================================================
