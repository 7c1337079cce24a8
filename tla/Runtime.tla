------------------------------ MODULE Runtime ------------------------------
(***************************************************************************)
(* What the two virtual machines work on: the functions of the program,    *)
(* its globals, the objects it creates and the activations of functions,   *)
(* innermost last.  An activation of the register machine keeps registers  *)
(* in vals, one of the stack machine its operands.                         *)
(*                                                                         *)
(* The identity of an object is its place in arrays, closures or envs:     *)
(* none is ever deleted here (that is the subject of Collector and         *)
(* Mutator).  Strings spell numbers of one digit.                          *)
(***************************************************************************)
EXTENDS Bytecode

VARIABLES
  instructions,  \* name -> [code, size, params, variadic] of the stack machine
  functions_v2,  \* name -> [code, frame_size, params, variadic] of the other
  globals,       \* name -> value
  arrays,        \* what each array holds: key -> value
  closures,      \* [name, env]
  envs,          \* [parent, slots], parent being 0 if there is none
  frames,        \* [vm, fn, ip, env, vals, dst, args, site]
  cached,        \* <<fn, ip>> of the CALLs on the stack machine that hold the
                 \* function they called before (cached_kind, cached_fn)
  out,           \* what has been printed: a sequence of sequences of values
  status,        \* "idle", "running", "done" or "error"
  result         \* what the outermost function returned

objects == <<arrays, closures, envs>>
program == <<instructions, functions_v2, cached>>
runtime == <<program, globals, objects, frames, out, status, result>>

-----------------------------------------------------------------------------
(* Values that depend on the contents of arrays *)

Size(a) == IF a.t = "array" THEN Cardinality(DOMAIN arrays[a.v]) ELSE 0
Truth(a) == IsTruthy(a, Size(a))
Compute(op, a, b) == Binary(op, a, Size(a), b, Size(b))

\* An array with the elements of s under the keys "0", "1", ...
Listed(s) == [k \in {MakeString(i - 1) : i \in DOMAIN s} |-> s[k.v + 1]]

With(m, k, a) == [j \in DOMAIN m \cup {k} |-> IF j = k THEN a ELSE m[j]]

\* array_get and get_index_value: none for what is not there.
Element(a, i) ==
  CASE a.t = "array" /\ Key(i) \in DOMAIN arrays[a.v] -> arrays[a.v][Key(i)]
    [] a.t = "string" /\ i.v = 0 -> a
    [] OTHER -> None

\* get_property_value: a string has no properties, only characters.
Property(a, k) == IF a.t = "array" THEN Element(a, k) ELSE None

\* Numbers come first and in increasing order.  (No array here has other texts
\* as keys; one order of them is as good as another.)
Precedes(j, k) ==
  LET place == [string |-> 0, function |-> 1, array |-> 2, bool |-> 3, none |-> 4]
  IN  place[j.t] < place[k.t] \/ (j.t = k.t /\ j.v < k.v)

\* keys: all the keys in this order.
KeyList(a) ==
  IF a.t = "string" THEN <<MakeString(0)>>
  ELSE LET K == DOMAIN arrays[a.v]
       IN  [i \in 1 .. Cardinality(K) |->
              CHOOSE k \in K : Cardinality({j \in K : Precedes(j, k)}) = i - 1]

\* What invoke_function runs: a value of the type function that has one.
Callable(a) == a.t = "function" /\ a.v \in DOMAIN closures

-----------------------------------------------------------------------------
(* Built-in functions *)

Builtins == {"array", "__object_literal", "keys", "len", "array_get", "print"}

\* The values of an object literal come first, then as many keys, then their
\* number.  Of two values with the same key the later one stays.
Object(args) ==
  LET n == args[Len(args)].v
      last(k) == CHOOSE i \in 1 .. n : /\ Key(args[n + i]) = k
                                       /\ \A j \in i + 1 .. n : Key(args[n + j]) # k
  IN  [k \in {Key(args[n + i]) : i \in 1 .. n} |-> args[last(k)]]

\* What the arguments of an object literal are if the parser made the call.
ObjectArgs(args) ==
  /\ args # <<>> /\ args[Len(args)].t = "int"
  /\ args[Len(args)].v >= 0 /\ Len(args) = 2 * args[Len(args)].v + 1

\* The call fails, and has then set no value but an empty array (keys).
BuiltinFails(f, args) ==
  \/ f = "__object_literal" /\ ~ObjectArgs(args)
  \/ f = "keys" /\ (args = <<>> \/ args[1].t \notin {"array", "string"})
  \/ f = "len" /\ Len(args) # 1
  \/ f = "array_get" /\ Len(args) < 2

NewArray(f, args) ==
  CASE f = "array" -> <<Listed(args)>>
    [] f = "__object_literal" /\ ObjectArgs(args) -> <<Object(args)>>
    [] f = "keys" /\ args # <<>> -> <<IF BuiltinFails(f, args) THEN <<>> ELSE Listed(KeyList(args[1]))>>
    [] OTHER -> <<>>

\* The value of the call; it may refer to a new array.
BuiltinValue(f, args) ==
  CASE NewArray(f, args) # <<>> -> ArrayRef(Len(arrays) + 1)
    [] f = "len" /\ Len(args) = 1 ->
         MakeInt(IF args[1].t = "string" THEN 1 ELSE Size(args[1]))
    [] f = "array_get" /\ Len(args) >= 2 -> Element(args[1], args[2])
    [] OTHER -> None

\* Its effects.
BuiltinEffect(f, args) ==
  /\ arrays' = arrays \o NewArray(f, args)
  /\ out' = IF f = "print" THEN Append(out, args) ELSE out

-----------------------------------------------------------------------------
(* Activations *)

Top == frames[Len(frames)]
Running(vm) == status = "running" /\ frames # <<>> /\ Top.vm = vm

\* The top activation with other values; it goes on at ip.
Continue(vals, ip) ==
  [frames EXCEPT ![Len(frames)].vals = vals, ![Len(frames)].ip = ip]

\* The slots of an activation of f with n slots: the parameters come first,
\* the last one collects the arguments left if f is variadic.
Fixed(f) == IF f.variadic THEN f.params - 1 ELSE f.params
Bind(f, n, args) ==
  [i \in 1 .. n |->
     CASE i <= Fixed(f) /\ i <= Len(args) -> args[i]
       [] f.variadic /\ i = f.params -> ArrayRef(Len(arrays) + 1)
       [] OTHER -> None]

Rest(f, args) ==
  IF f.variadic THEN <<Listed(SubSeq(args, Fixed(f) + 1, Len(args)))>> ELSE <<>>

\* An activation of the function called name.  site says what its caller does
\* when it ends: after a call by way of cached_fn ("cached") that fails, the
\* call is looked up and made again ("again"); the error of the first attempt
\* is not forgotten, so the caller fails even if the second one succeeds.
NewFrame(vm, name, e, vals, args) ==
  [vm |-> vm, fn |-> name, ip |-> 0, env |-> e, vals |-> vals, dst |-> Ref(0, 0),
   args |-> args, site |-> "other"]

\* The call that activation i stems from is made again, not by way of the
\* cache.  Everything above it is left.
CallAgain(i) ==
  LET f == instructions[frames[i].fn]
      args == frames[i].args
  IN
  /\ arrays' = arrays \o Rest(f, args)
  /\ envs' = Append(envs, [parent |-> 0, slots |-> Bind(f, f.size, args)])
  /\ frames' = Append(SubSeq(frames, 1, i - 1),
                      [NewFrame("stack", frames[i].fn, Len(envs) + 1, <<>>, args)
                         EXCEPT !.site = "again"])
  /\ UNCHANGED <<program, globals, closures, out, status, result>>

\* An error leaves the activations up to the innermost one called by way of a
\* cache, or else all of them.
Abort ==
  LET I == {i \in DOMAIN frames : frames[i].site = "cached"} IN
  IF I # {} THEN CallAgain(CHOOSE i \in I : \A j \in I : j <= i)
  ELSE /\ status' = "error"
       /\ frames' = <<>>
       /\ UNCHANGED <<program, globals, objects, out, result>>
=============================================================================
