------------------------------ MODULE CodeGen ------------------------------
(***************************************************************************)
(* The code generator inside the recursive-descent parser: from the parse  *)
(* tree of a program to code for the stack machine.  Parsing itself is     *)
(* abstracted: a tree is a record whose field k says which construct it    *)
(* is.  The state of a function being compiled is passed along as g:       *)
(*   code    the instructions emitted so far (body)                        *)
(*   scopes  scope_stack, innermost last: the slot of each name declared   *)
(*   outer   enclosing_scopes, innermost first: [slots, distance]          *)
(*   next    next_slot_index                                               *)
(*   loops   loop_stack: addresses of the jumps to patch                   *)
(*   fns     the functions completed, under their names                    *)
(*   globals the names of the globals of the program                       *)
(*   ok      no error found so far: the first one ends the compilation     *)
(* Addresses count from 0.  The parser is never asked to emit scope marks  *)
(* on entry (emit_scope_ops is false) and emits them all the same on exit. *)
(***************************************************************************)
EXTENDS Bytecode, SequencesExt

NoFunctions == [n \in {} |-> 0]

Fresh == [code |-> <<>>, scopes |-> <<>>, outer |-> <<>>, next |-> 0,
          loops |-> <<>>, fns |-> NoFunctions, globals |-> {}, ok |-> TRUE]

\* make_error.
Fail(g) == [g EXCEPT !.ok = FALSE]

Emit(g, i) == [g EXCEPT !.code = Append(@, i)]
Here(g) == Len(g.code)

\* The jumps at the addresses A lead to t.
Patch(g, A, t) ==
  [g EXCEPT !.code = [i \in DOMAIN @ |-> IF i - 1 \in A THEN [@[i] EXCEPT !.target = t]
                                                        ELSE @[i]]]

-----------------------------------------------------------------------------
(* Scopes and names *)

BeginScope(g) == [g EXCEPT !.scopes = Append(@, [x \in {} |-> 0])]
EndScope(g) == Emit([g EXCEPT !.scopes = Front(@)], Plain("EXIT_SCOPE"))

\* A name declared again in the same scope keeps its slot.
Declare(g, x) ==
  IF x \in DOMAIN Last(g.scopes) THEN g
  ELSE [g EXCEPT !.scopes[Len(g.scopes)] =
                   [y \in DOMAIN @ \cup {x} |-> IF y = x THEN g.next ELSE @[y]],
                 !.next = @ + 1]

\* The scopes a name is looked up in, in this order, before the globals.
Visible(g) ==
  [i \in DOMAIN g.scopes |-> [slots |-> Reverse(g.scopes)[i], distance |-> 0]] \o g.outer

Binders(g, x) == {i \in DOMAIN Visible(g) : x \in DOMAIN Visible(g)[i].slots}
Binder(g, x) == Visible(g)[CHOOSE i \in Binders(g, x) : \A j \in Binders(g, x) : i <= j]
Resolves(g, x) == Binders(g, x) # {} \/ x \in g.globals

Access(g, x, local, global) ==
  CASE Binders(g, x) # {} -> Emit(g, [local EXCEPT !.depth = Binder(g, x).distance,
                                                   !.slot = Binder(g, x).slots[x]])
    [] Binders(g, x) = {} /\ x \in g.globals -> Emit(g, global)
    [] OTHER -> Fail(g)

Load(g, x) == Access(g, x, Plain("LOAD_LOCAL"), LoadGlobal(x))
Store(g, x) == Access(g, x, Plain("STORE_LOCAL"), StoreGlobal(x))

\* A hidden variable, told apart by where in the code it is needed.
Temp(g, prefix) == prefix \o ToString(Here(g))

\* Where the code is compiled into a vector of its own the name may be taken.
FreeTemp(g, prefix) ==
  LET names == <<Temp(g, prefix)>> \o [i \in 1 .. 9 |-> Temp(g, prefix) \o "_" \o ToString(i - 1)]
  IN  names[CHOOSE i \in DOMAIN names :
              ~Resolves(g, names[i]) /\ \A j \in 1 .. i - 1 : Resolves(g, names[j])]

SetFlag(g, x, n) == Store(Emit(g, Push(MakeInt(n))), x)

-----------------------------------------------------------------------------
(* Loops *)

Enter(g, allow_continue) ==
  [g EXCEPT !.loops = Append(@, [breaks |-> {}, continues |-> {},
                                 allow_continue |-> allow_continue])]
EnterLoop(g) == Enter(g, TRUE)
LeaveLoop(g) == [g EXCEPT !.loops = Front(@)]
\* Deviation: the lists of the outermost loop (front() in place of back()).
BreaksOfOutermost(g) == Head(g.loops).breaks
ContinuesOfOutermost(g) == Head(g.loops).continues
Breaks(g) == Last(g.loops).breaks
Continues(g) == Last(g.loops).continues

\* break and continue: a jump that the innermost loop, or switch, patches.
\* In a switch continue is an error, even if there is a loop around it.
JumpOut(g, which) ==
  IF g.loops = <<>> \/ (which = "continues" /\ ~Last(g.loops).allow_continue)
    THEN Fail(g)
    ELSE Emit([g EXCEPT !.loops[Len(g.loops)][which] = @ \cup {Here(g)}], Jump(0))

-----------------------------------------------------------------------------
RECURSIVE Expr(_, _), Stmt(_, _)

\* An expression in the place of a statement: its value is not wanted.  The
\* assignment to an element has none.
Discarded(g, e) ==
  IF e.k \in {"setat", "updateat"} THEN Expr(g, e) ELSE Emit(Expr(g, e), Plain("POP"))

Exprs(g, es) == FoldLeft(LAMBDA h, e : Expr(h, e), g, es)
Block(g, ss) == FoldLeft(LAMBDA h, s : Stmt(h, s), g, ss)

\* Parameters take the first slots of a function.
FunctionBody(g, f) == Block(FoldLeft(Declare, BeginScope(g), f.params), f.body)

Complete(g, name, f) ==
  [n \in DOMAIN g.fns \cup {name} |->
     IF n = name THEN [code |-> g.code, size |-> g.next, params |-> Len(f.params),
                       variadic |-> f.variadic, lambda |-> f.k = "fn"]
                 ELSE g.fns[n]]

Lambdas(fns) == {n \in DOMAIN fns : fns[n].lambda}
LambdaName(fns) == "__lambda_" \o ToString(Cardinality(Lambdas(fns)))

\* A lambda sees the scopes around it one frame further away.  It is
\* numbered when its body, with the lambdas in it, is complete.
Lambda(g, e) ==
  LET around == [i \in DOMAIN Visible(g) |-> [Visible(g)[i] EXCEPT !.distance = @ + 1]]
      inner == FunctionBody([Fresh EXCEPT !.fns = g.fns, !.globals = g.globals,
                                          !.outer = around], e)
      name == LambdaName(inner.fns)
  IN  Emit([g EXCEPT !.fns = Complete(inner, name, e), !.ok = inner.ok], MakeClosure(name))

ToBool(g) == Emit(g, Plain("TO_BOOL"))

\* Two ways to go on: g ends with the condition, y with the code for when it
\* holds, and n with the code for when it does not.
Then(g) == Emit(g, JumpIfFalse(0))
Otherwise(g, y) == LET g1 == Emit(y, Jump(0)) IN Patch(g1, {Here(g)}, Here(g1))
Join(y, n) == Patch(n, {Here(y)}, Here(n))

AndOf(g, e) ==
  LET y == ToBool(Expr(Then(g), e.b))
  IN  Join(y, Emit(Otherwise(g, y), Push(MakeBool(FALSE))))
OrOf(g, e) ==
  LET y == Emit(Then(g), Push(MakeBool(TRUE)))
  IN  Join(y, ToBool(Expr(Otherwise(g, y), e.b)))
TernaryOf(g, e) ==
  LET y == Expr(Then(g), e.a)
  IN  Join(y, Expr(Otherwise(g, y), e.b))

\* "var x = e", "var x, y = e" and "x, y = e", new telling which: the value
\* goes to a hidden variable.  From there it, or its elements if there are
\* several names, go to the variables, and the first one to the stack.  The
\* name "_" skips an element.
Destructure(g, names, new) ==
  LET t == Temp(g, "__tuple_tmp_")
      Part(h, i) == IF Len(names) = 1 THEN Load(h, t)
                    ELSE Emit(Emit(Load(h, t), Push(MakeInt(i - 1))), Plain("GET_PROP"))
      Fill(h, i) == IF names[i] = "_" THEN h
                    ELSE Store(Part(IF new THEN Declare(h, names[i]) ELSE h, i), names[i])
  IN  Part(FoldLeft(Fill, Store(Declare(g, t), t), [i \in DOMAIN names |-> i]), 1)

\* "var x, y": the variables, and the declaration itself, have the value none.
DeclareAll(g, names) ==
  LET Cleared(h, x) == IF x = "_" THEN h ELSE Store(Emit(Declare(h, x), Push(None)), x)
  IN  Emit(FoldLeft(Cleared, g, names), Push(None))

Assign(g, x) == Load(Store(g, x), x)

\* f(...) calls the value of the variable f if there is one, and the function
\* of that name otherwise.
CallOf(g, e) ==
  IF Resolves(g, e.f) THEN Emit(Exprs(Load(g, e.f), e.args), Call(Dynamic, Len(e.args)))
  ELSE Emit(Exprs(g, e.args), Call(e.f, Len(e.args)))

\* The keys of an object literal {k: e, ...}.  An entry without a key gets the
\* number after the largest one so far that is written as a number.
ObjectKeys(entries) ==
  LET Keyed(r, e) ==
        IF e.key = <<>> THEN [keys |-> Append(r.keys, MakeString(r.auto)), auto |-> r.auto + 1]
        ELSE [keys |-> Append(r.keys, Key(e.key[1])),
              auto |-> IF e.key[1].t = "int" /\ e.key[1].v >= r.auto THEN e.key[1].v + 1
                       ELSE r.auto]
  IN  FoldLeft(Keyed, [keys |-> <<>>, auto |-> 0], entries).keys

ObjectOf(g, entries) ==
  LET n == Len(entries)
      g1 == FoldLeft(LAMBDA h, e : Expr(h, e.a), g, entries)
      g2 == FoldLeft(LAMBDA h, k : Emit(h, Push(k)), g1, ObjectKeys(entries))
  IN  Emit(Emit(g2, Push(MakeInt(n))), Call("__object_literal", 2 * n + 1))

\* x:k[i] = e and x:k:l = e.  path are the keys, and i is <<e>> if an index
\* follows, else <<>>: then the last key is the one stored to.  What the
\* element belongs to, and the index if there is one:
Owner(g, e) ==
  LET keys == IF e.i = <<>> THEN Front(e.path) ELSE e.path
  IN  Exprs(FoldLeft(LAMBDA h, k : Emit(h, GetKey(k)), Load(g, e.x), keys), e.i)

StoreAt(e) == IF e.i = <<>> THEN StoreKey(Last(e.path)) ELSE Plain("STORE_PROP")

\* Deviation: the value assigned to an element is left on the stack.
SetAtLeavesValue(g, e) == Emit(Emit(Expr(Owner(g, e), e.a), StoreAt(e)), Push(None))
SetAt(g, e) == Emit(Expr(Owner(g, e), e.a), StoreAt(e))

\* x:k[i] += e.
UpdateAt(g, e) ==
  LET g1 == Owner(g, e)
      obj == FreeTemp(g1, "__tmp_obj_")
      idx == FreeTemp(g1, "__tmp_idx_")
      res == FreeTemp(g1, "__tmp_res_")
      temps == IF e.i = <<>> THEN <<obj, res>>
               ELSE IF e.path = <<>> THEN <<idx, obj, res>> ELSE <<obj, idx, res>>
      Target(h) == IF e.i = <<>> THEN Load(h, obj) ELSE Load(Load(h, obj), idx)
      g2 == FoldLeft(Declare, g1, temps)
      g3 == Target(Store(IF e.i = <<>> THEN g2 ELSE Store(g2, idx), obj))
      g4 == Emit(g3, IF e.i = <<>> THEN GetKey(Last(e.path)) ELSE Plain("GET_PROP"))
      g5 == Target(Store(Emit(Expr(g4, e.a), Plain(e.op)), res))
  IN  Emit(Load(g5, res), StoreAt(e))

Expr(g, e) ==
  CASE ~g.ok -> g
    [] e.k = "lit" -> Emit(g, Push(e.v))
    [] e.k = "var" -> Load(g, e.x)
    [] e.k = "bin" -> Emit(Expr(Expr(g, e.a), e.b), Plain(e.op))
    [] e.k = "not" -> Emit(ToBool(Expr(g, e.a)), Plain("LOGICAL_NOT"))
    [] e.k = "and" -> AndOf(ToBool(Expr(g, e.a)), e)
    [] e.k = "or" -> OrOf(ToBool(Expr(g, e.a)), e)
    [] e.k = "cond" -> TernaryOf(Expr(g, e.c), e)
    [] e.k = "neg" -> Emit(Expr(g, e.a), Plain("NEGATE"))
    [] e.k = "let" -> Destructure(Expr(g, e.a), e.names, TRUE)
    [] e.k = "declare" -> DeclareAll(g, e.names)
    [] e.k = "unpack" -> Destructure(Expr(g, e.a), e.names, FALSE)
    [] e.k = "set" -> Assign(Expr(g, e.a), e.x)
    [] e.k = "setat" -> SetAt(g, e)
    [] e.k = "updateat" -> UpdateAt(g, e)
    [] e.k = "step" -> Assign(Emit(Emit(Load(g, e.x), Push(MakeInt(1))), Plain(e.op)), e.x)
    [] e.k = "update" -> Assign(Emit(Expr(Load(g, e.x), e.a), Plain(e.op)), e.x)
    [] e.k = "call" -> CallOf(g, e)
    [] e.k = "apply" -> Emit(Exprs(Expr(g, e.a), e.args), Call(Dynamic, Len(e.args)))
    [] e.k = "method" -> Emit(Exprs(g, <<e.a>> \o e.args), Call(e.f, Len(e.args) + 1))
    [] e.k = "list" -> Emit(Exprs(g, e.args), Call("array", Len(e.args)))
    [] e.k = "object" -> ObjectOf(g, e.entries)
    [] e.k = "key" -> Emit(Expr(g, e.a), GetKey(e.key))
    [] e.k = "index" -> Emit(Expr(Expr(g, e.a), e.i), Plain("GET_PROP"))
    [] e.k = "fn" -> Lambda(g, e)

-----------------------------------------------------------------------------
(* Statements *)

If(g, s) ==
  LET c == Expr(BeginScope(g), s.c)
      y == Block(Then(c), s.yes)
  IN  EndScope(Join(y, Block(Otherwise(c, y), s.no)))

\* The end of a loop: the else branch runs if the variable x is still 0,
\* that is, if the body never ran.
LoopElse(g, s, x) ==
  IF s.els = <<>> THEN EndScope(g)
  ELSE LET g1 == Emit(Emit(Load(g, x), Push(MakeInt(0))), Plain("EQ"))
           g2 == Block(Emit(g1, JumpIfFalse(0)), s.els)
       IN  Patch(EndScope(g2), {Here(g1)}, Here(g2))

While(g, s) ==
  LET x == Temp(g, "__while_ran_")
      g1 == SetFlag(Declare(BeginScope(g), x), x, 0)
      g2 == Expr(g1, s.c)
      g3 == Block(EnterLoop(SetFlag(Emit(g2, JumpIfFalse(0)), x, 1)), s.body)
      g4 == Emit(Patch(g3, Continues(g3), Here(g1)), Jump(Here(g1)))
      g5 == LeaveLoop(Patch(g4, {Here(g2)} \cup Breaks(g4), Here(g4)))
  IN  LoopElse(g5, s, x)

\* What a header of a for loop may leave out is a sequence of length 0 or 1.
\* "for (var x = e": x is declared before e is compiled.
ForInit(g, init) ==
  CASE init = <<>> -> g
    [] init # <<>> /\ init[1].k = "let" ->
         LET x == init[1].names[1] IN Store(Expr(Declare(g, x), init[1].a), x)
    [] OTHER -> Discarded(g, init[1])

ForCond(g, cond) == IF cond = <<>> THEN Emit(g, Push(MakeInt(1))) ELSE Expr(g, cond[1])

\* The increment is compiled into a vector of its own and appended to the
\* body as it is: its addresses count from the start of that vector.
Increment(g, inc) ==
  LET h == [g EXCEPT !.code = <<>>]
  IN  IF inc = <<>> THEN h ELSE Discarded(h, inc[1])

For(g, s) ==
  LET g1 == ForInit(BeginScope(g), s.init)
      x == Temp(g1, "__for_ran_")
      g2 == SetFlag(Declare(g1, x), x, 0)
      g3 == ForCond(g2, s.cond)
      g4 == Emit(g3, JumpIfFalse(0))
      inc == Increment(g4, s.inc)
      g5 == SetFlag(EnterLoop([inc EXCEPT !.code = g4.code]), x, 1)
      g6 == EndScope(Block(BeginScope(g5), s.body))
      g7 == Patch(g6, Continues(g6), Here(g6))
      g8 == Emit([g7 EXCEPT !.code = @ \o inc.code], Jump(Here(g2)))
      g9 == LeaveLoop(Patch(g8, {Here(g3)} \cup Breaks(g8), Here(g8)))
  IN  LoopElse(g9, s, x)

\* foreach (var x in a) and foreach (var x, y in a), s.names being <<x>> or
\* <<x, y>>: a loop over the keys of a with an index of its own.
Foreach(g, s) ==
  LET coll == Temp(g, "__foreach_coll_")
      keys == Temp(g, "__foreach_keys_")
      i == Temp(g, "__foreach_i_")
      key == s.names[1]
      Fetch(h, a, k, to) == Store(Emit(Load(Load(h, a), k), Call("array_get", 2)), to)
      g1 == FoldLeft(Declare, BeginScope(g), s.names \o <<coll, keys, i>>)
      g2 == Load(Store(Expr(g1, s.a), coll), coll)
      g3 == SetFlag(Store(Emit(g2, Call("keys", 1)), keys), i, 0)
      g4 == Emit(Emit(Load(Load(g3, i), keys), Call("len", 1)), Plain("LT"))
      g5 == Fetch(Emit(g4, JumpIfFalse(0)), keys, i, key)
      g6 == Fetch(g5, coll, key, s.names[Len(s.names)])
      g7 == Block(EnterLoop(g6), s.body)
      g8 == Emit(Emit(Load(Patch(g7, Continues(g7), Here(g7)), i), Push(MakeInt(1))),
                 Plain("ADD"))
      g9 == Emit(Store(g8, i), Jump(Here(g3)))
      g10 == LoopElse(Patch(g9, {Here(g4)}, Here(g9)), s, i)
  IN  LeaveLoop(Patch(g10, Breaks(g10), Here(g10) - 1))

\* An arm for a value ends with a jump out, the default arm does not.
Arm(g, x, arm) ==
  IF arm.v = <<>> THEN Block(g, arm.body)
  ELSE LET g1 == Emit(Emit(Load(g, x), Push(arm.v[1])), Plain("EQ"))
           g2 == JumpOut(Block(Emit(g1, JumpIfFalse(0)), arm.body), "breaks")
       IN  Patch(g2, {Here(g1)}, Here(g2))

Switch(g, s) ==
  LET x == Temp(g, "__switch_val_")
      g1 == Store(Expr(Declare(BeginScope(g), x), s.a), x)
      g2 == FoldLeft(LAMBDA h, arm : Arm(h, x, arm), Enter(g1, FALSE), s.arms)
      g3 == EndScope(g2)
  IN  LeaveLoop(Patch(g3, Breaks(g3), Here(g2)))

Return(g, s) ==
  LET g1 == Exprs(g, s.args)
  IN  Emit(IF Len(s.args) > 1 THEN Emit(g1, Call("array", Len(s.args))) ELSE g1,
           Plain("RETURN"))

Stmt(g, s) ==
  CASE ~g.ok -> g
    [] s.k = "if" -> If(g, s)
    [] s.k = "while" -> While(g, s)
    [] s.k = "for" -> For(g, s)
    [] s.k = "foreach" -> Foreach(g, s)
    [] s.k = "switch" -> Switch(g, s)
    [] s.k = "return" -> Return(g, s)
    [] s.k = "break" -> JumpOut(g, "breaks")
    [] s.k = "continue" -> JumpOut(g, "continues")
    [] OTHER -> Discarded(g, s)

-----------------------------------------------------------------------------
\* A program is a sequence of functions [k, name, params, variadic, body]
\* and globals [k, name, a].  The initialisers of the globals become one
\* more function, without slots.
InitName == "__globals_init_0"

Globals(program) == SelectSeq(program, LAMBDA d : d.k = "global")
Functions(program) == SelectSeq(program, LAMBDA d : d.k = "function")

\* The functions and the code of the initialisers, each on its own.
Compile(program) ==
  LET names == {d.name : d \in Range(Globals(program))}
      Compiled(g, f) ==
        LET h == FunctionBody([Fresh EXCEPT !.fns = g.fns, !.globals = names, !.ok = g.ok], f)
        IN  [Fresh EXCEPT !.fns = Complete(h, f.name, f), !.ok = h.ok]
      Initialised(g, d) == Emit(Expr(g, d.a), StoreGlobal(d.name))
      g1 == FoldLeft(Compiled, Fresh, Functions(program))
      g2 == FoldLeft(Initialised, [g1 EXCEPT !.globals = names], Globals(program))
      init == [k |-> "function", params |-> <<>>, variadic |-> FALSE]
  IN  IF Globals(program) = <<>> THEN g1
      ELSE [g2 EXCEPT !.fns = Complete([g2 EXCEPT !.next = 0], InitName, init)]
=============================================================================
