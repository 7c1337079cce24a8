------------------------------ MODULE Meaning ------------------------------
(***************************************************************************)
(* What a program means, by recursion on its parse tree: the abstract      *)
(* specification of the compiler and its virtual machines.  Nothing here   *)
(* is taken from their code: no slots, jumps, registers or hidden          *)
(* variables.  A scope maps names to places in a store, so that closures   *)
(* share the variables they capture.                                       *)
(***************************************************************************)
EXTENDS Bytecode, SequencesExt

CONSTANT tree

\* The state of an evaluation.  go is "on", or says why control leaves:
\* "break", "continue", "return" or "error"; val is the latest value.
Begin == [scope |-> <<>>, store |-> <<>>, arrays |-> <<>>, closures |-> <<>>, out |-> <<>>,
          go |-> "on", val |-> None]

Is(s, reasons) == s.go \in reasons
Gives(s, a) == [s EXCEPT !.val = a]
Err(s) == [s EXCEPT !.go = "error"]

SizeIn(s, a) == IF a.t = "array" THEN Cardinality(DOMAIN s.arrays[a.v]) ELSE 0
True(s, a) == IsTruthy(a, SizeIn(s, a))

New(s, x, a) ==
  [s EXCEPT !.store = Append(@, a),
            !.scope = [y \in DOMAIN @ \cup {x} |-> IF y = x THEN Len(s.store) + 1 ELSE @[y]]]
Set(s, x, a) == IF x \in DOMAIN s.scope THEN [s EXCEPT !.store[s.scope[x]] = a] ELSE Err(s)
ValueOf(s, x) == s.store[s.scope[x]]

\* What happened inside does not show in the names visible outside.
Leave(s, inner) == [inner EXCEPT !.scope = s.scope]

NewList(s, vals) ==
  Gives([s EXCEPT !.arrays =
           Append(@, [k \in {MakeString(i - 1) : i \in DOMAIN vals} |-> vals[k.v + 1]])],
        ArrayRef(Len(s.arrays) + 1))

ElementIn(s, a, i) ==
  CASE a.t = "array" /\ Key(i) \in DOMAIN s.arrays[a.v] -> s.arrays[a.v][Key(i)]
    [] a.t = "string" /\ i.v = 0 -> a
    [] OTHER -> None

PropertyIn(s, a, k) == IF a.t = "array" THEN ElementIn(s, a, k) ELSE None

\* The value of the assignment is b.
SetElement(s, a, i, b) ==
  IF a.t # "array" THEN Err(s)
  ELSE Gives([s EXCEPT !.arrays[a.v] =
                         [k \in DOMAIN @ \cup {Key(i)} |-> IF k = Key(i) THEN b ELSE @[k]]], b)

\* The keys of an object literal: where there is none an entry is numbered, on
\* from the largest key written as a number.
KeysOf(entries) ==
  LET next[i \in 0 .. Len(entries)] ==
        IF i = 0 THEN 0
        ELSE LET e == entries[i] IN
             IF e.key = <<>> THEN next[i - 1] + 1
             ELSE IF e.key[1].t = "int" /\ e.key[1].v >= next[i - 1] THEN e.key[1].v + 1
             ELSE next[i - 1]
  IN  [i \in DOMAIN entries |-> IF entries[i].key = <<>> THEN MakeString(next[i - 1])
                                ELSE Key(entries[i].key[1])]

\* A key that occurs twice has the later value.
NewObject(s, keys, vals) ==
  LET last(k) == CHOOSE i \in DOMAIN keys :
                   keys[i] = k /\ \A j \in DOMAIN keys : j > i => keys[j] # k
  IN  Gives([s EXCEPT !.arrays = Append(@, [k \in Range(keys) |-> vals[last(k)]])],
            ArrayRef(Len(s.arrays) + 1))

\* The keys that foreach goes through; nothing else than an array or a
\* string has any.
KeysIn(s, a) ==
  CASE a.t = "array" -> SetToSortSeq(DOMAIN s.arrays[a.v], LAMBDA j, k : j.v < k.v)
    [] a.t = "string" -> <<MakeString(0)>>
    [] OTHER -> <<>>

Operate(s, op, a, b) ==
  IF Defined(op, a, b, SizeIn(s, b)) THEN Gives(s, Binary(op, a, SizeIn(s, a), b, SizeIn(s, b)))
  ELSE Err(s)

Named(f) == SelectSeq(tree, LAMBDA d : d.k = "function" /\ d.name = f)
GlobalNames == [i \in DOMAIN SelectSeq(tree, LAMBDA d : d.k = "global") |->
                  SelectSeq(tree, LAMBDA d : d.k = "global")[i].name]

-----------------------------------------------------------------------------
RECURSIVE Eval(_, _), Exec(_, _), Loop(_, _, _, _), ToElement(_, _)

\* The values of es, from left to right; val is the sequence of them.
EvalAll(s, es) ==
  FoldLeft(LAMBDA r, e : LET q == Eval(r, e) IN
             IF Is(q, {"on"}) THEN Gives(q, Append(r.val, q.val)) ELSE q,
           Gives(s, <<>>), es)

ExecAll(s, ss) == FoldLeft(Exec, s, ss)

\* f is called in the scope it was written in.
Enter(s, f, scope, args) ==
  LET fixed == IF f.variadic THEN Len(f.params) - 1 ELSE Len(f.params)
      rest == NewList(s, SubSeq(args, fixed + 1, Len(args)))
      Parameter(r, i) == New(r, f.params[i], IF i > fixed THEN rest.val
                                             ELSE IF i <= Len(args) THEN args[i] ELSE None)
      s1 == FoldLeft(Parameter, [(IF f.variadic THEN rest ELSE s) EXCEPT !.scope = scope],
                     [i \in DOMAIN f.params |-> i])
      s2 == ExecAll(s1, f.body)
      s3 == IF Is(s2, {"return"}) THEN [s2 EXCEPT !.go = "on"] ELSE Gives(s2, None)
  IN  IF ~f.variadic /\ Len(args) > fixed THEN Err(s) ELSE Leave(s, s3)

Outermost(s) == [x \in DOMAIN s.scope \cap Range(GlobalNames) |-> s.scope[x]]

CallNamed(s, f, args) ==
  CASE f = "print" -> Gives([s EXCEPT !.out = Append(@, args)], None)
    [] f = "len" -> IF Len(args) # 1 THEN Err(s)
                    ELSE Gives(s, MakeInt(IF args[1].t = "string" THEN 1
                                          ELSE SizeIn(s, args[1])))
    [] f # "print" /\ f # "len" /\ Named(f) # <<>> -> Enter(s, Named(f)[1], Outermost(s), args)
    [] OTHER -> Err(s)

CallValue(s, a, args) ==
  IF a.t # "function" THEN Err(s)
  ELSE Enter(s, s.closures[a.v].fn, s.closures[a.v].scope, args)

\* f is applied to s if nothing has happened yet that prevents it.
Then(s, f(_)) == IF Is(s, {"on"}) THEN f(s) ELSE s

\* The assignment to an element, found by way of e.path: r.val has what it
\* belongs to and, if it is found by an index, that.
ToElement(s, e) ==
  LET keys == IF e.i = <<>> THEN Front(e.path) ELSE e.path
      owner == FoldLeft(LAMBDA a, k : PropertyIn(s, a, k), ValueOf(s, e.x), keys)
  IN  Then(EvalAll(s, <<[k |-> "lit", v |-> owner]>> \o e.i), LAMBDA r :
        LET key == IF e.i = <<>> THEN Last(e.path) ELSE r.val[2]
            old == IF e.i = <<>> THEN PropertyIn(r, r.val[1], key) ELSE ElementIn(r, r.val[1], key)
        IN  Then(Eval(r, e.a), LAMBDA q :
              Then(IF e.k = "setat" THEN q ELSE Operate(q, e.op, old, q.val), LAMBDA p :
                SetElement(p, r.val[1], key, p.val))))

Eval(s, e) ==
  CASE e.k = "lit" -> Gives(s, e.v)
    [] e.k = "var" -> Gives(s, ValueOf(s, e.x))
    [] e.k = "bin" -> Then(EvalAll(s, <<e.a, e.b>>),
                           LAMBDA r : Operate(r, e.op, r.val[1], r.val[2]))
    [] e.k = "not" -> Then(Eval(s, e.a), LAMBDA r : Gives(r, MakeBool(~True(r, r.val))))
    [] e.k \in {"and", "or"} ->
         Then(Eval(s, e.a), LAMBDA r :
           IF True(r, r.val) = (e.k = "or") THEN Gives(r, MakeBool(e.k = "or"))
           ELSE Then(Eval(r, e.b), LAMBDA q : Gives(q, MakeBool(True(q, q.val)))))
    [] e.k = "cond" -> Then(Eval(s, e.c), LAMBDA r :
                              IF True(r, r.val) THEN Eval(r, e.a) ELSE Eval(r, e.b))
    [] e.k = "neg" -> Then(Eval(s, e.a), LAMBDA r :
                             IF UnaryDefined("NEGATE", r.val)
                               THEN Gives(r, Unary("NEGATE", r.val, 0)) ELSE Err(r))
    [] e.k \in {"let", "unpack"} ->
         Then(Eval(s, e.a), LAMBDA r :
           LET Part(i) == IF Len(e.names) = 1 THEN r.val ELSE ElementIn(r, r.val, MakeInt(i - 1))
               Fill(q, i) == CASE e.names[i] = "_" -> q
                               [] e.names[i] # "_" /\ e.k = "let" -> New(q, e.names[i], Part(i))
                               [] e.names[i] # "_" /\ e.k # "let" -> Set(q, e.names[i], Part(i))
           IN  Gives(FoldLeft(Fill, r, [i \in DOMAIN e.names |-> i]), Part(1)))
    [] e.k = "declare" ->
         Gives(FoldLeft(LAMBDA q, x : IF x = "_" THEN q ELSE New(q, x, None), s, e.names), None)
    [] e.k = "step" -> Eval(s, [k |-> "update", x |-> e.x, op |-> e.op,
                                a |-> [k |-> "lit", v |-> MakeInt(1)]])
    [] e.k = "set" -> Then(Eval(s, e.a), LAMBDA r : Set(r, e.x, r.val))
    [] e.k = "update" ->
         Then(EvalAll(s, <<[k |-> "var", x |-> e.x], e.a>>), LAMBDA r :
           Then(Operate(r, e.op, r.val[1], r.val[2]), LAMBDA q : Set(q, e.x, q.val)))
    [] e.k = "call" ->
         Then(EvalAll(s, e.args), LAMBDA r :
           IF e.f \in DOMAIN s.scope THEN CallValue(r, ValueOf(s, e.f), r.val)
           ELSE CallNamed(r, e.f, r.val))
    [] e.k = "apply" -> Then(EvalAll(s, <<e.a>> \o e.args), LAMBDA r :
                               CallValue(r, r.val[1], Tail(r.val)))
    [] e.k = "method" -> Then(EvalAll(s, <<e.a>> \o e.args), LAMBDA r : CallNamed(r, e.f, r.val))
    [] e.k = "object" ->
         Then(EvalAll(s, [i \in DOMAIN e.entries |-> e.entries[i].a]), LAMBDA r :
           NewObject(r, KeysOf(e.entries), r.val))
    [] e.k = "key" -> Then(Eval(s, e.a), LAMBDA r : Gives(r, PropertyIn(r, r.val, e.key)))
    [] e.k \in {"setat", "updateat"} -> ToElement(s, e)
    [] e.k = "list" -> Then(EvalAll(s, e.args), LAMBDA r : NewList(r, r.val))
    [] e.k = "index" -> Then(EvalAll(s, <<e.a, e.i>>), LAMBDA r :
                               Gives(r, ElementIn(r, r.val[1], r.val[2])))
    [] e.k = "fn" -> Gives([s EXCEPT !.closures = Append(@, [fn |-> e, scope |-> s.scope])],
                           FunctionRef(Len(s.closures) + 1))

-----------------------------------------------------------------------------
\* break and continue end the body of a loop; continue does not end the loop.
AfterBody(s) == IF Is(s, {"continue"}) THEN [s EXCEPT !.go = "on"] ELSE s
AfterLoop(s) == IF Is(s, {"break"}) THEN [s EXCEPT !.go = "on"] ELSE s

\* A while or for loop.  ran says whether its body has run.
Loop(s, l, inc, ran) ==
  Then(EvalAll(s, l.cond), LAMBDA r :
    IF \A i \in DOMAIN l.cond : True(r, r.val[i])
      THEN LET q == AfterBody(Leave(r, ExecAll(r, l.body)))
               p == Then(q, LAMBDA h : EvalAll(h, inc))
           IN  IF Is(p, {"on"}) THEN Loop(p, l, inc, TRUE) ELSE AfterLoop(p)
      ELSE IF ran THEN r ELSE ExecAll(r, l.els))

Foreach(s, l) ==
  Then(Eval(s, l.a), LAMBDA r :
    LET keys == KeysIn(r, r.val)
        Round(q, k) ==
          Then(q, LAMBDA p :
            LET at == ElementIn(p, r.val, k)
                named == IF Len(l.names) = 1 THEN New(p, l.names[1], at)
                         ELSE New(New(p, l.names[1], k), l.names[2], at)
            IN  AfterBody(Leave(p, ExecAll(named, l.body))))
    IN  IF keys = <<>> THEN ExecAll(r, l.els) ELSE AfterLoop(FoldLeft(Round, r, keys)))

\* The first arm for the value, or else the default arm.
Switch(s, l) ==
  Then(Eval(s, l.a), LAMBDA r :
    LET hits == SelectSeq(l.arms, LAMBDA arm : arm.v # <<>> /\ Equal(r.val, arm.v[1]))
        arms == hits \o SelectSeq(l.arms, LAMBDA arm : arm.v = <<>>)
    IN  IF arms = <<>> THEN r ELSE AfterLoop(ExecAll(r, arms[1].body)))

Exec(s, c) ==
  IF ~Is(s, {"on"}) THEN s
  ELSE CASE c.k = "if" -> Leave(s, Then(Eval(s, c.c), LAMBDA r :
                                     ExecAll(r, IF True(r, r.val) THEN c.yes ELSE c.no)))
         [] c.k = "while" -> Leave(s, Loop(s, [cond |-> <<c.c>>, body |-> c.body,
                                               els |-> c.els], <<>>, FALSE))
         [] c.k = "for" -> Leave(s, Then(EvalAll(s, c.init), LAMBDA r :
                                           Loop(r, c, c.inc, FALSE)))
         [] c.k = "foreach" -> Leave(s, Foreach(s, c))
         [] c.k = "switch" -> Leave(s, Switch(s, c))
         [] c.k = "return" ->
              Then(EvalAll(s, c.args), LAMBDA r :
                LET q == IF Len(c.args) > 1 THEN NewList(r, r.val)
                         ELSE Gives(r, IF c.args = <<>> THEN None ELSE r.val[1])
                IN  [q EXCEPT !.go = "return"])
         [] c.k \in {"break", "continue"} -> [s EXCEPT !.go = c.k]
         [] OTHER -> Eval(s, c)

-----------------------------------------------------------------------------
\* All globals exist from the beginning and get their values in order; then
\* main is called.
Start == FoldLeft(LAMBDA s, x : New(s, x, None), Begin, GlobalNames)
Initial == FoldLeft(LAMBDA s, d : IF d.k = "global" THEN Exec(s, [k |-> "set", x |-> d.name,
                                                                  a |-> d.a])
                                  ELSE s, Start, tree)
End == Then(Initial, LAMBDA s : CallNamed(s, "main", <<>>))

Meant == Outcome(Is(End, {"on"}), End.out, End.val)
=============================================================================
