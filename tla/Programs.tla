------------------------------ MODULE Programs ------------------------------
(***************************************************************************)
(* Sample programs, as parse trees for CodeGen, and constructors to write  *)
(* them with.  A program begins with its function main.                    *)
(***************************************************************************)
EXTENDS CodeGen

I(n) == [k |-> "lit", v |-> MakeInt(n)]
S(n) == [k |-> "lit", v |-> MakeString(n)]
V(x) == [k |-> "var", x |-> x]
Bin(op, a, b) == [k |-> "bin", op |-> op, a |-> a, b |-> b]
Not(a) == [k |-> "not", a |-> a]
And(a, b) == [k |-> "and", a |-> a, b |-> b]
Or(a, b) == [k |-> "or", a |-> a, b |-> b]
Cond(c, a, b) == [k |-> "cond", c |-> c, a |-> a, b |-> b]
VarDecl(x, a) == [k |-> "let", names |-> <<x>>, a |-> a]
VarsFrom(names, a) == [k |-> "let", names |-> names, a |-> a]
Vars(names) == [k |-> "declare", names |-> names]
Unpack(names, a) == [k |-> "unpack", names |-> names, a |-> a]
Negate(a) == [k |-> "neg", a |-> a]
Step(x, op) == [k |-> "step", x |-> x, op |-> op]
Method(a, f, args) == [k |-> "method", a |-> a, f |-> f, args |-> args]
Object(entries) == [k |-> "object", entries |-> entries]
Entry(key, a) == [key |-> <<key>>, a |-> a]
Next(a) == [key |-> <<>>, a |-> a]
KeyOf(a, key) == [k |-> "key", a |-> a, key |-> MakeString(key)]
Put(x, a) == [k |-> "set", x |-> x, a |-> a]
Update(x, op, a) == [k |-> "update", x |-> x, op |-> op, a |-> a]
CallTo(f, args) == [k |-> "call", f |-> f, args |-> args]
Apply(f, args) == [k |-> "apply", a |-> f, args |-> args]
Array(args) == [k |-> "list", args |-> args]
At(a, i) == [k |-> "index", a |-> a, i |-> i]
Fn(params, body) == [k |-> "fn", params |-> params, variadic |-> FALSE, body |-> body]
IfElse(c, yes, no) == [k |-> "if", c |-> c, yes |-> yes, no |-> no]
WhileDo(c, body, els) == [k |-> "while", c |-> c, body |-> body, els |-> els]
ForDo(init, cond, inc, body, els) ==
  [k |-> "for", init |-> <<init>>, cond |-> <<cond>>, inc |-> <<inc>>, body |-> body,
   els |-> els]
Each(names, a, body, els) ==
  [k |-> "foreach", names |-> names, a |-> a, body |-> body, els |-> els]
SwitchOn(a, arms) == [k |-> "switch", a |-> a, arms |-> arms]
OnValue(n, body) == [v |-> <<MakeInt(n)>>, body |-> body]
OnOther(body) == [v |-> <<>>, body |-> body]
Give(a) == [k |-> "return", args |-> <<a>>]
Break == [k |-> "break"]
Continue == [k |-> "continue"]
\* x:path[i] = a and x:path[i] op= a, without the index if i is <<>>.
PutIn(x, path, i, a) ==
  [k |-> "setat", x |-> x, path |-> [j \in DOMAIN path |-> MakeString(path[j])], i |-> i, a |-> a]
UpdateIn(x, path, i, op, a) ==
  [k |-> "updateat", x |-> x, path |-> [j \in DOMAIN path |-> MakeString(path[j])], i |-> i,
   op |-> op, a |-> a]
PutAt(x, i, a) == PutIn(x, <<>>, <<i>>, a)
UpdateAtIndex(x, i, op, a) == UpdateIn(x, <<>>, <<i>>, op, a)
Show(args) == CallTo("print", args)

Define(name, params, body) ==
  [k |-> "function", name |-> name, params |-> params, variadic |-> FALSE, body |-> body]
DefineVariadic(name, params, body) == [Define(name, params, body) EXCEPT !.variadic = TRUE]
Global(x, a) == [k |-> "global", name |-> x, a |-> a]
Main(body) == <<Define("main", <<>>, body)>>

-----------------------------------------------------------------------------
(* Programs whose meaning both machines agree on *)

\* A while loop with an if that leaves it, and an else branch that does not
\* run.
Counting ==
  Main(<<VarDecl("i", I(0)),
         WhileDo(Bin("LT", V("i"), I(3)),
                 <<IfElse(Bin("EQ", V("i"), I(1)), <<Update("i", "ADD", I(1)), Continue>>,
                          <<Show(<<V("i")>>)>>),
                   IfElse(Bin("EQ", V("i"), I(2)), <<Break>>, <<>>),
                   Update("i", "ADD", I(1))>>,
                 <<Show(<<S(7)>>)>>),
         Give(V("i"))>>)

\* for with break, continue and an else branch that runs; two scopes with
\* the same name.
Loops ==
  Main(<<ForDo(VarDecl("i", I(0)), Bin("LT", V("i"), I(4)), Update("i", "ADD", I(1)),
               <<VarDecl("j", Bin("MUL", V("i"), V("i"))),
                 IfElse(Bin("EQ", V("i"), I(1)), <<Continue>>, <<>>),
                 IfElse(Bin("EQ", V("j"), I(9)), <<Break>>, <<>>),
                 Show(<<V("i"), V("j")>>)>>, <<>>),
         ForDo(VarDecl("i", I(5)), Bin("LT", V("i"), I(4)), Update("i", "ADD", I(1)),
               <<Show(<<V("i")>>)>>, <<Show(<<I(8)>>)>>)>>)

\* foreach over an array with an element set, updated and added, and over
\* an empty array.
Arrays ==
  Main(<<VarDecl("a", Array(<<I(4), S(5)>>)),
         PutAt("a", I(2), I(6)),
         UpdateAtIndex("a", S(0), "ADD", I(3)),
         Each(<<"x", "y">>, V("a"), <<IfElse(Bin("EQ", V("x"), S(1)), <<Continue>>, <<>>),
                                      Show(<<V("x"), V("y")>>)>>, <<Show(<<I(0)>>)>>),
         Each(<<"x">>, Array(<<>>), <<Show(<<V("x")>>)>>, <<Show(<<I(9)>>)>>),
         Give(At(V("a"), I(1)))>>)

\* Every arm of a switch, with the default arm last.
Switching ==
  Main(<<ForDo(VarDecl("i", I(1)), Bin("LT", V("i"), I(4)), Update("i", "ADD", I(1)),
               <<SwitchOn(V("i"), <<OnValue(1, <<Show(<<I(10)>>)>>),
                                    OnValue(2, <<Break, Show(<<I(20)>>)>>),
                                    OnOther(<<Show(<<I(30)>>)>>)>>)>>, <<>>)>>)

\* Recursion, globals, missing and variadic arguments.
Calling ==
  <<Define("main", <<>>, <<Put("total", CallTo("other", <<I(2)>>)),
                           Show(<<V("total"), CallTo("rest", <<I(1), I(2), I(3)>>)>>),
                           Give(At(CallTo("pair", <<I(1)>>), I(1)))>>),
    Define("pair", <<"x", "y">>, <<[k |-> "return", args |-> <<V("x"), V("y")>>]>>),
    Define("other", <<"n">>,
           <<IfElse(Bin("LT", V("n"), I(1)), <<Give(V("step"))>>, <<>>),
             Give(Bin("ADD", CallTo("other", <<Bin("SUB", V("n"), I(1))>>), V("n")))>>),
    DefineVariadic("rest", <<"first", "others">>, <<Give(CallTo("len", <<V("others")>>))>>),
    Global("step", I(5)),
    Global("total", Bin("ADD", V("step"), I(1)))>>

\* A closure that reads a captured variable and returns another closure.
Closures ==
  Main(<<VarDecl("k", I(3)),
         VarDecl("f", Fn(<<"x">>, <<Give(Fn(<<"y">>, <<Give(Bin("ADD", Bin("MUL", V("k"), V("x")),
                                                                V("y")))>>))>>)),
         Give(Apply(Apply(V("f"), <<I(2)>>), <<I(1)>>))>>)

\* Conditional expressions whose value is used and not stored.
Conditions ==
  <<Define("main", <<>>, <<Show(<<Cond(CallTo("other", <<I(1)>>), I(1), I(2)),
                                  And(I(1), CallTo("other", <<I(2)>>))>>),
                           Give(Or(CallTo("other", <<I(0)>>), Not(I(0))))>>),
    Define("other", <<"n">>, <<Show(<<V("n")>>), Give(V("n"))>>)>>

\* Operators, the two forms of a step, and declarations of several variables.
\* Those that are no integers divide each other.
Pairs == {<<I(7), I(2)>>, <<I(-7), I(2)>>, <<S(2), I(-2)>>, <<S(3), S(3)>>, <<I(0), S(2)>>,
          <<[k |-> "lit", v |-> MakeFloat(-1)], [k |-> "lit", v |-> MakeBool(TRUE)]>>}
Operate(op, p) ==
  Main(<<VarsFrom(<<"x", "_", "y">>, Array(<<p[1], I(8), p[2]>>)), Vars(<<"z", "_">>),
         Show(<<Bin(op, V("x"), V("y")), Negate(Bin(op, V("y"), V("x")))>>),
         Put("z", Step("x", "ADD")), Unpack(<<"x", "y">>, Array(<<V("y"), V("x")>>)),
         Show(<<V("x"), V("y"), V("z"), Step("x", "SUB"), V("x"), Negate(S(5))>>),
         Give(Unpack(<<"_", "z">>, V("z")))>>)
Operating == {Operate(op, p) : op \in BinaryOps, p \in Pairs}

\* Objects with keys of every kind, chains of keys, and what is not there.
Objects ==
  <<Define("main", <<>>,
      <<VarDecl("o", Object(<<Entry(MakeInt(3), I(1)), Next(I(2)),
                              Entry(MakeString(8), Object(<<Entry(MakeInt(1), I(4)), Next(I(5)),
                                                            Entry(MakeInt(1), I(6))>>)),
                              Next(Array(<<>>))>>)),
        PutIn("o", <<8, 2>>, <<>>, Negate(I(3))),
        UpdateIn("o", <<8, 1>>, <<>>, "ADD", KeyOf(V("o"), 4)),
        UpdateIn("o", <<8>>, <<Method(V("o"), "len", <<>>)>>, "ADD", I(2)),
        PutIn("o", <<5>>, <<I(0)>>, KeyOf(KeyOf(V("o"), 8), 2)),
        Each(<<"k", "v">>, KeyOf(V("o"), 8), <<Show(<<V("k"), V("v")>>)>>, <<>>),
        Show(<<KeyOf(V("o"), 3), KeyOf(V("o"), 4), At(KeyOf(V("o"), 5), I(0)),
               KeyOf(KeyOf(V("o"), 9), 1), KeyOf(S(7), 0)>>),
        ForDo(PutIn("o", <<0>>, <<>>, I(0)), Bin("LT", KeyOf(V("o"), 0), I(2)),
              UpdateIn("o", <<0>>, <<>>, "ADD", I(1)),
              <<UpdateIn("o", <<8, 1>>, <<>>, "ADD", I(1))>>, <<>>),
        Give(Method(V("o"), "second", <<KeyOf(KeyOf(V("o"), 8), 1)>>))>>),
    Define("second", <<"x", "y">>, <<Give(V("y"))>>)>>

\* Errors at run time, after something has been printed.
Failing(a) == Main(<<Show(<<I(1)>>), VarDecl("f", Fn(<<>>, <<Give(a)>>)),
                     Show(<<Apply(V("f"), <<>>)>>)>>)
Failures == {Failing(CallTo("nowhere", <<I(1)>>)), Failing(Apply(I(1), <<>>)),
             Failing(Bin("ADD", V("f"), I(1))), Failing(Bin("LT", I(1), Array(<<>>))),
             Failing(Bin("MOD", I(1), S(0))), Failing(Negate(V("f")))}
            \cup {Main(<<Show(<<I(1)>>), a>>) :
                  a \in {CallTo("nowhere", <<>>), Apply(I(1), <<>>),
                         Bin("MUL", Fn(<<>>, <<>>), I(1)), Bin("DIV", I(1), Array(<<>>)),
                         Negate(Fn(<<>>, <<>>))}}

\* A closure that calls a function twice, where the second call has an error.
\* The function shows what it shows, if anything, before that.
CallsTwice(shown) ==
  <<Define("main", <<>>,
           <<VarDecl("f", Fn(<<>>, <<ForDo(VarDecl("i", I(1)), Bin("LT", V("i"), I(3)),
                                           Update("i", "ADD", I(1)),
                                           <<CallTo("other", <<V("i")>>)>>, <<>>)>>)),
             Apply(V("f"), <<>>)>>),
    Define("other", <<"n">>, shown \o <<IfElse(Bin("EQ", V("n"), I(2)),
                                              <<CallTo("nowhere", <<>>)>>, <<>>)>>)>>
FailingTwice == CallsTwice(<<>>)

\* Errors that the parser finds.
Rejected == {Main(<<Show(<<I(1)>>), V("x")>>),
             Main(<<Unpack(<<"x", "y">>, Array(<<>>))>>), Main(<<Step("x", "ADD")>>),
             Main(<<Show(<<I(1)>>), Break>>),
             Main(<<WhileDo(I(0), <<SwitchOn(I(1), <<OnValue(1, <<Continue>>)>>)>>, <<>>)>>)}

\* Every loop in every loop, with a way out of the inner one and an else
\* branch.
LoopOver(kind, i, body, els) ==
  CASE kind = "while" ->
         <<VarDecl(i, I(0)),
           WhileDo(Bin("LT", V(i), I(2)), <<Update(i, "ADD", I(1))>> \o body, els)>>
    [] kind = "for" ->
         <<ForDo(VarDecl(i, I(0)), Bin("LT", V(i), I(2)), Update(i, "ADD", I(1)), body, els)>>
    [] kind = "foreach" -> <<Each(<<i>>, Array(<<I(1), S(2)>>), body, els)>>
    [] kind = "switch" -> <<VarDecl(i, I(2)), SwitchOn(V(i), <<OnValue(1, els), OnValue(2, body),
                                                             OnOther(els)>>)>>

Exits == {Show(<<I(5)>>), Break, Continue, Give(V("i")),
          IfElse(Bin("EQ", V("n"), I(1)), <<Break>>, <<Continue>>)}

Nested ==
  {Main(<<VarDecl("n", I(0))>>
        \o LoopOver(outer, "i",
                    LoopOver(inner, "j", <<Update("n", "ADD", I(1)), x, Show(<<V("j")>>)>>,
                             <<Show(<<I(8)>>)>>) \o <<Show(<<V("n")>>)>>,
                    <<Show(<<I(9)>>)>>)
        \o <<Give(V("n"))>>) :
     outer \in {"while", "for", "foreach"}, inner \in {"while", "for", "foreach", "switch"},
     x \in Exits}

-----------------------------------------------------------------------------
(* Programs that do not do what they say *)

\* The assignment to an element is an argument of a call, in a function and in
\* a closure.
ElementAsValue ==
  Main(<<VarDecl("o", Array(<<I(1)>>)),
         VarDecl("f", Fn(<<"x">>, <<Show(<<PutAt("o", I(0), I(5))>>)>>)),
         Show(<<PutAt("o", I(0), I(6))>>), Give(Apply(V("f"), <<I(1)>>))>>)

\* It is an operand, where there is nothing else below it.
ElementAsOperand ==
  <<Define("main", <<>>, <<Give(Bin("ADD", I(1), PutAt("o", I(0), I(5))))>>),
    Global("o", Array(<<I(1)>>))>>

\* The value of a conditional expression is stored.
MergedValue == Main(<<VarDecl("x", Cond(I(1), I(2), I(3))), Give(V("x"))>>)

\* A closure stores to a variable of the function it was created in.
StoredCapture ==
  Main(<<VarDecl("k", I(1)), VarDecl("f", Fn(<<>>, <<Put("k", I(2)), Give(I(0))>>)),
         Apply(V("f"), <<>>), Give(V("k"))>>)

\* Both in one program: the variable that a closure stores to, and the
\* conditional expression that is stored, are shown.
LostStores ==
  Main(<<VarDecl("k", I(1)), VarDecl("f", Fn(<<>>, <<Put("k", I(2)), Give(I(0))>>)),
         Apply(V("f"), <<>>), Show(<<V("k")>>),
         VarDecl("x", Cond(I(1), I(2), I(3))), Show(<<V("x")>>)>>)

\* The increment of a for loop contains a jump.  It leads to the call of tick.
JumpInIncrement ==
  <<Define("main", <<>>,
           <<Show(<<I(1), I(2), I(3), I(4)>>), CallTo("tick", <<>>),
             IfElse(Bin("GT", V("n"), I(1)), <<Give(V("n"))>>, <<>>),
             ForDo(VarDecl("i", I(0)), Bin("LT", V("i"), I(2)),
                   Update("i", "ADD", Cond(I(1), I(1), I(2))), <<Show(<<V("i")>>)>>, <<>>)>>),
    Define("tick", <<>>, <<Update("n", "ADD", I(1))>>),
    Global("n", I(0))>>

\* The variable declared last holds a string, and two numbers are printed.
StringBelow == Main(<<VarDecl("s", S(7)), Show(<<I(1), I(2)>>)>>)

\* A call that fails, after it has succeeded before, and fails again.
CalledAgain == CallsTwice(<<Show(<<V("n")>>)>>)

\* A call that fails the second time that it is made, and never again.
SucceedsThen(again) ==
  <<Define("main", <<>>,
           <<VarDecl("f", Fn(<<>>, <<ForDo(VarDecl("i", I(1)), Bin("LT", V("i"), I(3)),
                                           Update("i", "ADD", I(1)),
                                           <<Show(<<CallTo("other", <<V("i")>>)>>)>>, <<>>)>>)),
             Apply(V("f"), <<>>), Show(<<I(9)>>)>>),
    Define("other", <<"i">>, again),
    Define("inner", <<"i">>, <<Update("n", "ADD", I(1)), Show(<<V("n")>>),
                               IfElse(Bin("EQ", V("n"), I(2)), <<CallTo("nowhere", <<>>)>>, <<>>),
                               Give(V("i"))>>),
    Global("n", I(0))>>

FailingOnce ==
  {SucceedsThen(<<Give(CallTo("inner", <<V("i")>>))>>),
   SucceedsThen(<<Update("n", "ADD", I(1)),
                  IfElse(Bin("EQ", V("n"), I(2)), <<CallTo("nowhere", <<>>)>>, <<>>),
                  Give(V("n"))>>)}

\* A built-in function is called without its argument.
ErrorIgnored == Main(<<Show(<<CallTo("len", <<>>)>>)>>)
=============================================================================
