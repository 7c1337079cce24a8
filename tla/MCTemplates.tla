---------------------------- MODULE MCTemplates ----------------------------
(***************************************************************************)
(* All sequences of up to five pieces, two elements deep or more; elements *)
(* with every list of up to three attributes of eight; every expression    *)
(* alone; formats of up to six characters.                                 *)
(***************************************************************************)
EXTENDS Templates, ValueText

MCNumber == [k \in {"0", "7", "10"} |-> CASE k = "0" -> 0 [] k = "7" -> 7 [] k = "10" -> 10]
MCAlphabet == <<"a", "b", "style", "{">>

A == Path(<<"a">>)
Pieces ==
  {Text("t"), Braced(A), Tag("d", <<>>), Tag("p", <<>>), Fragment,
   SelfClosing("d", <<Dynamic("a", A)>>), Closing("d"), Closing("p"), Closing(""), Broken}

\* Two texts in a row would be one.
Structures ==
  {s \in UNION {[1..n -> Pieces] : n \in 0..5} :
     \A i \in 1..(Len(s) - 1) : s[i].k # "text" \/ s[i + 1].k # "text"}

Attributes ==
  {Static("a", "s"), Flag("a"), Dynamic("a", A), Dynamic("a", Literal(Bool(FALSE))),
   Dynamic("style", Path(<<"b">>)), Static("b", "s"), Spread(Path(<<"b">>)), Spread(A)}

Tagged ==
  {<<Tag("d", as), Closing("d")>> : as \in UNION {[1..n -> Attributes] : n \in 1..3}}

Expressions ==
  {A, Path(<<>>), Path(<<"b">>), Path(<<"b", "0">>), Path(<<"b", "7", "a">>),
   Path(<<"a", "0">>), Literal(Str("l")), Literal(None), Literal(Bool(TRUE))}

MCSources == Structures \cup Tagged \cup {<<Braced(e)>> : e \in Expressions}

MCFormats == UNION {[1..n -> {"{", "}", "a", "x"}] : n \in 0..6}

\* An array whose keys were not inserted in the order they are rendered in, and
\* one within it; names that an attribute has too.
Inner == Arr(<<<<"a", Str("i")>>, <<"0", Bool(TRUE)>>>>)
Nested ==
  Arr(<<<<"style", Str("s")>>, <<"a", None>>, <<"10", Str("u")>>, <<"7", Inner>>, <<"0", Str("v")>>>>)
MCValues ==
  {None, Bool(TRUE), Bool(FALSE), Str("l"), Str("i"), Str("s"), Str("u"), Str("v"), Str("{a}"),
   Inner, Nested}
MCPropMaps ==
  {<<>>,
   [x \in {"a"} |-> Bool(TRUE)],
   [x \in {"a", "b"} |->
      CASE x = "a" -> Str("{a}")
        [] x = "b" -> Nested]}
=============================================================================
