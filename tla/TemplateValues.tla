-------------------------- MODULE TemplateValues ---------------------------
(***************************************************************************)
(* What templates are made of and filled with: attributes, expressions,    *)
(* values, and the output as a sequence of atoms.                          *)
(***************************************************************************)
EXTENDS Integers, FiniteSets, SequencesExt

CONSTANTS
  Number,    \* Number[k]: the number std::from_chars reads from the whole of a key
  Alphabet   \* all other keys, in alphabetical order

Static(name, s) == [kind |-> "static", name |-> name, value |-> s]
Flag(name) == [kind |-> "flag", name |-> name]
Dynamic(name, e) == [kind |-> "expr", name |-> name, value |-> e]
Spread(e) == [kind |-> "spread", value |-> e]

\* A literal, or a path: the names between the dots.
Literal(v) == [literal |-> v]
Path(names) == [path |-> names]

\* Tuples, so that values of different types can be compared.
None == <<"none">>
Bool(b) == <<"bool", b>>
Str(s) == <<"str", s>>
Arr(entries) == <<"arr", entries>>   \* pairs <<key, value>>
IsArr(v) == v[1] = "arr"
Entries(v) == v[2]

------------------------------------------------------------------------------
(* Resolving expressions *)

\* Numbers first and by value, then the others by text.
KeyLess(a, b) ==
  IF a \in DOMAIN Number /\ b \in DOMAIN Number THEN Number[a] < Number[b]
  ELSE \/ a \in DOMAIN Number
       \/ /\ b \notin DOMAIN Number
          /\ \E i, j \in DOMAIN Alphabet : i < j /\ Alphabet[i] = a /\ Alphabet[j] = b

OrderedEntries(v) == SortSeq(Entries(v), LAMBDA x, y : KeyLess(x[1], y[1]))

AsMap(v) == [key \in {x[1] : x \in ToSet(Entries(v))} |->
               (CHOOSE x \in ToSet(Entries(v)) : x[1] = key)[2]]

Lookup(name, map) == IF name \in DOMAIN map THEN map[name] ELSE None

\* Every name but the last must lead to an array; anything else is none.
PropPath(names, map) ==
  LET value[i \in DOMAIN names] ==
        IF i = 1 THEN Lookup(names[1], map)
        ELSE IF IsArr(value[i - 1]) THEN Lookup(names[i], AsMap(value[i - 1]))
        ELSE None
  IN  IF names = <<>> THEN None ELSE value[Len(names)]

Resolve(e, map) == IF "literal" \in DOMAIN e THEN e.literal ELSE PropPath(e.path, map)

------------------------------------------------------------------------------
(* Output *)

Mark(s) == <<<<"mark", s>>>>
Name(s) == <<<<"name", s>>>>
Raw(s) == <<<<"raw", s>>>>
Shown(v) == <<<<"value", v>>>>     \* value_to_string
Escaped(v) == <<<<"escaped", v>>>>  \* html_escape of it
Show(v, raw) == IF raw THEN Shown(v) ELSE Escaped(v)

Joined(parts, sep) ==
  FlattenSeq([i \in DOMAIN parts |-> IF i = 1 THEN parts[i] ELSE Mark(sep) \o parts[i]])
=============================================================================
