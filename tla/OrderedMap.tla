----------------------------- MODULE OrderedMap -----------------------------
(***************************************************************************)
(* What an array of UdonScript is to a program: keys in the order of their *)
(* insertion, each with a value, and the operations that treat the keys    *)
(* that are numbers as positions of a list.                                *)
(***************************************************************************)
EXTENDS Lists

CONSTANTS
  Keys,     \* the strings programs use as keys
  Values,   \* what entries hold
  None,     \* the value none
  Number,   \* Number[k]: what std::stoll makes of k, {} when it throws
  Decimal   \* Decimal[n]: std::to_string(n)

VARIABLES
  order,  \* the keys, oldest first
  value,  \* value[k] for each of them
  out     \* what the last operation returned

Elements(s) == {s[i] : i \in DOMAIN s}
Present == Elements(order)

\* A number as std::to_string writes it, or no number at all.
Plain(k) == \A n \in Number[k] : k = Decimal[n]
Numbered == {k \in Present : Number[k] # {}}
Num(k) == CHOOSE n \in Number[k] : TRUE

\* The number of keys that come before k in numeric order.
Rank(k) == Cardinality({j \in Numbered : Num(j) < Num(k)})

Names == Only(order, {k \in Present : Number[k] = {}})

TypeOK ==
  /\ order \in Seq(Keys)
  /\ \A i, j \in DOMAIN order : order[i] = order[j] => i = j
  /\ value \in [Present -> Values]
  /\ out \in Values \cup {None}

Init == order = <<>> /\ value = <<>> /\ out = None

Assign(k, v) ==
  /\ order' = IF k \in Present THEN order ELSE Append(order, k)
  /\ value' = [j \in Present \cup {k} |-> IF j = k THEN v ELSE value[j]]
  /\ out' = None

\* The keys are 0, 1, ..., each of them once.
Listed == Present = {Decimal[n] : n \in DOMAIN Decimal \cap 0..(Len(order) - 1)}

\* A push assigns the key of some number, and of a list the next one.  Of an
\* array with a hole, or with a name, no more is promised: the number may be
\* that of an entry.
Push(v) ==
  \E n \in DOMAIN Decimal : (Listed => n = Len(order)) /\ Assign(Decimal[n], v)

Remove(k) ==
  /\ order' = Only(order, Present \ {k})
  /\ value' = [j \in Present \ {k} |-> value[j]]
  /\ out' = IF k \in Present THEN value[k] ELSE None

Keep == UNCHANGED <<order, value>> /\ out' = None

\* The entry with the highest number goes, if that number is no less than 0.
Pop ==
  \/ /\ \A k \in Numbered : Num(k) < 0
     /\ Keep
  \/ \E k \in Numbered :
        /\ Num(k) >= 0
        /\ \A j \in Numbered : Num(j) <= Num(k)
        /\ Remove(Decimal[Num(k)])

\* With every number written in its shortest form, the lowest one goes and
\* the others become 0, 1, ... in numeric order, after the keys that are
\* names.
Rebuild(first, list) ==
  LET new == Names \o [i \in 1..(Len(first) + list) |-> Decimal[i - 1]] IN
  /\ order' = new
  /\ value' = [k \in Elements(new) |->
                 IF Number[k] = {} THEN value[k]
                 ELSE IF Num(k) < Len(first) THEN first[Num(k) + 1]
                 ELSE value[CHOOSE j \in Numbered :
                              Rank(j) = Num(k) - Len(first)
                                        + (Cardinality(Numbered) - list)]]

\* A key such as "1abc" counts as the number 1 without being it, and may be
\* lost or counted twice.  With one, there is no promise about the numbers
\* but that each is written in its shortest form and comes once; the names
\* are still in front, as they were.
RebuildNames ==
  LET n == Len(Names) IN
  /\ order' \in Seq(Keys) /\ n <= Len(order')
  /\ \A i, j \in DOMAIN order' : order'[i] = order'[j] => i = j
  /\ \A i \in DOMAIN order' :
       IF i <= n THEN order'[i] = Names[i] ELSE \E m \in DOMAIN Decimal : order'[i] = Decimal[m]
  /\ value' \in [Elements(order') -> Values]
  /\ \A i \in 1..n : value'[Names[i]] = value[Names[i]]
  /\ out' \in Values \cup {None}

Shift ==
  \/ Numbered = {} /\ Keep
  \/ /\ Numbered # {}
     /\ \A k \in Numbered : Plain(k)
     /\ Rebuild(<<>>, Cardinality(Numbered) - 1)
     /\ \E k \in Numbered : Rank(k) = 0 /\ out' = value[k]
  \/ (\E k \in Numbered : ~Plain(k)) /\ RebuildNames

Unshift(v) ==
  \/ /\ Cardinality(Numbered) \in DOMAIN Decimal
     /\ \A k \in Numbered : Plain(k)
     /\ Rebuild(<<v>>, Cardinality(Numbered))
     /\ out' = None
  \/ (\E k \in Numbered : ~Plain(k)) /\ RebuildNames

vars == <<order, value, out>>

Next ==
  \/ \E v \in Values : Push(v) \/ Unshift(v) \/ (\E k \in Keys : Assign(k, v))
  \/ \E k \in Keys : Remove(k)
  \/ Pop
  \/ Shift

Spec == Init /\ [][Next]_vars
=============================================================================
