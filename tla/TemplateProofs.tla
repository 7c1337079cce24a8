--------------------------- MODULE TemplateProofs ---------------------------
(***************************************************************************)
(* Proofs about template functions: the sources $jsx accepts are those     *)
(* whose tags pair up, and rendering the tree gives back the pieces of the *)
(* source in their order.                                                  *)
(***************************************************************************)
EXTENDS Templates, FiniteSetTheorems, SequenceTheorems, WellFoundedInduction, TLAPS

-----------------------------------------------------------------------------
(* Numbers *)

\* A non-empty set of numbers has a least element.
LEMMA LeastOf ==
  ASSUME NEW T \in SUBSET Nat, T # {}
  PROVE  \E d \in T : \A e \in T : d <= e
  <1> DEFINE less == {p \in Nat \X Nat : p[1] < p[2]}
  <1>1. IsWellFoundedOn(OpToRel(<, Nat), Nat)
    BY NatLessThanWellFounded
  <1>2. OpToRel(<, Nat) = less
    BY DEF OpToRel
  <1>3. IsWellFoundedOn(less, Nat)
    BY <1>1, <1>2
  <1>4. \E d \in T : \A e \in T : <<e, d>> \notin less
    <2> HIDE DEF less
    <2> QED BY <1>3, WFMin
  <1>5. PICK d \in T : \A e \in T : <<e, d>> \notin less
    BY <1>4
  <1>6. ASSUME NEW e \in T PROVE d <= e
    <2>1. d \in Nat /\ e \in Nat /\ <<e, d>> \in Nat \X Nat
      OBVIOUS
    <2>2. ~(<<e, d>>[1] < <<e, d>>[2])
      BY <1>5, <2>1
    <2> QED BY <2>1, <2>2
  <1> QED BY <1>6

\* A non-empty set of numbers below a bound has a greatest element.
LEMMA GreatestOf ==
  ASSUME NEW N \in Nat, NEW T \in SUBSET (0 .. N), T # {}
  PROVE  \E d \in T : \A e \in T : e <= d
  <1> DEFINE U == {N - e : e \in T}
  <1>1. U \in SUBSET Nat /\ U # {}
    OBVIOUS
  <1>2. PICK u \in U : \A v \in U : u <= v
    <2> HIDE DEF U
    <2> QED BY <1>1, LeastOf
  <1>3. PICK d \in T : u = N - d
    BY <1>2
  <1>4. \A e \in T : N - d <= N - e
    BY <1>2, <1>3
  <1> QED BY <1>4

-----------------------------------------------------------------------------
(* Sequences, whatever they are sequences of *)

IsSeq(s) == \E S : s \in Seq(S)

LEMMA IsSeqIntro ==
  ASSUME NEW n \in Nat, NEW s, s = [i \in 1 .. n |-> s[i]]
  PROVE  IsSeq(s) /\ Len(s) = n /\ DOMAIN s = 1 .. n
  <1> DEFINE S == {s[i] : i \in 1 .. n}
  <1>1. s \in [1 .. n -> S]
    OBVIOUS
  <1> HIDE DEF S
  <1>2. s \in Seq(S) /\ DOMAIN s = 1 .. n
    BY <1>1
  <1>3. Len(s) = n
    BY <1>2, LenProperties
  <1> QED BY <1>2, <1>3 DEF IsSeq

LEMMA IsSeqElim ==
  ASSUME NEW s, IsSeq(s)
  PROVE  Len(s) \in Nat /\ DOMAIN s = 1 .. Len(s) /\ s = [i \in 1 .. Len(s) |-> s[i]]
  <1>1. PICK S : s \in Seq(S)
    BY DEF IsSeq
  <1> QED BY <1>1

LEMMA EmptyIsSeq == IsSeq(<<>>) /\ Len(<<>>) = 0
  <1>1. <<>> \in Seq({})
    OBVIOUS
  <1> QED BY <1>1 DEF IsSeq

LEMMA IsSeqEqual ==
  ASSUME NEW s, NEW t, IsSeq(s), IsSeq(t), Len(s) = Len(t),
         \A i \in 1 .. Len(s) : s[i] = t[i]
  PROVE  s = t
  BY IsSeqElim

\* Two sequences are sequences over one set.
LEMMA CommonSet ==
  ASSUME NEW s, NEW t, IsSeq(s), IsSeq(t)
  PROVE  \E S : s \in Seq(S) /\ t \in Seq(S)
  <1>1. PICK A : s \in Seq(A)
    BY DEF IsSeq
  <1>2. PICK B : t \in Seq(B)
    BY DEF IsSeq
  <1>3. s \in Seq(A \cup B)
    BY <1>1, SeqMonotonic, A \subseteq A \cup B
  <1>4. t \in Seq(A \cup B)
    BY <1>2, SeqMonotonic, B \subseteq A \cup B
  <1> QED BY <1>3, <1>4

LEMMA ConcatIsSeq ==
  ASSUME NEW s, NEW t, IsSeq(s), IsSeq(t)
  PROVE  /\ IsSeq(s \o t) /\ Len(s \o t) = Len(s) + Len(t)
         /\ \A i \in 1 .. Len(s) + Len(t) :
              (s \o t)[i] = IF i <= Len(s) THEN s[i] ELSE t[i - Len(s)]
  <1>1. PICK S : s \in Seq(S) /\ t \in Seq(S)
    BY CommonSet
  <1>2. s \o t \in Seq(S)
    BY <1>1, ConcatProperties
  <1> QED BY <1>1, <1>2, ConcatProperties DEF IsSeq

LEMMA ConcatEmpty ==
  ASSUME NEW s, IsSeq(s)
  PROVE  s \o <<>> = s /\ <<>> \o s = s
  <1>1. PICK S : s \in Seq(S)
    BY DEF IsSeq
  <1> QED BY <1>1, ConcatEmptySeq

LEMMA ConcatAssoc ==
  ASSUME NEW s, NEW t, NEW u, IsSeq(s), IsSeq(t), IsSeq(u)
  PROVE  (s \o t) \o u = s \o (t \o u)
  <1>1. PICK S : s \in Seq(S) /\ t \in Seq(S)
    BY CommonSet
  <1>2. PICK U : u \in Seq(U)
    BY DEF IsSeq
  <1>3. s \in Seq(S \cup U) /\ t \in Seq(S \cup U)
    BY <1>1, SeqMonotonic, S \subseteq S \cup U
  <1>4. u \in Seq(S \cup U)
    BY <1>2, SeqMonotonic, U \subseteq S \cup U
  <1> QED BY <1>3, <1>4, ConcatAssociative

LEMMA AppendIsSeq ==
  ASSUME NEW s, NEW x, IsSeq(s)
  PROVE  /\ IsSeq(Append(s, x)) /\ Len(Append(s, x)) = Len(s) + 1
         /\ Append(s, x)[Len(s) + 1] = x
         /\ \A i \in 1 .. Len(s) : Append(s, x)[i] = s[i]
  <1>1. PICK S : s \in Seq(S)
    BY DEF IsSeq
  <1>2. s \in Seq(S \cup {x}) /\ x \in S \cup {x}
    BY <1>1, SeqMonotonic, S \subseteq S \cup {x}
  <1>3. Append(s, x) \in Seq(S \cup {x})
    BY <1>2, AppendProperties
  <1> QED BY <1>2, <1>3, AppendProperties DEF IsSeq
-----------------------------------------------------------------------------
(* FlattenSeq *)

SeqOfSeqs(ss) == IsSeq(ss) /\ \A i \in 1 .. Len(ss) : IsSeq(ss[i])

\* What FlattenSeq steps through, up to n.
IsFlattenTo(f, ss, n) ==
  f = [i \in 1 .. n |-> IF i = 1 THEN ss[i] ELSE f[i - 1] \o ss[i]]

LEMMA FlattenToStep ==
  ASSUME NEW f, NEW ss, NEW n \in Nat, IsFlattenTo(f, ss, n), NEW i \in 1 .. n
  PROVE  f[i] = IF i = 1 THEN ss[i] ELSE f[i - 1] \o ss[i]
  <1> DEFINE g == [j \in 1 .. n |-> IF j = 1 THEN ss[j] ELSE f[j - 1] \o ss[j]]
  <1>1. f = g
    BY DEF IsFlattenTo
  <1>2. g[i] = IF i = 1 THEN ss[i] ELSE f[i - 1] \o ss[i]
    OBVIOUS
  <1> HIDE DEF g
  <1> QED BY <1>1, <1>2

LEMMA FlattenToExists ==
  ASSUME NEW ss, NEW n \in Nat
  PROVE  \E f : IsFlattenTo(f, ss, n)
  <1> SUFFICES ASSUME ~ \E f : IsFlattenTo(f, ss, n) PROVE FALSE
    OBVIOUS
  <1>1. PICK m \in Nat :
          (~ \E f : IsFlattenTo(f, ss, m)) /\ \A k \in Nat : (~ \E f : IsFlattenTo(f, ss, k)) => m <= k
    BY LeastOf, {k \in Nat : ~ \E f : IsFlattenTo(f, ss, k)} # {}
  <1>2. m # 0
    <2>1. IsFlattenTo(<<>>, ss, 0)
      BY DEF IsFlattenTo
    <2> QED BY <1>1, <2>1
  <1>3. PICK f : IsFlattenTo(f, ss, m - 1)
    BY <1>1, <1>2
  <1> DEFINE g == [i \in 1 .. m |-> IF i = 1 THEN ss[i] ELSE f[i - 1] \o ss[i]]
  <1>4. IsFlattenTo(g, ss, m)
    <2>1. \A i \in 1 .. m - 1 : f[i] = IF i = 1 THEN ss[i] ELSE f[i - 1] \o ss[i]
      BY <1>1, <1>2, <1>3, FlattenToStep
    <2>2. \A i \in 1 .. m - 1 : g[i] = f[i]
      BY <2>1, <1>1
    <2>3. \A i \in 1 .. m : g[i] = IF i = 1 THEN ss[i] ELSE g[i - 1] \o ss[i]
      <3> SUFFICES ASSUME NEW i \in 1 .. m
                   PROVE  g[i] = IF i = 1 THEN ss[i] ELSE g[i - 1] \o ss[i]
        OBVIOUS
      <3>1. g[i] = IF i = 1 THEN ss[i] ELSE f[i - 1] \o ss[i]
        OBVIOUS
      <3>2. i # 1 => i - 1 \in 1 .. m - 1
        OBVIOUS
      <3> HIDE DEF g
      <3> QED BY <3>1, <3>2, <2>2
    <2>4. g = [i \in 1 .. m |-> IF i = 1 THEN ss[i] ELSE g[i - 1] \o ss[i]]
      BY <2>3
    <2> QED BY <2>4 DEF IsFlattenTo
  <1> QED BY <1>1, <1>4

\* Two functions of that form agree as far as both go.
LEMMA FlattenToAgree ==
  ASSUME NEW ss, NEW tt, NEW n \in Nat, NEW m \in Nat, n <= m,
         \A i \in 1 .. n : ss[i] = tt[i],
         NEW f, NEW g, IsFlattenTo(f, ss, n), IsFlattenTo(g, tt, m)
  PROVE  \A i \in 1 .. n : f[i] = g[i]
  <1> SUFFICES ASSUME {i \in 1 .. n : f[i] # g[i]} # {} PROVE FALSE
    OBVIOUS
  <1>1. PICK d \in 1 .. n : f[d] # g[d] /\ \A e \in 1 .. n : f[e] # g[e] => d <= e
    BY LeastOf, {i \in 1 .. n : f[i] # g[i]} \in SUBSET Nat
  <1>2. /\ f[d] = IF d = 1 THEN ss[d] ELSE f[d - 1] \o ss[d]
        /\ g[d] = IF d = 1 THEN tt[d] ELSE g[d - 1] \o tt[d]
    BY <1>1, FlattenToStep
  <1>3. d # 1 => f[d - 1] = g[d - 1]
    <2> SUFFICES ASSUME d # 1 PROVE f[d - 1] = g[d - 1]
      OBVIOUS
    <2>1. d - 1 \in 1 .. n /\ ~(d <= d - 1)
      OBVIOUS
    <2> QED BY <2>1, <1>1
  <1> QED BY <1>1, <1>2, <1>3

LEMMA FlattenIs ==
  ASSUME NEW ss, NEW n \in Nat, Len(ss) = n, n # 0, NEW f, IsFlattenTo(f, ss, n)
  PROVE  FlattenSeq(ss) = f[n]
  <1> DEFINE g == CHOOSE h : IsFlattenTo(h, ss, n)
  <1>1. IsFlattenTo(g, ss, n)
    BY FlattenToExists
  <1>2. FlattenSeq(ss) = g[n]
    BY DEF FlattenSeq, IsFlattenTo
  <1>3. g[n] = f[n]
    <2> HIDE DEF g
    <2> QED BY <1>1, FlattenToAgree
  <1> QED BY <1>2, <1>3

LEMMA FlattenEmpty ==
  ASSUME NEW ss, IsSeq(ss), Len(ss) = 0
  PROVE  FlattenSeq(ss) = <<>>
  <1>1. ss = <<>>
    BY IsSeqEqual, EmptyIsSeq
  <1> QED BY <1>1 DEF FlattenSeq

LEMMA FlattenOne ==
  ASSUME NEW x
  PROVE  FlattenSeq(<<x>>) = x
  <1> DEFINE f == [i \in 1 .. 1 |-> x]
  <1>1. IsFlattenTo(f, <<x>>, 1)
    <2>1. f = [i \in 1 .. 1 |-> IF i = 1 THEN <<x>>[i] ELSE f[i - 1] \o <<x>>[i]]
      OBVIOUS
    <2> QED BY <2>1 DEF IsFlattenTo
  <1>2. Len(<<x>>) = 1
    OBVIOUS
  <1>3. FlattenSeq(<<x>>) = f[1]
    <2> HIDE DEF f
    <2>1. 1 \in Nat /\ 1 # 0
      OBVIOUS
    <2> QED BY <1>1, <1>2, <2>1, FlattenIs
  <1> QED BY <1>3

LEMMA FlattenAppend ==
  ASSUME NEW ss, IsSeq(ss), NEW x, IsSeq(x)
  PROVE  FlattenSeq(Append(ss, x)) = FlattenSeq(ss) \o x
  <1> DEFINE n == Len(ss)
             tt == Append(ss, x)
  <1>1. n \in Nat /\ Len(tt) = n + 1 /\ tt[n + 1] = x /\ \A i \in 1 .. n : tt[i] = ss[i]
    BY AppendIsSeq, IsSeqElim
  <1>2. PICK f : IsFlattenTo(f, ss, n)
    BY FlattenToExists, <1>1
  <1>3. PICK g : IsFlattenTo(g, tt, n + 1)
    BY FlattenToExists, <1>1
  <1> HIDE DEF n, tt
  <1>4. FlattenSeq(tt) = g[n + 1]
    BY <1>1, <1>3, FlattenIs
  <1>5. g[n + 1] = IF n = 0 THEN tt[n + 1] ELSE g[n] \o tt[n + 1]
    <2> DEFINE m == n + 1
    <2>1. m \in Nat /\ m \in 1 .. m /\ m - 1 = n /\ (m = 1 <=> n = 0)
      BY <1>1
    <2>2. IsFlattenTo(g, tt, m)
      BY <1>3
    <2> HIDE DEF m
    <2>3. g[m] = IF m = 1 THEN tt[m] ELSE g[m - 1] \o tt[m]
      BY <2>1, <2>2, FlattenToStep
    <2>4. g[m] = IF n = 0 THEN tt[m] ELSE g[n] \o tt[m]
      BY <2>1, <2>3
    <2> QED BY <2>4 DEF m
  <1>6. CASE n = 0
    <2>1. FlattenSeq(ss) = <<>> /\ <<>> \o x = x
      BY <1>6, FlattenEmpty, ConcatEmpty DEF n
    <2> QED BY <1>1, <1>4, <1>5, <1>6, <2>1 DEF tt
  <1>7. CASE n # 0
    <2>1. FlattenSeq(ss) = f[n]
      BY <1>1, <1>2, <1>7, FlattenIs DEF n
    <2>2. f[n] = g[n]
      BY <1>1, <1>2, <1>3, <1>7, FlattenToAgree
    <2> QED BY <1>1, <1>4, <1>5, <1>7, <2>1, <2>2 DEF tt
  <1> QED BY <1>6, <1>7 DEF n, tt

LEMMA FlattenIsSeq ==
  ASSUME NEW ss, SeqOfSeqs(ss)
  PROVE  IsSeq(FlattenSeq(ss))
  <1> DEFINE n == Len(ss)
  <1>1. n \in Nat
    BY IsSeqElim DEF SeqOfSeqs
  <1>2. CASE n = 0
    BY <1>2, FlattenEmpty, EmptyIsSeq DEF SeqOfSeqs
  <1>3. CASE n # 0
    <2>1. PICK f : IsFlattenTo(f, ss, n)
      BY FlattenToExists, <1>1
    <2>2. SUFFICES ASSUME {i \in 1 .. n : ~IsSeq(f[i])} # {} PROVE FALSE
      BY <1>1, <1>3, <2>1, FlattenIs
    <2> HIDE DEF n
    <2>3. PICK d \in 1 .. n : ~IsSeq(f[d]) /\ \A e \in 1 .. n : ~IsSeq(f[e]) => d <= e
      BY <2>2, LeastOf, {i \in 1 .. n : ~IsSeq(f[i])} \in SUBSET Nat
    <2>4. f[d] = IF d = 1 THEN ss[d] ELSE f[d - 1] \o ss[d]
      BY <1>1, <2>1, FlattenToStep
    <2>5. IsSeq(ss[d])
      BY DEF SeqOfSeqs, n
    <2>6. d # 1 => IsSeq(f[d - 1])
      <3> SUFFICES ASSUME d # 1 PROVE IsSeq(f[d - 1])
        OBVIOUS
      <3>1. d - 1 \in 1 .. n /\ ~(d <= d - 1)
        BY <1>1
      <3> QED BY <2>3, <3>1
    <2> QED BY <2>3, <2>4, <2>5, <2>6, ConcatIsSeq
  <1> QED BY <1>2, <1>3
-----------------------------------------------------------------------------
(* Resolving expressions *)

LEMMA LookupType ==
  ASSUME NEW map \in PropMaps, NEW x
  PROVE  Lookup(x, map) \in Values \cup {None}
  BY TemplatesAssumption DEF Lookup

LEMMA LookupEntryType ==
  ASSUME NEW v \in Values, IsArr(v), NEW x
  PROVE  Lookup(x, AsMap(v)) \in Values \cup {None}
  <1> DEFINE E == ToSet(Entries(v))
  <1>1. \A y \in E : y[2] \in Values
    <2>1. Entries(v) \in Seq(STRING \X Values)
      BY TemplatesAssumption
    <2> QED BY <2>1 DEF ToSet
  <1>2. ASSUME x \in DOMAIN AsMap(v) PROVE AsMap(v)[x] \in Values
    <2>1. x \in {y[1] : y \in E}
      BY <1>2 DEF AsMap
    <2>2. AsMap(v)[x] = (CHOOSE y \in E : y[1] = x)[2]
      BY <2>1 DEF AsMap
    <2> HIDE DEF E
    <2>3. \E y \in E : y[1] = x
      BY <2>1
    <2>4. (CHOOSE y \in E : y[1] = x) \in E
      BY <2>3
    <2> QED BY <2>2, <2>4, <1>1
  <1> QED BY <1>2 DEF Lookup

\* What PropPath steps through, up to n.
IsPathTo(value, names, map, n) ==
  value = [i \in 1 .. n |->
             IF i = 1 THEN Lookup(names[1], map)
             ELSE IF IsArr(value[i - 1]) THEN Lookup(names[i], AsMap(value[i - 1]))
             ELSE None]

LEMMA PathToStep ==
  ASSUME NEW value, NEW names, NEW map, NEW n \in Nat, IsPathTo(value, names, map, n),
         NEW i \in 1 .. n
  PROVE  value[i] = IF i = 1 THEN Lookup(names[1], map)
                    ELSE IF IsArr(value[i - 1]) THEN Lookup(names[i], AsMap(value[i - 1]))
                    ELSE None
  <1> DEFINE g == [j \in 1 .. n |->
                     IF j = 1 THEN Lookup(names[1], map)
                     ELSE IF IsArr(value[j - 1]) THEN Lookup(names[j], AsMap(value[j - 1]))
                     ELSE None]
  <1>1. value = g
    BY DEF IsPathTo
  <1>2. g[i] = IF i = 1 THEN Lookup(names[1], map)
               ELSE IF IsArr(value[i - 1]) THEN Lookup(names[i], AsMap(value[i - 1]))
               ELSE None
    OBVIOUS
  <1> HIDE DEF g
  <1> QED BY <1>1, <1>2

LEMMA PathToExists ==
  ASSUME NEW names, NEW map, NEW n \in Nat
  PROVE  \E value : IsPathTo(value, names, map, n)
  <1> DEFINE Has(k) == \E value : IsPathTo(value, names, map, k)
  <1> SUFFICES ASSUME ~ Has(n) PROVE FALSE
    OBVIOUS
  <1>1. PICK m \in Nat : (~ Has(m)) /\ \A k \in Nat : (~ Has(k)) => m <= k
    <2> HIDE DEF Has
    <2> QED BY LeastOf, {k \in Nat : ~ Has(k)} # {}
  <1>2. m # 0
    <2>1. IsPathTo(<<>>, names, map, 0)
      BY DEF IsPathTo
    <2> QED BY <1>1, <2>1
  <1>3. PICK f : IsPathTo(f, names, map, m - 1)
    BY <1>1, <1>2
  <1> DEFINE W(h, i) == IF i = 1 THEN Lookup(names[1], map)
                        ELSE IF IsArr(h[i - 1]) THEN Lookup(names[i], AsMap(h[i - 1]))
                        ELSE None
             g == [i \in 1 .. m |-> W(f, i)]
  <1>4. IsPathTo(g, names, map, m)
    <2>1. \A i \in 1 .. m - 1 : f[i] = W(f, i)
      BY <1>1, <1>2, <1>3, PathToStep
    <2>2. \A i \in 1 .. m - 1 : g[i] = f[i]
      <3> HIDE DEF W
      <3> QED BY <2>1, <1>1
    <2>3. \A i \in 1 .. m : g[i] = W(g, i)
      <3> SUFFICES ASSUME NEW i \in 1 .. m PROVE g[i] = W(g, i)
        OBVIOUS
      <3>1. g[i] = W(f, i)
        <4> HIDE DEF W
        <4> QED OBVIOUS
      <3>2. i # 1 => i - 1 \in 1 .. m - 1
        OBVIOUS
      <3> HIDE DEF g
      <3> QED BY <3>1, <3>2, <2>2
    <2>4. g = [i \in 1 .. m |-> W(g, i)]
      <3> HIDE DEF W
      <3>1. \A h : h = [i \in 1 .. m |-> W(f, i)] =>
               ((\A i \in 1 .. m : h[i] = W(g, i)) => h = [i \in 1 .. m |-> W(g, i)])
        OBVIOUS
      <3> QED BY <2>3, <3>1
    <2> HIDE DEF g
    <2> QED BY <2>4 DEF IsPathTo
  <1> QED BY <1>1, <1>4

\* A path leads to a value or to nothing.
LEMMA PropPathType ==
  ASSUME NEW names \in Seq(STRING), NEW map \in PropMaps
  PROVE  PropPath(names, map) \in Values \cup {None}
  <1> DEFINE n == Len(names)
             value == CHOOSE value : IsPathTo(value, names, map, n)
  <1>0. n \in Nat /\ DOMAIN names = 1 .. n /\ (names # <<>> => n # 0)
    OBVIOUS
  <1>1. IsPathTo(value, names, map, n)
    BY <1>0, PathToExists
  <1>2. PropPath(names, map) = IF names = <<>> THEN None ELSE value[n]
    BY <1>0 DEF PropPath, IsPathTo
  <1> HIDE DEF n, value
  <1>3. \A i \in 1 .. n : value[i] \in Values \cup {None}
    <2> SUFFICES ASSUME {i \in 1 .. n : value[i] \notin Values \cup {None}} # {} PROVE FALSE
      OBVIOUS
    <2>1. PICK d \in 1 .. n : /\ value[d] \notin Values \cup {None}
                              /\ \A e \in 1 .. n : value[e] \notin Values \cup {None} => d <= e
      BY LeastOf, {i \in 1 .. n : value[i] \notin Values \cup {None}} \in SUBSET Nat
    <2>2. value[d] = IF d = 1 THEN Lookup(names[1], map)
                     ELSE IF IsArr(value[d - 1]) THEN Lookup(names[d], AsMap(value[d - 1]))
                     ELSE None
      BY <1>0, <1>1, PathToStep
    <2>3. d # 1 => value[d - 1] \in Values \cup {None}
      <3> SUFFICES ASSUME d # 1 PROVE value[d - 1] \in Values \cup {None}
        OBVIOUS
      <3>1. d - 1 \in 1 .. n /\ ~(d <= d - 1)
        BY <1>0
      <3> QED BY <2>1, <3>1
    <2>4. ~IsArr(None)
      BY DEF IsArr, None
    <2> QED BY <2>1, <2>2, <2>3, <2>4, LookupType, LookupEntryType
  <1> QED BY <1>0, <1>2, <1>3

LEMMA ResolveType ==
  ASSUME NEW e \in Expression, NEW map \in PropMaps
  PROVE  Resolve(e, map) \in Values \cup {None}
  <1>1. CASE e \in [literal : Values]
    BY <1>1 DEF Resolve
  <1>2. CASE e \in [path : Seq(STRING)]
    <2>1. "literal" \notin DOMAIN e /\ e.path \in Seq(STRING)
      BY <1>2
    <2> QED BY <2>1, PropPathType DEF Resolve
  <1> QED BY <1>1, <1>2 DEF Expression
-----------------------------------------------------------------------------
(* What is rendered is a sequence *)

LEMMA AtomsAreSeqs ==
  ASSUME NEW s
  PROVE  /\ IsSeq(Mark(s)) /\ IsSeq(Name(s)) /\ IsSeq(Raw(s)) /\ IsSeq(<<s>>)
  <1>1. \A x : IsSeq(<<x>>)
    <2> TAKE x
    <2>1. <<x>> \in Seq({x})
      OBVIOUS
    <2> QED BY <2>1 DEF IsSeq
  <1> QED BY <1>1 DEF Mark, Name, Raw

LEMMA EvaluateIsSeq ==
  ASSUME NEW a \in Attribute, NEW map \in PropMaps
  PROVE  IsSeq(Evaluate(a, map))
  <1>1. \A x : IsSeq(<<x>>)
    BY AtomsAreSeqs
  <1>2. CASE a.kind = "spread"
    <2> DEFINE v == Resolve(a.value, map)
    <2>1. a.value \in Expression
      BY <1>2 DEF Attribute
    <2>2. v \in Values \cup {None}
      BY <2>1, ResolveType
    <2>3. CASE IsArr(v)
      <3>1. v \in Values
        BY <2>2, <2>3 DEF IsArr, None
      <3>2. Entries(v) \in Seq(STRING \X Values)
        BY <3>1, <2>3, TemplatesAssumption
      <3> DEFINE n == Len(Entries(v))
                 ev == [i \in DOMAIN Entries(v) |->
                          Evaluated(OrderedEntries(v)[i][1], OrderedEntries(v)[i][2], FALSE)]
      <3>3. n \in Nat /\ DOMAIN Entries(v) = 1 .. n
        BY <3>2
      <3>4. Evaluate(a, map) = ev
        BY <1>2, <2>3 DEF Evaluate
      <3>5. ev = [i \in 1 .. n |-> ev[i]]
        <4> HIDE DEF n
        <4> QED BY <3>3
      <3> HIDE DEF ev, n
      <3> QED BY <3>3, <3>4, <3>5, IsSeqIntro
    <2>4. CASE ~IsArr(v)
      BY <1>2, <2>4, EmptyIsSeq DEF Evaluate
    <2> QED BY <2>3, <2>4
  <1>3. CASE a.kind = "static"
    BY <1>1, <1>3 DEF Evaluate
  <1>4. CASE a.kind = "flag"
    BY <1>1, <1>4 DEF Evaluate
  <1>5. CASE a.kind = "expr"
    BY <1>1, <1>5 DEF Evaluate
  <1> QED BY <1>2, <1>3, <1>4, <1>5 DEF Attribute

LEMMA RenderAttributeIsSeq ==
  ASSUME NEW a
  PROVE  IsSeq(RenderAttribute(a))
  <1> DEFINE head == Mark(" ") \o Name(a.name)
             full == head \o Mark("=\"") \o <<<<"text", InAttribute(a.name, a.value, a.raw)>>>>
                     \o Mark("\"")
  <1>1. IsSeq(head)
    BY AtomsAreSeqs, ConcatIsSeq
  <1>2. IsSeq(full)
    <2> HIDE DEF head
    <2> DEFINE x == <<"text", InAttribute(a.name, a.value, a.raw)>>
    <2>1. IsSeq(<<x>>)
      BY AtomsAreSeqs
    <2> HIDE DEF x
    <2>2. IsSeq(head \o Mark("=\""))
      BY <1>1, AtomsAreSeqs, ConcatIsSeq
    <2>3. IsSeq(head \o Mark("=\"") \o <<x>>)
      BY <2>1, <2>2, ConcatIsSeq
    <2>4. IsSeq(head \o Mark("=\"") \o <<x>> \o Mark("\""))
      BY <2>3, AtomsAreSeqs, ConcatIsSeq
    <2> QED BY <2>4 DEF x
  <1>3. RenderAttribute(a) \in {<<>>, head, full}
    <2> QED BY DEF RenderAttribute
  <1> HIDE DEF head, full
  <1> QED BY <1>1, <1>2, <1>3, EmptyIsSeq

LEMMA RenderAttributesIsSeq ==
  ASSUME NEW attrs \in Seq(Attribute), NEW map \in PropMaps
  PROVE  IsSeq(RenderAttributes(attrs, map))
  <1> DEFINE evs == [i \in DOMAIN attrs |-> Evaluate(attrs[i], map)]
             all == EvaluateAttributes(attrs, map)
             parts == [i \in DOMAIN all |->
                         IF IsLast(i, all) THEN RenderAttribute(all[i]) ELSE <<>>]
  <1>1. SeqOfSeqs(evs)
    <2>1. Len(attrs) \in Nat /\ DOMAIN attrs = 1 .. Len(attrs)
      OBVIOUS
    <2>2. \A i \in DOMAIN attrs : IsSeq(evs[i])
      BY EvaluateIsSeq
    <2>3. evs = [i \in 1 .. Len(attrs) |-> evs[i]]
      BY <2>1
    <2> HIDE DEF evs
    <2> QED BY <2>1, <2>2, <2>3, IsSeqIntro DEF SeqOfSeqs
  <1>2. IsSeq(all)
    BY <1>1, FlattenIsSeq DEF EvaluateAttributes
  <1> HIDE DEF all
  <1>3. Len(all) \in Nat /\ DOMAIN all = 1 .. Len(all)
    BY <1>2, IsSeqElim
  <1>4. \A i \in DOMAIN all : IsSeq(parts[i])
    <2> TAKE i \in DOMAIN all
    <2>1. parts[i] \in {RenderAttribute(all[i]), <<>>}
      OBVIOUS
    <2> HIDE DEF parts
    <2> QED BY <2>1, RenderAttributeIsSeq, EmptyIsSeq
  <1>5. parts = [i \in 1 .. Len(all) |-> parts[i]]
    BY <1>3
  <1>6. SeqOfSeqs(parts)
    <2> HIDE DEF parts
    <2> QED BY <1>3, <1>4, <1>5, IsSeqIntro DEF SeqOfSeqs
  <1> QED BY <1>6, FlattenIsSeq DEF RenderAttributes, all

LEMMA OpeningTagIsSeq ==
  ASSUME NEW tag, NEW attrs \in Seq(Attribute), NEW map \in PropMaps
  PROVE  IsSeq(OpeningTag(tag, attrs, map)) /\ IsSeq(ClosingTag(tag))
  <1>1. IsSeq(Mark("<") \o Name(tag)) /\ IsSeq(Mark("</") \o Name(tag))
    BY AtomsAreSeqs, ConcatIsSeq
  <1>2. IsSeq(OpeningTag(tag, attrs, map))
    BY <1>1, RenderAttributesIsSeq, ConcatIsSeq DEF OpeningTag
  <1>3. IsSeq(ClosingTag(tag))
    BY <1>1, AtomsAreSeqs, ConcatIsSeq DEF ClosingTag
  <1> QED BY <1>2, <1>3

\* A piece that stands for itself is a leaf of the tree.
Leaf == {p \in Piece : p.k \in {"text", "expr", "void"}}

LEMMA RenderLeafIsSeq ==
  ASSUME NEW p \in Leaf, NEW map \in PropMaps
  PROVE  IsSeq(RenderLeaf(p, map))
  <1>1. CASE p.k = "text"
    BY <1>1, AtomsAreSeqs DEF RenderLeaf
  <1>2. CASE p.k = "expr"
    BY <1>2, AtomsAreSeqs DEF RenderLeaf
  <1>3. CASE p.k = "void"
    <2>1. p.attrs \in Seq(Attribute)
      BY <1>3 DEF Leaf, Piece, Broken
    <2> QED BY <1>3, <2>1, OpeningTagIsSeq, AtomsAreSeqs, ConcatIsSeq DEF RenderLeaf
  <1> QED BY <1>1, <1>2, <1>3 DEF Leaf
-----------------------------------------------------------------------------
(* The shape of the tree *)

\* The number of a node is less than those of its children; the elements that are
\* open are no children yet, each is inside the one before.
TagName == STRING \cup {""}
Node == Leaf \cup [k : {"element"}, tag : TagName, attrs : Seq(Attribute), children : Seq(Nat)]

ChildrenFollow ==
  \A n \in DOMAIN nodes :
    nodes[n].k = "element" =>
      \A i \in DOMAIN nodes[n].children :
        /\ nodes[n].children[i] \in DOMAIN nodes
        /\ nodes[n].children[i] > n
        /\ \A d \in DOMAIN open : open[d] # nodes[n].children[i]

OpenRises == \A c, d \in DOMAIN open : c < d => open[c] < open[d]

Shape ==
  /\ kind = "jsx" => source \in Sources
  /\ kind = "html" => source \in Formats /\ phase = "ready"
  /\ nodes \in Seq(Node)
  /\ ChildrenFollow
  /\ OpenRises
  /\ phase = "parsing" => \A i \in 1 .. pos - 1 : source[i].k # "broken"

TypeInv == TemplateTypeOK /\ Shape

\* What is added at the end of a tree.
Appended(node) == Append(nodes, node)

LEMMA NodeKinds ==
  /\ \A p \in Leaf : p.k # "element"
  /\ \A tag \in TagName, attrs \in Seq(Attribute) :
       /\ Element(tag, attrs) \in Node /\ Element(tag, attrs).k = "element"
       /\ Element(tag, attrs).tag = tag /\ Element(tag, attrs).attrs = attrs
       /\ Element(tag, attrs).children = <<>>
  /\ \A p \in Node : p.k = "element" =>
       p \in [k : {"element"}, tag : TagName, attrs : Seq(Attribute), children : Seq(Nat)]
  /\ \A p \in Node : p.k # "element" => p \in Leaf
  <1>1. \A p \in Leaf : p.k # "element"
    BY DEF Leaf
  <1>2. \A tag \in TagName, attrs \in Seq(Attribute) :
          /\ Element(tag, attrs) \in Node /\ Element(tag, attrs).k = "element"
          /\ Element(tag, attrs).tag = tag /\ Element(tag, attrs).attrs = attrs
          /\ Element(tag, attrs).children = <<>>
    <2> TAKE tag \in TagName, attrs \in Seq(Attribute)
    <2>1. <<>> \in Seq(Nat)
      OBVIOUS
    <2> QED BY <2>1 DEF Element, Node
  <1>3. \A p \in Node : p.k = "element" =>
          p \in [k : {"element"}, tag : TagName, attrs : Seq(Attribute), children : Seq(Nat)]
    BY <1>1 DEF Node
  <1>4. \A p \in Node : p.k # "element" => p \in Leaf
    BY DEF Node
  <1> QED BY <1>1, <1>2, <1>3, <1>4

LEMMA SourceType ==
  ASSUME kind = "jsx", Shape
  PROVE  source \in Seq(Piece) /\ Len(source) \in Nat /\ DOMAIN source = 1 .. Len(source)
  <1>1. source \in Seq(Piece)
    BY TemplatesAssumption DEF Shape
  <1> QED BY <1>1

\* A child more for a node.
LEMMA AddChildType ==
  ASSUME NEW ns \in Seq(Node), NEW parent \in DOMAIN ns, ns[parent].k = "element",
         NEW child \in Nat
  PROVE  /\ AddChild(ns, parent, child) \in Seq(Node)
         /\ DOMAIN AddChild(ns, parent, child) = DOMAIN ns
         /\ Len(AddChild(ns, parent, child)) = Len(ns)
         /\ \A n \in DOMAIN ns : n # parent => AddChild(ns, parent, child)[n] = ns[n]
         /\ AddChild(ns, parent, child)[parent].k = "element"
         /\ AddChild(ns, parent, child)[parent].tag = ns[parent].tag
         /\ AddChild(ns, parent, child)[parent].attrs = ns[parent].attrs
         /\ AddChild(ns, parent, child)[parent].children = Append(ns[parent].children, child)
  <1> DEFINE E == [k : {"element"}, tag : TagName, attrs : Seq(Attribute), children : Seq(Nat)]
             new == [ns[parent] EXCEPT !.children = Append(@, child)]
             ms == [ns EXCEPT ![parent] = new]
  <1>1. ns[parent] \in E
    BY NodeKinds
  <1>2. AddChild(ns, parent, child) = ms
    BY DEF AddChild
  <1>3. /\ new \in E /\ new.k = "element" /\ new.tag = ns[parent].tag
        /\ new.attrs = ns[parent].attrs /\ new.children = Append(ns[parent].children, child)
    <2>1. ASSUME NEW e \in E, NEW cs \in Seq(Nat)
          PROVE  LET m == [e EXCEPT !.children = cs]
                 IN  m \in E /\ m.k = "element" /\ m.tag = e.tag /\ m.attrs = e.attrs
                     /\ m.children = cs
      OBVIOUS
    <2>2. Append(ns[parent].children, child) \in Seq(Nat)
      BY <1>1, AppendProperties
    <2>3. new = [ns[parent] EXCEPT !.children = Append(ns[parent].children, child)]
      OBVIOUS
    <2> HIDE DEF E, new
    <2> QED BY <1>1, <2>1, <2>2, <2>3
  <1>4. new \in Node
    BY <1>3 DEF Node
  <1> HIDE DEF new
  <1>5. ms \in Seq(Node) /\ Len(ms) = Len(ns) /\ DOMAIN ms = DOMAIN ns
    BY <1>4
  <1>6. ms[parent] = new /\ \A n \in DOMAIN ns : n # parent => ms[n] = ns[n]
    OBVIOUS
  <1> HIDE DEF ms
  <1> QED BY <1>2, <1>3, <1>5, <1>6
-----------------------------------------------------------------------------
(* What a step does to the tree *)

\* n has one child more, everything else of the old nodes is as it was.
GainsChild(parent, child) ==
  /\ \A n \in DOMAIN nodes : n # parent => nodes'[n] = nodes[n]
  /\ nodes'[parent].k = "element"
  /\ nodes'[parent].tag = nodes[parent].tag
  /\ nodes'[parent].attrs = nodes[parent].attrs
  /\ nodes'[parent].children = Append(nodes[parent].children, child)

LEMMA OpenType ==
  ASSUME TypeInv
  PROVE  /\ Len(nodes) \in Nat /\ DOMAIN nodes = 1 .. Len(nodes) /\ 1 \in DOMAIN nodes
         /\ open \in Seq(Nat) /\ Len(open) \in Nat \ {0} /\ DOMAIN open = 1 .. Len(open)
         /\ \A d \in 1 .. Len(open) : open[d] \in DOMAIN nodes /\ nodes[open[d]].k = "element"
         /\ Last(open) = open[Len(open)]
  <1>1. Len(nodes) \in Nat /\ DOMAIN nodes = 1 .. Len(nodes) /\ 1 \in DOMAIN nodes
    <2>1. nodes \in Seq(Node) /\ nodes # <<>>
      BY DEF TypeInv, TemplateTypeOK, Shape
    <2> QED BY <2>1
  <1>2. open \in Seq(DOMAIN nodes) /\ open # <<>> /\ \A d \in DOMAIN open : nodes[open[d]].k = "element"
    BY DEF TypeInv, TemplateTypeOK
  <1>3. open \in Seq(Nat)
    BY <1>1, <1>2, SeqMonotonic, DOMAIN nodes \subseteq Nat
  <1>4. Len(open) \in Nat \ {0} /\ DOMAIN open = 1 .. Len(open)
    BY <1>2
  <1>5. \A d \in 1 .. Len(open) : open[d] \in DOMAIN nodes
    BY <1>2
  <1> QED BY <1>1, <1>2, <1>3, <1>4, <1>5 DEF Last

LEMMA LeafTree ==
  ASSUME TypeInv, ReadLeaf
  PROVE  /\ source[pos] \in Leaf
         /\ nodes' \in Seq(Node) /\ Len(nodes') = Len(nodes) + 1
         /\ nodes'[Len(nodes) + 1] = source[pos]
         /\ GainsChild(Last(open), Len(nodes) + 1)
         /\ open' = open
  <1> DEFINE N == Len(nodes)
             ns == Append(nodes, source[pos])
  <1>1. /\ N \in Nat /\ DOMAIN nodes = 1 .. N /\ Last(open) \in DOMAIN nodes
        /\ nodes[Last(open)].k = "element"
    BY OpenType
  <1>2. source[pos] \in Leaf
    <2>1. kind = "jsx"
      BY DEF TypeInv, TemplateTypeOK, Shape, ReadLeaf, At
    <2>2. source[pos] \in Piece
      BY <2>1, SourceType DEF TypeInv, ReadLeaf, At
    <2> QED BY <2>2 DEF Leaf, ReadLeaf, At
  <1>3. nodes \in Seq(Node) /\ source[pos] \in Node
    BY <1>2 DEF TypeInv, Shape, Node
  <1>4. /\ ns \in Seq(Node) /\ Len(ns) = N + 1 /\ ns[N + 1] = source[pos]
        /\ \A n \in 1 .. N : ns[n] = nodes[n]
    BY <1>3, AppendProperties
  <1>5. DOMAIN ns = 1 .. N + 1
    BY <1>4
  <1>6. nodes' = AddChild(ns, Last(open), N + 1) /\ open' = open
    BY DEF ReadLeaf
  <1> HIDE DEF ns, N
  <1>7. /\ Last(open) \in DOMAIN ns /\ ns[Last(open)].k = "element" /\ N + 1 \in Nat
        /\ ns[Last(open)] = nodes[Last(open)] /\ N + 1 # Last(open)
    BY <1>1, <1>4, <1>5
  <1>8. /\ nodes' \in Seq(Node) /\ DOMAIN nodes' = DOMAIN ns /\ Len(nodes') = Len(ns)
        /\ \A n \in DOMAIN ns : n # Last(open) => nodes'[n] = ns[n]
        /\ nodes'[Last(open)].k = "element"
        /\ nodes'[Last(open)].tag = ns[Last(open)].tag
        /\ nodes'[Last(open)].attrs = ns[Last(open)].attrs
        /\ nodes'[Last(open)].children = Append(ns[Last(open)].children, N + 1)
    BY <1>4, <1>6, <1>7, AddChildType
  <1>9. nodes'[N + 1] = source[pos]
    BY <1>1, <1>4, <1>5, <1>7, <1>8
  <1>10. GainsChild(Last(open), N + 1)
    BY <1>1, <1>4, <1>5, <1>7, <1>8 DEF GainsChild
  <1> QED BY <1>2, <1>4, <1>6, <1>8, <1>9, <1>10 DEF N

LEMMA OpeningTree ==
  ASSUME TypeInv, ReadOpening
  PROVE  /\ source[pos] \in [k : {"tag"}, tag : STRING, attrs : Seq(Attribute)]
         /\ nodes' \in Seq(Node) /\ Len(nodes') = Len(nodes) + 1
         /\ nodes'[Len(nodes) + 1] = Element(source[pos].tag, source[pos].attrs)
         /\ \A n \in DOMAIN nodes : nodes'[n] = nodes[n]
         /\ open' \in Seq(Nat) /\ Len(open') = Len(open) + 1
         /\ open'[Len(open) + 1] = Len(nodes) + 1
         /\ \A d \in 1 .. Len(open) : open'[d] = open[d]
  <1>1. kind = "jsx"
    BY DEF TypeInv, TemplateTypeOK, Shape, ReadOpening, At
  <1>2. source[pos] \in Piece /\ source[pos].k = "tag"
    BY <1>1, SourceType DEF TypeInv, ReadOpening, At
  <1>3. source[pos] \in [k : {"tag"}, tag : STRING, attrs : Seq(Attribute)]
    BY <1>2 DEF Piece, Broken
  <1>4. Element(source[pos].tag, source[pos].attrs) \in Node
    BY <1>3, NodeKinds DEF TagName
  <1>5. nodes \in Seq(Node) /\ open \in Seq(Nat) /\ Len(nodes) + 1 \in Nat
    BY OpenType DEF TypeInv, Shape
  <1>6. /\ nodes' = Append(nodes, Element(source[pos].tag, source[pos].attrs))
        /\ open' = Append(open, Len(nodes) + 1)
    BY DEF ReadOpening
  <1> QED BY <1>3, <1>4, <1>5, <1>6, AppendProperties, OpenType

LEMMA LeaveTree ==
  ASSUME TypeInv, Leave, Len(open) > 1
  PROVE  /\ nodes' \in Seq(Node) /\ Len(nodes') = Len(nodes)
         /\ GainsChild(open[Len(open) - 1], Last(open))
         /\ open' \in Seq(Nat) /\ Len(open') = Len(open) - 1
         /\ \A d \in 1 .. Len(open) - 1 : open'[d] = open[d]
  <1> DEFINE p == open[Len(open) - 1]
  <1>1. /\ p \in DOMAIN nodes /\ nodes[p].k = "element" /\ Last(open) \in Nat
    BY OpenType
  <1>2. nodes \in Seq(Node)
    BY DEF TypeInv, Shape
  <1>3. nodes' = AddChild(nodes, p, Last(open)) /\ open' = Front(open)
    BY DEF Leave
  <1> HIDE DEF p
  <1>4. /\ nodes' \in Seq(Node) /\ Len(nodes') = Len(nodes)
        /\ GainsChild(p, Last(open))
    BY <1>1, <1>2, <1>3, AddChildType DEF GainsChild
  <1>5. /\ open' \in Seq(Nat) /\ Len(open') = Len(open) - 1
        /\ \A d \in 1 .. Len(open) - 1 : open'[d] = open[d]
    BY <1>3, OpenType DEF Front
  <1> QED BY <1>4, <1>5 DEF p
TreeOK ==
  /\ nodes # <<>> /\ open \in Seq(DOMAIN nodes) /\ open # <<>> /\ open[1] = 1
  /\ nodes[1].tag = ""
  /\ \A d \in DOMAIN open : nodes[open[d]].k = "element"
  /\ nodes \in Seq(Node)
  /\ ChildrenFollow
  /\ OpenRises

LEMMA TypeInvTree ==
  ASSUME TypeInv
  PROVE  TreeOK
  BY DEF TypeInv, TemplateTypeOK, Shape, TreeOK

LEMMA LeafKeepsTree ==
  ASSUME TypeInv, ReadLeaf
  PROVE  TreeOK'
  <1> DEFINE N == Len(nodes)
             top == Last(open)
  <1>1. /\ N \in Nat /\ DOMAIN nodes = 1 .. N /\ 1 \in DOMAIN nodes
        /\ Len(open) \in Nat \ {0} /\ DOMAIN open = 1 .. Len(open)
        /\ \A d \in 1 .. Len(open) : open[d] \in DOMAIN nodes /\ nodes[open[d]].k = "element"
        /\ top = open[Len(open)] /\ open \in Seq(Nat)
    BY OpenType
  <1>2. /\ source[pos] \in Leaf
        /\ nodes' \in Seq(Node) /\ Len(nodes') = N + 1
        /\ nodes'[N + 1] = source[pos]
        /\ GainsChild(top, N + 1)
        /\ open' = open
    BY LeafTree
  <1> HIDE DEF N, top
  <1>3. /\ DOMAIN nodes' = 1 .. N + 1 /\ nodes' # <<>>
        /\ nodes'[N + 1].k # "element"
    BY <1>1, <1>2, NodeKinds
  <1>4. /\ \A n \in 1 .. N : nodes'[n].k = nodes[n].k /\ nodes'[n].tag = nodes[n].tag
        /\ top \in 1 .. N
    <2>1. top \in 1 .. N /\ nodes[top].k = "element"
      BY <1>1
    <2> QED BY <2>1, <1>1, <1>2 DEF GainsChild
  <1>5. ASSUME NEW n \in DOMAIN nodes', nodes'[n].k = "element",
               NEW i \in DOMAIN nodes'[n].children
        PROVE  /\ nodes'[n].children[i] \in DOMAIN nodes'
               /\ nodes'[n].children[i] > n
               /\ \A d \in DOMAIN open' : open'[d] # nodes'[n].children[i]
    <2>1. n \in 1 .. N /\ nodes[n].k = "element"
      <3>1. n \in 1 .. N + 1 /\ n # N + 1
        BY <1>3, <1>5
      <3>2. n \in 1 .. N
        BY <3>1, <1>1
      <3> QED BY <3>2, <1>4, <1>5
    <2>2. nodes[n].children \in Seq(Nat)
      <3>1. nodes[n] \in Node
        BY <1>1, <2>1 DEF TypeInv, Shape
      <3> QED BY <3>1, <2>1, NodeKinds
    <2>3. CASE i \in DOMAIN nodes[n].children /\ nodes'[n].children[i] = nodes[n].children[i]
      BY <2>1, <2>3, <1>1, <1>2, <1>3 DEF TypeInv, Shape, ChildrenFollow
    <2>4. CASE nodes'[n].children[i] = N + 1 /\ n = top
      BY <2>1, <2>4, <1>1, <1>2, <1>3
    <2>5. CASE n # top
      <3>1. nodes'[n] = nodes[n]
        BY <2>1, <2>5, <1>1, <1>2 DEF GainsChild
      <3> QED BY <2>3, <3>1
    <2>6. CASE n = top
      <3>1. nodes'[n].children = Append(nodes[n].children, N + 1)
        BY <2>6, <1>2 DEF GainsChild
      <3>2. N + 1 \in Nat
        BY <1>1
      <3>3. \/ i \in DOMAIN nodes[n].children /\ nodes'[n].children[i] = nodes[n].children[i]
            \/ nodes'[n].children[i] = N + 1
        BY <2>2, <3>1, <3>2
      <3> QED BY <2>3, <2>4, <2>6, <3>3
    <2> QED BY <2>5, <2>6
  <1>6. ChildrenFollow'
    BY <1>5 DEF ChildrenFollow
  <1>7. OpenRises'
    BY <1>2 DEF TypeInv, Shape, OpenRises
  <1>8. open' \in Seq(DOMAIN nodes') /\ open' # <<>> /\ open'[1] = 1
    <2>1. open \in Seq(DOMAIN nodes) /\ open # <<>> /\ open[1] = 1
      BY DEF TypeInv, TemplateTypeOK
    <2>2. DOMAIN nodes \subseteq DOMAIN nodes'
      BY <1>1, <1>3
    <2> QED BY <2>1, <2>2, <1>2, SeqMonotonic
  <1>9. nodes'[1].tag = ""
    BY <1>1, <1>4 DEF TypeInv, TemplateTypeOK
  <1>10. \A d \in DOMAIN open' : nodes'[open'[d]].k = "element"
    BY <1>1, <1>2, <1>4
  <1> QED BY <1>2, <1>3, <1>6, <1>7, <1>8, <1>9, <1>10 DEF TreeOK

LEMMA OpeningKeepsTree ==
  ASSUME TypeInv, ReadOpening
  PROVE  TreeOK'
  <1> DEFINE N == Len(nodes)
             m == Len(open)
  <1>1. /\ N \in Nat /\ DOMAIN nodes = 1 .. N /\ 1 \in DOMAIN nodes
        /\ m \in Nat \ {0} /\ DOMAIN open = 1 .. m
        /\ \A d \in 1 .. m : open[d] \in DOMAIN nodes /\ nodes[open[d]].k = "element"
    BY OpenType
  <1>2. /\ source[pos] \in [k : {"tag"}, tag : STRING, attrs : Seq(Attribute)]
        /\ nodes' \in Seq(Node) /\ Len(nodes') = N + 1
        /\ nodes'[N + 1] = Element(source[pos].tag, source[pos].attrs)
        /\ \A n \in DOMAIN nodes : nodes'[n] = nodes[n]
        /\ open' \in Seq(Nat) /\ Len(open') = m + 1
        /\ open'[m + 1] = N + 1
        /\ \A d \in 1 .. m : open'[d] = open[d]
    BY OpeningTree
  <1> HIDE DEF N, m
  <1>3. /\ DOMAIN nodes' = 1 .. N + 1 /\ nodes' # <<>>
        /\ DOMAIN open' = 1 .. m + 1 /\ open' # <<>>
    BY <1>1, <1>2
  <1>4. nodes'[N + 1].k = "element" /\ nodes'[N + 1].children = <<>>
    <2>1. source[pos].tag \in TagName /\ source[pos].attrs \in Seq(Attribute)
      BY <1>2 DEF TagName
    <2> QED BY <1>2, <2>1, NodeKinds
  <1>5. ASSUME NEW n \in DOMAIN nodes', nodes'[n].k = "element",
               NEW i \in DOMAIN nodes'[n].children
        PROVE  /\ nodes'[n].children[i] \in DOMAIN nodes'
               /\ nodes'[n].children[i] > n
               /\ \A d \in DOMAIN open' : open'[d] # nodes'[n].children[i]
    <2>1. n \in 1 .. N /\ nodes'[n] = nodes[n]
      BY <1>1, <1>2, <1>3, <1>4, <1>5
    <2>2. /\ nodes[n].children[i] \in 1 .. N /\ nodes[n].children[i] > n
          /\ \A d \in 1 .. m : open[d] # nodes[n].children[i]
      BY <2>1, <1>1, <1>5 DEF TypeInv, Shape, ChildrenFollow
    <2>3. nodes[n].children[i] # N + 1
      BY <2>2, <1>1
    <2> QED BY <2>1, <2>2, <2>3, <1>1, <1>2, <1>3
  <1>6. ChildrenFollow'
    BY <1>5 DEF ChildrenFollow
  <1>7. OpenRises'
    <2>1. \A c, d \in 1 .. m : c < d => open[c] < open[d]
      BY <1>1 DEF TypeInv, Shape, OpenRises
    <2>2. \A d \in 1 .. m : open[d] < N + 1
      BY <1>1
    <2>3. ASSUME NEW c \in 1 .. m + 1, NEW d \in 1 .. m + 1, c < d
          PROVE  open'[c] < open'[d]
      <3>1. c \in 1 .. m /\ open'[c] = open[c]
        BY <2>3, <1>1, <1>2
      <3>2. CASE d = m + 1
        BY <3>1, <3>2, <2>2, <1>2
      <3>3. CASE d # m + 1
        <4>1. d \in 1 .. m /\ open'[d] = open[d]
          BY <3>3, <1>1, <1>2
        <4> QED BY <3>1, <4>1, <2>1, <2>3
      <3> QED BY <3>2, <3>3
    <2> QED BY <2>3, <1>3 DEF OpenRises
  <1>8. \A d \in 1 .. m + 1 : open'[d] \in DOMAIN nodes' /\ nodes'[open'[d]].k = "element"
    BY <1>1, <1>2, <1>3, <1>4
  <1>9. open' \in Seq(DOMAIN nodes') /\ open'[1] = 1
    <2>1. open[1] = 1
      BY DEF TypeInv, TemplateTypeOK
    <2> QED BY <2>1, <1>1, <1>2, <1>3, <1>8
  <1>10. nodes'[1].tag = ""
    BY <1>1, <1>2 DEF TypeInv, TemplateTypeOK
  <1> QED BY <1>2, <1>3, <1>6, <1>7, <1>8, <1>9, <1>10 DEF TreeOK

LEMMA LeaveKeepsTree ==
  ASSUME TypeInv, Leave, Len(open) > 1
  PROVE  TreeOK'
  <1> DEFINE N == Len(nodes)
             m == Len(open)
             p == open[m - 1]
             c == Last(open)
  <1>1. /\ N \in Nat /\ DOMAIN nodes = 1 .. N /\ 1 \in DOMAIN nodes
        /\ m \in Nat /\ m > 1 /\ DOMAIN open = 1 .. m
        /\ \A d \in 1 .. m : open[d] \in DOMAIN nodes /\ nodes[open[d]].k = "element"
        /\ c = open[m]
    BY OpenType
  <1>2. /\ nodes' \in Seq(Node) /\ Len(nodes') = N
        /\ GainsChild(p, c)
        /\ open' \in Seq(Nat) /\ Len(open') = m - 1
        /\ \A d \in 1 .. m - 1 : open'[d] = open[d]
    BY LeaveTree
  <1>3. \A a, b \in 1 .. m : a < b => open[a] < open[b]
    BY <1>1 DEF TypeInv, Shape, OpenRises
  <1>4. p \in 1 .. N /\ c \in 1 .. N /\ p < c /\ nodes[p].k = "element"
    BY <1>1, <1>3
  <1>5. \A d \in 1 .. m - 1 : open[d] # c
    BY <1>1, <1>3
  <1> HIDE DEF N, m, p, c
  <1>6. /\ DOMAIN nodes' = 1 .. N /\ nodes' # <<>>
        /\ DOMAIN open' = 1 .. m - 1 /\ open' # <<>>
    BY <1>1, <1>2
  <1>7. \A n \in 1 .. N : nodes'[n].k = nodes[n].k /\ nodes'[n].tag = nodes[n].tag
    BY <1>1, <1>2, <1>4 DEF GainsChild
  <1>8. ASSUME NEW n \in DOMAIN nodes', nodes'[n].k = "element",
               NEW i \in DOMAIN nodes'[n].children
        PROVE  /\ nodes'[n].children[i] \in DOMAIN nodes'
               /\ nodes'[n].children[i] > n
               /\ \A d \in DOMAIN open' : open'[d] # nodes'[n].children[i]
    <2>1. n \in 1 .. N /\ nodes[n].k = "element"
      BY <1>6, <1>7, <1>8
    <2>2. nodes[n].children \in Seq(Nat)
      <3>1. nodes[n] \in Node
        BY <1>1, <2>1 DEF TypeInv, Shape
      <3> QED BY <3>1, <2>1, NodeKinds
    <2>3. CASE i \in DOMAIN nodes[n].children /\ nodes'[n].children[i] = nodes[n].children[i]
      <3>1. /\ nodes[n].children[i] \in 1 .. N /\ nodes[n].children[i] > n
            /\ \A d \in 1 .. m : open[d] # nodes[n].children[i]
        BY <2>1, <2>3, <1>1 DEF TypeInv, Shape, ChildrenFollow
      <3> QED BY <2>3, <3>1, <1>1, <1>2, <1>6
    <2>4. CASE nodes'[n].children[i] = c /\ n = p
      BY <2>4, <1>2, <1>4, <1>5, <1>6
    <2>5. CASE n # p
      <3>1. nodes'[n] = nodes[n]
        BY <2>1, <2>5, <1>1, <1>2 DEF GainsChild
      <3> QED BY <2>3, <3>1
    <2>6. CASE n = p
      <3>1. nodes'[n].children = Append(nodes[n].children, c)
        BY <2>6, <1>2 DEF GainsChild
      <3>2. c \in Nat
        BY <1>4
      <3>3. \/ i \in DOMAIN nodes[n].children /\ nodes'[n].children[i] = nodes[n].children[i]
            \/ nodes'[n].children[i] = c
        BY <2>2, <3>1, <3>2
      <3> QED BY <2>3, <2>4, <2>6, <3>3
    <2> QED BY <2>5, <2>6
  <1>9. ChildrenFollow'
    BY <1>8 DEF ChildrenFollow
  <1>10. OpenRises'
    BY <1>1, <1>2, <1>3, <1>6 DEF OpenRises
  <1>11. \A d \in 1 .. m - 1 : open'[d] \in DOMAIN nodes' /\ nodes'[open'[d]].k = "element"
    BY <1>1, <1>2, <1>6, <1>7
  <1>12. open' \in Seq(DOMAIN nodes') /\ open'[1] = 1
    <2>1. open[1] = 1
      BY DEF TypeInv, TemplateTypeOK
    <2> QED BY <2>1, <1>1, <1>2, <1>6, <1>11
  <1>13. nodes'[1].tag = ""
    BY <1>1, <1>7 DEF TypeInv, TemplateTypeOK
  <1> QED BY <1>2, <1>6, <1>9, <1>10, <1>11, <1>12, <1>13 DEF TreeOK
-----------------------------------------------------------------------------
(* Types *)

LEMMA TypeInit ==
  ASSUME Init
  PROVE  TypeInv
  <1> DEFINE root == Element("", <<>>)
  <1>1. <<>> \in Seq(Attribute) /\ "" \in TagName
    <2>1. <<>> \in Seq(Attribute)
      BY EmptySeq
    <2>2. "" \in TagName
      BY DEF TagName
    <2> QED BY <2>1, <2>2
  <1>2. root \in Node /\ root.k = "element" /\ root.tag = "" /\ root.children = <<>>
    BY <1>1, NodeKinds
  <1>3. nodes = <<root>> /\ open = <<1>> /\ pos = 1 /\ out = {}
    BY DEF Init
  <1> HIDE DEF root
  <1>4. /\ nodes \in Seq(Node) /\ nodes # <<>> /\ DOMAIN nodes = {1} /\ nodes[1] = root
        /\ open \in Seq({1}) /\ open # <<>> /\ DOMAIN open = {1} /\ open[1] = 1 /\ Len(open) = 1
    <2>1. ASSUME NEW S, NEW x \in S
          PROVE  /\ <<x>> \in Seq(S) /\ <<x>> # <<>> /\ DOMAIN <<x>> = {1} /\ <<x>>[1] = x
                 /\ Len(<<x>>) = 1
      <3>1. <<x>> \in Seq(S) /\ Len(<<x>>) = 1 /\ <<x>>[1] = x
        OBVIOUS
      <3>2. DOMAIN <<x>> = 1 .. 1
        OBVIOUS
      <3>3. <<x>> # <<>>
        BY <3>1
      <3> QED BY <3>1, <3>2, <3>3
    <2>2. root \in Node /\ 1 \in {1}
      BY <1>2
    <2> QED BY <1>3, <2>1, <2>2
  <1>5. \/ kind = "jsx" /\ source \in Sources /\ phase = "parsing"
        \/ kind = "html" /\ source \in Formats /\ phase = "ready"
    BY DEF Init
  <1>6. Len(source) \in Nat
    <2>1. source \in Seq(Piece) \/ source \in Seq(STRING)
      BY <1>5, TemplatesAssumption
    <2> QED BY <2>1
  <1>7. ChildrenFollow /\ OpenRises
    <2>0. DOMAIN <<>> = {}
      OBVIOUS
    <2>1. nodes[1].children = <<>> /\ DOMAIN nodes[1].children = {}
      BY <1>2, <1>4, <2>0
    <2>2. ChildrenFollow
      BY <2>1, <1>4 DEF ChildrenFollow
    <2>3. OpenRises
      BY <1>4 DEF OpenRises
    <2> QED BY <2>2, <2>3
  <1>8. TemplateTypeOK
    <2>1. open \in Seq(DOMAIN nodes) /\ \A d \in DOMAIN open : nodes[open[d]].k = "element"
      BY <1>2, <1>4
    <2>2. pos \in 1 .. Len(source) + 1
      BY <1>3, <1>6
    <2> QED BY <1>2, <1>3, <1>4, <1>5, <2>1, <2>2 DEF TemplateTypeOK
  <1>9. Shape
    BY <1>3, <1>4, <1>5, <1>7 DEF Shape
  <1> QED BY <1>8, <1>9 DEF TypeInv

\* What one step must keep besides the tree.
LEMMA TypeFromTree ==
  ASSUME TypeInv, TreeOK', kind' = kind, source' = source, phase = "parsing",
         phase' \in {"parsing", "refused", "ready"},
         pos' \in 1 .. Len(source) + 1, phase' = "ready" => Len(open') = 1, out' = out,
         phase' = "parsing" => \A i \in 1 .. pos' - 1 : source[i].k # "broken"
  PROVE  TypeInv'
  <1>1. out = {}
    BY DEF TypeInv, TemplateTypeOK
  <1>2. kind = "jsx" /\ source \in Sources
    BY DEF TypeInv, TemplateTypeOK, Shape
  <1>3. TemplateTypeOK'
    BY <1>1, <1>2 DEF TemplateTypeOK, TreeOK
  <1>4. Shape'
    BY <1>2 DEF Shape, TreeOK
  <1> QED BY <1>3, <1>4 DEF TypeInv

\* Reading a piece that is not broken leaves only such pieces behind.
LEMMA NoneBroken ==
  ASSUME TypeInv, phase = "parsing", pos \in DOMAIN source, source[pos].k # "broken"
  PROVE  /\ pos \in Nat \ {0} /\ pos + 1 \in 1 .. Len(source) + 1
         /\ \A i \in 1 .. pos : source[i].k # "broken"
  <1>1. kind = "jsx"
    BY DEF TypeInv, TemplateTypeOK, Shape
  <1>2. DOMAIN source = 1 .. Len(source) /\ Len(source) \in Nat
    BY <1>1, SourceType DEF TypeInv
  <1>3. \A i \in 1 .. pos - 1 : source[i].k # "broken"
    BY DEF TypeInv, Shape
  <1>4. \A i \in 1 .. pos : i = pos \/ i \in 1 .. pos - 1
    BY <1>2
  <1> QED BY <1>2, <1>3, <1>4

LEMMA TypeNext ==
  ASSUME TypeInv, [Next]_vars
  PROVE  TypeInv'
  <1>0. TreeOK
    BY TypeInvTree
  <1>1. ASSUME UNCHANGED tree PROVE TreeOK'
    BY <1>0, <1>1 DEF tree, TreeOK, ChildrenFollow, OpenRises
  <1>2. ASSUME Refuse, phase = "parsing" PROVE TypeInv'
    <2>1. /\ phase' = "refused" /\ kind' = kind /\ source' = source /\ pos' = pos /\ out' = out
          /\ UNCHANGED tree
      BY <1>2 DEF Refuse
    <2>2. pos \in 1 .. Len(source) + 1
      BY DEF TypeInv, TemplateTypeOK
    <2> QED BY <1>1, <1>2, <2>1, <2>2, TypeFromTree
  <1>3. CASE ReadLeaf
    <2>1. phase = "parsing" /\ pos \in DOMAIN source /\ source[pos].k # "broken"
      BY <1>3 DEF ReadLeaf, At
    <2>2. /\ pos' = pos + 1 /\ kind' = kind /\ source' = source /\ phase' = phase /\ out' = out
      BY <1>3 DEF ReadLeaf, Advance
    <2>3. pos' \in 1 .. Len(source) + 1 /\ \A i \in 1 .. pos' - 1 : source[i].k # "broken"
      BY <2>1, <2>2, NoneBroken
    <2> QED BY <1>3, <2>1, <2>2, <2>3, LeafKeepsTree, TypeFromTree
  <1>4. CASE ReadOpening
    <2>1. phase = "parsing" /\ pos \in DOMAIN source /\ source[pos].k # "broken"
      BY <1>4 DEF ReadOpening, At
    <2>2. /\ pos' = pos + 1 /\ kind' = kind /\ source' = source /\ phase' = phase /\ out' = out
      BY <1>4 DEF ReadOpening, Advance
    <2>3. pos' \in 1 .. Len(source) + 1 /\ \A i \in 1 .. pos' - 1 : source[i].k # "broken"
      BY <2>1, <2>2, NoneBroken
    <2> QED BY <1>4, <2>1, <2>2, <2>3, OpeningKeepsTree, TypeFromTree
  <1>5. CASE ReadBroken
    BY <1>2, <1>5 DEF ReadBroken, At
  <1>6. CASE ReadClosing
    <2>1. phase = "parsing" /\ pos \in DOMAIN source /\ source[pos].k # "broken"
      BY <1>6 DEF ReadClosing, At
    <2>2. /\ pos' = pos + 1 /\ kind' = kind /\ source' = source /\ phase' = phase /\ out' = out
          /\ Leave /\ Len(open) > 1
      BY <1>6 DEF ReadClosing, Advance
    <2>3. pos' \in 1 .. Len(source) + 1 /\ \A i \in 1 .. pos' - 1 : source[i].k # "broken"
      BY <2>1, <2>2, NoneBroken
    <2> QED BY <2>1, <2>2, <2>3, LeaveKeepsTree, TypeFromTree
  <1>7. CASE ReadMismatch
    BY <1>2, <1>7 DEF ReadMismatch, At
  <1>8. CASE ReadEnd
    <2>1. phase = "parsing" /\ pos \in DOMAIN source /\ source[pos].k # "broken"
      BY <1>8 DEF ReadEnd, At
    <2>2. /\ pos' = pos + 1 /\ kind' = kind /\ source' = source /\ phase' = "ready" /\ out' = out
          /\ UNCHANGED tree /\ Len(open) = 1
      BY <1>8 DEF ReadEnd
    <2>3. pos' \in 1 .. Len(source) + 1
      BY <2>1, <2>2, NoneBroken
    <2>4. open' = open
      BY <2>2 DEF tree
    <2> QED BY <1>1, <2>1, <2>2, <2>3, <2>4, TypeFromTree
  <1>9. CASE EndFragment
    <2>1. phase = "parsing" /\ Leave /\ Len(open) > 1
      BY <1>9 DEF EndFragment, AtEnd
    <2>2. pos' = pos /\ kind' = kind /\ source' = source /\ phase' = phase /\ out' = out
      BY <1>9 DEF EndFragment
    <2>3. pos \in 1 .. Len(source) + 1 /\ \A i \in 1 .. pos - 1 : source[i].k # "broken"
      BY <2>1 DEF TypeInv, TemplateTypeOK, Shape
    <2> QED BY <2>1, <2>2, <2>3, LeaveKeepsTree, TypeFromTree
  <1>10. CASE EndUnclosed
    BY <1>2, <1>10 DEF EndUnclosed, AtEnd
  <1>11. CASE EndTemplate
    <2>1. /\ pos' = pos /\ kind' = kind /\ source' = source /\ phase' = "ready" /\ out' = out
          /\ UNCHANGED tree /\ Len(open) = 1 /\ phase = "parsing"
      BY <1>11 DEF EndTemplate, AtEnd
    <2>2. pos \in 1 .. Len(source) + 1 /\ open' = open
      BY <2>1 DEF TypeInv, TemplateTypeOK, tree
    <2> QED BY <1>1, <2>1, <2>2, TypeFromTree
  <1>12. ASSUME NEW map \in PropMaps, Call(map) PROVE TypeInv'
    <2>1. /\ phase = "ready" /\ props' = map /\ pos' = pos /\ kind' = kind /\ source' = source
          /\ phase' = phase /\ UNCHANGED tree
      BY <1>12 DEF Call
    <2>2. TreeOK'
      BY <1>1, <2>1
    <2>3. open' = open
      BY <2>1 DEF tree
    <2>4. TemplateTypeOK'
      BY <2>1, <2>2, <2>3 DEF TypeInv, TemplateTypeOK, TreeOK
    <2>5. Shape'
      BY <2>1, <2>2 DEF TypeInv, Shape, TreeOK
    <2> QED BY <2>4, <2>5 DEF TypeInv
  <1>13. CASE UNCHANGED vars
    <2>1. /\ phase' = phase /\ props' = props /\ pos' = pos /\ kind' = kind /\ source' = source
          /\ nodes' = nodes /\ open' = open /\ out' = out
      BY <1>13 DEF vars, tree
    <2> QED BY <2>1 DEF TypeInv, TemplateTypeOK, Shape, ChildrenFollow, OpenRises
  <1> QED BY <1>3, <1>4, <1>5, <1>6, <1>7, <1>8, <1>9, <1>10, <1>11, <1>12, <1>13 DEF Next, Parse

\* The parser is inside the elements it has opened, the root outermost; only a
\* template that was accepted is called (jsx.cpp, JsxParser; builtins.cpp, $html).
THEOREM TemplateTypes == Spec => []TemplateTypeOK
  <1>1. Init => TypeInv
    BY TypeInit
  <1>2. TypeInv /\ [Next]_vars => TypeInv'
    BY TypeNext
  <1>3. TypeInv => TemplateTypeOK
    BY DEF TypeInv
  <1> QED BY <1>1, <1>2, <1>3, PTL DEF Spec
-----------------------------------------------------------------------------
(* How deep a piece is *)

\* The pieces of one kind up to n.
UpTo(kd, n) == {i \in 1 .. n : source[i].k = kd}

LEMMA UpToStep ==
  ASSUME NEW kd, NEW n \in Nat
  PROVE  /\ Cardinality(UpTo(kd, n)) \in Nat
         /\ Cardinality(UpTo(kd, n + 1)) =
              Cardinality(UpTo(kd, n)) + IF source[n + 1].k = kd THEN 1 ELSE 0
  <1> DEFINE S == UpTo(kd, n)
  <1>1. IsFiniteSet(S)
    <2>1. S \subseteq 1 .. n
      BY DEF UpTo
    <2>2. IsFiniteSet(1 .. n)
      BY FS_Interval
    <2> QED BY <2>1, <2>2, FS_Subset
  <1>2. Cardinality(S) \in Nat
    BY <1>1, FS_CardinalityType
  <1>3. n + 1 \notin S
    BY DEF UpTo
  <1>4. CASE source[n + 1].k = kd
    <2>1. UpTo(kd, n + 1) = S \cup {n + 1}
      BY <1>4 DEF UpTo
    <2>2. Cardinality(S \cup {n + 1}) = Cardinality(S) + 1
      BY <1>1, <1>3, FS_AddElement
    <2> QED BY <1>2, <1>4, <2>1, <2>2
  <1>5. CASE source[n + 1].k # kd
    <2>1. UpTo(kd, n + 1) = S
      BY <1>5 DEF UpTo
    <2> QED BY <1>2, <1>5, <2>1
  <1> QED BY <1>4, <1>5

LEMMA DepthStep ==
  ASSUME NEW n \in Nat
  PROVE  /\ Depth(n) \in Int
         /\ Depth(n + 1) = CASE source[n + 1].k = "tag" -> Depth(n) + 1
                             [] source[n + 1].k = "close" -> Depth(n) - 1
                             [] OTHER -> Depth(n)
  <1> DEFINE t(m) == Cardinality(UpTo("tag", m))
             c(m) == Cardinality(UpTo("close", m))
  <1>1. \A m : Depth(m) = t(m) - c(m)
    BY DEF Depth, UpTo
  <1>2. /\ t(n) \in Nat /\ c(n) \in Nat
        /\ t(n + 1) = t(n) + IF source[n + 1].k = "tag" THEN 1 ELSE 0
        /\ c(n + 1) = c(n) + IF source[n + 1].k = "close" THEN 1 ELSE 0
    BY UpToStep
  <1> HIDE DEF t, c
  <1>3. Depth(n) = t(n) - c(n) /\ Depth(n + 1) = t(n + 1) - c(n + 1)
    BY <1>1
  <1>4. CASE source[n + 1].k = "tag"
    BY <1>2, <1>3, <1>4
  <1>5. CASE source[n + 1].k = "close"
    BY <1>2, <1>3, <1>5
  <1>6. CASE source[n + 1].k \notin {"tag", "close"}
    BY <1>2, <1>3, <1>6
  <1> QED BY <1>2, <1>3, <1>4, <1>5, <1>6

\* The same, seen from the later piece.
LEMMA DepthOf ==
  ASSUME NEW n \in Nat, n # 0
  PROVE  /\ Depth(n) \in Int /\ Depth(n - 1) \in Int
         /\ source[n].k = "tag" => Depth(n) = Depth(n - 1) + 1
         /\ source[n].k = "close" => Depth(n) = Depth(n - 1) - 1
         /\ source[n].k \notin {"tag", "close"} => Depth(n) = Depth(n - 1)
  <1> DEFINE m == n - 1
  <1>1. m \in Nat /\ m + 1 = n
    OBVIOUS
  <1> HIDE DEF m
  <1>2. /\ Depth(m) \in Int /\ Depth(n) \in Int
        /\ Depth(n) = CASE source[n].k = "tag" -> Depth(m) + 1
                        [] source[n].k = "close" -> Depth(m) - 1
                        [] OTHER -> Depth(m)
    BY <1>1, DepthStep
  <1>3. /\ Depth(m) \in Int /\ Depth(n) \in Int
        /\ source[n].k = "tag" => Depth(n) = Depth(m) + 1
        /\ source[n].k = "close" => Depth(n) = Depth(m) - 1
        /\ source[n].k \notin {"tag", "close"} => Depth(n) = Depth(m)
    BY <1>2
  <1> QED BY <1>3 DEF m

LEMMA DepthZero == Depth(0) = 0
  <1>1. UpTo("tag", 0) = {} /\ UpTo("close", 0) = {}
    BY DEF UpTo
  <1>2. Cardinality({}) = 0
    BY FS_EmptySet
  <1> QED BY <1>1, <1>2 DEF Depth, UpTo

\* An opening tag that nothing up to n closes.
Unclosed(i, n) == source[i].k = "tag" /\ \A m \in i .. n : Depth(m) >= Depth(i)

\* Every opening tag is closed by one of the pieces behind it, or by none.
LEMMA ClosedOrNot ==
  ASSUME NEW n \in Nat, NEW i \in 1 .. n, source[i].k = "tag"
  PROVE  Unclosed(i, n) \/ \E j \in 1 .. n : Closes(i, j)
  <1> SUFFICES ASSUME ~Unclosed(i, n) PROVE \E j \in 1 .. n : Closes(i, j)
    OBVIOUS
  <1> DEFINE T == {m \in i .. n : Depth(m) < Depth(i)}
  <1>0. \A m \in Nat : Depth(m) \in Int
    BY DepthStep
  <1>1. T \in SUBSET Nat /\ T # {}
    BY <1>0 DEF Unclosed
  <1>2. PICK j \in T : \A m \in T : j <= m
    <2> HIDE DEF T
    <2> QED BY <1>1, LeastOf
  <1>3. j # i /\ j \in Nat /\ j # 0 /\ j - 1 \in i .. n /\ j - 1 \notin T
    BY <1>0, <1>2
  <1>4. Depth(j - 1) >= Depth(i) /\ Depth(j) < Depth(i)
    BY <1>0, <1>2, <1>3
  <1>5. source[j].k = "close" /\ Depth(j) = Depth(i) - 1
    BY <1>0, <1>3, <1>4, DepthOf
  <1>6. \A m \in i .. j - 1 : Depth(m) >= Depth(i)
    <2> TAKE m \in i .. j - 1
    <2>1. m \in i .. n /\ ~(j <= m)
      BY <1>2
    <2>2. m \notin T
      BY <1>2, <2>1
    <2> QED BY <1>0, <2>1, <2>2
  <1>7. Closes(i, j)
    BY <1>2, <1>3, <1>5, <1>6 DEF Closes
  <1> QED BY <1>2, <1>7

\* At any depth there is an opening tag that is not closed.
LEMMA UnclosedExists ==
  ASSUME NEW n \in Nat, NEW d \in Nat, d # 0, d <= Depth(n)
  PROVE  \E i \in 1 .. n : Unclosed(i, n) /\ Depth(i) = d
  <1> DEFINE T == {m \in 0 .. n : Depth(m) < d}
  <1>0. \A m \in Nat : Depth(m) \in Int
    BY DepthStep
  <1>1. T \in SUBSET (0 .. n) /\ T # {}
    BY DepthZero
  <1>2. PICK m \in T : \A e \in T : e <= m
    <2> HIDE DEF T
    <2> QED BY <1>1, GreatestOf
  <1>3. m # n /\ m \in 0 .. n - 1 /\ Depth(m) < d
    BY <1>0, <1>2
  <1> DEFINE i == m + 1
  <1>4. i \in 1 .. n /\ i \in Nat /\ i # 0 /\ i - 1 = m
    BY <1>3
  <1>5. \A e \in i .. n : Depth(e) >= d
    <2> TAKE e \in i .. n
    <2>1. e \in 0 .. n /\ e \notin T
      BY <1>2, <1>3
    <2> QED BY <1>0, <2>1
  <1> HIDE DEF i
  <1>6. Depth(i) >= d
    BY <1>4, <1>5
  <1>7. source[i].k = "tag" /\ Depth(i) = d
    BY <1>0, <1>3, <1>4, <1>6, DepthOf
  <1>8. Unclosed(i, n)
    BY <1>5, <1>7 DEF Unclosed
  <1> QED BY <1>4, <1>7, <1>8

\* Of the opening tags of one depth only the last can be open.
LEMMA UnclosedLast ==
  ASSUME NEW n \in Nat, NEW i \in 1 .. n, Unclosed(i, n), NEW j \in 1 .. n,
         source[j].k = "tag", i < j
  PROVE  Depth(i) < Depth(j)
  <1>1. j - 1 \in i .. n /\ j \in Nat /\ j # 0
    OBVIOUS
  <1>2. Depth(j - 1) >= Depth(i)
    BY <1>1 DEF Unclosed
  <1>3. Depth(i) \in Int
    BY DepthStep
  <1> QED BY <1>1, <1>2, <1>3, DepthOf
-----------------------------------------------------------------------------
(* Tags pair up *)

LEMMA DepthStays ==
  ASSUME source' = source
  PROVE  /\ \A n : Depth(n)' = Depth(n)
         /\ \A i, n : Unclosed(i, n)' = Unclosed(i, n)
         /\ \A i, j : Closes(i, j)' = Closes(i, j)
         /\ Ends' = Ends /\ Used' = Used /\ Balanced' = Balanced
  <1>1. \A n : Depth(n)' = Depth(n)
    BY DEF Depth
  <1>2. \A i, n : Unclosed(i, n)' = Unclosed(i, n)
    BY DEF Depth, Unclosed
  <1>3. \A i, j : Closes(i, j)' = Closes(i, j)
    BY DEF Depth, Closes
  <1>4. Ends' = Ends /\ Used' = Used
    BY DEF Depth, Ends, Used
  <1>5. Balanced' = Balanced
    BY DEF Depth, Closes, Ends, Used, Balanced
  <1> QED BY <1>1, <1>2, <1>3, <1>4, <1>5

\* Up to n, with the elements op of the tree ns open: a tag that is not closed is
\* that of the open element that is as deep; if there is none that deep, it was a
\* fragment that the end of the source has closed.
TagAt(ns, op, d) == IF d < Len(op) THEN ns[op[d + 1]].tag ELSE ""

PairedTo(n, ns, op) ==
  /\ \A m \in 0 .. n : Depth(m) >= 0
  /\ Len(op) - 1 <= Depth(n)
  /\ \A i \in 1 .. n : Unclosed(i, n) => source[i].tag = TagAt(ns, op, Depth(i))
  /\ \A i, j \in 1 .. n : Closes(i, j) => source[i].tag = source[j].tag

Paired ==
  phase = "parsing" =>
    /\ PairedTo(pos - 1, nodes, open)
    /\ pos <= Len(source) => Depth(pos - 1) = Len(open) - 1

\* Where the source ends for the parser.
LEMMA UsedIs ==
  ASSUME NEW n \in Nat, DOMAIN source = 1 .. Len(source), Len(source) \in Nat,
         \A m \in 0 .. n : Depth(m) >= 0
  PROVE  /\ n = Len(source) => Ends = {} /\ Used = n
         /\ n < Len(source) /\ Depth(n + 1) >= 0 => Used >= n + 1 /\ Used \in Nat
         /\ n < Len(source) /\ Depth(n + 1) < 0 => Ends # {} /\ Used = n + 1
  <1>0. \A m \in Nat : Depth(m) \in Int
    BY DepthStep
  <1>1. \A e \in Ends : e \in Nat /\ e > n /\ Depth(e) < 0 /\ e <= Len(source)
    <2> TAKE e \in Ends
    <2>1. e \in 1 .. Len(source) /\ Depth(e) < 0
      BY DEF Ends
    <2>2. e \notin 0 .. n
      BY <1>0, <2>1
    <2> QED BY <2>1, <2>2
  <1>2. ASSUME n = Len(source) PROVE Ends = {} /\ Used = n
    <2>1. Ends = {}
      BY <1>1, <1>2
    <2> QED BY <1>2, <2>1 DEF Used
  <1>3. ASSUME n < Len(source), Depth(n + 1) >= 0 PROVE Used >= n + 1 /\ Used \in Nat
    <2>1. CASE Ends = {}
      BY <1>3, <2>1 DEF Used
    <2>2. CASE Ends # {}
      <3>1. Ends \in SUBSET Nat
        BY <1>1
      <3>2. PICK d \in Ends : \A e \in Ends : d <= e
        BY <2>2, <3>1, LeastOf
      <3>3. Min(Ends) \in Ends
        BY <3>2 DEF Min
      <3>4. Min(Ends) # n + 1 /\ Min(Ends) \in Nat /\ Min(Ends) > n
        BY <1>0, <1>1, <1>3, <3>3
      <3>5. Used = Min(Ends)
        BY <2>2 DEF Used
      <3> QED BY <3>4, <3>5
    <2> QED BY <2>1, <2>2
  <1>4. ASSUME n < Len(source), Depth(n + 1) < 0 PROVE Ends # {} /\ Used = n + 1
    <2>1. n + 1 \in Ends
      BY <1>4 DEF Ends
    <2>2. \A e \in Ends : n + 1 <= e
      BY <1>1
    <2>3. Min(Ends) \in Ends /\ \A e \in Ends : Min(Ends) <= e
      BY <2>1, <2>2 DEF Min
    <2>4. Min(Ends) = n + 1
      BY <2>1, <2>2, <2>3, <1>1
    <2>5. Ends # {} /\ Used = n + 1
      BY <2>1, <2>4 DEF Used
    <2> QED BY <2>5
  <1> QED BY <1>2, <1>3, <1>4

\* What PairedTo becomes when a piece is read that is no tag.
LEMMA PairedLeaf ==
  ASSUME NEW n \in Nat, n # 0, NEW ns, NEW op, NEW ms, NEW oq,
         PairedTo(n - 1, ns, op), Len(op) \in Nat, Depth(n - 1) = Len(op) - 1,
         source[n].k \notin {"tag", "close"},
         Len(oq) = Len(op), \A d \in Nat : TagAt(ms, oq, d) = TagAt(ns, op, d)
  PROVE  PairedTo(n, ms, oq) /\ Depth(n) = Len(oq) - 1
  <1>0. \A m \in Nat : Depth(m) \in Int
    BY DepthStep
  <1>1. Depth(n) = Depth(n - 1)
    BY DepthOf
  <1>2. ASSUME NEW m \in 0 .. n PROVE Depth(m) >= 0
    BY <1>1 DEF PairedTo
  <1>3. ASSUME NEW i \in 1 .. n, Unclosed(i, n)
        PROVE  source[i].tag = TagAt(ms, oq, Depth(i))
    <2>1. i # n /\ i \in 1 .. n - 1
      BY <1>3 DEF Unclosed
    <2>2. Unclosed(i, n - 1)
      BY <1>3, <2>1 DEF Unclosed
    <2>3. source[i].tag = TagAt(ns, op, Depth(i))
      BY <2>1, <2>2 DEF PairedTo
    <2>4. Depth(i) \in Nat
      BY <1>0, <1>2
    <2> QED BY <2>3, <2>4
  <1>4. ASSUME NEW i \in 1 .. n, NEW j \in 1 .. n, Closes(i, j)
        PROVE  source[i].tag = source[j].tag
    <2>1. i # n /\ j # n
      BY <1>4 DEF Closes
    <2>2. i \in 1 .. n - 1 /\ j \in 1 .. n - 1
      BY <2>1
    <2> QED BY <1>4, <2>2 DEF PairedTo
  <1> QED BY <1>1, <1>2, <1>3, <1>4 DEF PairedTo

\* When an opening tag is read.
LEMMA PairedOpening ==
  ASSUME NEW n \in Nat, n # 0, NEW ns, NEW op, NEW ms, NEW oq,
         PairedTo(n - 1, ns, op), Len(op) \in Nat, Depth(n - 1) = Len(op) - 1,
         source[n].k = "tag",
         Len(oq) = Len(op) + 1, \A d \in 0 .. Len(op) - 1 : TagAt(ms, oq, d) = TagAt(ns, op, d),
         TagAt(ms, oq, Len(op)) = source[n].tag
  PROVE  PairedTo(n, ms, oq) /\ Depth(n) = Len(oq) - 1
  <1>0. \A m \in Nat : Depth(m) \in Int
    BY DepthStep
  <1>1. Depth(n) = Depth(n - 1) + 1 /\ Depth(n) = Len(op)
    <2>1. Depth(n) = Depth(n - 1) + 1 /\ Depth(n - 1) \in Int /\ Depth(n) \in Int
      BY DepthOf
    <2> QED BY <2>1
  <1>2. ASSUME NEW m \in 0 .. n PROVE Depth(m) >= 0
    BY <1>1 DEF PairedTo
  <1>3. ASSUME NEW i \in 1 .. n, Unclosed(i, n)
        PROVE  source[i].tag = TagAt(ms, oq, Depth(i))
    <2>1. CASE i = n
      BY <1>1, <2>1
    <2>2. CASE i # n
      <3>1. i \in 1 .. n - 1 /\ Unclosed(i, n - 1) /\ n \in 1 .. n /\ i < n
        BY <1>3, <2>2 DEF Unclosed
      <3>2. Depth(i) < Depth(n)
        BY <1>3, <3>1, UnclosedLast
      <3>3. source[i].tag = TagAt(ns, op, Depth(i))
        BY <3>1 DEF PairedTo
      <3>4. Depth(i) \in 0 .. Len(op) - 1
        <4>1. Depth(i) \in Int /\ Depth(i) >= 0 /\ Depth(i) < Len(op)
          BY <1>0, <1>1, <1>2, <3>2
        <4> QED BY <4>1
      <3> QED BY <3>3, <3>4
    <2> QED BY <2>1, <2>2
  <1>4. ASSUME NEW i \in 1 .. n, NEW j \in 1 .. n, Closes(i, j)
        PROVE  source[i].tag = source[j].tag
    <2>1. j # n /\ i < j
      BY <1>4 DEF Closes
    <2>2. i \in 1 .. n - 1 /\ j \in 1 .. n - 1
      BY <2>1
    <2> QED BY <1>4, <2>2 DEF PairedTo
  <1> QED BY <1>1, <1>2, <1>3, <1>4 DEF PairedTo

\* When a closing tag is read that is that of the innermost element.
LEMMA PairedClosing ==
  ASSUME NEW n \in Nat, n # 0, NEW ns, NEW op, NEW ms, NEW oq, NEW t \in Nat, t # 0,
         PairedTo(n - 1, ns, op), Len(op) = t + 1, Depth(n - 1) = t,
         source[n].k = "close", source[n].tag = TagAt(ns, op, t),
         Len(oq) = t, \A d \in 0 .. t - 1 : TagAt(ms, oq, d) = TagAt(ns, op, d)
  PROVE  PairedTo(n, ms, oq) /\ Depth(n) = Len(oq) - 1
  <1>0. \A m \in Nat : Depth(m) \in Int
    BY DepthStep
  <1>1. Depth(n) = Depth(n - 1) - 1 /\ Depth(n) = t - 1
    BY DepthOf
  <1>2. ASSUME NEW m \in 0 .. n PROVE Depth(m) >= 0
    BY <1>1 DEF PairedTo
  <1>3. ASSUME NEW i \in 1 .. n, Unclosed(i, n)
        PROVE  source[i].tag = TagAt(ms, oq, Depth(i))
    <2>1. i # n /\ i \in 1 .. n - 1
      BY <1>3 DEF Unclosed
    <2>2. Unclosed(i, n - 1) /\ Depth(i) <= Depth(n)
      BY <1>0, <1>3, <2>1 DEF Unclosed
    <2>3. source[i].tag = TagAt(ns, op, Depth(i))
      BY <2>1, <2>2 DEF PairedTo
    <2>4. Depth(i) \in 0 .. t - 1
      BY <1>0, <1>1, <1>2, <2>2
    <2> QED BY <2>3, <2>4
  <1>4. ASSUME NEW i \in 1 .. n, NEW j \in 1 .. n, Closes(i, j)
        PROVE  source[i].tag = source[j].tag
    <2>1. i # n /\ i \in 1 .. n - 1
      BY <1>4 DEF Closes
    <2>2. CASE j # n
      <3>1. j \in 1 .. n - 1
        BY <2>2
      <3> QED BY <1>4, <2>1, <3>1 DEF PairedTo
    <2>3. CASE j = n
      <3>1. Unclosed(i, n - 1) /\ Depth(i) = Depth(n) + 1
        BY <1>0, <1>4, <2>3 DEF Closes, Unclosed
      <3>2. source[i].tag = TagAt(ns, op, Depth(i))
        BY <2>1, <3>1 DEF PairedTo
      <3>3. Depth(i) = t
        BY <1>1, <3>1
      <3> QED BY <2>3, <3>2, <3>3
    <2> QED BY <2>2, <2>3
  <1> QED BY <1>1, <1>2, <1>3, <1>4 DEF PairedTo

\* When the end of the source closes a fragment.
LEMMA PairedEnd ==
  ASSUME NEW n \in Nat, NEW ns, NEW op, NEW ms, NEW oq,
         PairedTo(n, ns, op), Len(op) \in Nat,
         Len(oq) = Len(op) - 1, \A d \in Nat : TagAt(ms, oq, d) = TagAt(ns, op, d)
  PROVE  PairedTo(n, ms, oq)
  <1>0. Depth(n) \in Int /\ \A m \in Nat : Depth(m) \in Int
    BY DepthStep
  <1>1. ASSUME NEW i \in 1 .. n, Unclosed(i, n)
        PROVE  source[i].tag = TagAt(ms, oq, Depth(i))
    <2>1. source[i].tag = TagAt(ns, op, Depth(i))
      BY <1>1 DEF PairedTo
    <2>2. Depth(i) \in Int /\ Depth(i) >= 0
      BY <1>0 DEF PairedTo
    <2> QED BY <2>1, <2>2
  <1>2. Len(oq) - 1 <= Depth(n)
    <2>1. Len(op) - 1 <= Depth(n)
      BY DEF PairedTo
    <2> QED BY <1>0, <2>1
  <1>3. \A m \in 0 .. n : Depth(m) >= 0
    BY DEF PairedTo
  <1>4. \A i, j \in 1 .. n : Closes(i, j) => source[i].tag = source[j].tag
    BY DEF PairedTo
  <1> QED BY <1>1, <1>2, <1>3, <1>4 DEF PairedTo
LEMMA PairedStays ==
  ASSUME source' = source, PairedTo(pos' - 1, nodes', open'),
         pos' <= Len(source) => Depth(pos' - 1) = Len(open') - 1
  PROVE  Paired'
  <1>1. \A i, n : Unclosed(i, n)' = Unclosed(i, n)
    BY DepthStays
  <1>2. \A i, j : Closes(i, j)' = Closes(i, j)
    BY DepthStays
  <1>3. \A n : Depth(n)' = Depth(n)
    BY DepthStays
  <1>4. PairedTo(pos - 1, nodes, open)'
    BY <1>1, <1>2, <1>3 DEF PairedTo, TagAt
  <1> QED BY <1>3, <1>4 DEF Paired
LEMMA ParsingType ==
  ASSUME TypeInv, phase = "parsing"
  PROVE  /\ kind = "jsx" /\ Len(source) \in Nat /\ DOMAIN source = 1 .. Len(source)
         /\ pos \in 1 .. Len(source) + 1 /\ pos \in Nat /\ pos # 0 /\ pos - 1 \in Nat
         /\ Len(open) \in Nat /\ Len(open) >= 1
  <1>1. kind = "jsx"
    BY DEF TypeInv, TemplateTypeOK, Shape
  <1>2. Len(source) \in Nat /\ DOMAIN source = 1 .. Len(source)
    BY <1>1, SourceType DEF TypeInv
  <1>3. pos \in 1 .. Len(source) + 1
    BY DEF TypeInv, TemplateTypeOK
  <1>4. Len(open) \in Nat \ {0}
    BY OpenType
  <1> QED BY <1>1, <1>2, <1>3, <1>4

LEMMA GainsTags ==
  ASSUME NEW parent \in DOMAIN nodes, NEW child, GainsChild(parent, child), NEW n \in DOMAIN nodes
  PROVE  nodes'[n].tag = nodes[n].tag
  BY DEF GainsChild

LEMMA LeafTags ==
  ASSUME TypeInv, ReadLeaf
  PROVE  Len(open') = Len(open) /\ \A d \in Nat : TagAt(nodes', open', d) = TagAt(nodes, open, d)
  <1>1. open' = open /\ GainsChild(Last(open), Len(nodes) + 1)
    BY LeafTree
  <1>2. /\ Len(open) \in Nat \ {0} /\ \A d \in 1 .. Len(open) : open[d] \in DOMAIN nodes
        /\ Last(open) \in DOMAIN nodes
    BY OpenType
  <1>3. ASSUME NEW d \in Nat, d < Len(open) PROVE nodes'[open[d + 1]].tag = nodes[open[d + 1]].tag
    <2>1. d + 1 \in 1 .. Len(open)
      BY <1>2, <1>3
    <2>2. open[d + 1] \in DOMAIN nodes
      BY <1>2, <2>1
    <2> QED BY <1>1, <1>2, <2>2, GainsTags
  <1> QED BY <1>1, <1>3 DEF TagAt

LEMMA OpeningTags ==
  ASSUME TypeInv, ReadOpening
  PROVE  /\ Len(open') = Len(open) + 1
         /\ \A d \in 0 .. Len(open) - 1 : TagAt(nodes', open', d) = TagAt(nodes, open, d)
         /\ TagAt(nodes', open', Len(open)) = source[pos].tag
  <1>1. /\ source[pos] \in [k : {"tag"}, tag : STRING, attrs : Seq(Attribute)]
        /\ nodes'[Len(nodes) + 1] = Element(source[pos].tag, source[pos].attrs)
        /\ \A n \in DOMAIN nodes : nodes'[n] = nodes[n]
        /\ Len(open') = Len(open) + 1
        /\ open'[Len(open) + 1] = Len(nodes) + 1
        /\ \A d \in 1 .. Len(open) : open'[d] = open[d]
    BY OpeningTree
  <1>2. Len(open) \in Nat /\ \A d \in 1 .. Len(open) : open[d] \in DOMAIN nodes
    BY OpenType
  <1>3. ASSUME NEW d \in 0 .. Len(open) - 1
        PROVE  TagAt(nodes', open', d) = TagAt(nodes, open, d)
    <2>1. d + 1 \in 1 .. Len(open) /\ d < Len(open) /\ d < Len(open')
      BY <1>1, <1>2
    <2>2. nodes'[open'[d + 1]] = nodes[open[d + 1]]
      BY <1>1, <1>2, <2>1
    <2> QED BY <2>1, <2>2 DEF TagAt
  <1>4. TagAt(nodes', open', Len(open)) = source[pos].tag
    <2>1. Len(open) < Len(open')
      BY <1>1, <1>2
    <2>2. nodes'[open'[Len(open) + 1]].tag = source[pos].tag
      BY <1>1 DEF Element
    <2> QED BY <2>1, <2>2 DEF TagAt
  <1> QED BY <1>1, <1>3, <1>4

LEMMA LeaveTags ==
  ASSUME TypeInv, Leave, Len(open) > 1
  PROVE  /\ Len(open') = Len(open) - 1
         /\ \A d \in 0 .. Len(open) - 2 : TagAt(nodes', open', d) = TagAt(nodes, open, d)
         /\ \A d \in Nat : d > Len(open) - 2 => TagAt(nodes', open', d) = ""
         /\ TagAt(nodes, open, Len(open) - 1) = Expected
         /\ \A d \in Nat : d > Len(open) - 1 => TagAt(nodes, open, d) = ""
  <1>1. /\ GainsChild(open[Len(open) - 1], Last(open))
        /\ Len(open') = Len(open) - 1
        /\ \A d \in 1 .. Len(open) - 1 : open'[d] = open[d]
    BY LeaveTree
  <1>2. /\ Len(open) \in Nat /\ \A d \in 1 .. Len(open) : open[d] \in DOMAIN nodes
        /\ Last(open) = open[Len(open)]
    BY OpenType
  <1>3. open[Len(open) - 1] \in DOMAIN nodes
    BY <1>2
  <1>4. ASSUME NEW d \in 0 .. Len(open) - 2
        PROVE  TagAt(nodes', open', d) = TagAt(nodes, open, d)
    <2>1. d + 1 \in 1 .. Len(open) - 1 /\ d < Len(open) /\ d < Len(open')
      BY <1>1, <1>2
    <2>2. open'[d + 1] = open[d + 1] /\ open[d + 1] \in DOMAIN nodes
      BY <1>1, <1>2, <2>1
    <2>3. nodes'[open[d + 1]].tag = nodes[open[d + 1]].tag
      BY <1>1, <1>3, <2>2, GainsTags
    <2> QED BY <2>1, <2>2, <2>3 DEF TagAt
  <1>5. TagAt(nodes, open, Len(open) - 1) = Expected
    <2>1. Len(open) - 1 < Len(open) /\ Len(open) - 1 + 1 = Len(open)
      BY <1>2
    <2> QED BY <2>1, <1>2 DEF TagAt, Expected
  <1>6. \A d \in Nat : /\ d > Len(open) - 1 => ~(d < Len(open))
                       /\ d > Len(open) - 2 => ~(d < Len(open'))
    BY <1>1, <1>2
  <1> QED BY <1>1, <1>4, <1>5, <1>6 DEF TagAt

LEMMA PairedInit ==
  ASSUME Init
  PROVE  Paired
  <1>1. pos - 1 = 0 /\ Len(open) = 1
    <2>1. pos = 1 /\ open = <<1>>
      BY DEF Init
    <2> QED BY <2>1
  <1>2. Depth(0) = 0 /\ \A i \in 1 .. 0 : FALSE
    BY DepthZero
  <1>3. PairedTo(0, nodes, open)
    BY <1>1, <1>2 DEF PairedTo
  <1> QED BY <1>1, <1>2, <1>3 DEF Paired

LEMMA PairedNext ==
  ASSUME TypeInv, Paired, Next, phase' = "parsing"
  PROVE  Paired'
  <1>0. phase = "parsing"
    BY DEF Next, Parse, ReadLeaf, ReadOpening, ReadBroken, ReadClosing, ReadMismatch, ReadEnd,
           EndFragment, EndUnclosed, EndTemplate, Refuse, Call, At, AtEnd
  <1> DEFINE n == pos
             L == Len(open)
  <1>1. /\ Len(source) \in Nat /\ DOMAIN source = 1 .. Len(source)
        /\ n \in 1 .. Len(source) + 1 /\ n \in Nat /\ n # 0 /\ n - 1 \in Nat
        /\ L \in Nat /\ L >= 1
    BY <1>0, ParsingType
  <1>2. PairedTo(n - 1, nodes, open) /\ (n <= Len(source) => Depth(n - 1) = L - 1)
    BY <1>0 DEF Paired
  <1> HIDE DEF n
  <1>3. CASE ReadLeaf
    <2>1. source[n].k \notin {"tag", "close"} /\ n \in DOMAIN source
      BY <1>3 DEF ReadLeaf, At, n
    <2>2. Len(open') = L /\ \A d \in Nat : TagAt(nodes', open', d) = TagAt(nodes, open, d)
      BY <1>3, LeafTags
    <2>3. source' = source /\ pos' - 1 = n
      BY <1>1, <1>3 DEF ReadLeaf, Advance, n
    <2>4. Depth(n - 1) = L - 1
      BY <1>1, <1>2, <2>1
    <2>5. PairedTo(n, nodes', open') /\ Depth(n) = Len(open') - 1
      <3>1. n \in Nat /\ n # 0 /\ Len(open) \in Nat /\ Depth(n - 1) = Len(open) - 1
        BY <1>1, <2>4
      <3> HIDE DEF L
      <3>2. Len(open') = Len(open) /\ \A d \in Nat : TagAt(nodes', open', d) = TagAt(nodes, open, d)
        BY <2>2 DEF L
      <3> QED BY <1>2, <2>1, <3>1, <3>2, PairedLeaf
    <2> QED BY <2>3, <2>5, PairedStays
  <1>4. CASE ReadOpening
    <2>1. source[n].k = "tag" /\ n \in DOMAIN source
      BY <1>4 DEF ReadOpening, At, n
    <2>2. /\ Len(open') = L + 1
          /\ \A d \in 0 .. L - 1 : TagAt(nodes', open', d) = TagAt(nodes, open, d)
          /\ TagAt(nodes', open', L) = source[n].tag
      BY <1>4, OpeningTags DEF n
    <2>3. source' = source /\ pos' - 1 = n
      BY <1>1, <1>4 DEF ReadOpening, Advance, n
    <2>4. Depth(n - 1) = L - 1
      BY <1>1, <1>2, <2>1
    <2>5. PairedTo(n, nodes', open') /\ Depth(n) = Len(open') - 1
      BY <1>1, <1>2, <2>1, <2>2, <2>4, PairedOpening
    <2> QED BY <2>3, <2>5, PairedStays
  <1>5. CASE ReadClosing
    <2>1. source[n].k = "close" /\ n \in DOMAIN source /\ source[n].tag = Expected /\ L > 1 /\ Leave
      BY <1>5 DEF ReadClosing, At, n
    <2>2. /\ Len(open') = L - 1
          /\ \A d \in 0 .. L - 2 : TagAt(nodes', open', d) = TagAt(nodes, open, d)
          /\ TagAt(nodes, open, L - 1) = Expected
      BY <2>1, LeaveTags
    <2>3. source' = source /\ pos' - 1 = n
      BY <1>1, <1>5 DEF ReadClosing, Advance, n
    <2>4. Depth(n - 1) = L - 1
      BY <1>1, <1>2, <2>1
    <2>5. PairedTo(n, nodes', open') /\ Depth(n) = Len(open') - 1
      <3>1. PICK t \in Nat : t # 0 /\ L = t + 1
        <4>1. L \in Nat /\ L > 1
          BY <1>1, <2>1
        <4> HIDE DEF L
        <4>2. L - 1 \in Nat /\ L - 1 # 0 /\ L = (L - 1) + 1
          BY <4>1
        <4> QED BY <4>2
      <3>2. /\ Len(open) = t + 1 /\ Depth(n - 1) = t
            /\ Len(open') = t /\ source[n].tag = TagAt(nodes, open, t)
        BY <1>1, <3>1, <2>1, <2>2, <2>4
      <3>3. \A d \in 0 .. t - 1 : TagAt(nodes', open', d) = TagAt(nodes, open, d)
        BY <1>1, <3>1, <2>2
      <3>4. n \in Nat /\ n # 0 /\ PairedTo(n - 1, nodes, open) /\ source[n].k = "close"
        BY <1>1, <1>2, <2>1
      <3> HIDE DEF L
      <3> QED BY <3>1, <3>2, <3>3, <3>4, PairedClosing
    <2> QED BY <2>3, <2>5, PairedStays
  <1>6. CASE EndFragment
    <2>1. n = Len(source) + 1 /\ Expected = "" /\ L > 1 /\ Leave
      BY <1>6 DEF EndFragment, AtEnd, n
    <2>2. /\ Len(open') = L - 1
          /\ \A d \in 0 .. L - 2 : TagAt(nodes', open', d) = TagAt(nodes, open, d)
          /\ \A d \in Nat : d > L - 2 => TagAt(nodes', open', d) = ""
          /\ TagAt(nodes, open, L - 1) = ""
          /\ \A d \in Nat : d > L - 1 => TagAt(nodes, open, d) = ""
      BY <2>1, LeaveTags
    <2>3. source' = source /\ pos' = n
      BY <1>6 DEF EndFragment, n
    <2>4. ASSUME NEW d \in Nat PROVE TagAt(nodes', open', d) = TagAt(nodes, open, d)
      <3>1. d \in 0 .. L - 2 \/ d = L - 1 \/ d > L - 1
        BY <1>1
      <3>2. d = L - 1 \/ d > L - 1 => d > L - 2
        BY <1>1
      <3> QED BY <2>2, <3>1, <3>2
    <2>5. PairedTo(n - 1, nodes', open')
      BY <1>1, <1>2, <2>2, <2>4, PairedEnd
    <2>6. ~(pos' <= Len(source))
      <3> HIDE DEF L
      <3>1. n = Len(source) + 1 /\ Len(source) \in Nat /\ pos' = n
        BY <1>1, <2>1, <2>3
      <3> QED BY <3>1
    <2> QED BY <2>3, <2>5, <2>6, PairedStays
  <1>7. Next => ReadLeaf \/ ReadOpening \/ ReadClosing \/ EndFragment
    BY <1>0 DEF Next, Parse, ReadBroken, ReadMismatch, ReadEnd, EndUnclosed, EndTemplate, Refuse, Call
  <1> QED BY <1>3, <1>4, <1>5, <1>6, <1>7
LEMMA TagAtTop ==
  ASSUME TypeInv
  PROVE  TagAt(nodes, open, Len(open) - 1) = Expected
  <1>1. Len(open) \in Nat \ {0} /\ Last(open) = open[Len(open)]
    BY OpenType
  <1>2. Len(open) - 1 < Len(open) /\ Len(open) - 1 + 1 = Len(open)
    BY <1>1
  <1> QED BY <1>1, <1>2 DEF TagAt, Expected

LEMMA BrokenRefused ==
  ASSUME TypeInv, Paired, ReadBroken
  PROVE  ~Balanced
  <1>1. phase = "parsing" /\ pos \in DOMAIN source /\ source[pos].k = "broken"
    BY DEF ReadBroken, At
  <1>2. pos \in 1 .. Len(source) /\ Len(source) \in Nat /\ pos \in Nat /\ pos # 0 /\ pos - 1 \in Nat
    BY <1>1, ParsingType
  <1>3. PairedTo(pos - 1, nodes, open)
    BY <1>1 DEF Paired
  <1>4. Depth(pos) >= 0
    <2>1. Depth(pos - 1) >= 0
      BY <1>2, <1>3 DEF PairedTo
    <2>2. Depth(pos) = Depth(pos - 1)
      BY <1>1, <1>2, DepthOf
    <2> QED BY <2>1, <2>2
  <1>5. Used >= pos /\ Used \in Nat
    <2> DEFINE n == pos - 1
    <2>1. n \in Nat /\ n < Len(source) /\ n + 1 = pos
      BY <1>2
    <2>2. \A m \in 0 .. n : Depth(m) >= 0
      BY <1>3 DEF PairedTo
    <2>3. DOMAIN source = 1 .. Len(source)
      BY <1>1, ParsingType
    <2> HIDE DEF n
    <2>4. Depth(n + 1) >= 0
      BY <1>4, <2>1
    <2> QED BY <1>2, <2>1, <2>2, <2>3, <2>4, UsedIs
  <1>6. pos \in 1 .. Used
    BY <1>2, <1>5
  <1> QED BY <1>1, <1>6 DEF Balanced

LEMMA MismatchRefused ==
  ASSUME TypeInv, Paired, ReadMismatch
  PROVE  ~Balanced
  <1> DEFINE n == pos - 1
             L == Len(open)
  <1>1. phase = "parsing" /\ pos \in DOMAIN source /\ source[pos].k = "close" /\ source[pos].tag # Expected
    BY DEF ReadMismatch, At
  <1>2. /\ pos \in 1 .. Len(source) /\ Len(source) \in Nat /\ pos \in Nat /\ pos # 0 /\ n \in Nat
        /\ L \in Nat /\ L >= 1 /\ DOMAIN source = 1 .. Len(source) /\ n + 1 = pos /\ n < Len(source)
        /\ n <= Len(source)
    BY <1>1, ParsingType
  <1>3. PairedTo(n, nodes, open) /\ Depth(n) = L - 1
    <2>1. pos <= Len(source)
      BY <1>2
    <2> QED BY <1>1, <2>1 DEF Paired
  <1>4. \A m \in 0 .. n : Depth(m) >= 0
    BY <1>3 DEF PairedTo
  <1>5. Depth(pos) = Depth(n) - 1 /\ Depth(n) \in Int /\ Depth(pos) \in Int
    BY <1>1, <1>2, DepthOf
  <1>6. L = 1 => Expected = ""
    BY OpenType DEF Expected, TypeInv, TemplateTypeOK
  <1>7. \A m \in Nat : Depth(m) \in Int
    BY DepthStep
  <1>8. TagAt(nodes, open, L - 1) = Expected
    BY TagAtTop
  <1> HIDE DEF n, L
  <1>9. CASE L = 1
    <2>1. Depth(n + 1) < 0
      BY <1>2, <1>3, <1>5, <1>9
    <2>2. Ends # {} /\ Used = pos
      BY <1>2, <1>4, <2>1, UsedIs
    <2> QED BY <1>1, <1>6, <1>9, <2>2 DEF Balanced
  <1>10. CASE L # 1
    <2>1. L - 1 \in Nat /\ L - 1 # 0 /\ L - 1 <= Depth(n)
      BY <1>2, <1>3, <1>5, <1>10
    <2>2. PICK i \in 1 .. n : Unclosed(i, n) /\ Depth(i) = L - 1
      BY <1>2, <2>1, UnclosedExists
    <2>3. source[i].tag = Expected
      BY <1>3, <1>8, <2>2 DEF PairedTo
    <2>4. Closes(i, pos)
      <3>1. i < pos /\ i \in Nat /\ Depth(pos) = Depth(i) - 1
        BY <1>2, <1>3, <1>5, <2>2
      <3>2. source[i].k = "tag" /\ \A m \in i .. n : Depth(m) >= Depth(i)
        BY <2>2 DEF Unclosed
      <3>3. pos - 1 = n
        BY <1>2
      <3> QED BY <1>1, <3>1, <3>2, <3>3 DEF Closes
    <2>5. Depth(n + 1) >= 0
      BY <1>2, <1>3, <1>5, <2>1
    <2>6. Used >= pos /\ Used \in Nat
      BY <1>2, <1>4, <2>5, UsedIs
    <2>7. i \in 1 .. Used /\ pos \in 1 .. Used
      BY <1>2, <2>6
    <2> QED BY <1>1, <2>3, <2>4, <2>7 DEF Balanced
  <1> QED BY <1>9, <1>10

LEMMA UnclosedRefused ==
  ASSUME TypeInv, Paired, EndUnclosed
  PROVE  ~Balanced
  <1> DEFINE n == pos - 1
             L == Len(open)
  <1>1. phase = "parsing" /\ pos = Len(source) + 1 /\ Expected # ""
    BY DEF EndUnclosed, AtEnd
  <1>2. /\ Len(source) \in Nat /\ n \in Nat /\ n = Len(source)
        /\ L \in Nat /\ L >= 1 /\ DOMAIN source = 1 .. Len(source)
    <2>1. /\ Len(source) \in Nat /\ L \in Nat /\ L >= 1 /\ DOMAIN source = 1 .. Len(source)
          /\ n \in Nat
      BY <1>1, ParsingType
    <2>2. n = Len(source)
      <3>1. pos = Len(source) + 1
        BY <1>1
      <3> QED BY <2>1, <3>1
    <2> QED BY <2>1, <2>2
  <1>3. PairedTo(n, nodes, open)
    BY <1>1 DEF Paired
  <1>4. (\A m \in 0 .. n : Depth(m) >= 0) /\ L - 1 <= Depth(n)
    BY <1>3 DEF PairedTo
  <1>5. L # 1
    BY <1>1, OpenType DEF Expected, TypeInv, TemplateTypeOK
  <1>6. TagAt(nodes, open, L - 1) = Expected
    BY TagAtTop
  <1> HIDE DEF n, L
  <1>7. PICK i \in 1 .. n : Unclosed(i, n) /\ Depth(i) = L - 1
    <2>1. L - 1 \in Nat /\ L - 1 # 0
      BY <1>2, <1>5
    <2> QED BY <1>2, <1>4, <2>1, UnclosedExists
  <1>8. source[i].k = "tag" /\ source[i].tag # ""
    <2>1. source[i].tag = TagAt(nodes, open, Depth(i))
      BY <1>3, <1>7 DEF PairedTo
    <2> QED BY <1>1, <1>6, <1>7, <2>1 DEF Unclosed
  <1>9. Ends = {} /\ Used = n
    BY <1>2, <1>4, UsedIs
  <1>10. ASSUME NEW j \in 1 .. n, Closes(i, j) PROVE FALSE
    <2>1. j \in i .. n /\ Depth(j) = Depth(i) - 1
      BY <1>10 DEF Closes
    <2>2. Depth(j) >= Depth(i)
      BY <1>7, <2>1 DEF Unclosed
    <2>3. Depth(i) \in Int
      BY DepthStep
    <2> QED BY <2>1, <2>2, <2>3
  <1> QED BY <1>8, <1>9, <1>10 DEF Balanced

LEMMA EndAccepted ==
  ASSUME TypeInv, Paired, ReadEnd
  PROVE  Balanced /\ Used = pos
  <1> DEFINE n == pos - 1
  <1>1. /\ phase = "parsing" /\ pos \in DOMAIN source /\ source[pos].k = "close"
        /\ source[pos].tag = Expected /\ Len(open) = 1
    BY DEF ReadEnd, At
  <1>2. /\ pos \in 1 .. Len(source) /\ Len(source) \in Nat /\ pos \in Nat /\ pos # 0 /\ n \in Nat
        /\ DOMAIN source = 1 .. Len(source) /\ n + 1 = pos /\ n < Len(source)
    BY <1>1, ParsingType
  <1>3. PairedTo(n, nodes, open) /\ Depth(n) = 0
    <2>1. pos <= Len(source) /\ 1 - 1 = 0
      BY <1>2
    <2> QED BY <1>1, <2>1 DEF Paired
  <1>4. /\ \A m \in 0 .. n : Depth(m) >= 0
        /\ \A i, j \in 1 .. n : Closes(i, j) => source[i].tag = source[j].tag
    BY <1>3 DEF PairedTo
  <1>5. Depth(pos) = Depth(n) - 1
    BY <1>1, <1>2, DepthOf
  <1>6. Expected = ""
    BY <1>1, OpenType DEF Expected, TypeInv, TemplateTypeOK
  <1>7. \A i \in 1 .. pos : source[i].k # "broken"
    BY <1>1, NoneBroken
  <1>8. \A m \in Nat : Depth(m) \in Int
    BY DepthStep
  <1> HIDE DEF n
  <1>9. Ends # {} /\ Used = pos
    <2>1. Depth(n + 1) < 0
      BY <1>2, <1>3, <1>5
    <2> QED BY <1>2, <1>4, <2>1, UsedIs
  <1>10. ASSUME NEW i \in 1 .. pos, NEW j \in 1 .. pos, Closes(i, j)
         PROVE  source[i].tag = source[j].tag
    <2>1. i \in 1 .. n /\ i \in Nat /\ i # 0
      BY <1>2, <1>10 DEF Closes
    <2>2. source[i].k = "tag" /\ Depth(j) = Depth(i) - 1
      BY <1>10 DEF Closes
    <2>3. Depth(i) >= 1
      <3>1. i - 1 \in 0 .. n
        BY <1>2, <2>1
      <3>2. Depth(i - 1) >= 0
        BY <1>4, <3>1
      <3> QED BY <2>1, <2>2, <3>2, DepthOf
    <2>4. j # pos
      BY <1>3, <1>5, <1>8, <2>1, <2>2, <2>3
    <2>5. j \in 1 .. n
      BY <1>2, <2>4
    <2> QED BY <1>4, <1>10, <2>1, <2>5
  <1> QED BY <1>1, <1>6, <1>7, <1>9, <1>10 DEF Balanced

LEMMA TemplateAccepted ==
  ASSUME TypeInv, Paired, EndTemplate
  PROVE  Balanced /\ Used = pos - 1
  <1> DEFINE n == pos - 1
  <1>1. phase = "parsing" /\ pos = Len(source) + 1 /\ Len(open) = 1
    BY DEF EndTemplate, AtEnd
  <1>2. Len(source) \in Nat /\ n \in Nat /\ n = Len(source) /\ DOMAIN source = 1 .. Len(source)
    BY <1>1, ParsingType
  <1>3. PairedTo(n, nodes, open)
    BY <1>1 DEF Paired
  <1>4. /\ \A m \in 0 .. n : Depth(m) >= 0
        /\ \A i, j \in 1 .. n : Closes(i, j) => source[i].tag = source[j].tag
    BY <1>3 DEF PairedTo
  <1>5. \A i \in 1 .. n : source[i].k # "broken"
    BY <1>1 DEF TypeInv, Shape
  <1>6. \A m \in Nat : Depth(m) \in Int
    BY DepthStep
  <1> HIDE DEF n
  <1>7. Ends = {} /\ Used = n
    BY <1>2, <1>4, UsedIs
  <1>8. ASSUME NEW i \in 1 .. n, source[i].k = "tag", source[i].tag # ""
        PROVE  \E j \in 1 .. n : Closes(i, j)
    <2>1. SUFFICES ASSUME Unclosed(i, n) PROVE FALSE
      BY <1>2, <1>8, ClosedOrNot
    <2>2. source[i].tag = TagAt(nodes, open, Depth(i))
      BY <1>3, <2>1 DEF PairedTo
    <2>3. Depth(i) >= 1
      <3>1. i \in Nat /\ i # 0 /\ i - 1 \in 0 .. n
        BY <1>2
      <3>2. Depth(i - 1) >= 0
        BY <1>4, <3>1
      <3>3. Depth(i) = Depth(i - 1) + 1 /\ Depth(i - 1) \in Int
        BY <1>8, <3>1, DepthOf
      <3> QED BY <3>2, <3>3
    <2>4. i \in Nat
      BY <1>2
    <2>5. Depth(i) \in Int
      BY <1>6, <2>4
    <2>6. ~(Depth(i) < 1)
      BY <2>3, <2>5
    <2> QED BY <1>1, <1>8, <2>2, <2>6 DEF TagAt
  <1>9. Balanced
    BY <1>4, <1>5, <1>7, <1>8 DEF Balanced
  <1> QED BY <1>7, <1>9 DEF n

BalanceInv ==
  /\ Paired
  /\ AcceptsBalanced
  /\ kind = "jsx" /\ phase = "ready" => Used = pos - 1

LEMMA BalanceNext ==
  ASSUME TypeInv, BalanceInv, [Next]_vars
  PROVE  BalanceInv'
  <1>1. kind' = kind /\ source' = source
    BY DEF Next, Parse, ReadLeaf, ReadOpening, ReadBroken, ReadClosing, ReadMismatch, ReadEnd,
           EndFragment, EndUnclosed, EndTemplate, Refuse, Advance, Call, vars
  <1>2. Balanced' = Balanced /\ Used' = Used
    BY <1>1, DepthStays
  <1>3. CASE UNCHANGED vars
    <2>1. phase' = phase /\ pos' = pos /\ nodes' = nodes /\ open' = open
      BY <1>3 DEF vars, tree
    <2>2. Paired'
      <3>1. CASE phase # "parsing"
        BY <3>1, <2>1 DEF Paired
      <3>2. CASE phase = "parsing"
        BY <3>2, <1>1, <2>1, PairedStays DEF BalanceInv, Paired
      <3> QED BY <3>1, <3>2
    <2> QED BY <1>1, <1>2, <2>1, <2>2 DEF BalanceInv, AcceptsBalanced
  <1>4. CASE Next
    <2>1. Paired'
      <3>1. CASE phase' = "parsing"
        BY <1>4, <3>1, PairedNext DEF BalanceInv
      <3> QED BY <3>1 DEF Paired
    <2>2. CASE ReadBroken
      BY <2>1, <2>2, <1>1, <1>2, BrokenRefused
      DEF ReadBroken, Refuse, BalanceInv, AcceptsBalanced
    <2>3. CASE ReadMismatch
      BY <2>1, <2>3, <1>1, <1>2, MismatchRefused
      DEF ReadMismatch, Refuse, BalanceInv, AcceptsBalanced
    <2>4. CASE EndUnclosed
      BY <2>1, <2>4, <1>1, <1>2, UnclosedRefused
      DEF EndUnclosed, Refuse, BalanceInv, AcceptsBalanced
    <2>5. CASE ReadEnd
      <3>1. Balanced /\ Used = pos
        BY <2>5, EndAccepted DEF BalanceInv
      <3>2. phase' = "ready" /\ pos' = pos + 1 /\ pos \in Nat
        BY <2>5, ParsingType DEF ReadEnd, At
      <3>3. Used' = pos' - 1
        BY <1>2, <3>1, <3>2
      <3> QED BY <2>1, <1>1, <1>2, <3>1, <3>2, <3>3 DEF BalanceInv, AcceptsBalanced
    <2>6. CASE EndTemplate
      <3>1. Balanced /\ Used = pos - 1
        BY <2>6, TemplateAccepted DEF BalanceInv
      <3>2. phase' = "ready" /\ pos' = pos
        BY <2>6 DEF EndTemplate
      <3> QED BY <2>1, <1>1, <1>2, <3>1, <3>2 DEF BalanceInv, AcceptsBalanced
    <2>7. CASE ReadLeaf \/ ReadOpening \/ ReadClosing \/ EndFragment
      <3>1. phase' = "parsing"
        BY <2>7 DEF ReadLeaf, ReadOpening, ReadClosing, EndFragment, Advance, At, AtEnd
      <3> QED BY <2>1, <3>1 DEF BalanceInv, AcceptsBalanced
    <2>8. ASSUME NEW map \in PropMaps, Call(map) PROVE BalanceInv'
      <3>1. phase' = phase /\ pos' = pos
        BY <2>8 DEF Call
      <3> QED BY <2>1, <1>1, <1>2, <3>1 DEF BalanceInv, AcceptsBalanced
    <2> QED BY <1>4, <2>2, <2>3, <2>4, <2>5, <2>6, <2>7, <2>8 DEF Next, Parse
  <1> QED BY <1>3, <1>4

LEMMA BalanceInit ==
  ASSUME Init
  PROVE  BalanceInv
  <1>1. kind = "jsx" => phase = "parsing"
    BY DEF Init
  <1> QED BY <1>1, PairedInit DEF BalanceInv, AcceptsBalanced

\* $jsx accepts exactly the sources whose tags pair up, but for the fragments that
\* the end of the source closes (JsxParser::parse_children).
THEOREM AcceptsBalancedAlways == Spec => []AcceptsBalanced
  <1>1. Init => TypeInv /\ BalanceInv
    BY TypeInit, BalanceInit
  <1>2. TypeInv /\ BalanceInv /\ [Next]_vars => (TypeInv /\ BalanceInv)'
    BY TypeNext, BalanceNext
  <1>3. BalanceInv => AcceptsBalanced
    BY DEF BalanceInv
  <1> QED BY <1>1, <1>2, <1>3, PTL DEF Spec
-----------------------------------------------------------------------------
(* Rendering in place *)

OpenText(node, map) ==
  IF node.tag = "" THEN <<>> ELSE OpeningTag(node.tag, node.attrs, map) \o Mark(">")
CloseText(node) == IF node.tag = "" THEN <<>> ELSE ClosingTag(node.tag)

\* What the children of node x of ns come to if each node comes to what r says.
Inner(ns, r, x) == FlattenSeq([i \in DOMAIN ns[x].children |-> r[ns[x].children[i]]])

Rendered(ns, r, x, map) ==
  IF ns[x].k # "element" THEN RenderLeaf(ns[x], map)
  ELSE RenderElement(ns[x], Inner(ns, r, x), map)

\* The first n pieces in place.
Flat(n, map) == FlattenSeq([i \in 1 .. n |-> InPlace(source[i], map)])

LEMMA TextsAreSeqs ==
  ASSUME NEW node, node.attrs \in Seq(Attribute), NEW map \in PropMaps
  PROVE  IsSeq(OpenText(node, map)) /\ IsSeq(CloseText(node))
  <1>1. IsSeq(<<>>)
    BY EmptyIsSeq
  <1>2. IsSeq(OpeningTag(node.tag, node.attrs, map)) /\ IsSeq(ClosingTag(node.tag))
    BY OpeningTagIsSeq
  <1>3. IsSeq(OpeningTag(node.tag, node.attrs, map) \o Mark(">"))
    BY <1>2, AtomsAreSeqs, ConcatIsSeq
  <1>4. OpenText(node, map) \in {<<>>, OpeningTag(node.tag, node.attrs, map) \o Mark(">")}
    BY DEF OpenText
  <1>5. CloseText(node) \in {<<>>, ClosingTag(node.tag)}
    BY DEF CloseText
  <1> QED BY <1>1, <1>2, <1>3, <1>4, <1>5

LEMMA RenderElementIs ==
  ASSUME NEW node, NEW inner, IsSeq(inner), NEW map
  PROVE  RenderElement(node, inner, map) = (OpenText(node, map) \o inner) \o CloseText(node)
  <1>1. CASE node.tag = ""
    BY <1>1, ConcatEmpty DEF RenderElement, OpenText, CloseText
  <1>2. CASE node.tag # ""
    BY <1>2 DEF RenderElement, OpenText, CloseText
  <1> QED BY <1>1, <1>2

LEMMA PieceKinds ==
  ASSUME NEW p \in Piece
  PROVE  /\ p.k \in {"text", "expr", "tag", "void", "close", "broken"}
         /\ p.k \in {"text", "expr", "void"} => p \in Leaf
         /\ p.k = "tag" => p.attrs \in Seq(Attribute)
  BY DEF Piece, Leaf, Broken

LEMMA InPlaceCases ==
  ASSUME NEW p \in Piece, NEW map
  PROVE  /\ p.k \in {"text", "expr", "void"} => InPlace(p, map) = RenderLeaf(p, map)
         /\ p.k = "tag" => InPlace(p, map) = OpenText(p, map)
         /\ p.k = "close" => InPlace(p, map) = CloseText(p)
  <1>1. CASE p.k \in {"text", "expr", "void"}
    BY <1>1 DEF InPlace
  <1>2. CASE p.k = "tag"
    <2>1. CASE p.tag = ""
      BY <1>2, <2>1 DEF InPlace, OpenText
    <2>2. CASE p.tag # ""
      BY <1>2, <2>2 DEF InPlace, OpenText
    <2> QED BY <1>2, <2>1, <2>2
  <1>3. CASE p.k = "close"
    <2>1. CASE p.tag = ""
      BY <1>3, <2>1 DEF InPlace, CloseText
    <2>2. CASE p.tag # ""
      BY <1>3, <2>2 DEF InPlace, CloseText
    <2> QED BY <1>3, <2>1, <2>2
  <1> QED BY <1>1, <1>2, <1>3

LEMMA CloseTextIsSeq ==
  ASSUME NEW node
  PROVE  IsSeq(CloseText(node))
  <1>1. CloseText(node) \in {<<>>, ClosingTag(node.tag)}
    BY DEF CloseText
  <1>2. IsSeq(ClosingTag(node.tag))
    <2>1. IsSeq(Mark("</") \o Name(node.tag))
      BY AtomsAreSeqs, ConcatIsSeq
    <2> QED BY <2>1, AtomsAreSeqs, ConcatIsSeq DEF ClosingTag
  <1> QED BY <1>1, <1>2, EmptyIsSeq

LEMMA InPlaceIsSeq ==
  ASSUME NEW p \in Piece, NEW map \in PropMaps, p.k # "broken"
  PROVE  IsSeq(InPlace(p, map))
  <1>1. CASE p.k \in {"text", "expr", "void"}
    BY <1>1, PieceKinds, InPlaceCases, RenderLeafIsSeq
  <1>2. CASE p.k = "tag"
    BY <1>2, PieceKinds, InPlaceCases, TextsAreSeqs
  <1>3. CASE p.k = "close"
    BY <1>3, InPlaceCases, CloseTextIsSeq
  <1> QED BY <1>1, <1>2, <1>3, PieceKinds

LEMMA InnerIsSeq ==
  ASSUME NEW ns, NEW r, NEW x, ns[x].children \in Seq(Nat),
         \A i \in DOMAIN ns[x].children : IsSeq(r[ns[x].children[i]])
  PROVE  IsSeq(Inner(ns, r, x))
  <1> DEFINE cs == ns[x].children
             ss == [i \in DOMAIN cs |-> r[cs[i]]]
  <1>1. Len(cs) \in Nat /\ DOMAIN cs = 1 .. Len(cs)
    OBVIOUS
  <1>2. ss = [i \in 1 .. Len(cs) |-> ss[i]] /\ \A i \in 1 .. Len(cs) : IsSeq(ss[i])
    BY <1>1
  <1>3. SeqOfSeqs(ss)
    <2> HIDE DEF ss, cs
    <2> QED BY <1>1, <1>2, IsSeqIntro DEF SeqOfSeqs
  <1> QED BY <1>3, FlattenIsSeq DEF Inner

LEMMA InnerSame ==
  ASSUME NEW ns, NEW ms, NEW r, NEW q, NEW x, ms[x].children = ns[x].children,
         \A i \in DOMAIN ns[x].children : q[ns[x].children[i]] = r[ns[x].children[i]]
  PROVE  Inner(ms, q, x) = Inner(ns, r, x)
  <1>1. [i \in DOMAIN ms[x].children |-> q[ms[x].children[i]]]
          = [i \in DOMAIN ns[x].children |-> r[ns[x].children[i]]]
    OBVIOUS
  <1> QED BY <1>1 DEF Inner

LEMMA InnerAppend ==
  ASSUME NEW ns, NEW ms, NEW r, NEW q, NEW x, NEW c \in Nat, ns[x].children \in Seq(Nat),
         ms[x].children = Append(ns[x].children, c),
         \A i \in DOMAIN ns[x].children : q[ns[x].children[i]] = r[ns[x].children[i]],
         IsSeq(q[c])
  PROVE  Inner(ms, q, x) = Inner(ns, r, x) \o q[c]
  <1> DEFINE cs == ns[x].children
             n == Len(cs)
             ss == [i \in DOMAIN cs |-> r[cs[i]]]
             ds == Append(cs, c)
             tt == [i \in DOMAIN ds |-> q[ds[i]]]
  <1>1. n \in Nat /\ DOMAIN cs = 1 .. n
    OBVIOUS
  <1>2. /\ DOMAIN ds = 1 .. n + 1 /\ ds[n + 1] = c /\ \A i \in 1 .. n : ds[i] = cs[i]
    <2>1. ds \in Seq(Nat) /\ Len(ds) = n + 1
      BY AppendProperties
    <2> QED BY <2>1, AppendProperties
  <1>3. \A i \in 1 .. n : q[cs[i]] = r[cs[i]]
    BY <1>1
  <1> HIDE DEF n, ds, cs
  <1>4. IsSeq(ss) /\ Len(ss) = n
    <2>1. ss = [i \in 1 .. n |-> ss[i]]
      BY <1>1
    <2> HIDE DEF ss
    <2> QED BY <1>1, <2>1, IsSeqIntro
  <1>5. IsSeq(tt) /\ Len(tt) = n + 1
    <2>1. tt = [i \in 1 .. n + 1 |-> tt[i]]
      BY <1>2
    <2>2. n + 1 \in Nat
      BY <1>1
    <2> HIDE DEF tt
    <2> QED BY <2>2, <2>1, IsSeqIntro
  <1>6. tt = Append(ss, q[c])
    <2>1. /\ IsSeq(Append(ss, q[c])) /\ Len(Append(ss, q[c])) = n + 1
          /\ Append(ss, q[c])[n + 1] = q[c] /\ \A i \in 1 .. n : Append(ss, q[c])[i] = ss[i]
      BY <1>4, AppendIsSeq
    <2>2. tt[n + 1] = q[c]
      BY <1>1, <1>2
    <2>3. \A i \in 1 .. n : tt[i] = ss[i]
      BY <1>1, <1>2, <1>3
    <2> HIDE DEF tt, ss
    <2>4. \A i \in 1 .. n + 1 : tt[i] = Append(ss, q[c])[i]
      <3> TAKE i \in 1 .. n + 1
      <3>1. i = n + 1 \/ i \in 1 .. n
        BY <1>1
      <3> QED BY <3>1, <2>1, <2>2, <2>3
    <2> QED BY <1>5, <2>1, <2>4, IsSeqEqual
  <1>7. FlattenSeq(Append(ss, q[c])) = FlattenSeq(ss) \o q[c]
    <2> HIDE DEF ss
    <2> QED BY <1>4, FlattenAppend
  <1> QED BY <1>6, <1>7 DEF Inner, cs, ds
LEMMA FlatIsSeq ==
  ASSUME source \in Seq(Piece), NEW map \in PropMaps, NEW n \in Nat, n <= Len(source),
         \A i \in 1 .. n : source[i].k # "broken"
  PROVE  LET ss == [i \in 1 .. n |-> InPlace(source[i], map)]
         IN  SeqOfSeqs(ss) /\ Len(ss) = n
  <1> DEFINE ss == [i \in 1 .. n |-> InPlace(source[i], map)]
  <1>1. \A i \in 1 .. n : IsSeq(ss[i])
    <2> TAKE i \in 1 .. n
    <2>1. source[i] \in Piece /\ source[i].k # "broken"
      OBVIOUS
    <2> QED BY <2>1, InPlaceIsSeq
  <1>2. ss = [i \in 1 .. n |-> ss[i]]
    OBVIOUS
  <1>3. SeqOfSeqs(ss) /\ Len(ss) = n
    <2> HIDE DEF ss
    <2> QED BY <1>1, <1>2, IsSeqIntro DEF SeqOfSeqs
  <1> QED BY <1>3

LEMMA FlatStep ==
  ASSUME source \in Seq(Piece), NEW map \in PropMaps, NEW n \in Nat, n # 0, n <= Len(source),
         \A i \in 1 .. n : source[i].k # "broken"
  PROVE  /\ IsSeq(Flat(n - 1, map))
         /\ Flat(n, map) = Flat(n - 1, map) \o InPlace(source[n], map)
  <1> DEFINE m == n - 1
             X(i) == InPlace(source[i], map)
             ss == [i \in 1 .. m |-> X(i)]
             tt == [i \in 1 .. n |-> X(i)]
  <1>1. m \in Nat /\ m + 1 = n /\ m <= Len(source) /\ \A i \in 1 .. m : source[i].k # "broken"
    OBVIOUS
  <1>2. SeqOfSeqs(ss) /\ Len(ss) = m
    BY <1>1, FlatIsSeq
  <1>3. SeqOfSeqs(tt) /\ Len(tt) = n
    BY FlatIsSeq
  <1>4. tt[n] = X(n) /\ n \in 1 .. n
    OBVIOUS
  <1>5. IsSeq(X(n))
    BY <1>3, <1>4 DEF SeqOfSeqs
  <1>6. \A i \in 1 .. m : tt[i] = ss[i]
    BY <1>1
  <1> HIDE DEF m, X, ss, tt
  <1>7. tt = Append(ss, X(n))
    <2>1. /\ IsSeq(Append(ss, X(n))) /\ Len(Append(ss, X(n))) = n
          /\ Append(ss, X(n))[n] = X(n) /\ \A i \in 1 .. m : Append(ss, X(n))[i] = ss[i]
      BY <1>1, <1>2, AppendIsSeq DEF SeqOfSeqs
    <2>2. \A i \in 1 .. n : tt[i] = Append(ss, X(n))[i]
      <3> TAKE i \in 1 .. n
      <3>1. i = n \/ i \in 1 .. m
        BY <1>1
      <3> QED BY <3>1, <2>1, <1>4, <1>6
    <2> QED BY <1>3, <2>1, <2>2, IsSeqEqual DEF SeqOfSeqs
  <1>8. FlattenSeq(tt) = FlattenSeq(ss) \o X(n)
    BY <1>2, <1>5, <1>7, FlattenAppend DEF SeqOfSeqs
  <1>9. IsSeq(FlattenSeq(ss))
    BY <1>2, FlattenIsSeq
  <1> QED BY <1>8, <1>9 DEF Flat, m, X, ss, tt

\* Of n pieces read, r is what the nodes come to and pre[d] what comes before the
\* inside of the d-th open element.
Placed(r, pre, ns, op, n, map) ==
  /\ \A x \in DOMAIN ns : IsSeq(r[x])
  /\ \A x \in DOMAIN ns : (\A d \in DOMAIN op : op[d] # x) => r[x] = Rendered(ns, r, x, map)
  /\ pre[1] = <<>>
  /\ \A d \in 1 .. Len(op) : IsSeq(pre[d])
  /\ \A d \in 1 .. Len(op) - 1 :
       pre[d + 1] = (pre[d] \o Inner(ns, r, op[d])) \o OpenText(ns[op[d + 1]], map)
  /\ pre[Len(op)] \o Inner(ns, r, op[Len(op)]) = Flat(n, map)

\* The elements have children that are rendered already.
LEMMA ChildrenType ==
  ASSUME TypeInv, NEW x \in DOMAIN nodes, nodes[x].k = "element"
  PROVE  /\ nodes[x].children \in Seq(Nat) /\ nodes[x].attrs \in Seq(Attribute)
         /\ \A i \in DOMAIN nodes[x].children :
              /\ nodes[x].children[i] \in DOMAIN nodes
              /\ \A d \in DOMAIN open : open[d] # nodes[x].children[i]
  <1>1. nodes[x] \in Node
    BY DEF TypeInv, Shape
  <1>2. nodes[x] \in [k : {"element"}, tag : TagName, attrs : Seq(Attribute), children : Seq(Nat)]
    BY <1>1, NodeKinds
  <1> QED BY <1>2 DEF TypeInv, Shape, ChildrenFollow

LEMMA PlacedInner ==
  ASSUME TypeInv, NEW r, \A x \in DOMAIN nodes : IsSeq(r[x]), NEW x \in DOMAIN nodes,
         nodes[x].k = "element"
  PROVE  IsSeq(Inner(nodes, r, x))
  <1>1. \A i \in DOMAIN nodes[x].children : IsSeq(r[nodes[x].children[i]])
    BY ChildrenType
  <1> QED BY <1>1, ChildrenType, InnerIsSeq

\* A node that a step leaves alone is rendered as before.
LEMMA RenderedSame ==
  ASSUME TypeInv, NEW r, NEW q, NEW x \in DOMAIN nodes, nodes'[x] = nodes[x], NEW map,
         \A y \in DOMAIN nodes : (\A d \in DOMAIN open : open[d] # y) => q[y] = r[y]
  PROVE  /\ Rendered(nodes', q, x, map) = Rendered(nodes, r, x, map)
         /\ nodes[x].k = "element" => Inner(nodes', q, x) = Inner(nodes, r, x)
  <1>1. ASSUME nodes[x].k = "element" PROVE Inner(nodes', q, x) = Inner(nodes, r, x)
    <2>1. \A i \in DOMAIN nodes[x].children :
            q[nodes[x].children[i]] = r[nodes[x].children[i]]
      BY <1>1, ChildrenType
    <2>2. nodes'[x].children = nodes[x].children
      OBVIOUS
    <2> QED BY <2>1, <2>2, InnerSame
  <1>2. Rendered(nodes', q, x, map) = Rendered(nodes, r, x, map)
    BY <1>1 DEF Rendered
  <1> QED BY <1>1, <1>2

LEMMA ConcatOfThree ==
  ASSUME NEW a, NEW b, NEW c, IsSeq(a), IsSeq(b), IsSeq(c)
  PROVE  a \o (b \o c) = (a \o b) \o c /\ IsSeq(a \o b) /\ IsSeq((a \o b) \o c)
  BY ConcatAssoc, ConcatIsSeq

LEMMA PlacedLeaf ==
  ASSUME TypeInv, ReadLeaf, NEW map \in PropMaps, NEW r, NEW pre,
         Placed(r, pre, nodes, open, pos - 1, map)
  PROVE  \E q : Placed(q, pre, nodes', open', pos, map)
  <1> DEFINE N == Len(nodes)
             L == Len(open)
             top == open[L]
             text == RenderLeaf(source[pos], map)
             q == [x \in 1 .. N + 1 |-> IF x = N + 1 THEN text ELSE r[x]]
  <1>1. /\ N \in Nat /\ DOMAIN nodes = 1 .. N /\ L \in Nat \ {0} /\ DOMAIN open = 1 .. L
        /\ \A d \in 1 .. L : open[d] \in 1 .. N /\ nodes[open[d]].k = "element"
        /\ Last(open) = top /\ top \in 1 .. N /\ nodes[top].k = "element"
    BY OpenType
  <1>2. /\ source[pos] \in Leaf /\ nodes' \in Seq(Node) /\ Len(nodes') = N + 1
        /\ nodes'[N + 1] = source[pos] /\ GainsChild(top, N + 1) /\ open' = open
    BY <1>1, LeafTree
  <1>3. DOMAIN nodes' = 1 .. N + 1
    BY <1>1, <1>2
  <1>4. IsSeq(text)
    BY <1>2, RenderLeafIsSeq
  <1>5. /\ q[N + 1] = text /\ \A x \in 1 .. N : q[x] = r[x]
    BY <1>1
  <1>6. /\ \A x \in 1 .. N : IsSeq(r[x])
        /\ \A x \in 1 .. N : (\A d \in 1 .. L : open[d] # x) => r[x] = Rendered(nodes, r, x, map)
        /\ pre[1] = <<>>
        /\ \A d \in 1 .. L : IsSeq(pre[d])
        /\ \A d \in 1 .. L - 1 :
             pre[d + 1] = (pre[d] \o Inner(nodes, r, open[d])) \o OpenText(nodes[open[d + 1]], map)
        /\ pre[L] \o Inner(nodes, r, top) = Flat(pos - 1, map)
    BY <1>1 DEF Placed
  <1>7. \A x \in 1 .. N : x # top => nodes'[x] = nodes[x]
    BY <1>1, <1>2 DEF GainsChild
  <1>8. Flat(pos, map) = Flat(pos - 1, map) \o text
    <2>1. phase = "parsing" /\ pos \in DOMAIN source /\ source[pos].k \in {"text", "expr", "void"}
      BY DEF ReadLeaf, At
    <2>2. source \in Seq(Piece) /\ pos \in Nat /\ pos # 0 /\ pos <= Len(source)
      BY <2>1, ParsingType, SourceType DEF TypeInv
    <2>3. \A i \in 1 .. pos : source[i].k # "broken"
      BY <2>1, NoneBroken
    <2>4. InPlace(source[pos], map) = text
      BY <2>1, <2>2, InPlaceCases
    <2> QED BY <2>2, <2>3, <2>4, FlatStep
  <1> HIDE DEF q, text
  <1>9. ASSUME NEW x \in 1 .. N, x # top
        PROVE  /\ Rendered(nodes', q, x, map) = Rendered(nodes, r, x, map)
               /\ nodes[x].k = "element" => Inner(nodes', q, x) = Inner(nodes, r, x)
    <2>1. nodes'[x] = nodes[x] /\ x \in DOMAIN nodes /\ \A y \in DOMAIN nodes : q[y] = r[y]
      BY <1>1, <1>5, <1>7, <1>9
    <2> QED BY <2>1, RenderedSame
  <1>10. Inner(nodes', q, top) = Inner(nodes, r, top) \o text
    <2>1. nodes'[top].children = Append(nodes[top].children, N + 1) /\ N + 1 \in Nat
      BY <1>1, <1>2 DEF GainsChild
    <2>2. /\ nodes[top].children \in Seq(Nat)
          /\ \A i \in DOMAIN nodes[top].children : q[nodes[top].children[i]] = r[nodes[top].children[i]]
      BY <1>1, <1>5, ChildrenType
    <2>3. IsSeq(q[N + 1])
      BY <1>4, <1>5
    <2>4. Inner(nodes', q, top) = Inner(nodes, r, top) \o q[N + 1]
      <3> DEFINE c == N + 1
      <3>1. c \in Nat /\ IsSeq(q[c]) /\ nodes'[top].children = Append(nodes[top].children, c)
        BY <2>1, <2>3
      <3> HIDE DEF c, top
      <3>2. ASSUME NEW ms, ms[top].children = Append(nodes[top].children, c)
            PROVE  Inner(ms, q, top) = Inner(nodes, r, top) \o q[c]
        BY <2>2, <3>1, <3>2, InnerAppend
      <3>3. Inner(nodes', q, top) = Inner(nodes, r, top) \o q[c]
        BY <3>1, <3>2
      <3> QED BY <3>3 DEF c
    <2> QED BY <2>4, <1>5
  <1>11. IsSeq(Inner(nodes, r, top))
    BY <1>1, <1>6, PlacedInner
  <1>12. \A x \in 1 .. N + 1 : IsSeq(q[x])
    BY <1>1, <1>4, <1>5, <1>6
  <1>13. ASSUME NEW x \in 1 .. N + 1, \A d \in 1 .. L : open[d] # x
         PROVE  q[x] = Rendered(nodes', q, x, map)
    <2>1. CASE x = N + 1
      <3>1. nodes'[x].k # "element"
        BY <1>2, <2>1, NodeKinds
      <3> QED BY <3>1, <2>1, <1>2, <1>5 DEF Rendered, text
    <2>2. CASE x # N + 1
      <3>1. x \in 1 .. N /\ x # top
        BY <1>1, <2>2, <1>13
      <3> QED BY <3>1, <1>5, <1>6, <1>9, <1>13
    <2> QED BY <2>1, <2>2
  <1>14. ASSUME NEW d \in 1 .. L - 1
         PROVE  pre[d + 1] = (pre[d] \o Inner(nodes', q, open[d])) \o OpenText(nodes'[open[d + 1]], map)
    <2>1. d \in 1 .. L /\ d + 1 \in 1 .. L /\ d < L
      BY <1>1
    <2>2. open[d] \in 1 .. N /\ nodes[open[d]].k = "element" /\ open[d] # top
      <3>1. open[d] < open[L]
        BY <1>1, <2>1 DEF TypeInv, Shape, OpenRises
      <3> QED BY <1>1, <2>1, <3>1
    <2>3. Inner(nodes', q, open[d]) = Inner(nodes, r, open[d])
      BY <2>2, <1>9
    <2>4. open[d + 1] \in DOMAIN nodes
      BY <1>1, <2>1
    <2>5. /\ nodes'[open[d + 1]].tag = nodes[open[d + 1]].tag
          /\ nodes'[open[d + 1]].attrs = nodes[open[d + 1]].attrs
      BY <1>1, <1>2, <2>4 DEF GainsChild
    <2>6. OpenText(nodes'[open[d + 1]], map) = OpenText(nodes[open[d + 1]], map)
      BY <2>5 DEF OpenText
    <2> QED BY <1>6, <2>3, <2>6
  <1>15. pre[L] \o Inner(nodes', q, top) = Flat(pos, map)
    <2>1. L \in 1 .. L
      BY <1>1
    <2>2. IsSeq(pre[L])
      BY <2>1, <1>6
    <2>3. pre[L] \o (Inner(nodes, r, top) \o text) = (pre[L] \o Inner(nodes, r, top)) \o text
      <3> DEFINE a == pre[L]
                 b == Inner(nodes, r, top)
      <3>1. IsSeq(a) /\ IsSeq(b)
        BY <2>2, <1>11
      <3> HIDE DEF a, b
      <3>2. a \o (b \o text) = (a \o b) \o text
        BY <3>1, <1>4, ConcatOfThree
      <3> QED BY <3>2 DEF a, b
    <2> QED BY <2>3, <1>6, <1>8, <1>10
  <1>16. Placed(q, pre, nodes', open', pos, map)
    BY <1>1, <1>2, <1>3, <1>6, <1>12, <1>13, <1>14, <1>15 DEF Placed
  <1> QED BY <1>16

LEMMA Positions ==
  ASSUME NEW n \in Nat \ {0}
  PROVE  /\ 1 \in 1 .. n /\ n \in 1 .. n /\ n + 1 \in 1 .. n + 1 /\ n + 1 - 1 = n
         /\ \A d \in 1 .. n : d + 1 # n + 1 => d \in 1 .. n - 1 /\ d + 1 \in 1 .. n
         /\ \A d \in 1 .. n : d # n => d \in 1 .. n - 1 /\ d + 1 \in 1 .. n
         /\ \A d \in 1 .. n + 1 : d \in 1 .. n \/ d = n + 1
         /\ \A d \in 1 .. n : d \in 1 .. n + 1 /\ d # n + 1
  OBVIOUS

LEMMA PlacedOpening ==
  ASSUME TypeInv, ReadOpening, NEW map \in PropMaps, NEW r, NEW pre,
         Placed(r, pre, nodes, open, pos - 1, map)
  PROVE  \E q, pro : Placed(q, pro, nodes', open', pos, map)
  <1> DEFINE N == Len(nodes)
             L == Len(open)
             top == open[L]
             text == OpenText(source[pos], map)
             before == pre[L] \o Inner(nodes, r, top)
             q == [x \in 1 .. N + 1 |-> IF x = N + 1 THEN <<>> ELSE r[x]]
             pro == [d \in 1 .. L + 1 |-> IF d = L + 1 THEN before \o text ELSE pre[d]]
  <1>1. /\ N \in Nat /\ DOMAIN nodes = 1 .. N /\ L \in Nat \ {0} /\ DOMAIN open = 1 .. L
        /\ \A d \in 1 .. L : open[d] \in 1 .. N /\ nodes[open[d]].k = "element"
        /\ top \in 1 .. N /\ nodes[top].k = "element"
    BY OpenType
  <1>2. /\ source[pos] \in [k : {"tag"}, tag : STRING, attrs : Seq(Attribute)]
        /\ nodes' \in Seq(Node) /\ Len(nodes') = N + 1
        /\ nodes'[N + 1] = Element(source[pos].tag, source[pos].attrs)
        /\ \A n \in 1 .. N : nodes'[n] = nodes[n]
        /\ open' \in Seq(Nat) /\ Len(open') = L + 1
        /\ open'[L + 1] = N + 1
        /\ \A d \in 1 .. L : open'[d] = open[d]
    BY <1>1, OpeningTree
  <1>3. DOMAIN nodes' = 1 .. N + 1 /\ DOMAIN open' = 1 .. L + 1
    BY <1>1, <1>2
  <1>4. IsSeq(text)
    BY <1>2, TextsAreSeqs
  <1>5. q[N + 1] = <<>> /\ \A x \in 1 .. N : q[x] = r[x]
    BY <1>1
  <1>6. /\ \A x \in 1 .. N : IsSeq(r[x])
        /\ \A x \in 1 .. N : (\A d \in 1 .. L : open[d] # x) => r[x] = Rendered(nodes, r, x, map)
        /\ pre[1] = <<>>
        /\ \A d \in 1 .. L : IsSeq(pre[d])
        /\ \A d \in 1 .. L - 1 :
             pre[d + 1] = (pre[d] \o Inner(nodes, r, open[d])) \o OpenText(nodes[open[d + 1]], map)
        /\ before = Flat(pos - 1, map)
    BY <1>1 DEF Placed
  <1>7. pro[L + 1] = before \o text /\ \A d \in 1 .. L : pro[d] = pre[d]
    <2> HIDE DEF L, before, text
    <2> QED BY <1>1, Positions
  <1>8. Flat(pos, map) = Flat(pos - 1, map) \o text
    <2>1. phase = "parsing" /\ pos \in DOMAIN source /\ source[pos].k = "tag"
      BY DEF ReadOpening, At
    <2>2. source \in Seq(Piece) /\ pos \in Nat /\ pos # 0 /\ pos <= Len(source) /\ source[pos] \in Piece
      BY <2>1, ParsingType, SourceType DEF TypeInv
    <2>3. \A i \in 1 .. pos : source[i].k # "broken"
      BY <2>1, NoneBroken
    <2>4. InPlace(source[pos], map) = text
      BY <2>1, <2>2, InPlaceCases
    <2> QED BY <2>2, <2>3, <2>4, FlatStep
  <1>9. nodes'[N + 1].k = "element" /\ nodes'[N + 1].children = <<>>
        /\ OpenText(nodes'[N + 1], map) = text
    <2>1. /\ nodes'[N + 1].tag = source[pos].tag /\ nodes'[N + 1].attrs = source[pos].attrs
          /\ nodes'[N + 1].k = "element" /\ nodes'[N + 1].children = <<>>
      BY <1>2 DEF Element
    <2> QED BY <2>1 DEF OpenText
  <1>10. IsSeq(Inner(nodes, r, top)) /\ IsSeq(before)
    <2>1. IsSeq(Inner(nodes, r, top))
      BY <1>1, <1>6, PlacedInner
    <2>2. IsSeq(pre[L])
      BY <1>1, <1>6
    <2> QED BY <2>1, <2>2, ConcatIsSeq
  <1>11. IsSeq(before \o text)
    <2> HIDE DEF before, text
    <2> QED BY <1>4, <1>10, ConcatIsSeq
  <1> HIDE DEF q, pro, text, before
  <1>12. ASSUME NEW x \in 1 .. N
         PROVE  /\ Rendered(nodes', q, x, map) = Rendered(nodes, r, x, map)
                /\ nodes[x].k = "element" => Inner(nodes', q, x) = Inner(nodes, r, x)
    <2>1. nodes'[x] = nodes[x] /\ x \in DOMAIN nodes /\ \A y \in DOMAIN nodes : q[y] = r[y]
      BY <1>1, <1>2, <1>5
    <2> QED BY <2>1, RenderedSame
  <1>13. \A x \in 1 .. N + 1 : IsSeq(q[x])
    BY <1>1, <1>5, <1>6, EmptyIsSeq
  <1>14. ASSUME NEW x \in 1 .. N + 1, \A d \in 1 .. L + 1 : open'[d] # x
         PROVE  q[x] = Rendered(nodes', q, x, map)
    <2>1. x # N + 1
      <3>1. L + 1 \in 1 .. L + 1
        BY <1>1
      <3> QED BY <3>1, <1>2, <1>14
    <2>2. x \in 1 .. N
      BY <1>1, <2>1
    <2>3. \A d \in 1 .. L : open[d] # x
      <3> TAKE d \in 1 .. L
      <3>1. d \in 1 .. L + 1
        BY <1>1
      <3> QED BY <3>1, <1>2, <1>14
    <2> QED BY <2>2, <2>3, <1>5, <1>6, <1>12
  <1>15. \A d \in 1 .. L + 1 : IsSeq(pro[d])
    <2> TAKE d \in 1 .. L + 1
    <2>1. d \in 1 .. L \/ d = L + 1
      BY <1>1
    <2> QED BY <2>1, <1>6, <1>7, <1>11
  <1>16. pro[1] = <<>>
    <2>1. 1 \in 1 .. L
      BY <1>1
    <2> QED BY <2>1, <1>6, <1>7
  <1>17. ASSUME NEW d \in 1 .. L
         PROVE  pro[d + 1] = (pro[d] \o Inner(nodes', q, open'[d])) \o OpenText(nodes'[open'[d + 1]], map)
    <2>1. open'[d] = open[d] /\ open[d] \in 1 .. N /\ Inner(nodes', q, open[d]) = Inner(nodes, r, open[d])
      BY <1>1, <1>2, <1>12
    <2>2. CASE d = L
      <3>1. pro[L] = pre[L]
        BY <1>1, <1>7
      <3>2. OpenText(nodes'[open'[L + 1]], map) = text
        BY <1>2, <1>9
      <3>3. pro[L + 1] = (pre[L] \o Inner(nodes, r, open[L])) \o text
        BY <1>7 DEF before
      <3> QED BY <2>1, <2>2, <3>1, <3>2, <3>3
    <2>3. CASE d # L
      <3>1. d \in 1 .. L - 1 /\ d + 1 \in 1 .. L
        <4> HIDE DEF L
        <4> QED BY <1>1, <2>3, Positions
      <3>2. /\ open'[d + 1] = open[d + 1] /\ nodes'[open[d + 1]] = nodes[open[d + 1]]
            /\ pro[d + 1] = pre[d + 1] /\ pro[d] = pre[d]
        BY <1>1, <1>2, <1>7, <3>1
      <3> QED BY <2>1, <3>1, <3>2, <1>6
    <2> QED BY <2>2, <2>3
  <1>18. pro[L + 1] \o Inner(nodes', q, N + 1) = Flat(pos, map)
    <2>1. Inner(nodes', q, N + 1) = <<>>
      <3>1. [i \in DOMAIN <<>> |-> q[(<<>>)[i]]] = <<>>
        OBVIOUS
      <3>2. FlattenSeq(<<>>) = <<>>
        BY FlattenEmpty, EmptyIsSeq
      <3> QED BY <1>9, <3>1, <3>2 DEF Inner
    <2>2. (before \o text) \o <<>> = before \o text
      BY <1>11, ConcatEmpty
    <2> QED BY <2>1, <2>2, <1>6, <1>7, <1>8
  <1>19. Placed(q, pro, nodes', open', pos, map)
    <2> HIDE DEF L, N
    <2>1. (L + 1) - 1 = L
      BY <1>1
    <2>2. /\ DOMAIN nodes' = 1 .. N + 1 /\ DOMAIN open' = 1 .. L + 1
          /\ Len(open') = L + 1 /\ open'[L + 1] = N + 1
      BY <1>2, <1>3
    <2>3. ASSUME NEW d \in 1 .. Len(open') - 1
          PROVE  pro[d + 1] = (pro[d] \o Inner(nodes', q, open'[d])) \o OpenText(nodes'[open'[d + 1]], map)
      <3>1. d \in 1 .. L
        <4>1. Len(open') - 1 = (L + 1) - 1
          BY <1>2
        <4>2. Len(open') - 1 = L
          BY <4>1, <2>1, Zenon
        <4>3. d \in 1 .. Len(open') - 1
          OBVIOUS
        <4> QED BY <4>2, <4>3, Zenon
      <3> QED BY <3>1, <1>17
    <2>4. pro[Len(open')] \o Inner(nodes', q, open'[Len(open')]) = Flat(pos, map)
      BY <2>2, <1>18
    <2>5. \A d \in 1 .. Len(open') : IsSeq(pro[d])
      BY <2>2, <1>15
    <2> QED BY <2>2, <1>13, <1>14, <2>5, <1>16, <2>3, <2>4 DEF Placed
  <1> QED BY <1>19

Associates(s, t, u) == (s \o t) \o u = s \o (t \o u)

LEMMA ConcatAssociates ==
  ASSUME NEW s, NEW t, NEW u, IsSeq(s), IsSeq(t), IsSeq(u)
  PROVE  Associates(s, t, u)
  BY ConcatAssoc DEF Associates

FiveAssociate(a, b, c, d, e) ==
  a \o (b \o ((c \o d) \o e)) = ((((a \o b) \o c) \o d) \o e)

LEMMA ConcatOfFive ==
  ASSUME NEW a, NEW b, NEW c, NEW d, NEW e, IsSeq(a), IsSeq(b), IsSeq(c), IsSeq(d), IsSeq(e)
  PROVE  FiveAssociate(a, b, c, d, e)
  <1> DEFINE u == a \o b
             v == c \o d
             w == v \o e
  <1>1. IsSeq(u) /\ IsSeq(v)
    BY ConcatIsSeq
  <1>2. IsSeq(w)
    <2> HIDE DEF u, v
    <2> QED BY <1>1, ConcatIsSeq
  <1>3. Associates(u, c, d) /\ Associates(u, v, e) /\ Associates(a, b, w)
    <2> HIDE DEF u, v, w
    <2> QED BY <1>1, <1>2, ConcatAssociates
  <1> QED BY <1>3 DEF Associates, FiveAssociate

\* An element has been left, f is what has been read.
Left(q, pre, map, f) ==
  /\ Len(open') = Len(open) - 1
  /\ \A x \in DOMAIN nodes' : IsSeq(q[x])
  /\ \A x \in DOMAIN nodes' :
       (\A d \in DOMAIN open' : open'[d] # x) => q[x] = Rendered(nodes', q, x, map)
  /\ pre[1] = <<>>
  /\ \A d \in 1 .. Len(open') : IsSeq(pre[d])
  /\ \A d \in 1 .. Len(open') - 1 :
       pre[d + 1] = (pre[d] \o Inner(nodes', q, open'[d])) \o OpenText(nodes'[open'[d + 1]], map)
  /\ pre[Len(open')] \o Inner(nodes', q, open'[Len(open')]) = f

\* The text that ends the element stands behind what it contains.
LEMMA PlacedLeave ==
  ASSUME TypeInv, Leave, Len(open) > 1, NEW n, NEW map \in PropMaps, NEW r, NEW pre,
         Placed(r, pre, nodes, open, n, map)
  PROVE  \E q : Left(q, pre, map, Flat(n, map) \o CloseText(nodes[Last(open)]))
  <1> DEFINE N == Len(nodes)
             L == Len(open)
             p == open[L - 1]
             c == open[L]
             inner == Inner(nodes, r, c)
             text == RenderElement(nodes[c], inner, map)
             q == [x \in 1 .. N |-> IF x = c THEN text ELSE r[x]]
  <1>1. /\ N \in Nat /\ DOMAIN nodes = 1 .. N /\ L \in Nat /\ L > 1 /\ DOMAIN open = 1 .. L
        /\ \A d \in 1 .. L : open[d] \in 1 .. N /\ nodes[open[d]].k = "element"
        /\ Last(open) = c
    BY OpenType
  <1>2. /\ nodes' \in Seq(Node) /\ Len(nodes') = N /\ GainsChild(p, c)
        /\ open' \in Seq(Nat) /\ Len(open') = L - 1 /\ \A d \in 1 .. L - 1 : open'[d] = open[d]
    BY <1>1, LeaveTree
  <1>3. \A a, b \in 1 .. L : a < b => open[a] < open[b]
    BY <1>1 DEF TypeInv, Shape, OpenRises
  <1>4. /\ p \in 1 .. N /\ c \in 1 .. N /\ c \in Nat /\ p # c /\ nodes[p].k = "element" /\ nodes[c].k = "element"
        /\ L - 1 \in 1 .. L /\ L \in 1 .. L
    BY <1>1, <1>3
  <1>5. \A d \in 1 .. L - 1 : open[d] # c
    BY <1>1, <1>3
  <1>6. DOMAIN nodes' = 1 .. N /\ DOMAIN open' = 1 .. L - 1
    BY <1>1, <1>2
  <1>7. /\ \A x \in 1 .. N : IsSeq(r[x])
        /\ \A x \in 1 .. N : (\A d \in 1 .. L : open[d] # x) => r[x] = Rendered(nodes, r, x, map)
        /\ pre[1] = <<>>
        /\ \A d \in 1 .. L : IsSeq(pre[d])
        /\ \A d \in 1 .. L - 1 :
             pre[d + 1] = (pre[d] \o Inner(nodes, r, open[d])) \o OpenText(nodes[open[d + 1]], map)
        /\ pre[L] \o inner = Flat(n, map)
    BY <1>1 DEF Placed
  <1>8. q[c] = text /\ \A x \in 1 .. N : x # c => q[x] = r[x]
    BY <1>4
  <1>9. IsSeq(inner) /\ IsSeq(Inner(nodes, r, p))
    BY <1>1, <1>4, <1>7, PlacedInner
  <1>10. IsSeq(OpenText(nodes[c], map)) /\ IsSeq(CloseText(nodes[c]))
    <2>1. nodes[c].attrs \in Seq(Attribute)
      BY <1>1, <1>4, ChildrenType
    <2> HIDE DEF c
    <2> QED BY <2>1, TextsAreSeqs
  <1>11. text = (OpenText(nodes[c], map) \o inner) \o CloseText(nodes[c]) /\ IsSeq(text)
    <2> HIDE DEF inner, c
    <2>1. text = (OpenText(nodes[c], map) \o inner) \o CloseText(nodes[c])
      BY <1>9, RenderElementIs
    <2> HIDE DEF text
    <2> QED BY <2>1, <1>9, <1>10, ConcatIsSeq
  <1>12. \A x \in 1 .. N : x # p => nodes'[x] = nodes[x]
    BY <1>1, <1>2 DEF GainsChild
  <1> HIDE DEF q, text, inner
  <1>13. \A y \in DOMAIN nodes : (\A d \in DOMAIN open : open[d] # y) => q[y] = r[y]
    BY <1>1, <1>4, <1>8
  <1>14. ASSUME NEW x \in 1 .. N, x # p
         PROVE  /\ Rendered(nodes', q, x, map) = Rendered(nodes, r, x, map)
                /\ nodes[x].k = "element" => Inner(nodes', q, x) = Inner(nodes, r, x)
    <2>1. nodes'[x] = nodes[x] /\ x \in DOMAIN nodes
      BY <1>1, <1>12, <1>14
    <2> QED BY <2>1, <1>13, RenderedSame
  <1>15. Inner(nodes', q, p) = Inner(nodes, r, p) \o text
    <2>1. nodes'[p].children = Append(nodes[p].children, c)
      BY <1>2 DEF GainsChild
    <2>2. /\ nodes[p].children \in Seq(Nat)
          /\ \A i \in DOMAIN nodes[p].children : q[nodes[p].children[i]] = r[nodes[p].children[i]]
      BY <1>1, <1>4, <1>13, ChildrenType
    <2>3. IsSeq(q[c]) /\ c \in Nat
      BY <1>4, <1>8, <1>11
    <2> HIDE DEF c, p
    <2>4. ASSUME NEW ms, ms[p].children = Append(nodes[p].children, c)
          PROVE  Inner(ms, q, p) = Inner(nodes, r, p) \o q[c]
      BY <2>2, <2>3, <2>4, InnerAppend
    <2>5. Inner(nodes', q, p) = Inner(nodes, r, p) \o q[c]
      BY <2>1, <2>4
    <2> QED BY <2>5, <1>8
  <1>16. \A x \in 1 .. N : IsSeq(q[x])
    BY <1>7, <1>8, <1>11
  <1>17. ASSUME NEW x \in 1 .. N, \A d \in 1 .. L - 1 : open'[d] # x
         PROVE  q[x] = Rendered(nodes', q, x, map)
    <2>1. \A d \in 1 .. L - 1 : open[d] # x
      BY <1>2, <1>17
    <2>2. x # p
      <3>1. L - 1 \in 1 .. L - 1
        BY <1>1
      <3> QED BY <3>1, <2>1
    <2>3. CASE x = c
      <3>1. Rendered(nodes, r, c, map) = text
        BY <1>4 DEF Rendered, text, inner
      <3> QED BY <2>2, <2>3, <3>1, <1>8, <1>14
    <2>4. CASE x # c
      <3>1. \A d \in 1 .. L : open[d] # x
        <4> TAKE d \in 1 .. L
        <4>1. d = L \/ d \in 1 .. L - 1
          <5>1. L \in Nat \ {0}
            BY <1>1
          <5> HIDE DEF L
          <5> QED BY <5>1, Positions
        <4> QED BY <4>1, <2>1, <2>4
      <3> QED BY <2>2, <2>4, <3>1, <1>7, <1>8, <1>14
    <2> QED BY <2>3, <2>4
  <1>18. ASSUME NEW d \in 1 .. L - 2
         PROVE  pre[d + 1] = (pre[d] \o Inner(nodes', q, open'[d])) \o OpenText(nodes'[open'[d + 1]], map)
    <2>1. d \in 1 .. L - 1 /\ d + 1 \in 1 .. L - 1 /\ d \in 1 .. L /\ d + 1 \in 1 .. L /\ d < L - 1
      BY <1>1
    <2>2. open'[d] = open[d] /\ open'[d + 1] = open[d + 1]
      BY <1>2, <2>1
    <2>3. open[d] \in 1 .. N /\ nodes[open[d]].k = "element" /\ open[d] # p
      BY <1>1, <1>3, <1>4, <2>1
    <2>4. Inner(nodes', q, open[d]) = Inner(nodes, r, open[d])
      BY <1>14, <2>3
    <2>5. open[d + 1] \in DOMAIN nodes
      BY <1>1, <2>1
    <2>6. /\ nodes'[open[d + 1]].tag = nodes[open[d + 1]].tag
          /\ nodes'[open[d + 1]].attrs = nodes[open[d + 1]].attrs
      BY <1>2, <2>5 DEF GainsChild
    <2>7. OpenText(nodes'[open[d + 1]], map) = OpenText(nodes[open[d + 1]], map)
      BY <2>6 DEF OpenText
    <2> QED BY <1>7, <2>1, <2>2, <2>4, <2>7
  <1>19. pre[L - 1] \o Inner(nodes', q, p) = Flat(n, map) \o CloseText(nodes[c])
    <2> DEFINE a == pre[L - 1]
               b == Inner(nodes, r, p)
               o == OpenText(nodes[c], map)
               e == CloseText(nodes[c])
    <2>1. IsSeq(a) /\ IsSeq(b) /\ IsSeq(o) /\ IsSeq(e) /\ IsSeq(inner)
      BY <1>4, <1>7, <1>9, <1>10
    <2>2. pre[L] = (a \o b) \o o
      <3>1. L - 1 \in 1 .. L - 1 /\ L - 1 + 1 = L
        BY <1>1
      <3> QED BY <1>7, <3>1
    <2>3. text = (o \o inner) \o e /\ pre[L] \o inner = Flat(n, map)
      BY <1>7, <1>11
    <2>4. Inner(nodes', q, p) = b \o text
      BY <1>15
    <2>5. a \o (b \o ((o \o inner) \o e)) = ((((a \o b) \o o) \o inner) \o e)
      <3> HIDE DEF a, b, o, e
      <3>1. IsSeq(a) /\ IsSeq(b) /\ IsSeq(o) /\ IsSeq(e) /\ IsSeq(inner)
        BY <2>1
      <3>2. FiveAssociate(a, b, o, inner, e)
        BY <3>1, ConcatOfFive
      <3> QED BY <3>2 DEF FiveAssociate
    <2> HIDE DEF a, b, o, e, p, c
    <2>6. a \o Inner(nodes', q, p) = Flat(n, map) \o e
      BY <2>2, <2>3, <2>4, <2>5
    <2> QED BY <2>6 DEF a, e
  <1>20. open'[L - 1] = p
    <2>1. L - 1 \in 1 .. L - 1
      BY <1>1
    <2> QED BY <2>1, <1>2
  <1>21. \A d \in 1 .. L - 1 : IsSeq(pre[d])
    BY <1>1, <1>7
  <1>22. (L - 1) - 1 = L - 2
    BY <1>1
  <1> HIDE DEF L, N
  <1> QED BY <1>1, <1>2, <1>6, <1>7, <1>16, <1>17, <1>18, <1>19, <1>20, <1>21, <1>22 DEF L, Left
LEMMA PlacedClosing ==
  ASSUME TypeInv, ReadClosing, NEW map \in PropMaps, NEW r, NEW pre,
         Placed(r, pre, nodes, open, pos - 1, map)
  PROVE  \E q : Placed(q, pre, nodes', open', pos, map)
  <1>1. /\ phase = "parsing" /\ pos \in DOMAIN source /\ source[pos].k = "close"
        /\ source[pos].tag = nodes[Last(open)].tag /\ Len(open) > 1 /\ Leave
    BY DEF ReadClosing, At, Expected
  <1>2. Flat(pos, map) = Flat(pos - 1, map) \o CloseText(nodes[Last(open)])
    <2>1. source \in Seq(Piece) /\ pos \in Nat /\ pos # 0 /\ pos <= Len(source) /\ source[pos] \in Piece
      BY <1>1, ParsingType, SourceType DEF TypeInv
    <2>2. \A i \in 1 .. pos : source[i].k # "broken"
      BY <1>1, NoneBroken
    <2>3. InPlace(source[pos], map) = CloseText(source[pos])
      BY <1>1, <2>1, InPlaceCases
    <2>4. CloseText(source[pos]) = CloseText(nodes[Last(open)])
      BY <1>1 DEF CloseText
    <2> QED BY <2>1, <2>2, <2>3, <2>4, FlatStep
  <1> DEFINE n == pos - 1
  <1>4. Placed(r, pre, nodes, open, n, map)
    OBVIOUS
  <1>5. Flat(pos, map) = Flat(n, map) \o CloseText(nodes[Last(open)])
    BY <1>2
  <1> HIDE DEF n
  <1>6. PICK q : Left(q, pre, map, Flat(pos, map))
    BY <1>1, <1>4, <1>5, PlacedLeave
  <1>7. Placed(q, pre, nodes', open', pos, map)
    BY <1>6 DEF Left, Placed
  <1> QED BY <1>7

\* A fragment that the end closes adds nothing.
LEMMA PlacedFragment ==
  ASSUME TypeInv, EndFragment, NEW map \in PropMaps, NEW r, NEW pre,
         Placed(r, pre, nodes, open, pos - 1, map)
  PROVE  \E q : Placed(q, pre, nodes', open', pos - 1, map)
  <1>0. phase = "parsing" /\ Len(open) > 1 /\ Leave
    BY DEF EndFragment, AtEnd
  <1>1. nodes[Last(open)].tag = ""
    BY DEF EndFragment, Expected
  <1> DEFINE n == pos - 1
  <1>2. n \in Nat /\ n <= Len(source) /\ source \in Seq(Piece)
        /\ \A i \in 1 .. n : source[i].k # "broken"
    <2>1. kind = "jsx" /\ Shape
      BY <1>0, ParsingType DEF TypeInv
    <2>2. \A i \in 1 .. n : source[i].k # "broken"
      BY <1>0, <2>1 DEF Shape
    <2>3. source \in Seq(Piece)
      BY <2>1, SourceType
    <2>4. n \in Nat /\ n <= Len(source)
      BY <1>0, ParsingType
    <2> QED BY <2>2, <2>3, <2>4
  <1>3. Placed(r, pre, nodes, open, n, map)
    OBVIOUS
  <1> HIDE DEF n
  <1>4. IsSeq(Flat(n, map))
    BY <1>2, FlatIsSeq, FlattenIsSeq DEF Flat
  <1>5. Flat(n, map) \o CloseText(nodes[Last(open)]) = Flat(n, map)
    <2>1. CloseText(nodes[Last(open)]) = <<>>
      BY <1>1 DEF CloseText
    <2> QED BY <2>1, <1>4, ConcatEmpty
  <1>6. PICK q : Left(q, pre, map, Flat(n, map))
    BY <1>0, <1>3, <1>5, PlacedLeave
  <1>7. Placed(q, pre, nodes', open', n, map)
    BY <1>6 DEF Left, Placed
  <1> QED BY <1>7 DEF n

\* What the end tag outside of all elements comes to.
LEMMA PlacedEnd ==
  ASSUME TypeInv, ReadEnd, NEW map \in PropMaps
  PROVE  Flat(pos, map) = Flat(pos - 1, map)
  <1>1. phase = "parsing" /\ pos \in DOMAIN source /\ source[pos].k = "close"
    BY DEF ReadEnd, At
  <1>0. source[pos].tag = ""
    <2>1. source[pos].tag = nodes[Last(open)].tag /\ Len(open) = 1
      BY DEF ReadEnd, Expected
    <2>2. Last(open) = open[1]
      BY <2>1, OpenType
    <2>3. open[1] = 1 /\ nodes[1].tag = ""
      BY DEF TypeInv, TemplateTypeOK
    <2> QED BY <2>1, <2>2, <2>3
  <1>2. source \in Seq(Piece) /\ pos \in Nat /\ pos # 0 /\ pos <= Len(source) /\ source[pos] \in Piece
    BY <1>1, ParsingType, SourceType DEF TypeInv
  <1>3. \A i \in 1 .. pos : source[i].k # "broken"
    BY <1>1, NoneBroken
  <1>4. InPlace(source[pos], map) = <<>>
    BY <1>0, <1>1, <1>2, InPlaceCases DEF CloseText
  <1>5. /\ IsSeq(Flat(pos - 1, map))
        /\ Flat(pos, map) = Flat(pos - 1, map) \o InPlace(source[pos], map)
    BY <1>2, <1>3, FlatStep
  <1> DEFINE f == Flat(pos - 1, map)
  <1>6. IsSeq(f) /\ Flat(pos, map) = f \o <<>>
    BY <1>4, <1>5
  <1> HIDE DEF f
  <1>7. Flat(pos, map) = f
    BY <1>6, ConcatEmpty
  <1> QED BY <1>7 DEF f

LEMMA PlacedStays ==
  ASSUME source' = source, NEW map, NEW r, NEW pre,
         Placed(r, pre, nodes', open', pos' - 1, map)
  PROVE  Placed(r, pre, nodes, open, pos - 1, map)'
  <1>1. Flat(pos - 1, map)' = Flat(pos' - 1, map)
    BY DEF Flat
  <1> QED BY <1>1 DEF Placed

PlacedInv ==
  kind = "jsx" /\ phase \in {"parsing", "ready"} =>
    \A map \in PropMaps : \E r, pre : Placed(r, pre, nodes, open, pos - 1, map)

LEMMA PlacedInit ==
  ASSUME Init
  PROVE  PlacedInv
  <1> DEFINE root == Element("", <<>>)
             r == <<<<>>>>
  <1>1. TypeInv
    BY TypeInit
  <1>2. nodes = <<root>> /\ open = <<1>> /\ pos = 1
    BY DEF Init
  <1>3. root.k = "element" /\ root.children = <<>>
    BY DEF Element
  <1> HIDE DEF root
  <1>4. /\ DOMAIN nodes = {1} /\ nodes[1] = root /\ DOMAIN open = {1} /\ open[1] = 1
        /\ Len(open) = 1 /\ r[1] = <<>>
    BY <1>2
  <1>5. IsSeq(<<>>) /\ FlattenSeq(<<>>) = <<>> /\ <<>> \o <<>> = <<>>
    BY EmptyIsSeq, FlattenEmpty, ConcatEmpty
  <1>6. Inner(nodes, r, 1) = <<>>
    <2>1. [i \in DOMAIN <<>> |-> r[(<<>>)[i]]] = <<>>
      OBVIOUS
    <2> QED BY <2>1, <1>3, <1>4, <1>5 DEF Inner
  <1>7. ASSUME NEW map \in PropMaps PROVE Placed(r, r, nodes, open, pos - 1, map)
    <2>1. Flat(pos - 1, map) = <<>>
      <3>1. pos - 1 = 0
        BY <1>2
      <3>2. [i \in 1 .. 0 |-> InPlace(source[i], map)] = <<>>
        OBVIOUS
      <3> QED BY <3>1, <3>2, <1>5 DEF Flat
    <2>2. \A d \in 1 .. Len(open) : IsSeq(r[d])
      <3>1. \A d \in 1 .. Len(open) : d = 1
        BY <1>4
      <3> QED BY <3>1, <1>4, <1>5
    <2>3. 1 .. Len(open) - 1 = {}
      BY <1>4
    <2>4. r[Len(open)] \o Inner(nodes, r, open[Len(open)]) = Flat(pos - 1, map)
      BY <2>1, <1>4, <1>5, <1>6
    <2> HIDE DEF r
    <2> QED BY <2>2, <2>3, <2>4, <1>4, <1>5 DEF Placed
  <1> QED BY <1>7 DEF PlacedInv

LEMMA PlacedNext ==
  ASSUME TypeInv, PlacedInv, [Next]_vars
  PROVE  PlacedInv'
  <1>1. kind' = kind /\ source' = source
    BY DEF Next, Parse, ReadLeaf, ReadOpening, ReadBroken, ReadClosing, ReadMismatch, ReadEnd,
           EndFragment, EndUnclosed, EndTemplate, Refuse, Advance, Call, vars
  <1> SUFFICES ASSUME kind = "jsx", phase' \in {"parsing", "ready"}, NEW map \in PropMaps
               PROVE  \E r, pre : Placed(r, pre, nodes, open, pos - 1, map)'
    BY <1>1 DEF PlacedInv
  <1>2. phase \in {"parsing", "ready"}
    BY DEF Next, Parse, ReadLeaf, ReadOpening, ReadBroken, ReadClosing, ReadMismatch, ReadEnd,
           EndFragment, EndUnclosed, EndTemplate, Refuse, Advance, Call, vars, At, AtEnd
  <1>3. PICK r, pre : Placed(r, pre, nodes, open, pos - 1, map)
    BY <1>2 DEF PlacedInv
  <1>4. (pos + 1) - 1 = pos
    <2>1. Len(source) \in Nat
      BY SourceType DEF TypeInv
    <2>2. pos \in 1 .. Len(source) + 1
      BY DEF TypeInv, TemplateTypeOK
    <2> QED BY <2>1, <2>2
  <1>5. ASSUME pos' = pos + 1, NEW q, NEW pro, Placed(q, pro, nodes', open', pos, map)
        PROVE  \E s, prs : Placed(s, prs, nodes, open, pos - 1, map)'
    <2>1. pos' - 1 = pos
      BY <1>4, <1>5
    <2>2. Placed(q, pro, nodes', open', pos' - 1, map)
      BY <2>1, <1>5
    <2>3. Placed(q, pro, nodes, open, pos - 1, map)'
      BY <2>2, <1>1, PlacedStays
    <2> QED BY <2>3
  <1>6. ASSUME pos' = pos, NEW q, NEW pro, Placed(q, pro, nodes', open', pos - 1, map)
        PROVE  \E s, prs : Placed(s, prs, nodes, open, pos - 1, map)'
    <2>1. Placed(q, pro, nodes', open', pos' - 1, map)
      BY <1>6
    <2>2. Placed(q, pro, nodes, open, pos - 1, map)'
      BY <2>1, <1>1, PlacedStays
    <2> QED BY <2>2
  <1>7. ASSUME pos' = pos, UNCHANGED tree
        PROVE  \E s, prs : Placed(s, prs, nodes, open, pos - 1, map)'
    BY <1>3, <1>6, <1>7 DEF tree
  <1>8. CASE ReadLeaf
    BY <1>3, <1>5, <1>8, PlacedLeaf DEF ReadLeaf, Advance
  <1>9. CASE ReadOpening
    BY <1>3, <1>5, <1>9, PlacedOpening DEF ReadOpening, Advance
  <1>10. CASE ReadClosing
    BY <1>3, <1>5, <1>10, PlacedClosing DEF ReadClosing, Advance
  <1>11. CASE ReadEnd
    <2>1. nodes' = nodes /\ open' = open /\ pos' = pos + 1
      BY <1>11 DEF ReadEnd, tree
    <2>2. Flat(pos, map) = Flat(pos - 1, map)
      BY <1>11, PlacedEnd
    <2>3. Placed(r, pre, nodes', open', pos, map)
      BY <2>1, <2>2, <1>3 DEF Placed
    <2> QED BY <2>1, <2>3, <1>5
  <1>12. CASE EndFragment
    <2>1. PICK q : Placed(q, pre, nodes', open', pos - 1, map)
      BY <1>3, <1>12, PlacedFragment
    <2> QED BY <2>1, <1>6, <1>12 DEF EndFragment
  <1>13. CASE EndTemplate
    BY <1>7, <1>13 DEF EndTemplate
  <1>14. ASSUME NEW m \in PropMaps, Call(m)
         PROVE  \E s, prs : Placed(s, prs, nodes, open, pos - 1, map)'
    BY <1>7, <1>14 DEF Call
  <1>15. CASE UNCHANGED vars
    BY <1>7, <1>15 DEF vars
  <1>16. CASE ReadBroken \/ ReadMismatch \/ EndUnclosed
    BY <1>16 DEF ReadBroken, ReadMismatch, EndUnclosed, Refuse
  <1> QED BY <1>8, <1>9, <1>10, <1>11, <1>12, <1>13, <1>14, <1>15, <1>16 DEF Next, Parse
\* How the nodes come out is determined, from the last node to the first: the
\* children of a node come behind it.
LEMMA RenderedOnce ==
  ASSUME TypeInv, NEW map, NEW f, NEW q,
         \A x \in DOMAIN nodes : f[x] = Rendered(nodes, f, x, map),
         \A x \in DOMAIN nodes : q[x] = Rendered(nodes, q, x, map)
  PROVE  \A x \in DOMAIN nodes : f[x] = q[x]
  <1> DEFINE T == {x \in DOMAIN nodes : f[x] # q[x]}
  <1>1. Len(nodes) \in Nat /\ DOMAIN nodes = 1 .. Len(nodes)
    BY OpenType
  <1>2. SUFFICES ASSUME T # {} PROVE FALSE
    OBVIOUS
  <1>3. T \in SUBSET (0 .. Len(nodes))
    BY <1>1
  <1>4. PICK x \in T : \A y \in T : y <= x
    <2> HIDE DEF T
    <2> QED BY <1>1, <1>2, <1>3, GreatestOf
  <1>5. x \in DOMAIN nodes /\ f[x] # q[x] /\ x \in Nat
    BY <1>1, <1>4
  <1>6. \A y \in DOMAIN nodes : y > x => f[y] = q[y]
    BY <1>1, <1>4, <1>5
  <1>7. ASSUME nodes[x].k = "element" PROVE Inner(nodes, f, x) = Inner(nodes, q, x)
    <2>1. \A i \in DOMAIN nodes[x].children :
            nodes[x].children[i] \in DOMAIN nodes /\ nodes[x].children[i] > x
      BY <1>5, <1>7 DEF TypeInv, Shape, ChildrenFollow
    <2>2. \A i \in DOMAIN nodes[x].children : f[nodes[x].children[i]] = q[nodes[x].children[i]]
      BY <1>6, <2>1
    <2> QED BY <2>2, InnerSame
  <1>8. Rendered(nodes, f, x, map) = Rendered(nodes, q, x, map)
    BY <1>7 DEF Rendered
  <1> QED BY <1>5, <1>8

LEMMA RenderNodeIs ==
  ASSUME TypeInv, NEW map, NEW q, \A x \in DOMAIN nodes : q[x] = Rendered(nodes, q, x, map)
  PROVE  RenderNode(1, map) = q[1]
  <1> DEFINE Is(f) == f = [n \in DOMAIN nodes |->
               IF nodes[n].k # "element" THEN RenderLeaf(nodes[n], map)
               ELSE RenderElement(nodes[n],
                                  FlattenSeq([i \in DOMAIN nodes[n].children |->
                                                f[nodes[n].children[i]]]), map)]
             render == CHOOSE f : Is(f)
             p == [n \in DOMAIN nodes |-> q[n]]
  <1>1. RenderNode(1, map) = render[1]
    BY DEF RenderNode
  <1>2. ASSUME NEW f PROVE Is(f) <=> f = [n \in DOMAIN nodes |-> Rendered(nodes, f, n, map)]
    BY DEF Rendered, Inner
  <1>3. Is(p)
    <2>1. \A x \in DOMAIN nodes : p[x] = Rendered(nodes, p, x, map)
      <3> TAKE x \in DOMAIN nodes
      <3>1. ASSUME nodes[x].k = "element" PROVE Inner(nodes, p, x) = Inner(nodes, q, x)
        <4>1. \A i \in DOMAIN nodes[x].children : nodes[x].children[i] \in DOMAIN nodes
          BY <3>1 DEF TypeInv, Shape, ChildrenFollow
        <4>2. \A i \in DOMAIN nodes[x].children : p[nodes[x].children[i]] = q[nodes[x].children[i]]
          BY <4>1
        <4> QED BY <4>2, InnerSame
      <3>2. Rendered(nodes, p, x, map) = Rendered(nodes, q, x, map)
        BY <3>1 DEF Rendered
      <3> QED BY <3>2
    <2>2. p = [n \in DOMAIN nodes |-> Rendered(nodes, p, n, map)]
      BY <2>1
    <2> HIDE DEF p, Is
    <2> QED BY <2>2, <1>2
  <1>4. Is(render)
    <2> HIDE DEF Is
    <2> QED BY <1>3
  <1>5. \A x \in DOMAIN nodes : render[x] = Rendered(nodes, render, x, map)
    <2>1. render = [n \in DOMAIN nodes |-> Rendered(nodes, render, n, map)]
      <3> HIDE DEF render, Is
      <3> QED BY <1>2, <1>4
    <2> HIDE DEF render
    <2> QED BY <2>1
  <1>6. 1 \in DOMAIN nodes
    BY OpenType
  <1> HIDE DEF render
  <1> QED BY <1>1, <1>5, <1>6, RenderedOnce

\* The tree of a template that was accepted comes out as its pieces in place.
LEMMA RenderedInPlace ==
  ASSUME TypeInv, phase = "ready", NEW map \in PropMaps,
         NEW r, NEW pre, Placed(r, pre, nodes, open, pos - 1, map)
  PROVE  RenderNode(1, map) = Flat(pos - 1, map)
  <1> DEFINE q == [x \in DOMAIN nodes |-> IF x = 1 THEN Inner(nodes, r, 1) ELSE r[x]]
  <1>1. /\ Len(open) = 1 /\ open[1] = 1 /\ 1 \in DOMAIN nodes /\ nodes[1].k = "element"
        /\ \A d \in DOMAIN open : open[d] = 1
    <2>1. Len(open) = 1 /\ open[1] = 1
      BY DEF TypeInv, TemplateTypeOK
    <2>2. /\ 1 \in DOMAIN nodes /\ DOMAIN open = 1 .. Len(open)
          /\ \A d \in 1 .. Len(open) : nodes[open[d]].k = "element"
      BY OpenType
    <2>3. \A d \in 1 .. Len(open) : d = 1
      BY <2>1
    <2> QED BY <2>1, <2>2, <2>3
  <1>0. nodes[1].tag = ""
    BY DEF TypeInv, TemplateTypeOK
  <1>2. /\ \A x \in DOMAIN nodes : IsSeq(r[x])
        /\ \A x \in DOMAIN nodes : x # 1 => r[x] = Rendered(nodes, r, x, map)
        /\ <<>> \o Inner(nodes, r, 1) = Flat(pos - 1, map)
    BY <1>1 DEF Placed
  <1>3. IsSeq(Inner(nodes, r, 1))
    BY <1>1, <1>2, PlacedInner
  <1>4. Inner(nodes, r, 1) = Flat(pos - 1, map)
    BY <1>2, <1>3, ConcatEmpty
  <1>5. ASSUME NEW x \in DOMAIN nodes, nodes[x].k = "element"
        PROVE  Inner(nodes, q, x) = Inner(nodes, r, x)
    <2>1. \A i \in DOMAIN nodes[x].children :
            /\ nodes[x].children[i] \in DOMAIN nodes
            /\ \A d \in DOMAIN open : open[d] # nodes[x].children[i]
      BY <1>5, ChildrenType
    <2>2. 1 \in DOMAIN open
      BY <1>1, OpenType
    <2>3. \A i \in DOMAIN nodes[x].children : q[nodes[x].children[i]] = r[nodes[x].children[i]]
      BY <1>1, <2>1, <2>2
    <2> HIDE DEF q
    <2> QED BY <2>3, InnerSame
  <1>6. q[1] = Inner(nodes, r, 1) /\ \A x \in DOMAIN nodes : x # 1 => q[x] = r[x]
    BY <1>1
  <1> HIDE DEF q
  <1>7. \A x \in DOMAIN nodes : q[x] = Rendered(nodes, q, x, map)
    <2> TAKE x \in DOMAIN nodes
    <2>1. CASE x = 1
      <3>1. Rendered(nodes, q, 1, map) = RenderElement(nodes[1], Inner(nodes, q, 1), map)
        BY <1>1 DEF Rendered
      <3>2. RenderElement(nodes[1], Inner(nodes, q, 1), map) = Inner(nodes, q, 1)
        BY <1>0 DEF RenderElement
      <3> QED BY <2>1, <3>1, <3>2, <1>1, <1>5, <1>6
    <2>2. CASE x # 1
      <3>1. Rendered(nodes, q, x, map) = Rendered(nodes, r, x, map)
        BY <1>5 DEF Rendered
      <3> QED BY <2>2, <3>1, <1>2, <1>6
    <2> QED BY <2>1, <2>2
  <1>8. RenderNode(1, map) = q[1]
    BY <1>7, RenderNodeIs
  <1> QED BY <1>4, <1>6, <1>8

\* A call of a template returns its pieces in place.
LEMMA CallsRenderInPlace ==
  ASSUME TypeInv, BalanceInv, PlacedInv, RendersInPlace, [Next]_vars
  PROVE  RendersInPlace'
  <1>1. kind' = kind /\ source' = source
    BY DEF Next, Parse, ReadLeaf, ReadOpening, ReadBroken, ReadClosing, ReadMismatch, ReadEnd,
           EndFragment, EndUnclosed, EndTemplate, Refuse, Advance, Call, vars
  <1>2. Used' = Used
    BY <1>1, DepthStays
  <1>3. ASSUME out' = out, props' = props PROVE RendersInPlace'
    BY <1>1, <1>2, <1>3 DEF RendersInPlace
  <1>4. ASSUME NEW map \in PropMaps, Call(map), kind = "jsx" PROVE RendersInPlace'
    <2>1. phase = "ready" /\ props' = map /\ out' = {RenderNode(1, map)}
      BY <1>4 DEF Call
    <2>2. PICK r, pre : Placed(r, pre, nodes, open, pos - 1, map)
      BY <1>4, <2>1 DEF PlacedInv
    <2>3. RenderNode(1, map) = Flat(pos - 1, map)
      BY <2>1, <2>2, RenderedInPlace
    <2>4. Used = pos - 1
      BY <1>4, <2>1 DEF BalanceInv
    <2>5. out' = {FlattenSeq([i \in 1 .. Used |-> InPlace(source[i], map)])}
      BY <2>1, <2>3, <2>4 DEF Flat
    <2> QED BY <2>1, <2>5, <1>1, <1>2 DEF RendersInPlace
  <1>5. ASSUME NEW map \in PropMaps, Call(map) PROVE RendersInPlace'
    <2>1. CASE kind = "jsx"
      BY <1>4, <1>5, <2>1
    <2>2. CASE kind # "jsx"
      BY <1>1, <2>2 DEF RendersInPlace
    <2> QED BY <2>1, <2>2
  <1> QED BY <1>3, <1>5
      DEF Next, Parse, ReadLeaf, ReadOpening, ReadBroken, ReadClosing, ReadMismatch, ReadEnd,
          EndFragment, EndUnclosed, EndTemplate, Refuse, Advance, vars

\* Parsed once and rendered at each call, a template comes out piece by piece in
\* the order it was written, nothing lost, moved or repeated (jsx.cpp, parse and
\* render_node).
THEOREM RendersInPlaceAlways == Spec => []RendersInPlace
  <1> DEFINE I == TypeInv /\ BalanceInv /\ PlacedInv /\ RendersInPlace
  <1>1. Init => I
    <2>1. Init => RendersInPlace
      BY DEF Init, RendersInPlace
    <2> QED BY <2>1, TypeInit, BalanceInit, PlacedInit
  <1>2. I /\ [Next]_vars => I'
    BY TypeNext, BalanceNext, PlacedNext, CallsRenderInPlace
  <1>3. I => RendersInPlace
    OBVIOUS
  <1> QED BY <1>1, <1>2, <1>3, PTL DEF Spec
-----------------------------------------------------------------------------
(* Filling in a format *)

\* The characters from a to b.
Span(s, a, b) == Characters(SubSeq(s, a, b))

LEMMA SpanIs ==
  ASSUME NEW s \in Seq(STRING), NEW a \in Nat \ {0}, NEW b \in Nat, a <= b + 1, b <= Len(s)
  PROVE  /\ IsSeq(Span(s, a, b)) /\ Len(Span(s, a, b)) = (b + 1) - a
         /\ \A i \in 1 .. (b + 1) - a : Span(s, a, b)[i] = <<"raw", s[(a + i) - 1]>>
  <1> DEFINE t == SubSeq(s, a, b)
             n == (b + 1) - a
  <1>1. /\ t \in Seq(STRING) /\ Len(t) = n /\ n \in Nat
        /\ \A i \in 1 .. n : t[i] = s[(a + i) - 1]
    <2>1. \A i \in a .. b : s[i] \in STRING
      OBVIOUS
    <2>2. /\ t \in Seq(STRING) /\ Len(t) = IF a <= b THEN b - a + 1 ELSE 0
          /\ \A i \in 1 .. b - a + 1 : t[i] = s[a + i - 1]
      BY <2>1, SubSeqProperties
    <2>3. n \in Nat /\ b - a + 1 = n /\ (~(a <= b) => n = 0)
      OBVIOUS
    <2>4. \A i \in 1 .. n : a + i - 1 = (a + i) - 1
      OBVIOUS
    <2> HIDE DEF t, n
    <2> QED BY <2>2, <2>3, <2>4
  <1>2. DOMAIN t = 1 .. n
    BY <1>1
  <1> DEFINE u == [i \in 1 .. n |-> <<"raw", t[i]>>]
  <1>3. Span(s, a, b) = u
    BY <1>2 DEF Span, Characters
  <1>4. u = [i \in 1 .. n |-> u[i]] /\ \A i \in 1 .. n : u[i] = <<"raw", s[(a + i) - 1]>>
    BY <1>1
  <1> HIDE DEF u, n
  <1>5. IsSeq(u) /\ Len(u) = n
    BY <1>1, <1>4, IsSeqIntro
  <1> QED BY <1>3, <1>4, <1>5 DEF n

LEMMA SpanSplit ==
  ASSUME NEW s \in Seq(STRING), NEW a \in Nat \ {0}, NEW c \in Nat, NEW b \in Nat,
         a <= c + 1, c <= b, b <= Len(s)
  PROVE  Span(s, a, b) = Span(s, a, c) \o Span(s, c + 1, b)
  <1> DEFINE x == Span(s, a, c)
             y == Span(s, c + 1, b)
             z == Span(s, a, b)
             k == (c + 1) - a
             m == b - c
             n == (b + 1) - a
  <1>1. /\ IsSeq(x) /\ Len(x) = k
        /\ \A i \in 1 .. k : x[i] = <<"raw", s[(a + i) - 1]>>
    <2>1. c <= Len(s)
      OBVIOUS
    <2> HIDE DEF y, z, m, n
    <2> QED BY <2>1, SpanIs
  <1>2. /\ IsSeq(y) /\ Len(y) = m
        /\ \A i \in 1 .. m : y[i] = <<"raw", s[c + i]>>
    <2> DEFINE d == c + 1
    <2>1. /\ d \in Nat \ {0} /\ d <= b + 1 /\ (b + 1) - d = m
          /\ \A i \in 1 .. m : (d + i) - 1 = c + i
      OBVIOUS
    <2> HIDE DEF d, m
    <2>2. /\ IsSeq(Span(s, d, b)) /\ Len(Span(s, d, b)) = (b + 1) - d
          /\ \A i \in 1 .. (b + 1) - d : Span(s, d, b)[i] = <<"raw", s[(d + i) - 1]>>
      BY <2>1, SpanIs
    <2> QED BY <2>1, <2>2 DEF d
  <1>3. /\ IsSeq(z) /\ Len(z) = n
        /\ \A i \in 1 .. n : z[i] = <<"raw", s[(a + i) - 1]>>
    BY SpanIs
  <1>4. /\ k \in Nat /\ m \in Nat /\ k + m = n
        /\ \A i \in 1 .. n : i <= k => i \in 1 .. k
        /\ \A i \in 1 .. n : ~(i <= k) => i - k \in 1 .. m /\ c + (i - k) = (a + i) - 1
    OBVIOUS
  <1> HIDE DEF x, y, z, k, m, n
  <1>5. /\ IsSeq(x \o y) /\ Len(x \o y) = n
        /\ \A i \in 1 .. n : (x \o y)[i] = IF i <= k THEN x[i] ELSE y[i - k]
    BY <1>1, <1>2, <1>4, ConcatIsSeq
  <1>6. \A i \in 1 .. n : z[i] = (x \o y)[i]
    <2> TAKE i \in 1 .. n
    <2>1. CASE i <= k
      BY <2>1, <1>1, <1>3, <1>4, <1>5
    <2>2. CASE ~(i <= k)
      <3>1. i - k \in 1 .. m /\ c + (i - k) = (a + i) - 1
        BY <2>2, <1>4
      <3>2. y[i - k] = <<"raw", s[c + (i - k)]>>
        BY <3>1, <1>2
      <3> QED BY <2>2, <3>1, <3>2, <1>3, <1>5
    <2> QED BY <2>1, <2>2
  <1>7. z = x \o y
    BY <1>3, <1>5, <1>6, IsSeqEqual
  <1> QED BY <1>7 DEF x, y, z

LEMMA ReplacementIsSeq ==
  ASSUME NEW key, NEW map
  PROVE  IsSeq(Replacement(key, map))
  <1>1. \A v : IsSeq(Shown(v))
    BY AtomsAreSeqs DEF Shown
  <1> QED BY <1>1, EmptyIsSeq DEF Replacement

\* What std::string::find finds.
LEMMA FindIs ==
  ASSUME NEW s \in Seq(STRING), NEW c, NEW from \in Nat, from # 0
  PROVE  \/ Find(s, c, from) = 0 /\ \A i \in from .. Len(s) : s[i] # c
         \/ /\ Find(s, c, from) \in from .. Len(s) /\ s[Find(s, c, from)] = c
            /\ \A i \in from .. Len(s) : i < Find(s, c, from) => s[i] # c
  <1> DEFINE found == {i \in from .. Len(s) : s[i] = c}
  <1>1. CASE found = {}
    BY <1>1 DEF Find
  <1>2. CASE found # {}
    <2>1. found \in SUBSET Nat
      OBVIOUS
    <2>2. PICK d \in found : \A e \in found : d <= e
      <3> HIDE DEF found
      <3> QED BY <1>2, <2>1, LeastOf
    <2>3. Min(found) \in found /\ \A e \in found : Min(found) <= e
      <3> HIDE DEF found
      <3> QED BY <2>2 DEF Min
    <2>4. Find(s, c, from) = Min(found)
      BY <1>2 DEF Find
    <2> DEFINE m == Min(found)
    <2>5. m \in from .. Len(s) /\ s[m] = c
      BY <2>3
    <2>6. \A i \in from .. Len(s) : i < m => s[i] # c
      <3> TAKE i \in from .. Len(s)
      <3>1. s[i] = c => m <= i
        BY <2>3
      <3> HIDE DEF m
      <3> QED BY <2>5, <3>1
    <2> QED BY <2>4, <2>5, <2>6
  <1> QED BY <1>1, <1>2

LEMMA FoundAt ==
  ASSUME NEW s \in Seq(STRING), NEW c, NEW from \in Nat, from # 0, NEW j \in from .. Len(s),
         s[j] = c, \A i \in from .. j - 1 : s[i] # c
  PROVE  Find(s, c, from) = j
  <1> DEFINE f == Find(s, c, from)
  <1>1. /\ f # 0 /\ f \in from .. Len(s) /\ s[f] = c
        /\ \A i \in from .. Len(s) : i < f => s[i] # c
    <2>1. ~ \A i \in from .. Len(s) : s[i] # c
      OBVIOUS
    <2>2. 0 \notin from .. Len(s)
      OBVIOUS
    <2> QED BY <2>1, <2>2, FindIs
  <1> HIDE DEF f
  <1>2. ~(j < f)
    BY <1>1
  <1>3. ~(f < j)
    <2> SUFFICES ASSUME f < j PROVE FALSE
      OBVIOUS
    <2>1. f \in from .. j - 1
      BY <1>1
    <2> QED BY <2>1, <1>1
  <1>4. f \in Int /\ j \in Int
    BY <1>1
  <1>5. f = j
    BY <1>2, <1>3, <1>4
  <1> QED BY <1>5 DEF f\* The fields of a format with o and c for the braces.
FieldStart(s, c, i) ==
  LET closers == {j \in 1 .. i - 1 : s[j] = c}
  IN  IF closers = {} THEN 1 ELSE 1 + Max(closers)

FieldAt(s, map, o, c, i) ==
  LET from == FieldStart(s, c, i)
      opens == {j \in from .. i - 1 : s[j] = o}
      first == Min(opens)
  IN  IF s[i] # c THEN <<>>
      ELSE IF opens = {} THEN Span(s, from, i)
      ELSE Span(s, from, first - 1) \o Replacement(SubSeq(s, first + 1, i - 1), map)

LEMMA MaxIs ==
  ASSUME NEW N \in Nat, NEW T \in SUBSET (0 .. N), T # {}
  PROVE  Max(T) \in T /\ \A e \in T : e <= Max(T)
  <1>1. PICK d \in T : \A e \in T : e <= d
    BY GreatestOf
  <1> QED BY <1>1 DEF Max

LEMMA MinIs ==
  ASSUME NEW T \in SUBSET Nat, T # {}
  PROVE  Min(T) \in T /\ \A e \in T : Min(T) <= e
  <1>1. PICK d \in T : \A e \in T : d <= e
    BY LeastOf
  <1> QED BY <1>1 DEF Min

\* Where the field that goes up to i begins.
LEMMA FieldStartIs ==
  ASSUME NEW s, NEW c, NEW i \in Nat, i # 0
  PROVE  /\ FieldStart(s, c, i) \in 1 .. i
         /\ \A j \in FieldStart(s, c, i) .. i - 1 : s[j] # c
  <1> DEFINE C == {j \in 1 .. i - 1 : s[j] = c}
             p == FieldStart(s, c, i)
  <1>1. CASE C = {}
    <2>1. p = 1
      BY <1>1 DEF FieldStart
    <2>2. \A j \in 1 .. i - 1 : s[j] # c
      BY <1>1
    <2> HIDE DEF C, p
    <2> QED BY <2>1, <2>2 DEF p
  <1>2. CASE C # {}
    <2>1. C \in SUBSET (0 .. i)
      OBVIOUS
    <2>2. Max(C) \in C /\ \A e \in C : e <= Max(C)
      <3> HIDE DEF C
      <3> QED BY <1>2, <2>1, MaxIs
    <2>3. p = 1 + Max(C)
      BY <1>2 DEF FieldStart
    <2> DEFINE m == Max(C)
    <2>4. m \in 1 .. i - 1 /\ p = 1 + m
      BY <2>2, <2>3
    <2>5. \A j \in 1 .. i - 1 : s[j] = c => j <= m
      BY <2>2
    <2> HIDE DEF C, p, m
    <2>6. p \in 1 .. i
      BY <2>4
    <2>7. \A j \in p .. i - 1 : s[j] # c
      BY <2>4, <2>5
    <2> QED BY <2>6, <2>7 DEF p
  <1> QED BY <1>1, <1>2

LEMMA FieldStartFirst ==
  ASSUME NEW s, NEW c
  PROVE  FieldStart(s, c, 1) = 1
  <1>1. FieldStart(s, c, 1) \in 1 .. 1
    BY FieldStartIs, 1 \in Nat, 1 # 0
  <1> QED BY <1>1

LEMMA FieldStartNext ==
  ASSUME NEW s, NEW c, NEW i \in Nat, i # 0
  PROVE  FieldStart(s, c, i + 1) = IF s[i] = c THEN i + 1 ELSE FieldStart(s, c, i)
  <1> DEFINE k == i + 1
             C == {j \in 1 .. i - 1 : s[j] = c}
             D == {j \in 1 .. k - 1 : s[j] = c}
  <1>1. k \in Nat /\ k - 1 = i
    OBVIOUS
  <1>2. CASE s[i] = c
    <2>1. i \in D /\ D # {} /\ D \in SUBSET (0 .. i) /\ \A e \in D : e <= i
      BY <1>1, <1>2
    <2>2. Max(D) \in D /\ \A e \in D : e <= Max(D)
      <3> HIDE DEF D
      <3> QED BY <2>1, MaxIs
    <2>3. Max(D) = i
      <3> HIDE DEF D
      <3>1. Max(D) <= i /\ i <= Max(D) /\ Max(D) \in 0 .. i
        BY <2>1, <2>2
      <3> QED BY <3>1
    <2>4. FieldStart(s, c, k) = 1 + Max(D)
      BY <2>1 DEF FieldStart
    <2>5. FieldStart(s, c, k) = i + 1
      <3> HIDE DEF D, k
      <3> QED BY <2>3, <2>4
    <2> QED BY <1>2, <2>5
  <1>3. CASE s[i] # c
    <2>1. D = C
      BY <1>1, <1>3
    <2>2. FieldStart(s, c, k) = IF D = {} THEN 1 ELSE 1 + Max(D)
      BY DEF FieldStart
    <2>3. FieldStart(s, c, i) = IF C = {} THEN 1 ELSE 1 + Max(C)
      BY DEF FieldStart
    <2> HIDE DEF C, D
    <2> QED BY <1>3, <2>1, <2>2, <2>3
  <1> QED BY <1>2, <1>3

\* What a field is, from where it begins.
FieldForm(s, map, o, c, i, from, field) ==
  /\ s[i] # c => field = <<>>
  /\ s[i] = c /\ (\A j \in from .. i - 1 : s[j] # o) => field = Span(s, from, i)
  /\ s[i] = c /\ (\E j \in from .. i - 1 : s[j] = o) =>
       \E first \in from .. i - 1 :
         /\ s[first] = o /\ \A j \in from .. first - 1 : s[j] # o
         /\ field = Span(s, from, first - 1) \o Replacement(SubSeq(s, first + 1, i - 1), map)

LEMMA FieldAtIs ==
  ASSUME NEW s \in Seq(STRING), NEW map, NEW o, NEW c, NEW i \in 1 .. Len(s)
  PROVE  FieldForm(s, map, o, c, i, FieldStart(s, c, i), FieldAt(s, map, o, c, i))
  <1> DEFINE from == FieldStart(s, c, i)
             opens == {j \in from .. i - 1 : s[j] = o}
             first == Min(opens)
             field == FieldAt(s, map, o, c, i)
             filled == Span(s, from, first - 1) \o Replacement(SubSeq(s, first + 1, i - 1), map)
  <1>1. from \in 1 .. i /\ from \in Nat
    <2>1. i \in Nat /\ i # 0
      OBVIOUS
    <2>2. from \in 1 .. i
      BY <2>1, FieldStartIs
    <2> HIDE DEF from
    <2> QED BY <2>2
  <1>2. field = IF s[i] # c THEN <<>> ELSE IF opens = {} THEN Span(s, from, i) ELSE filled
    BY DEF FieldAt
  <1> HIDE DEF from, field
  <1>3. (\A j \in from .. i - 1 : s[j] # o) <=> opens = {}
    OBVIOUS
  <1>4. ASSUME opens # {}
        PROVE  first \in from .. i - 1 /\ s[first] = o /\ \A j \in from .. first - 1 : s[j] # o
    <2>1. opens \in SUBSET Nat
      BY <1>1
    <2>2. first \in opens /\ \A e \in opens : first <= e
      <3> HIDE DEF opens
      <3> QED BY <1>4, <2>1, MinIs
    <2>3. first \in from .. i - 1 /\ s[first] = o
      BY <2>2
    <2>4. \A j \in from .. i - 1 : s[j] = o => first <= j
      BY <2>2
    <2> HIDE DEF first, opens
    <2>5. \A j \in from .. first - 1 : s[j] # o
      BY <1>1, <2>3, <2>4
    <2> QED BY <2>3, <2>5
  <1>5. s[i] # c => field = <<>>
    BY <1>2
  <1>6. s[i] = c /\ opens = {} => field = Span(s, from, i)
    BY <1>2
  <1>7. s[i] = c /\ opens # {} => field = filled
    BY <1>2
  <1>8. opens # {} <=> \E j \in from .. i - 1 : s[j] = o
    OBVIOUS
  <1> HIDE DEF opens
  <1>9. ASSUME s[i] = c, \E j \in from .. i - 1 : s[j] = o
        PROVE  \E f \in from .. i - 1 :
                 /\ s[f] = o /\ \A j \in from .. f - 1 : s[j] # o
                 /\ field = Span(s, from, f - 1) \o Replacement(SubSeq(s, f + 1, i - 1), map)
    <2>1. opens # {} /\ field = filled
      BY <1>7, <1>8, <1>9
    <2>2. first \in from .. i - 1 /\ s[first] = o /\ \A j \in from .. first - 1 : s[j] # o
      BY <2>1, <1>4
    <2> HIDE DEF first
    <2> QED BY <2>1, <2>2
  <1>10. FieldForm(s, map, o, c, i, from, field)
    BY <1>3, <1>5, <1>6, <1>9 DEF FieldForm
  <1> QED BY <1>10 DEF from, field
FillAt(s, map, o, c, f, p) ==
  LET brace == Find(s, o, p)
      end == Find(s, c, brace + 1)
  IN  IF brace = 0 \/ end = 0 THEN Span(s, p, Len(s))
      ELSE Span(s, p, brace - 1) \o Replacement(SubSeq(s, brace + 1, end - 1), map) \o f[end + 1]

Fills(s, map, o, c, f) == \A p \in 1 .. Len(s) + 1 : f[p] = FillAt(s, map, o, c, f, p)

\* Without a closing brace the rest stays.
LEMMA FillLast ==
  ASSUME NEW s \in Seq(STRING), NEW map, NEW o, NEW c, NEW f, NEW p \in 1 .. Len(s) + 1,
         \A i \in p .. Len(s) : s[i] # c
  PROVE  FillAt(s, map, o, c, f, p) = Span(s, p, Len(s))
  <1> DEFINE brace == Find(s, o, p)
             end == Find(s, c, brace + 1)
  <1>1. brace = 0 \/ brace \in p .. Len(s)
    <2>1. p \in Nat /\ p # 0
      OBVIOUS
    <2> QED BY <2>1, FindIs
  <1>2. ASSUME brace # 0 PROVE end = 0
    <2> DEFINE from == brace + 1
    <2> HIDE DEF brace
    <2>1. from \in Nat /\ from # 0 /\ \A i \in from .. Len(s) : i \in p .. Len(s)
      BY <1>1, <1>2
    <2> HIDE DEF from
    <2>2. Find(s, c, from) = 0
      BY <2>1, FindIs
    <2> QED BY <2>2 DEF from
  <1>3. FillAt(s, map, o, c, f, p) =
          IF brace = 0 \/ end = 0 THEN Span(s, p, Len(s))
          ELSE Span(s, p, brace - 1) \o Replacement(SubSeq(s, brace + 1, end - 1), map) \o f[end + 1]
    BY DEF FillAt
  <1> HIDE DEF brace, end
  <1> QED BY <1>2, <1>3

\* A field is replaced.
FieldFilled(s, map, o, c, f, p, i, first) ==
  FillAt(s, map, o, c, f, p)
    = Span(s, p, first - 1) \o Replacement(SubSeq(s, first + 1, i - 1), map) \o f[i + 1]

LEMMA FillField ==
  ASSUME NEW s \in Seq(STRING), NEW map, NEW o, NEW c, NEW f, NEW p \in 1 .. Len(s) + 1,
         NEW i \in p .. Len(s), s[i] = c, \A j \in p .. i - 1 : s[j] # c,
         NEW first \in p .. i - 1, s[first] = o, \A j \in p .. first - 1 : s[j] # o
  PROVE  FieldFilled(s, map, o, c, f, p, i, first)
  <1>1. Find(s, o, p) = first
    <2>1. p \in Nat /\ p # 0 /\ first \in p .. Len(s)
      OBVIOUS
    <2> QED BY <2>1, FoundAt
  <1>2. Find(s, c, first + 1) = i
    <2> DEFINE from == first + 1
    <2>1. from \in Nat /\ from # 0 /\ i \in from .. Len(s) /\ \A j \in from .. i - 1 : s[j] # c
      OBVIOUS
    <2> HIDE DEF from
    <2>2. Find(s, c, from) = i
      BY <2>1, FoundAt
    <2> QED BY <2>2 DEF from
  <1>3. first # 0 /\ i # 0
    OBVIOUS
  <1> QED BY <1>1, <1>2, <1>3 DEF FillAt, FieldFilled

LEMMA FillSeqs ==
  ASSUME NEW s \in Seq(STRING), NEW map, NEW o, NEW c, NEW f, Fills(s, map, o, c, f)
  PROVE  \A p \in 1 .. Len(s) + 1 : IsSeq(f[p])
  <1> DEFINE L == Len(s)
             T == {p \in 1 .. L + 1 : ~IsSeq(f[p])}
  <1>0. L \in Nat
    OBVIOUS
  <1>1. SUFFICES ASSUME T # {} PROVE FALSE
    OBVIOUS
  <1>2. T \in SUBSET (0 .. L + 1) /\ L + 1 \in Nat
    BY <1>0
  <1>3. PICK p \in T : \A y \in T : y <= p
    <2> HIDE DEF T, L
    <2>1. L + 1 \in Nat
      BY <1>0
    <2> DEFINE M == L + 1
    <2>2. M \in Nat /\ T \in SUBSET (0 .. M)
      BY <1>2, <2>1
    <2> HIDE DEF M
    <2> QED BY <1>1, <2>2, GreatestOf
  <1>4. p \in 1 .. L + 1 /\ ~IsSeq(f[p])
    BY <1>3
  <1>5. \A y \in 1 .. L + 1 : y > p => IsSeq(f[y])
    <2> TAKE y \in 1 .. L + 1
    <2>1. ~IsSeq(f[y]) => y <= p
      BY <1>3
    <2> HIDE DEF L, T
    <2>2. y \in Int /\ p \in Int
      BY <1>0, <1>4
    <2> QED BY <2>1, <2>2
  <1> DEFINE brace == Find(s, o, p)
             end == Find(s, c, brace + 1)
             key == SubSeq(s, brace + 1, end - 1)
  <1>6. f[p] = IF brace = 0 \/ end = 0 THEN Span(s, p, L)
               ELSE Span(s, p, brace - 1) \o Replacement(key, map) \o f[end + 1]
    <2>1. f[p] = FillAt(s, map, o, c, f, p)
      BY <1>4 DEF Fills
    <2> QED BY <2>1 DEF FillAt
  <1>7. p \in Nat /\ p # 0 /\ p <= L + 1
    BY <1>4
  <1>8. CASE brace = 0 \/ end = 0
    <2>1. IsSeq(Span(s, p, L))
      BY <1>7, <1>0, SpanIs
    <2> QED BY <1>4, <1>6, <1>8, <2>1
  <1>9. CASE ~(brace = 0 \/ end = 0)
    <2>1. brace \in p .. L
      BY <1>7, <1>9, FindIs
    <2> HIDE DEF brace
    <2>2. end \in brace + 1 .. L
      <3> DEFINE from == brace + 1
      <3>1. from \in Nat /\ from # 0
        BY <1>7, <2>1
      <3> HIDE DEF from
      <3>2. Find(s, c, from) = 0 \/ Find(s, c, from) \in from .. L
        BY <3>1, FindIs
      <3> QED BY <3>2, <1>9 DEF from
    <2> HIDE DEF end
    <2> DEFINE b == brace - 1
               e == end + 1
    <2>3. b \in Nat /\ p <= b + 1 /\ b <= L /\ e \in 1 .. L + 1 /\ e > p
      <3> HIDE DEF L
      <3> QED BY <1>0, <1>7, <2>1, <2>2
    <2> HIDE DEF b, e
    <2>4. IsSeq(Span(s, p, b))
      BY <1>7, <2>3, SpanIs
    <2>5. IsSeq(Replacement(key, map))
      BY ReplacementIsSeq
    <2>6. IsSeq(f[e])
      BY <1>5, <2>3
    <2>7. IsSeq(Span(s, p, b) \o Replacement(key, map))
      BY <2>4, <2>5, ConcatIsSeq
    <2>8. IsSeq((Span(s, p, b) \o Replacement(key, map)) \o f[e])
      BY <2>6, <2>7, ConcatIsSeq
    <2> HIDE DEF key, L
    <2> QED BY <1>4, <1>6, <1>9, <2>8 DEF b, e
  <1> QED BY <1>8, <1>9

\* The characters before the first opening brace stay.
LEMMA FillPlain ==
  ASSUME NEW s \in Seq(STRING), NEW map, NEW o, NEW c, NEW f, Fills(s, map, o, c, f),
         NEW p \in 1 .. Len(s), NEW i \in p .. Len(s), \A j \in p .. i : s[j] # o
  PROVE  f[p] = Span(s, p, i) \o f[i + 1]
  <1> DEFINE L == Len(s)
             k == i + 1
             brace == Find(s, o, p)
             end == Find(s, c, brace + 1)
             key == SubSeq(s, brace + 1, end - 1)
             rest == Replacement(key, map) \o f[end + 1]
  <1>1. /\ L \in Nat /\ p \in Nat /\ p # 0 /\ p \in 1 .. L + 1 /\ k \in Nat /\ k # 0
        /\ k \in 1 .. L + 1 /\ i \in p .. L /\ i \in Nat /\ p <= i + 1 /\ k = i + 1
    OBVIOUS
  <1>2. /\ f[p] = FillAt(s, map, o, c, f, p)
        /\ f[k] = FillAt(s, map, o, c, f, k)
    BY <1>1 DEF Fills
  <1>3. Find(s, o, k) = brace /\ (brace # 0 => brace \in k .. L)
    <2>1. CASE Find(s, o, k) = 0 /\ \A j \in k .. L : s[j] # o
      <3>1. \A j \in p .. L : s[j] # o
        <4> TAKE j \in p .. L
        <4>1. j \in p .. i \/ j \in k .. L
          <5> HIDE DEF L
          <5> QED BY <1>1
        <4> HIDE DEF k, L
        <4> QED BY <4>1, <2>1
      <3>2. brace = 0
        <4>1. p \in Nat /\ p # 0
          BY <1>1
        <4>2. \/ Find(s, o, p) = 0
              \/ Find(s, o, p) \in p .. Len(s) /\ s[Find(s, o, p)] = o
          BY <4>1, FindIs
        <4>3. \A j \in p .. Len(s) : s[j] # o
          BY <3>1
        <4>4. Find(s, o, p) = 0
          <5> HIDE DEF brace, L, k, end, key, rest
          <5> QED BY <4>2, <4>3
        <4> QED BY <4>4
      <3> QED BY <2>1, <3>2
    <2>2. CASE Find(s, o, k) # 0
      <3> DEFINE b == Find(s, o, k)
      <3>1. b \in k .. L /\ s[b] = o /\ \A j \in k .. L : j < b => s[j] # o
        <4> HIDE DEF k
        <4> QED BY <1>1, <2>2, FindIs
      <3> HIDE DEF b, k
      <3>2. b \in p .. L /\ \A j \in p .. b - 1 : s[j] # o
        <4>1. b \in p .. L
          <5> HIDE DEF L
          <5> QED BY <1>1, <3>1
        <4>2. ASSUME NEW j \in p .. b - 1 PROVE s[j] # o
          <5>1. j \in p .. i \/ (j \in k .. L /\ j < b)
            <6> HIDE DEF L
            <6> QED BY <1>1, <3>1
          <5> QED BY <5>1, <3>1
        <4> QED BY <4>1, <4>2
      <3>3. brace = b
        BY <1>1, <3>1, <3>2, FoundAt
      <3> QED BY <3>1, <3>3 DEF b
    <2>3. Find(s, o, k) = 0 => \A j \in k .. L : s[j] # o
      <3> HIDE DEF k
      <3>1. 0 \notin k .. L
        BY <1>1
      <3> QED BY <3>1, <1>1, FindIs
    <2> QED BY <2>1, <2>2, <2>3
  <1>4. /\ f[p] = IF brace = 0 \/ end = 0 THEN Span(s, p, L)
                  ELSE Span(s, p, brace - 1) \o Replacement(key, map) \o f[end + 1]
        /\ f[k] = IF brace = 0 \/ end = 0 THEN Span(s, k, L)
                  ELSE Span(s, k, brace - 1) \o Replacement(key, map) \o f[end + 1]
    <2> HIDE DEF k
    <2> QED BY <1>2, <1>3 DEF FillAt
  <1>5. CASE brace = 0 \/ end = 0
    <2>1. Span(s, p, L) = Span(s, p, i) \o Span(s, i + 1, L)
      <3>1. i <= L /\ L <= Len(s)
        BY <1>1
      <3> QED BY <1>1, <3>1, SpanSplit
    <2> QED BY <1>4, <1>5, <2>1
  <1>6. CASE ~(brace = 0 \/ end = 0)
    <2>1. brace \in k .. L
      BY <1>3, <1>6
    <2>2. end \in brace + 1 .. L
      <3> HIDE DEF brace
      <3> DEFINE from == brace + 1
      <3>1. from \in Nat /\ from # 0
        <4> HIDE DEF k, L
        <4> QED BY <1>1, <2>1
      <3> HIDE DEF from
      <3>2. Find(s, c, from) = 0 \/ Find(s, c, from) \in from .. L
        BY <3>1, FindIs
      <3> QED BY <3>2, <1>6 DEF from
    <2> DEFINE b == brace - 1
               e == end + 1
    <2> HIDE DEF brace, end
    <2>3. b \in Nat /\ i <= b /\ b <= Len(s) /\ k <= b + 1 /\ e \in 1 .. Len(s) + 1
      <3>1. Len(s) = L
        OBVIOUS
      <3> HIDE DEF L, k
      <3> QED BY <3>1, <1>1, <2>1, <2>2
    <2> HIDE DEF b, e, key
    <2> DEFINE x == Span(s, p, i)
               y == Span(s, k, b)
               z == Replacement(key, map)
    <2>4. Span(s, p, b) = x \o y
      <3>1. p \in Nat \ {0} /\ i \in Nat /\ b \in Nat /\ p <= i + 1 /\ i <= b /\ b <= Len(s)
        BY <1>1, <2>3
      <3>2. Span(s, p, b) = Span(s, p, i) \o Span(s, i + 1, b)
        BY <3>1, SpanSplit
      <3> QED BY <3>2
    <2>5. IsSeq(x) /\ IsSeq(y) /\ IsSeq(z) /\ IsSeq(f[e])
      <3>1. IsSeq(x)
        <4>1. i <= Len(s)
          BY <1>1
        <4> HIDE DEF k
        <4> QED BY <4>1, <1>1, SpanIs
      <3>2. IsSeq(y)
        <4>1. k \in Nat \ {0}
          BY <1>1
        <4> HIDE DEF k
        <4> QED BY <4>1, <2>3, SpanIs
      <3> QED BY <3>1, <3>2, <2>3, ReplacementIsSeq, FillSeqs
    <2> HIDE DEF x, y, z, k, L
    <2>6. f[p] = ((x \o y) \o z) \o f[e]
      BY <1>4, <1>6, <2>4 DEF b, e, z
    <2>7. f[k] = (y \o z) \o f[e]
      BY <1>4, <1>6 DEF b, e, y, z
    <2>8. ((x \o y) \o z) \o f[e] = x \o ((y \o z) \o f[e])
      <3> DEFINE v == y \o z
      <3>1. Associates(x, y, z) /\ IsSeq(v)
        BY <2>5, ConcatAssociates, ConcatIsSeq
      <3>2. Associates(x, v, f[e])
        <4> HIDE DEF v
        <4> QED BY <2>5, <3>1, ConcatAssociates
      <3> QED BY <3>1, <3>2 DEF Associates
    <2>9. f[p] = x \o f[k]
      BY <2>6, <2>7, <2>8
    <2> QED BY <2>9 DEF x, k
  <1> QED BY <1>5, <1>6
FillFunction(s, map, o, c, f) == f = [p \in 1 .. Len(s) + 1 |-> FillAt(s, map, o, c, f, p)]

LEMMA FillExists ==
  ASSUME NEW s \in Seq(STRING), NEW map, NEW o, NEW c
  PROVE  \E f : FillFunction(s, map, o, c, f)
  <1> DEFINE L == Len(s)
             M == L + 1
             After(f, n) == \A p \in 1 .. M : p > n => f[p] = FillAt(s, map, o, c, f, p)
             T == {n \in 0 .. M : \E f : After(f, n)}
  <1>1. L \in Nat /\ M \in Nat /\ M = L + 1
    OBVIOUS
  <1>2. M \in T
    <2>1. After(<<>>, M)
      <3> HIDE DEF M
      <3> QED BY <1>1
    <2> HIDE DEF M, After
    <2> QED BY <1>1, <2>1
  <1>3. PICK n \in T : \A e \in T : n <= e
    <2>1. T \in SUBSET Nat
      <3> HIDE DEF M, After
      <3> QED BY <1>1
    <2> HIDE DEF T
    <2> QED BY <1>2, <2>1, LeastOf
  <1>4. n \in 0 .. M /\ \E f : After(f, n)
    BY <1>3
  <1>5. PICK f : After(f, n)
    BY <1>4
  <1> DEFINE g == [p \in 1 .. M |-> IF p = n THEN FillAt(s, map, o, c, f, p) ELSE f[p]]
  <1>6. \A p \in 1 .. M : p > n => g[p] = f[p]
    BY <1>4
  <1>7. \A p \in 1 .. M : p >= n => FillAt(s, map, o, c, g, p) = FillAt(s, map, o, c, f, p)
    <2> TAKE p \in 1 .. M
    <2> HAVE p >= n
    <2> DEFINE brace == Find(s, o, p)
               end == Find(s, c, brace + 1)
               k == end + 1
    <2>1. p \in Nat /\ p # 0 /\ n \in Nat
      BY <1>1, <1>4
    <2>2. brace = 0 \/ brace \in p .. L
      BY <2>1, FindIs
    <2>3. ASSUME ~(brace = 0 \/ end = 0) PROVE k \in 1 .. M /\ k > n
      <3>1. brace \in p .. L
        BY <2>2, <2>3
      <3> HIDE DEF brace
      <3> DEFINE from == brace + 1
      <3>2. from \in Nat /\ from # 0
        BY <2>1, <3>1
      <3> HIDE DEF from
      <3>3. Find(s, c, from) = 0 \/ Find(s, c, from) \in from .. L
        BY <3>2, FindIs
      <3>4. end \in brace + 1 .. L
        BY <3>3, <2>3 DEF from
      <3> HIDE DEF end, L, M
      <3> QED BY <1>1, <2>1, <3>1, <3>4
    <2>4. ~(brace = 0 \/ end = 0) => g[k] = f[k]
      <3> HIDE DEF g, k, brace, end, M
      <3> QED BY <2>3, <1>6
    <2> HIDE DEF g
    <2> QED BY <2>4 DEF FillAt
  <1>8. After(g, n - 1)
    <2> SUFFICES ASSUME NEW p \in 1 .. M, p > n - 1 PROVE g[p] = FillAt(s, map, o, c, g, p)
      OBVIOUS
    <2>1. p >= n
      BY <1>1, <1>4
    <2>2. g[p] = IF p = n THEN FillAt(s, map, o, c, f, p) ELSE f[p]
      OBVIOUS
    <2>3. p # n => p > n
      BY <1>1, <1>4, <2>1
    <2> HIDE DEF g, M
    <2> QED BY <2>1, <2>2, <2>3, <1>5, <1>7
  <1>9. n = 0
    <2> SUFFICES ASSUME n # 0 PROVE FALSE
      OBVIOUS
    <2>1. n - 1 \in 0 .. M /\ ~(n <= n - 1)
      BY <1>1, <1>4
    <2> DEFINE m == n - 1
    <2> HIDE DEF m, After, M, g
    <2>2. m \in T
      BY <2>1, <1>8 DEF m
    <2> HIDE DEF T
    <2> QED BY <2>1, <2>2, <1>3 DEF m
  <1>10. \A p \in 1 .. M : f[p] = FillAt(s, map, o, c, f, p)
    <2>1. \A p \in 1 .. M : p > n
      BY <1>1, <1>9
    <2> HIDE DEF M
    <2> QED BY <2>1, <1>5
  <1> DEFINE h == [p \in 1 .. M |-> f[p]]
  <1>11. \A p \in 1 .. M : FillAt(s, map, o, c, h, p) = FillAt(s, map, o, c, f, p)
    <2> TAKE p \in 1 .. M
    <2> DEFINE brace == Find(s, o, p)
               end == Find(s, c, brace + 1)
               k == end + 1
    <2>1. p \in Nat /\ p # 0
      BY <1>1
    <2>2. brace = 0 \/ brace \in p .. L
      BY <2>1, FindIs
    <2>3. ASSUME ~(brace = 0 \/ end = 0) PROVE k \in 1 .. M
      <3>1. brace \in p .. L
        BY <2>2, <2>3
      <3> HIDE DEF brace
      <3> DEFINE from == brace + 1
      <3>2. from \in Nat /\ from # 0
        BY <2>1, <3>1
      <3> HIDE DEF from
      <3>3. Find(s, c, from) = 0 \/ Find(s, c, from) \in from .. L
        BY <3>2, FindIs
      <3>4. end \in brace + 1 .. L
        BY <3>3, <2>3 DEF from
      <3> HIDE DEF end, L, M
      <3> QED BY <1>1, <2>1, <3>1, <3>4
    <2>4. ~(brace = 0 \/ end = 0) => h[k] = f[k]
      <3> HIDE DEF k, brace, end, M
      <3> QED BY <2>3
    <2> HIDE DEF h
    <2> QED BY <2>4 DEF FillAt
  <1>12. \A p \in 1 .. M : h[p] = FillAt(s, map, o, c, h, p)
    <2> HIDE DEF M
    <2> QED BY <1>10, <1>11
  <1>13. h = [p \in 1 .. M |-> FillAt(s, map, o, c, h, p)]
    <2> HIDE DEF M
    <2>1. h = [p \in 1 .. M |-> h[p]]
      OBVIOUS
    <2> HIDE DEF h
    <2> QED BY <1>12, <2>1
  <1>14. FillFunction(s, map, o, c, h)
    <2> HIDE DEF h
    <2> QED BY <1>13 DEF FillFunction
  <1> QED BY <1>14

LEMMA FillFunctionFills ==
  ASSUME NEW s, NEW map, NEW o, NEW c, NEW f, FillFunction(s, map, o, c, f)
  PROVE  Fills(s, map, o, c, f)
  BY DEF FillFunction, Fills

\* One sequence more.
LEMMA FlattenNext ==
  ASSUME NEW n \in Nat, NEW x, \A i \in 1 .. n + 1 : IsSeq(x[i])
  PROVE  /\ IsSeq(FlattenSeq([i \in 1 .. n |-> x[i]]))
         /\ FlattenSeq([i \in 1 .. n + 1 |-> x[i]]) = FlattenSeq([i \in 1 .. n |-> x[i]]) \o x[n + 1]
  <1> DEFINE m == n + 1
             ss == [i \in 1 .. n |-> x[i]]
             tt == [i \in 1 .. m |-> x[i]]
  <1>1. /\ m \in Nat /\ m \in 1 .. m /\ \A i \in 1 .. n : i \in 1 .. m
        /\ \A i \in 1 .. m : i = m \/ i \in 1 .. n
    OBVIOUS
  <1>2. /\ ss = [i \in 1 .. n |-> ss[i]] /\ \A i \in 1 .. n : ss[i] = x[i]
        /\ tt = [i \in 1 .. m |-> tt[i]] /\ \A i \in 1 .. m : tt[i] = x[i]
    OBVIOUS
  <1>3. \A i \in 1 .. m : IsSeq(x[i])
    OBVIOUS
  <1> HIDE DEF ss, tt
  <1>4. IsSeq(ss) /\ Len(ss) = n
    BY <1>2, IsSeqIntro
  <1>5. IsSeq(tt) /\ Len(tt) = m
    <2> HIDE DEF m
    <2> QED BY <1>1, <1>2, IsSeqIntro
  <1>6. /\ IsSeq(Append(ss, x[m])) /\ Len(Append(ss, x[m])) = m
        /\ Append(ss, x[m])[m] = x[m] /\ \A i \in 1 .. n : Append(ss, x[m])[i] = ss[i]
    BY <1>4, AppendIsSeq
  <1> HIDE DEF m
  <1>7. \A i \in 1 .. m : tt[i] = Append(ss, x[m])[i]
    <2> TAKE i \in 1 .. m
    <2>1. CASE i = m
      BY <2>1, <1>2, <1>6
    <2>2. CASE i \in 1 .. n
      BY <2>2, <1>1, <1>2, <1>6
    <2> QED BY <2>1, <2>2, <1>1
  <1>8. tt = Append(ss, x[m])
    BY <1>5, <1>6, <1>7, IsSeqEqual
  <1>9. FlattenSeq(tt) = FlattenSeq(ss) \o x[m]
    BY <1>1, <1>3, <1>4, <1>8, FlattenAppend
  <1>10. SeqOfSeqs(ss)
    BY <1>1, <1>2, <1>3, <1>4 DEF SeqOfSeqs
  <1>11. IsSeq(FlattenSeq(ss))
    BY <1>10, FlattenIsSeq
  <1> QED BY <1>9, <1>11 DEF ss, tt, m

LEMMA FieldAtIsSeq ==
  ASSUME NEW s \in Seq(STRING), NEW map, NEW o, NEW c, NEW i \in 1 .. Len(s)
  PROVE  IsSeq(FieldAt(s, map, o, c, i))
  <1> DEFINE from == FieldStart(s, c, i)
             field == FieldAt(s, map, o, c, i)
  <1>0. i \in 1 .. Len(s) /\ i \in Nat /\ i # 0
    OBVIOUS
  <1>1. from \in 1 .. i
    BY <1>0, FieldStartIs
  <1>2. FieldForm(s, map, o, c, i, from, field)
    BY FieldAtIs
  <1> HIDE DEF from, field
  <1>3. CASE s[i] # c
    BY <1>2, <1>3, EmptyIsSeq DEF field, FieldForm
  <1>4. CASE field = Span(s, from, i)
    <2>1. from \in Nat \ {0} /\ from <= i + 1 /\ i <= Len(s)
      BY <1>0, <1>1
    <2>2. IsSeq(Span(s, from, i))
      BY <1>0, <2>1, SpanIs
    <2> QED BY <1>4, <2>2 DEF field
  <1>5. ASSUME NEW first \in from .. i - 1,
               field = Span(s, from, first - 1) \o Replacement(SubSeq(s, first + 1, i - 1), map)
        PROVE  IsSeq(field)
    <2> DEFINE b == first - 1
               r == Replacement(SubSeq(s, first + 1, i - 1), map)
    <2>1. from \in Nat \ {0} /\ b \in Nat /\ from <= b + 1 /\ b <= Len(s)
      BY <1>0, <1>1
    <2> HIDE DEF b
    <2>2. IsSeq(Span(s, from, b)) /\ IsSeq(r)
      BY <2>1, SpanIs, ReplacementIsSeq
    <2> HIDE DEF r
    <2>3. IsSeq(Span(s, from, b) \o r)
      BY <2>2, ConcatIsSeq
    <2> QED BY <2>3, <1>5 DEF b, r
  <1>6. CASE s[i] = c /\ field # Span(s, from, i)
    <2>1. PICK first \in from .. i - 1 :
            field = Span(s, from, first - 1) \o Replacement(SubSeq(s, first + 1, i - 1), map)
      BY <1>2, <1>6 DEF FieldForm
    <2> QED BY <2>1, <1>5 DEF field
  <1> QED BY <1>3, <1>4, <1>6

Fields(s, map, o, c, n) == FlattenSeq([i \in 1 .. n |-> FieldAt(s, map, o, c, i)])

LEMMA FieldsNext ==
  ASSUME NEW s \in Seq(STRING), NEW map, NEW o, NEW c, NEW n \in Nat, n < Len(s)
  PROVE  /\ IsSeq(Fields(s, map, o, c, n))
         /\ Fields(s, map, o, c, n + 1)
              = Fields(s, map, o, c, n) \o FieldAt(s, map, o, c, n + 1)
  <1> DEFINE m == n + 1
             x == [i \in 1 .. m |-> FieldAt(s, map, o, c, i)]
  <1>1. /\ \A i \in 1 .. m : i \in 1 .. Len(s) /\ m \in 1 .. m
        /\ \A i \in 1 .. n : i \in 1 .. m
    OBVIOUS
  <1>2. m \in 1 .. m
    OBVIOUS
  <1>3. \A i \in 1 .. m : x[i] = FieldAt(s, map, o, c, i)
    OBVIOUS
  <1>4. \A i \in 1 .. m : IsSeq(FieldAt(s, map, o, c, i))
    <2> TAKE i \in 1 .. m
    <2>1. i \in 1 .. Len(s)
      BY <1>1
    <2> QED BY <2>1, FieldAtIsSeq
  <1>5. [i \in 1 .. n |-> FieldAt(s, map, o, c, i)] = [i \in 1 .. n |-> x[i]]
    BY <1>1, <1>3
  <1>6. [i \in 1 .. m |-> FieldAt(s, map, o, c, i)] = [i \in 1 .. m |-> x[i]]
    BY <1>3
  <1>7. \A i \in 1 .. n + 1 : IsSeq(x[i])
    BY <1>3, <1>4
  <1>8. x[n + 1] = FieldAt(s, map, o, c, n + 1)
    BY <1>2, <1>3
  <1>9. [i \in 1 .. n + 1 |-> FieldAt(s, map, o, c, i)] = [i \in 1 .. n + 1 |-> x[i]]
    BY <1>6
  <1> HIDE DEF x, m
  <1>10. /\ IsSeq(FlattenSeq([i \in 1 .. n |-> x[i]]))
         /\ FlattenSeq([i \in 1 .. n + 1 |-> x[i]]) = FlattenSeq([i \in 1 .. n |-> x[i]]) \o x[n + 1]
    BY <1>7, FlattenNext
  <1> QED BY <1>5, <1>8, <1>9, <1>10 DEF Fields

\* The fill function goes from field to field.
FillGoesOn(s, map, o, c, f, i) ==
  f[FieldStart(s, c, i)] = FieldAt(s, map, o, c, i) \o f[FieldStart(s, c, i + 1)]

LEMMA FillNext ==
  ASSUME NEW s \in Seq(STRING), NEW map, NEW o, NEW c, o # c, NEW f, Fills(s, map, o, c, f),
         NEW i \in 1 .. Len(s)
  PROVE  FillGoesOn(s, map, o, c, f, i)
  <1> DEFINE from == FieldStart(s, c, i)
             next == FieldStart(s, c, i + 1)
             field == FieldAt(s, map, o, c, i)
  <1>0. i \in Nat /\ i # 0 /\ Len(s) \in Nat
    OBVIOUS
  <1>1. from \in 1 .. i /\ \A j \in from .. i - 1 : s[j] # c
    BY <1>0, FieldStartIs
  <1>2. next = IF s[i] = c THEN i + 1 ELSE from
    BY <1>0, FieldStartNext
  <1>3. FieldForm(s, map, o, c, i, from, field)
    BY FieldAtIs
  <1> HIDE DEF from, next, field
  <1>4. /\ from \in 1 .. Len(s) /\ from \in 1 .. Len(s) + 1 /\ i \in from .. Len(s)
        /\ i + 1 \in 1 .. Len(s) + 1
    BY <1>0, <1>1
  <1>5. IsSeq(f[from])
    BY <1>4, FillSeqs
  <1>6. CASE s[i] # c
    <2>1. field = <<>> /\ next = from
      BY <1>2, <1>3, <1>6 DEF FieldForm
    <2>2. f[from] = field \o f[next]
      BY <1>5, <2>1, ConcatEmpty
    <2> QED BY <2>2 DEF from, next, field, FillGoesOn
  <1>7. CASE s[i] = c /\ \A j \in from .. i - 1 : s[j] # o
    <2>1. \A j \in from .. i : s[j] # o
      <3> TAKE j \in from .. i
      <3>1. j = i \/ j \in from .. i - 1
        BY <1>0, <1>1
      <3> QED BY <3>1, <1>7
    <2>2. f[from] = Span(s, from, i) \o f[i + 1]
      BY <1>4, <2>1, FillPlain
    <2>3. field = Span(s, from, i) /\ next = i + 1
      BY <1>2, <1>3, <1>7 DEF FieldForm
    <2>4. f[from] = field \o f[next]
      BY <2>2, <2>3
    <2> QED BY <2>4 DEF from, next, field, FillGoesOn
  <1>8. CASE s[i] = c /\ \E j \in from .. i - 1 : s[j] = o
    <2>1. PICK first \in from .. i - 1 :
               /\ s[first] = o /\ \A j \in from .. first - 1 : s[j] # o
               /\ field = Span(s, from, first - 1) \o Replacement(SubSeq(s, first + 1, i - 1), map)
      BY <1>3, <1>8 DEF FieldForm
    <2>2. FillAt(s, map, o, c, f, from)
            = Span(s, from, first - 1) \o Replacement(SubSeq(s, first + 1, i - 1), map) \o f[i + 1]
      <3>1. /\ s[first] = o /\ \A j \in from .. first - 1 : s[j] # o
            /\ s[i] = c /\ \A j \in from .. i - 1 : s[j] # c
        BY <1>1, <1>8, <2>1
      <3>2. from \in 1 .. Len(s) + 1 /\ i \in from .. Len(s)
        BY <1>4
      <3>3. FieldFilled(s, map, o, c, f, from, i, first)
        BY <3>1, <3>2, FillField
      <3> QED BY <3>3 DEF FieldFilled
    <2>3. f[from] = FillAt(s, map, o, c, f, from)
      BY <1>4 DEF Fills
    <2>4. f[from] = field \o f[i + 1]
      BY <2>1, <2>2, <2>3
    <2>5. next = i + 1
      BY <1>2, <1>8
    <2>6. f[from] = field \o f[next]
      BY <2>4, <2>5
    <2> QED BY <2>6 DEF from, next, field, FillGoesOn
  <1> QED BY <1>6, <1>7, <1>8

FilledUpTo(s, map, o, c, f, n) ==
  f[1] = Fields(s, map, o, c, n) \o f[FieldStart(s, c, n + 1)]

LEMMA FilledTo ==
  ASSUME NEW s \in Seq(STRING), NEW map, NEW o, NEW c, o # c, NEW f, Fills(s, map, o, c, f),
         NEW n \in 0 .. Len(s)
  PROVE  FilledUpTo(s, map, o, c, f, n)
  <1> DEFINE Holds(k) == f[1] = Fields(s, map, o, c, k) \o f[FieldStart(s, c, k + 1)]
             T == {k \in 0 .. Len(s) : ~Holds(k)}
  <1>1. SUFFICES ASSUME T # {} PROVE FALSE
    BY DEF FilledUpTo
  <1>2. T \in SUBSET Nat
    OBVIOUS
  <1>3. PICK k \in T : \A e \in T : k <= e
    <2> HIDE DEF T
    <2> QED BY <1>1, <1>2, LeastOf
  <1>4. k \in 0 .. Len(s) /\ ~Holds(k) /\ Len(s) \in Nat
    BY <1>3
  <1>5. k # 0
    <2> SUFFICES ASSUME k = 0 PROVE FALSE
      OBVIOUS
    <2>1. Fields(s, map, o, c, 0) = <<>>
      <3>1. [i \in 1 .. 0 |-> FieldAt(s, map, o, c, i)] = <<>>
        OBVIOUS
      <3> QED BY <3>1, FlattenEmpty, EmptyIsSeq DEF Fields
    <2>2. 0 + 1 = 1
      OBVIOUS
    <2>3. f[FieldStart(s, c, 0 + 1)] = f[1]
      BY <2>2, FieldStartFirst
    <2>4. IsSeq(f[1])
      <3>1. 1 \in 1 .. Len(s) + 1
        BY <1>4
      <3> QED BY <3>1, FillSeqs
    <2>5. Holds(0)
      BY <2>1, <2>3, <2>4, ConcatEmpty
    <2> HIDE DEF Holds
    <2> QED BY <2>5, <1>4
  <1> DEFINE m == k - 1
  <1>6. m \in Nat /\ m + 1 = k /\ m < Len(s) /\ k \in 1 .. Len(s) /\ m \in 0 .. Len(s) /\ ~(k <= m)
    BY <1>4, <1>5
  <1> HIDE DEF m
  <1>7. Holds(m)
    <2> HIDE DEF Holds
    <2>1. m \notin T
      <3> HIDE DEF T
      <3> QED BY <1>3, <1>6
    <2> QED BY <1>6, <2>1
  <1> DEFINE x == Fields(s, map, o, c, m)
             y == FieldAt(s, map, o, c, k)
             z == f[FieldStart(s, c, k + 1)]
  <1>8. f[1] = x \o f[FieldStart(s, c, k)]
    BY <1>6, <1>7
  <1>9. IsSeq(x) /\ Fields(s, map, o, c, k) = x \o y
    <2>1. IsSeq(x) /\ Fields(s, map, o, c, m + 1) = x \o FieldAt(s, map, o, c, m + 1)
      BY <1>6, FieldsNext
    <2> QED BY <1>6, <2>1
  <1>10. f[FieldStart(s, c, k)] = y \o z
    <2>1. k \in 1 .. Len(s)
      BY <1>6
    <2>2. FillGoesOn(s, map, o, c, f, k)
      BY <2>1, FillNext
    <2> QED BY <2>2 DEF FillGoesOn
  <1>11. IsSeq(y) /\ IsSeq(z)
    <2>1. IsSeq(z)
      <3> DEFINE q == k + 1
      <3>1. q \in Nat /\ q # 0 /\ q <= Len(s) + 1
        BY <1>4, <1>5
      <3> HIDE DEF q
      <3>2. FieldStart(s, c, q) \in 1 .. q
        BY <3>1, FieldStartIs
      <3>3. FieldStart(s, c, q) \in 1 .. Len(s) + 1
        BY <3>1, <3>2, <1>4
      <3> QED BY <3>3, FillSeqs DEF q
    <2>2. IsSeq(y)
      BY <1>6, FieldAtIsSeq
    <2> QED BY <2>1, <2>2
  <1>12. f[1] = (x \o y) \o z
    <2> HIDE DEF x, y, z
    <2>1. Associates(x, y, z)
      BY <1>9, <1>11, ConcatAssociates
    <2> QED BY <2>1, <1>8, <1>10 DEF Associates
  <1>13. Holds(k)
    BY <1>9, <1>12
  <1> HIDE DEF Holds
  <1> QED BY <1>4, <1>13
\* Filled in from left to right, a format comes out field by field.
LEMMA FilledIn ==
  ASSUME NEW s \in Seq(STRING), NEW map, NEW o, NEW c, o # c, NEW f, Fills(s, map, o, c, f)
  PROVE  f[1] = Fields(s, map, o, c, Len(s)) \o Span(s, FieldStart(s, c, Len(s) + 1), Len(s))
  <1> DEFINE L == Len(s)
             i == L + 1
             p == FieldStart(s, c, i)
  <1>1. L \in Nat /\ i \in Nat /\ i # 0 /\ i = L + 1 /\ L \in 0 .. Len(s) /\ i - 1 = L
    OBVIOUS
  <1>2. p \in 1 .. i /\ \A j \in p .. i - 1 : s[j] # c
    <2> HIDE DEF i
    <2> QED BY <1>1, FieldStartIs
  <1>3. f[1] = Fields(s, map, o, c, L) \o f[p]
    <2> HIDE DEF p
    <2>1. f[1] = Fields(s, map, o, c, L) \o f[FieldStart(s, c, L + 1)]
      <3>1. L \in 0 .. Len(s)
        OBVIOUS
      <3> HIDE DEF L
      <3>2. FilledUpTo(s, map, o, c, f, L)
        BY <3>1, FilledTo
      <3> QED BY <3>2 DEF FilledUpTo
    <2> QED BY <2>1 DEF p
  <1> HIDE DEF p, i
  <1>4. p \in 1 .. Len(s) + 1 /\ \A j \in p .. Len(s) : s[j] # c
    BY <1>1, <1>2
  <1>5. f[p] = FillAt(s, map, o, c, f, p)
    BY <1>4 DEF Fills
  <1>6. f[p] = Span(s, p, Len(s))
    BY <1>4, <1>5, FillLast
  <1> QED BY <1>3, <1>6 DEF p, i

LEMMA FillInIs ==
  ASSUME NEW s \in Seq(STRING), NEW map
  PROVE  FillIn(s, map) = Fields(s, map, "{", "}", Len(s))
                          \o Span(s, FieldStart(s, "}", Len(s) + 1), Len(s))
  <1> DEFINE fill == CHOOSE f : FillFunction(s, map, "{", "}", f)
  <1>1. FillIn(s, map) = fill[1]
    BY DEF FillIn, FillFunction, FillAt, Span
  <1>2. \E f : FillFunction(s, map, "{", "}", f)
    BY FillExists
  <1>3. FillFunction(s, map, "{", "}", fill)
    BY <1>2
  <1>4. Fills(s, map, "{", "}", fill)
    <2> HIDE DEF fill
    <2> QED BY <1>3, FillFunctionFills
  <1> HIDE DEF fill
  <1>5. "{" # "}"
    OBVIOUS
  <1> QED BY <1>1, <1>4, <1>5, FilledIn

\* The fields as FieldsFilledOnce says them.
LEMMA SegmentIs ==
  ASSUME NEW i
  PROVE  /\ SegmentStart(i) = FieldStart(source, "}", i)
         /\ Segment(i) = FieldAt(source, props, "{", "}", i)
  <1>1. SegmentStart(i) = FieldStart(source, "}", i)
    BY DEF SegmentStart, ClosersBefore, FieldStart
  <1>2. Segment(i) = FieldAt(source, props, "{", "}", i)
    BY <1>1 DEF Segment, FieldAt, Span
  <1> QED BY <1>1, <1>2

LEMMA CallsFillOnce ==
  ASSUME TypeInv, FieldsFilledOnce, [Next]_vars
  PROVE  FieldsFilledOnce'
  <1>1. kind' = kind /\ source' = source
    BY DEF Next, Parse, ReadLeaf, ReadOpening, ReadBroken, ReadClosing, ReadMismatch, ReadEnd,
           EndFragment, EndUnclosed, EndTemplate, Refuse, Advance, Call, vars
  <1>2. ASSUME out' = out, props' = props PROVE FieldsFilledOnce'
    <2>1. \A i : (SegmentStart(i))' = SegmentStart(i)
      BY <1>1 DEF SegmentStart, ClosersBefore
    <2>2. \A i : (Segment(i))' = Segment(i)
      BY <1>1, <1>2, <2>1 DEF Segment, SegmentStart, ClosersBefore
    <2>3. [i \in DOMAIN source' |-> (Segment(i))'] = [i \in DOMAIN source |-> Segment(i)]
      BY <1>1, <2>2
    <2>4. (SegmentStart(Len(source) + 1))' = SegmentStart(Len(source) + 1)
      BY <1>1 DEF SegmentStart, ClosersBefore
    <2> QED BY <1>1, <1>2, <2>3, <2>4 DEF FieldsFilledOnce
  <1>3. ASSUME NEW map \in PropMaps, Call(map), kind = "html" PROVE FieldsFilledOnce'
    <2>1. props' = map /\ out' = {FillIn(source, map)}
      BY <1>3 DEF Call
    <2>2. source \in Seq(STRING)
      BY <1>3, TemplatesAssumption DEF TypeInv, Shape
    <2>3. FillIn(source, map) = Fields(source, map, "{", "}", Len(source))
                                \o Span(source, FieldStart(source, "}", Len(source) + 1), Len(source))
      BY <2>2, FillInIs
    <2>4. /\ \A i : (SegmentStart(i))' = FieldStart(source, "}", i)
          /\ \A i : (Segment(i))' = FieldAt(source, map, "{", "}", i)
      <3>1. \A i : (SegmentStart(i))' = FieldStart(source, "}", i)
        BY <1>1 DEF SegmentStart, ClosersBefore, FieldStart
      <3>2. \A i : (Segment(i))' = FieldAt(source, map, "{", "}", i)
        BY <1>1, <2>1, <3>1 DEF Segment, SegmentStart, ClosersBefore, FieldAt, FieldStart, Span
      <3> QED BY <3>1, <3>2
    <2>5. Fields(source, map, "{", "}", Len(source))
            = FlattenSeq([i \in DOMAIN source |-> FieldAt(source, map, "{", "}", i)])
      <3>1. DOMAIN source = 1 .. Len(source)
        BY <2>2
      <3> QED BY <3>1 DEF Fields
    <2>6. [i \in DOMAIN source |-> FieldAt(source, map, "{", "}", i)] = [i \in DOMAIN source' |-> (Segment(i))']
      BY <1>1, <2>4
    <2>7. out' = {FlattenSeq([i \in DOMAIN source' |-> (Segment(i))'])
                  \o Characters(SubSeq(source', (SegmentStart(Len(source) + 1))', Len(source')))}
      BY <1>1, <2>1, <2>3, <2>4, <2>5, <2>6 DEF Span
    <2>8. (SegmentStart(Len(source) + 1))' = FieldStart(source, "}", Len(source) + 1)
      BY <1>1 DEF SegmentStart, ClosersBefore, FieldStart
    <2> QED BY <2>7, <1>1 DEF FieldsFilledOnce
  <1>4. ASSUME NEW map \in PropMaps, Call(map) PROVE FieldsFilledOnce'
    <2>1. CASE kind = "html"
      BY <1>3, <1>4, <2>1
    <2>2. CASE kind # "html"
      BY <1>1, <2>2 DEF FieldsFilledOnce
    <2> QED BY <2>1, <2>2
  <1> QED BY <1>2, <1>4
      DEF Next, Parse, ReadLeaf, ReadOpening, ReadBroken, ReadClosing, ReadMismatch, ReadEnd,
          EndFragment, EndUnclosed, EndTemplate, Refuse, Advance, vars

\* $html fills in every field once and leaves everything else as it is; what it has
\* filled in is not looked at again (builtins.cpp, the function that $html returns).
THEOREM FieldsFilledOnceAlways == Spec => []FieldsFilledOnce
  <1>1. Init => TypeInv /\ FieldsFilledOnce
    <2>1. Init => FieldsFilledOnce
      BY DEF Init, FieldsFilledOnce
    <2> QED BY <2>1, TypeInit
  <1>2. TypeInv /\ FieldsFilledOnce /\ [Next]_vars => (TypeInv /\ FieldsFilledOnce)'
    BY TypeNext, CallsFillOnce
  <1> QED BY <1>1, <1>2, PTL DEF Spec
-----------------------------------------------------------------------------
(* Attributes *)

\* The first n of the sequences x, one behind the other.
FlatTo(x, n) == FlattenSeq([i \in 1 .. n |-> x[i]])

LEMMA FlatToZero == ASSUME NEW x PROVE FlatTo(x, 0) = <<>>
  <1> DEFINE ss == [i \in 1 .. 0 |-> x[i]]
  <1>1. ss = <<>>
    OBVIOUS
  <1> QED BY <1>1, EmptyIsSeq, FlattenEmpty DEF FlatTo

LEMMA FlatToNext ==
  ASSUME NEW n \in Nat, n # 0, NEW x, \A i \in 1 .. n : IsSeq(x[i])
  PROVE  IsSeq(FlatTo(x, n - 1)) /\ FlatTo(x, n) = FlatTo(x, n - 1) \o x[n]
  <1> DEFINE m == n - 1
  <1>1. m \in Nat /\ m + 1 = n /\ \A i \in 1 .. m + 1 : IsSeq(x[i])
    OBVIOUS
  <1> HIDE DEF m
  <1>2. IsSeq(FlatTo(x, m)) /\ FlatTo(x, m + 1) = FlatTo(x, m) \o x[m + 1]
    BY <1>1, FlattenNext DEF FlatTo
  <1> QED BY <1>1, <1>2 DEF m

LEMMA FlatToIsSeq ==
  ASSUME NEW n \in Nat, NEW x, \A i \in 1 .. n : IsSeq(x[i])
  PROVE  IsSeq(FlatTo(x, n))
  <1>1. CASE n = 0
    BY <1>1, FlatToZero, EmptyIsSeq
  <1>2. CASE n # 0
    <2>1. n \in 1 .. n
      BY <1>2
    <2> QED BY <1>2, <2>1, FlatToNext, ConcatIsSeq
  <1> QED BY <1>1, <1>2

\* Each element of s is one of the first n parts.
FromParts(s, x, n) ==
  \A p \in 1 .. Len(s) : \E j \in 1 .. n : \E k \in 1 .. Len(x[j]) : s[p] = x[j][k]

LEMMA FlatToFromParts ==
  ASSUME NEW n \in Nat, NEW x, \A i \in 1 .. n : IsSeq(x[i])
  PROVE  FromParts(FlatTo(x, n), x, n)
  <1> DEFINE Bad == {m \in 0 .. n : ~FromParts(FlatTo(x, m), x, m)}
  <1> SUFFICES ASSUME Bad # {} PROVE FALSE
    OBVIOUS
  <1>1. PICK m \in Bad : \A e \in Bad : m <= e
    <2>1. Bad \in SUBSET Nat
      OBVIOUS
    <2> HIDE DEF Bad
    <2> QED BY <2>1, LeastOf
  <1>2. m \in 0 .. n /\ ~FromParts(FlatTo(x, m), x, m)
    BY <1>1
  <1>3. m # 0
    BY <1>2, FlatToZero, EmptyIsSeq DEF FromParts
  <1>4. /\ m - 1 \in 0 .. n /\ ~(m <= m - 1) /\ m \in Nat /\ m \in 1 .. m
        /\ \A i \in 1 .. m : IsSeq(x[i])
    BY <1>2, <1>3
  <1>5. FromParts(FlatTo(x, m - 1), x, m - 1)
    BY <1>1, <1>4
  <1> DEFINE s == FlatTo(x, m - 1)
             t == x[m]
  <1>6. FlatTo(x, m) = s \o t /\ IsSeq(s) /\ IsSeq(t)
    BY <1>3, <1>4, FlatToNext
  <1>7. FromParts(s \o t, x, m)
    <2>1. FromParts(s, x, m - 1)
      BY <1>5
    <2> HIDE DEF s
    <2>2. Len(s) \in Nat /\ Len(t) \in Nat /\ m \in 1 .. m /\ 1 .. m - 1 \subseteq 1 .. m
      BY <1>6, <1>4, <1>3, IsSeqElim
    <2>3. /\ Len(s \o t) = Len(s) + Len(t)
          /\ \A i \in 1 .. Len(s) + Len(t) : (s \o t)[i] = IF i <= Len(s) THEN s[i] ELSE t[i - Len(s)]
      <3> HIDE DEF t
      <3> QED BY <1>6, ConcatIsSeq
    <2> SUFFICES ASSUME NEW p \in 1 .. Len(s) + Len(t)
                 PROVE  \E j \in 1 .. m : \E k \in 1 .. Len(x[j]) : (s \o t)[p] = x[j][k]
      BY <2>3 DEF FromParts
    <2>4. CASE p <= Len(s)
      <3>1. p \in 1 .. Len(s) /\ (s \o t)[p] = s[p]
        BY <2>2, <2>3, <2>4
      <3> QED BY <2>1, <2>2, <3>1 DEF FromParts
    <2>5. CASE ~(p <= Len(s))
      <3>1. p - Len(s) \in 1 .. Len(t) /\ (s \o t)[p] = t[p - Len(s)]
        BY <2>2, <2>3, <2>5
      <3> QED BY <2>2, <3>1
    <2> QED BY <2>4, <2>5
  <1> QED BY <1>2, <1>6, <1>7

\* part lies in s as a whole, and with it the only a in s, at place c of part.
OnceAt(s, part, a, c) ==
  \E q \in 0 .. Len(s) - Len(part) :
    /\ \A k \in 1 .. Len(part) : s[q + k] = part[k]
    /\ \A p \in 1 .. Len(s) : s[p] = a <=> p = q + c

LEMMA OnceAtEnd ==
  ASSUME NEW s, NEW part, NEW a, NEW c \in 1 .. Len(part), IsSeq(s), IsSeq(part),
         \A p \in 1 .. Len(s) : s[p] # a,
         \A k \in 1 .. Len(part) : part[k] = a <=> k = c
  PROVE  OnceAt(s \o part, part, a, c)
  <1> DEFINE q == Len(s)
             t == s \o part
  <1>1. Len(s) \in Nat /\ Len(part) \in Nat
    BY IsSeqElim
  <1>2. /\ Len(t) = Len(s) + Len(part)
        /\ \A i \in 1 .. Len(s) + Len(part) : t[i] = IF i <= Len(s) THEN s[i] ELSE part[i - Len(s)]
    BY ConcatIsSeq
  <1> HIDE DEF t
  <1>3. q \in 0 .. Len(t) - Len(part)
    BY <1>1, <1>2
  <1>4. \A k \in 1 .. Len(part) : t[q + k] = part[k]
    <2> TAKE k \in 1 .. Len(part)
    <2>1. q + k \in 1 .. Len(s) + Len(part) /\ ~(q + k <= Len(s)) /\ (q + k) - Len(s) = k
      BY <1>1
    <2> QED BY <1>2, <2>1
  <1>5. \A p \in 1 .. Len(t) : t[p] = a <=> p = q + c
    <2> TAKE p \in 1 .. Len(t)
    <2>1. CASE p <= Len(s)
      <3>1. p \in 1 .. Len(s) /\ p \in 1 .. Len(s) + Len(part) /\ p # q + c
        BY <1>1, <1>2, <2>1
      <3> QED BY <1>2, <2>1, <3>1
    <2>2. CASE ~(p <= Len(s))
      <3>1. /\ p - Len(s) \in 1 .. Len(part) /\ p \in 1 .. Len(s) + Len(part)
            /\ (p - Len(s) = c <=> p = q + c)
        BY <1>1, <1>2, <2>2
      <3> QED BY <1>2, <2>2, <3>1
    <2> QED BY <2>1, <2>2
  <1> QED BY <1>3, <1>4, <1>5 DEF OnceAt, t

LEMMA OnceAtMore ==
  ASSUME NEW s, NEW t, NEW part, NEW a, NEW c \in 1 .. Len(part),
         IsSeq(s), IsSeq(t), IsSeq(part), OnceAt(s, part, a, c),
         \A p \in 1 .. Len(t) : t[p] # a
  PROVE  OnceAt(s \o t, part, a, c)
  <1> DEFINE u == s \o t
  <1>1. Len(s) \in Nat /\ Len(t) \in Nat /\ Len(part) \in Nat
    BY IsSeqElim
  <1>2. /\ Len(u) = Len(s) + Len(t)
        /\ \A i \in 1 .. Len(s) + Len(t) : u[i] = IF i <= Len(s) THEN s[i] ELSE t[i - Len(s)]
    BY ConcatIsSeq
  <1> HIDE DEF u
  <1>3. PICK q \in 0 .. Len(s) - Len(part) :
          /\ \A k \in 1 .. Len(part) : s[q + k] = part[k]
          /\ \A p \in 1 .. Len(s) : s[p] = a <=> p = q + c
    BY DEF OnceAt
  <1>4. q \in 0 .. Len(u) - Len(part)
    BY <1>1, <1>2
  <1>5. \A k \in 1 .. Len(part) : u[q + k] = part[k]
    <2> TAKE k \in 1 .. Len(part)
    <2>1. q + k \in 1 .. Len(s) + Len(t) /\ q + k <= Len(s)
      BY <1>1
    <2> QED BY <1>2, <1>3, <2>1
  <1>6. \A p \in 1 .. Len(u) : u[p] = a <=> p = q + c
    <2> TAKE p \in 1 .. Len(u)
    <2>1. CASE p <= Len(s)
      <3>1. p \in 1 .. Len(s) /\ p \in 1 .. Len(s) + Len(t)
        BY <1>1, <1>2, <2>1
      <3> QED BY <1>2, <1>3, <2>1, <3>1
    <2>2. CASE ~(p <= Len(s))
      <3>1. p - Len(s) \in 1 .. Len(t) /\ p \in 1 .. Len(s) + Len(t) /\ p # q + c
        BY <1>1, <1>2, <2>2
      <3> QED BY <1>2, <2>2, <3>1
    <2> QED BY <2>1, <2>2
  <1> QED BY <1>4, <1>5, <1>6 DEF OnceAt, u

\* What only one of the parts has, and once, the whole has once.
LEMMA FlatToOnce ==
  ASSUME NEW n \in Nat, NEW x, \A i \in 1 .. n : IsSeq(x[i]),
         NEW i \in 1 .. n, NEW a, NEW c \in 1 .. Len(x[i]),
         \A j \in 1 .. n : \A k \in 1 .. Len(x[j]) : x[j][k] = a <=> j = i /\ k = c
  PROVE  OnceAt(FlatTo(x, n), x[i], a, c)
  <1> DEFINE Bad == {m \in i .. n : ~OnceAt(FlatTo(x, m), x[i], a, c)}
  <1> SUFFICES ASSUME Bad # {} PROVE FALSE
    OBVIOUS
  <1>1. PICK m \in Bad : \A e \in Bad : m <= e
    <2>1. Bad \in SUBSET Nat
      OBVIOUS
    <2> HIDE DEF Bad
    <2> QED BY <2>1, LeastOf
  <1>2. m \in i .. n /\ ~OnceAt(FlatTo(x, m), x[i], a, c)
    BY <1>1
  <1>3. /\ m \in Nat /\ m # 0 /\ m \in 1 .. n /\ m - 1 \in Nat
        /\ \A j \in 1 .. m : IsSeq(x[j])
        /\ \A j \in 1 .. m - 1 : j \in 1 .. n /\ j # m
    BY <1>2
  <1>4. IsSeq(FlatTo(x, m - 1)) /\ FlatTo(x, m) = FlatTo(x, m - 1) \o x[m]
    BY <1>3, FlatToNext
  <1>5. CASE m = i
    <2>1. FromParts(FlatTo(x, m - 1), x, m - 1)
      <3> DEFINE l == m - 1
      <3>1. l \in Nat /\ \A j \in 1 .. l : IsSeq(x[j])
        BY <1>3
      <3> HIDE DEF l
      <3>2. FromParts(FlatTo(x, l), x, l)
        BY <3>1, FlatToFromParts
      <3> QED BY <3>2 DEF l
    <2>2. \A p \in 1 .. Len(FlatTo(x, m - 1)) : FlatTo(x, m - 1)[p] # a
      <3> DEFINE l == m - 1
      <3>1. \A j \in 1 .. l : \A k \in 1 .. Len(x[j]) : x[j][k] # a
        BY <1>3, <1>5
      <3>2. FromParts(FlatTo(x, l), x, l)
        BY <2>1
      <3> HIDE DEF l
      <3> SUFFICES ASSUME NEW p \in 1 .. Len(FlatTo(x, l)) PROVE FlatTo(x, l)[p] # a
        BY DEF l
      <3>3. PICK j \in 1 .. l : \E k \in 1 .. Len(x[j]) : FlatTo(x, l)[p] = x[j][k]
        BY <3>2 DEF FromParts
      <3> QED BY <3>1, <3>3
    <2>3. \A k \in 1 .. Len(x[i]) : x[i][k] = a <=> k = c
      OBVIOUS
    <2>4. IsSeq(x[i])
      OBVIOUS
    <2> QED BY <1>2, <1>4, <1>5, <2>2, <2>3, <2>4, OnceAtEnd
  <1>6. CASE m # i
    <2>1. m - 1 \in i .. n /\ ~(m <= m - 1)
      BY <1>2, <1>6
    <2>2. OnceAt(FlatTo(x, m - 1), x[i], a, c)
      BY <1>1, <2>1
    <2>3. \A p \in 1 .. Len(x[m]) : x[m][p] # a
      BY <1>3, <1>6
    <2>4. IsSeq(x[i]) /\ IsSeq(x[m])
      BY <1>3
    <2> QED BY <1>2, <1>4, <2>2, <2>3, <2>4, OnceAtMore
  <1> QED BY <1>5, <1>6
\* f holds what the first n attributes have assigned, for each n.
IsAssignedTo(f, all, n) ==
  f = [k \in 0 .. n |-> IF k = 0 THEN <<>> ELSE Assign(f[k - 1], all[k])]

LEMMA AssignedToStep ==
  ASSUME NEW f, NEW all, NEW n \in Nat, IsAssignedTo(f, all, n), NEW k \in 0 .. n
  PROVE  f[k] = IF k = 0 THEN <<>> ELSE Assign(f[k - 1], all[k])
  <1> DEFINE g == [j \in 0 .. n |-> IF j = 0 THEN <<>> ELSE Assign(f[j - 1], all[j])]
  <1>1. f = g
    BY DEF IsAssignedTo
  <1>2. g[k] = IF k = 0 THEN <<>> ELSE Assign(f[k - 1], all[k])
    OBVIOUS
  <1> QED BY <1>1, <1>2

LEMMA AssignedToExists ==
  ASSUME NEW all, NEW n \in Nat
  PROVE  \E f : IsAssignedTo(f, all, n)
  <1> DEFINE Has(k) == \E f : IsAssignedTo(f, all, k)
  <1> SUFFICES ASSUME ~Has(n) PROVE FALSE
    OBVIOUS
  <1>1. PICK m \in Nat : ~Has(m) /\ \A k \in Nat : ~Has(k) => m <= k
    <2>1. {k \in Nat : ~Has(k)} # {} /\ {k \in Nat : ~Has(k)} \in SUBSET Nat
      OBVIOUS
    <2> HIDE DEF Has
    <2> QED BY <2>1, LeastOf
  <1>2. m # 0
    <2> DEFINE f == [k \in 0 .. 0 |-> <<>>]
    <2>1. IsAssignedTo(f, all, 0)
      BY DEF IsAssignedTo
    <2> QED BY <1>1, <2>1
  <1>3. PICK f : IsAssignedTo(f, all, m - 1)
    <2>1. m - 1 \in Nat /\ ~(m <= m - 1)
      BY <1>2
    <2>2. Has(m - 1)
      <3> HIDE DEF Has
      <3> QED BY <1>1, <2>1
    <2> QED BY <2>2
  <1> DEFINE g == [k \in 0 .. m |-> IF k = 0 THEN <<>> ELSE Assign(f[k - 1], all[k])]
  <1>4. IsAssignedTo(g, all, m)
    <2>1. \A k \in 0 .. m - 1 : f[k] = IF k = 0 THEN <<>> ELSE Assign(f[k - 1], all[k])
      <3> DEFINE l == m - 1
      <3>1. l \in Nat /\ IsAssignedTo(f, all, l)
        BY <1>2, <1>3
      <3> HIDE DEF l
      <3>2. \A k \in 0 .. l : f[k] = IF k = 0 THEN <<>> ELSE Assign(f[k - 1], all[k])
        BY <3>1, AssignedToStep
      <3> QED BY <3>2 DEF l
    <2>2. \A k \in 0 .. m - 1 : g[k] = f[k]
      BY <2>1
    <2>3. \A k \in 0 .. m : g[k] = IF k = 0 THEN <<>> ELSE Assign(g[k - 1], all[k])
      <3> SUFFICES ASSUME NEW k \in 0 .. m
                   PROVE  g[k] = IF k = 0 THEN <<>> ELSE Assign(g[k - 1], all[k])
        OBVIOUS
      <3>1. g[k] = IF k = 0 THEN <<>> ELSE Assign(f[k - 1], all[k])
        OBVIOUS
      <3>2. k # 0 => k - 1 \in 0 .. m - 1
        OBVIOUS
      <3> HIDE DEF g
      <3> QED BY <3>1, <3>2, <2>2
    <2>4. g = [k \in 0 .. m |-> IF k = 0 THEN <<>> ELSE Assign(g[k - 1], all[k])]
      BY <2>3
    <2> QED BY <2>4 DEF IsAssignedTo
  <1> QED BY <1>1, <1>4

\* A map has the names of the first n attributes, each with the last of them.
LastOfEach(m, all, n) ==
  /\ \A i \in 1 .. n : all[i].name \in DOMAIN m
  /\ \A x \in DOMAIN m : \E i \in 1 .. n :
       /\ all[i].name = x /\ m[x] = all[i]
       /\ \A j \in 1 .. n : all[j].name = x => j <= i

LEMMA AssignedToIs ==
  ASSUME NEW all, NEW n \in Nat, NEW f, IsAssignedTo(f, all, n)
  PROVE  LastOfEach(f[n], all, n)
  <1> DEFINE Bad == {k \in 0 .. n : ~LastOfEach(f[k], all, k)}
  <1> SUFFICES ASSUME Bad # {} PROVE FALSE
    OBVIOUS
  <1>1. PICK k \in Bad : \A e \in Bad : k <= e
    <2>1. Bad \in SUBSET Nat
      OBVIOUS
    <2> HIDE DEF Bad
    <2> QED BY <2>1, LeastOf
  <1>2. k \in 0 .. n /\ ~LastOfEach(f[k], all, k)
    BY <1>1
  <1>3. f[k] = IF k = 0 THEN <<>> ELSE Assign(f[k - 1], all[k])
    BY <1>2, AssignedToStep
  <1>4. k # 0
    <2> SUFFICES ASSUME k = 0 PROVE FALSE
      OBVIOUS
    <2>1. f[k] = <<>> /\ DOMAIN <<>> = {} /\ 1 .. k = {}
      BY <1>3
    <2> QED BY <1>2, <2>1 DEF LastOfEach
  <1>5. k - 1 \in 0 .. n /\ ~(k <= k - 1) /\ k \in Nat /\ k \in 1 .. k
    BY <1>2, <1>4
  <1> DEFINE m == f[k - 1]
             a == all[k]
  <1>6. LastOfEach(m, all, k - 1)
    BY <1>1, <1>5
  <1>7. f[k] = Assign(m, a)
    BY <1>3, <1>4
  <1>8. \A i \in 1 .. k : i = k \/ i \in 1 .. k - 1
    BY <1>5
  <1>9. \A i \in 1 .. k - 1 : i \in 1 .. k /\ i <= k /\ ~(k <= i)
    BY <1>5
  <1> HIDE DEF m
  <1>10. DOMAIN f[k] = DOMAIN m \cup {a.name} /\ \A x \in DOMAIN f[k] : f[k][x] = IF x = a.name THEN a ELSE m[x]
    BY <1>7 DEF Assign
  <1>11. \A i \in 1 .. k : all[i].name \in DOMAIN f[k]
    BY <1>6, <1>8, <1>10 DEF LastOfEach
  <1>12. ASSUME NEW x \in DOMAIN f[k]
         PROVE  \E i \in 1 .. k :
                  /\ all[i].name = x /\ f[k][x] = all[i]
                  /\ \A j \in 1 .. k : all[j].name = x => j <= i
    <2>1. CASE x = a.name
      <3>1. \A j \in 1 .. k : j <= k
        BY <1>5
      <3> QED BY <1>5, <1>10, <2>1, <3>1
    <2>2. CASE x # a.name
      <3>1. x \in DOMAIN m /\ f[k][x] = m[x]
        BY <1>10, <1>12, <2>2
      <3>2. PICK i \in 1 .. k - 1 : /\ all[i].name = x /\ m[x] = all[i]
                                    /\ \A j \in 1 .. k - 1 : all[j].name = x => j <= i
        BY <1>6, <3>1 DEF LastOfEach
      <3>3. \A j \in 1 .. k : all[j].name = x => j <= i
        BY <1>8, <2>2, <3>2
      <3> QED BY <1>9, <3>1, <3>2, <3>3
    <2> QED BY <2>1, <2>2
  <1> QED BY <1>2, <1>11, <1>12 DEF LastOfEach

\* What is assigned in the end is what IsLast says.
LEMMA AssignedIs ==
  ASSUME NEW all, IsSeq(all)
  PROVE  /\ \A i \in 1 .. Len(all) : all[i].name \in DOMAIN Assigned(all)
         /\ \A x \in DOMAIN Assigned(all) : \E i \in 1 .. Len(all) :
              all[i].name = x /\ Assigned(all)[x] = all[i] /\ IsLast(i, all)
  <1> DEFINE n == Len(all)
             f == CHOOSE g : IsAssignedTo(g, all, n)
  <1>1. n \in Nat /\ DOMAIN all = 1 .. n
    BY IsSeqElim
  <1>2. Assigned(all) = f[n]
    BY DEF Assigned, IsAssignedTo
  <1>3. \E g : IsAssignedTo(g, all, n)
    <2> HIDE DEF n
    <2> QED BY <1>1, AssignedToExists
  <1>4. IsAssignedTo(f, all, n)
    BY <1>3
  <1> HIDE DEF f, n
  <1>5. LastOfEach(f[n], all, n)
    BY <1>1, <1>4, AssignedToIs
  <1>6. ASSUME NEW x \in DOMAIN f[n]
        PROVE  \E i \in 1 .. n : all[i].name = x /\ f[n][x] = all[i] /\ IsLast(i, all)
    <2>1. PICK i \in 1 .. n : /\ all[i].name = x /\ f[n][x] = all[i]
                              /\ \A j \in 1 .. n : all[j].name = x => j <= i
      BY <1>5, <1>6 DEF LastOfEach
    <2>2. IsLast(i, all)
      BY <1>1, <2>1 DEF IsLast
    <2> QED BY <2>1, <2>2
  <1> QED BY <1>2, <1>5, <1>6 DEF LastOfEach, n
\* Of the atoms of r the second alone is a name, namely at.
NamedOnce(r, name, at) ==
  /\ IsSeq(r) /\ 2 \in 1 .. Len(r) /\ r[2] = at
  /\ \A k \in 1 .. Len(r) : k # 2 => r[k][1] # name

LEMMA NamedOnceMore ==
  ASSUME NEW r, NEW name, NEW at, NamedOnce(r, name, at), NEW y, y[1] # name
  PROVE  NamedOnce(r \o <<y>>, name, at)
  <1> DEFINE s == <<y>>
             t == r \o s
  <1>1. IsSeq(r) /\ IsSeq(s) /\ Len(r) \in Nat /\ 2 <= Len(r)
    BY AtomsAreSeqs, IsSeqElim DEF NamedOnce
  <1>2. Len(s) = 1 /\ s[1] = y
    OBVIOUS
  <1> HIDE DEF s
  <1>3. /\ IsSeq(t) /\ Len(t) = Len(r) + Len(s)
        /\ \A i \in 1 .. Len(r) + Len(s) : t[i] = IF i <= Len(r) THEN r[i] ELSE s[i - Len(r)]
    BY <1>1, ConcatIsSeq
  <1> HIDE DEF t
  <1>4. 2 \in 1 .. Len(t) /\ t[2] = at
    BY <1>1, <1>2, <1>3 DEF NamedOnce
  <1>5. ASSUME NEW k \in 1 .. Len(t), k # 2 PROVE t[k][1] # name
    <2>1. CASE k <= Len(r)
      <3>1. k \in 1 .. Len(r) /\ t[k] = r[k]
        BY <1>1, <1>2, <1>3, <2>1
      <3> QED BY <1>5, <3>1 DEF NamedOnce
    <2>2. CASE ~(k <= Len(r))
      <3>1. k - Len(r) = 1 /\ t[k] = s[k - Len(r)]
        BY <1>1, <1>2, <1>3, <2>2
      <3> QED BY <1>2, <3>1
    <2> QED BY <2>1, <2>2
  <1> QED BY <1>3, <1>4, <1>5 DEF NamedOnce, t, s

LEMMA NamedOnceHead ==
  ASSUME NEW name, NEW y, y[1] # name, NEW at
  PROVE  NamedOnce(<<y>> \o <<at>>, name, at)
  <1> DEFINE r == <<y>>
             s == <<at>>
             t == r \o s
  <1>1. IsSeq(r) /\ IsSeq(s)
    BY AtomsAreSeqs
  <1>2. Len(r) = 1 /\ r[1] = y /\ Len(s) = 1 /\ s[1] = at
    OBVIOUS
  <1> HIDE DEF r, s
  <1>3. /\ IsSeq(t) /\ Len(t) = Len(r) + Len(s)
        /\ \A i \in 1 .. Len(r) + Len(s) : t[i] = IF i <= Len(r) THEN r[i] ELSE s[i - Len(r)]
    BY <1>1, ConcatIsSeq
  <1> HIDE DEF t
  <1>4. Len(t) = 2 /\ t[1] = y /\ t[2] = at
    BY <1>2, <1>3
  <1>5. \A k \in 1 .. 2 : k # 2 => k = 1
    OBVIOUS
  <1>6. 2 \in 1 .. 2
    OBVIOUS
  <1> QED BY <1>3, <1>4, <1>5, <1>6 DEF NamedOnce, t, r, s

\* none and false take an attribute away.
Hidden(a) == a.value \in {None, Bool(FALSE)}

LEMMA AttributeNames ==
  ASSUME NEW a
  PROVE  IF Hidden(a) THEN RenderAttribute(a) = <<>>
         ELSE NamedOnce(RenderAttribute(a), "name", Name(a.name)[1])
  <1> DEFINE at == <<"name", a.name>>
             space == <<"mark", " ">>
             equals == <<"mark", "=\"">>
             text == <<"text", InAttribute(a.name, a.value, a.raw)>>
             quote == <<"mark", "\"">>
             head == <<space>> \o <<at>>
             full == head \o <<equals>> \o <<text>> \o <<quote>>
  <1>1. space[1] # "name" /\ equals[1] # "name" /\ text[1] # "name" /\ quote[1] # "name"
    OBVIOUS
  <1>2. Name(a.name)[1] = at
    BY DEF Name
  <1>3. RenderAttribute(a) = IF Hidden(a) THEN <<>> ELSE IF a.value = Bool(TRUE) THEN head ELSE full
    <2>1. Bool(TRUE) # None /\ Bool(TRUE) # Bool(FALSE)
      <3>1. Bool(TRUE)[2] = TRUE /\ Bool(FALSE)[2] = FALSE /\ Bool(TRUE)[1] # None[1]
        BY DEF Bool, None
      <3> QED BY <3>1
    <2>2. RenderAttribute(a) =
            CASE Hidden(a) -> <<>>
              [] a.value = Bool(TRUE) -> head
              [] OTHER -> full
      BY DEF RenderAttribute, Hidden, Mark, Name
    <2> HIDE DEF head, full
    <2>3. Hidden(a) => a.value # Bool(TRUE)
      BY <2>1 DEF Hidden
    <2> QED BY <2>2, <2>3
  <1> HIDE DEF at, space, equals, text, quote
  <1>4. NamedOnce(head, "name", at)
    BY <1>1, NamedOnceHead
  <1>5. NamedOnce(full, "name", at)
    <2> HIDE DEF head
    <2> QED BY <1>1, <1>4, NamedOnceMore
  <1> HIDE DEF head, full
  <1> QED BY <1>2, <1>3, <1>4, <1>5

LEMMA EvaluateAttributesIsSeq ==
  ASSUME NEW attrs \in Seq(Attribute), NEW map \in PropMaps
  PROVE  IsSeq(EvaluateAttributes(attrs, map))
  <1> DEFINE evs == [i \in DOMAIN attrs |-> Evaluate(attrs[i], map)]
  <1>1. SeqOfSeqs(evs)
    <2>1. Len(attrs) \in Nat /\ DOMAIN attrs = 1 .. Len(attrs)
      OBVIOUS
    <2>2. \A i \in DOMAIN attrs : IsSeq(evs[i])
      BY EvaluateIsSeq
    <2>3. evs = [i \in 1 .. Len(attrs) |-> evs[i]]
      BY <2>1
    <2> HIDE DEF evs
    <2> QED BY <2>1, <2>2, <2>3, IsSeqIntro DEF SeqOfSeqs
  <1> QED BY <1>1, FlattenIsSeq DEF EvaluateAttributes

\* What an attribute contributes to its tag.
Part(all) == [i \in DOMAIN all |-> IF IsLast(i, all) THEN RenderAttribute(all[i]) ELSE <<>>]

\* The parts that have a name in them are those of the last attributes of their
\* names, unless these are hidden.
LEMMA NamesOfParts ==
  ASSUME NEW all, NEW j \in DOMAIN all, NEW k \in 1 .. Len(Part(all)[j])
  PROVE  /\ Part(all)[j][k][1] = "name" => k = 2
         /\ k = 2 => /\ IsLast(j, all) /\ ~Hidden(all[j])
                     /\ Part(all)[j][k] = Name(all[j].name)[1]
  <1>1. Part(all)[j] = IF IsLast(j, all) THEN RenderAttribute(all[j]) ELSE <<>>
    BY DEF Part
  <1>2. Part(all)[j] # <<>>
    <2>1. Len(<<>>) = 0
      BY EmptyIsSeq
    <2>2. 1 .. 0 = {}
      OBVIOUS
    <2> QED BY <2>1, <2>2
  <1>3. IsLast(j, all) /\ ~Hidden(all[j])
    BY <1>1, <1>2, AttributeNames
  <1>4. NamedOnce(Part(all)[j], "name", Name(all[j].name)[1])
    BY <1>1, <1>3, AttributeNames
  <1> QED BY <1>3, <1>4 DEF NamedOnce

LEMMA PartsAreSeqs ==
  ASSUME NEW all, NEW j \in DOMAIN all
  PROVE  IsSeq(Part(all)[j])
  <1>1. Part(all)[j] \in {RenderAttribute(all[j]), <<>>}
    BY DEF Part
  <1> QED BY <1>1, RenderAttributeIsSeq, EmptyIsSeq
LEMMA RenderedParts ==
  ASSUME NEW attrs, NEW map, IsSeq(EvaluateAttributes(attrs, map))
  PROVE  LET all == EvaluateAttributes(attrs, map)
         IN  RenderAttributes(attrs, map) = FlatTo(Part(all), Len(all))
  <1> DEFINE all == EvaluateAttributes(attrs, map)
  <1>1. DOMAIN all = 1 .. Len(all)
    BY IsSeqElim
  <1>2. RenderAttributes(attrs, map) = FlattenSeq(Part(all))
    BY DEF RenderAttributes, Part
  <1> HIDE DEF all
  <1>3. Part(all) = [i \in 1 .. Len(all) |-> Part(all)[i]]
    BY <1>1 DEF Part
  <1> QED BY <1>2, <1>3 DEF FlatTo, all

\* Each name shown is there once, with its last attribute around it.
LEMMA ShownOnce ==
  ASSUME NEW attrs \in Seq(Attribute), NEW map \in PropMaps,
         NEW x \in DOMAIN Assigned(EvaluateAttributes(attrs, map)),
         ~Hidden(Assigned(EvaluateAttributes(attrs, map))[x])
  PROVE  OnceAt(RenderAttributes(attrs, map),
                RenderAttribute(Assigned(EvaluateAttributes(attrs, map))[x]), Name(x)[1], 2)
  <1> DEFINE all == EvaluateAttributes(attrs, map)
             n == Len(all)
             part == Part(all)
  <1>1. IsSeq(all)
    BY EvaluateAttributesIsSeq
  <1>2. RenderAttributes(attrs, map) = FlatTo(part, n)
    BY <1>1, RenderedParts
  <1>3. x \in DOMAIN Assigned(all) /\ ~Hidden(Assigned(all)[x])
    OBVIOUS
  <1> HIDE DEF all
  <1>4. n \in Nat /\ DOMAIN all = 1 .. n
    BY <1>1, IsSeqElim
  <1>5. PICK i \in 1 .. n : all[i].name = x /\ Assigned(all)[x] = all[i] /\ IsLast(i, all)
    BY <1>1, <1>3, AssignedIs
  <1>6. part[i] = RenderAttribute(all[i])
    BY <1>4, <1>5 DEF Part
  <1>7. NamedOnce(part[i], "name", Name(x)[1])
    BY <1>3, <1>5, <1>6, AttributeNames
  <1>8. \A j \in 1 .. n : IsSeq(part[j])
    BY <1>4, PartsAreSeqs
  <1>9. \A j \in 1 .. n : \A k \in 1 .. Len(part[j]) :
          part[j][k] = Name(x)[1] <=> j = i /\ k = 2
    <2> TAKE j \in 1 .. n
    <2> TAKE k \in 1 .. Len(part[j])
    <2>1. j = i /\ k = 2 => part[j][k] = Name(x)[1]
      BY <1>7 DEF NamedOnce
    <2>2. ASSUME part[j][k] = Name(x)[1] PROVE j = i /\ k = 2
      <3>1. Name(x)[1][1] = "name" /\ \A y : Name(y)[1] = Name(x)[1] => y = x
        <4>1. \A y : Name(y)[1][2] = y
          BY DEF Name
        <4> QED BY <4>1 DEF Name
      <3>2. k = 2
        BY <1>4, <2>2, <3>1, NamesOfParts
      <3>3. IsLast(j, all) /\ all[j].name = x
        BY <1>4, <2>2, <3>1, <3>2, NamesOfParts
      <3>4. i <= j /\ j <= i
        BY <1>4, <1>5, <3>3 DEF IsLast
      <3> QED BY <1>4, <3>2, <3>4
    <2> QED BY <2>1, <2>2
  <1>10. 2 \in 1 .. Len(part[i])
    BY <1>7 DEF NamedOnce
  <1> HIDE DEF part, n
  <1>11. OnceAt(FlatTo(part, n), part[i], Name(x)[1], 2)
    BY <1>4, <1>8, <1>9, <1>10, FlatToOnce
  <1> QED BY <1>2, <1>5, <1>6, <1>11 DEF all

\* No other names are there.
LEMMA OnlyShown ==
  ASSUME NEW attrs \in Seq(Attribute), NEW map \in PropMaps,
         NEW p \in 1 .. Len(RenderAttributes(attrs, map)),
         RenderAttributes(attrs, map)[p][1] = "name"
  PROVE  \E x \in DOMAIN Assigned(EvaluateAttributes(attrs, map)) :
           /\ ~Hidden(Assigned(EvaluateAttributes(attrs, map))[x])
           /\ RenderAttributes(attrs, map)[p] = Name(x)[1]
  <1> DEFINE all == EvaluateAttributes(attrs, map)
             atoms == RenderAttributes(attrs, map)
             n == Len(all)
             part == Part(all)
  <1>1. IsSeq(all)
    BY EvaluateAttributesIsSeq
  <1>2. atoms = FlatTo(part, n)
    BY <1>1, RenderedParts
  <1>3. p \in 1 .. Len(atoms) /\ atoms[p][1] = "name"
    OBVIOUS
  <1> HIDE DEF all, atoms
  <1>4. n \in Nat /\ DOMAIN all = 1 .. n
    BY <1>1, IsSeqElim
  <1>5. \A j \in 1 .. n : IsSeq(part[j])
    BY <1>4, PartsAreSeqs
  <1>6. FromParts(atoms, part, n)
    <2> HIDE DEF part, n
    <2> QED BY <1>2, <1>4, <1>5, FlatToFromParts
  <1>7. PICK j \in 1 .. n : \E k \in 1 .. Len(part[j]) : atoms[p] = part[j][k]
    BY <1>3, <1>6 DEF FromParts
  <1>8. PICK k \in 1 .. Len(part[j]) : atoms[p] = part[j][k]
    BY <1>7
  <1>9. IsLast(j, all) /\ ~Hidden(all[j]) /\ atoms[p] = Name(all[j].name)[1]
    <2>1. j \in DOMAIN all /\ part[j][k][1] = "name"
      BY <1>3, <1>4, <1>8
    <2> QED BY <1>8, <2>1, NamesOfParts
  <1>10. all[j].name \in DOMAIN Assigned(all)
    BY <1>1, AssignedIs
  <1>11. PICK i \in 1 .. n : /\ all[i].name = all[j].name
                             /\ Assigned(all)[all[j].name] = all[i] /\ IsLast(i, all)
    BY <1>1, <1>10, AssignedIs
  <1>12. i = j
    <2>1. i <= j /\ j <= i
      BY <1>4, <1>9, <1>11 DEF IsLast
    <2> QED BY <1>4, <2>1
  <1> QED BY <1>9, <1>10, <1>11, <1>12 DEF all, atoms

\* OnceAt as the property says it.
AloneIn(s, part, a) ==
  /\ Cardinality({i \in DOMAIN s : s[i] = a}) = 1
  /\ \E i \in 1 .. Len(s) - Len(part) + 1 : SubSeq(s, i, i + Len(part) - 1) = part
  /\ \E i \in DOMAIN s : s[i] = a

LEMMA OnceAtSays ==
  ASSUME NEW s, IsSeq(s), NEW part, IsSeq(part), NEW a, OnceAt(s, part, a, 2),
         2 \in 1 .. Len(part)
  PROVE  AloneIn(s, part, a)
  <1> DEFINE l == Len(part)
  <1>1. /\ Len(s) \in Nat /\ DOMAIN s = 1 .. Len(s)
        /\ l \in Nat /\ 2 <= l /\ part = [i \in 1 .. l |-> part[i]]
    BY IsSeqElim
  <1>2. PICK q \in 0 .. Len(s) - l :
          /\ \A k \in 1 .. l : s[q + k] = part[k]
          /\ \A p \in 1 .. Len(s) : s[p] = a <=> p = q + 2
    BY DEF OnceAt
  <1> HIDE DEF l
  <1>3. q \in Nat /\ q + l <= Len(s) /\ q + 2 \in 1 .. Len(s)
    BY <1>1, <1>2
  <1>4. {i \in DOMAIN s : s[i] = a} = {q + 2}
    BY <1>1, <1>2, <1>3
  <1>5. Cardinality({q + 2}) = 1
    BY FS_Singleton
  <1>6. \E i \in 1 .. Len(s) - l + 1 : SubSeq(s, i, i + l - 1) = part
    <2> DEFINE b == q + 1
               e == q + l
               t == SubSeq(s, b, e)
    <2>1. PICK S : s \in Seq(S)
      BY DEF IsSeq
    <2>2. l \in Nat /\ 2 <= l /\ q \in Nat /\ q + l <= Len(s) /\ Len(s) \in Nat
      BY <1>1, <1>3
    <2>3. /\ b \in Nat /\ e \in Nat /\ b <= e /\ e - b + 1 = l /\ b + l - 1 = e
          /\ b \in 1 .. Len(s) - l + 1
          /\ \A k \in 1 .. l : b + k - 1 = q + k
          /\ \A k \in b .. e : k \in 1 .. Len(s)
      BY <2>2
    <2>4. \A k \in b .. e : s[k] \in S
      <3> HIDE DEF b, e, t
      <3> QED BY <2>1, <2>3, ElementOfSeq
    <2>5. /\ t \in Seq(S) /\ Len(t) = IF b <= e THEN e - b + 1 ELSE 0
          /\ \A k \in 1 .. e - b + 1 : t[k] = s[b + k - 1]
      <3> HIDE DEF b, e
      <3> QED BY <2>1, <2>3, <2>4, SubSeqProperties DEF t
    <2> HIDE DEF b, e, t
    <2>6. Len(t) = l /\ \A k \in 1 .. l : t[k] = part[k]
      BY <1>2, <2>3, <2>5
    <2>7. t = [k \in 1 .. l |-> t[k]]
      BY <2>5, <2>6
    <2>8. t = part
      BY <1>1, <2>6, <2>7
    <2>9. SubSeq(s, b, b + l - 1) = part
      BY <2>3, <2>8 DEF t
    <2> QED BY <2>3, <2>9
  <1> QED BY <1>1, <1>2, <1>3, <1>4, <1>5, <1>6 DEF l, AloneIn

\* What LaterAttributesWin says of one tag.
AttributesWin(attrs, map) ==
  LET assigned == Assigned(EvaluateAttributes(attrs, map))
      shown == {x \in DOMAIN assigned : assigned[x].value \notin {None, Bool(FALSE)}}
      atoms == RenderAttributes(attrs, map)
      Alone(x) == RenderAttribute(assigned[x])
  IN  /\ \A x \in shown :
           /\ Cardinality({i \in DOMAIN atoms : atoms[i] = Name(x)[1]}) = 1
           /\ \E i \in 1 .. Len(atoms) - Len(Alone(x)) + 1 :
                SubSeq(atoms, i, i + Len(Alone(x)) - 1) = Alone(x)
      /\ {a \in ToSet(atoms) : a[1] = "name"} = {Name(x)[1] : x \in shown}

LEMMA AttributesDoWin ==
  ASSUME NEW attrs \in Seq(Attribute), NEW map \in PropMaps
  PROVE  AttributesWin(attrs, map)
  <1> DEFINE assigned == Assigned(EvaluateAttributes(attrs, map))
             shown == {x \in DOMAIN assigned : assigned[x].value \notin {None, Bool(FALSE)}}
             atoms == RenderAttributes(attrs, map)
             Alone(x) == RenderAttribute(assigned[x])
             Once(x) ==
               /\ Cardinality({i \in DOMAIN atoms : atoms[i] = Name(x)[1]}) = 1
               /\ \E i \in 1 .. Len(atoms) - Len(Alone(x)) + 1 :
                    SubSeq(atoms, i, i + Len(Alone(x)) - 1) = Alone(x)
               /\ \E i \in DOMAIN atoms : atoms[i] = Name(x)[1]
  <1>1. IsSeq(atoms)
    BY RenderAttributesIsSeq
  <1>2. DOMAIN atoms = 1 .. Len(atoms)
    BY <1>1, IsSeqElim
  <1>3. \A x : x \in shown <=> x \in DOMAIN assigned /\ ~Hidden(assigned[x])
    BY DEF Hidden
  <1>4. \A x \in DOMAIN assigned : ~Hidden(assigned[x]) =>
          IsSeq(Alone(x)) /\ 2 \in 1 .. Len(Alone(x)) /\ OnceAt(atoms, Alone(x), Name(x)[1], 2)
    <2> SUFFICES ASSUME NEW x \in DOMAIN assigned, ~Hidden(assigned[x])
                 PROVE  /\ IsSeq(Alone(x)) /\ 2 \in 1 .. Len(Alone(x))
                        /\ OnceAt(atoms, Alone(x), Name(x)[1], 2)
      OBVIOUS
    <2>1. OnceAt(atoms, Alone(x), Name(x)[1], 2)
      BY ShownOnce
    <2>2. IsSeq(Alone(x)) /\ 2 \in 1 .. Len(Alone(x))
      <3> HIDE DEF assigned
      <3> QED BY AttributeNames DEF NamedOnce
    <2> QED BY <2>1, <2>2
  <1>5. \A p \in 1 .. Len(atoms) : atoms[p][1] = "name" =>
          \E x \in DOMAIN assigned : ~Hidden(assigned[x]) /\ atoms[p] = Name(x)[1]
    BY OnlyShown
  <1> HIDE DEF assigned, atoms
  <1>6. ASSUME NEW x \in shown PROVE Once(x)
    <2> DEFINE part == Alone(x)
               at == Name(x)[1]
    <2>1. IsSeq(part) /\ 2 \in 1 .. Len(part) /\ OnceAt(atoms, part, at, 2)
      BY <1>3, <1>4, <1>6
    <2> HIDE DEF part, at
    <2>2. AloneIn(atoms, part, at)
      BY <1>1, <2>1, OnceAtSays
    <2> QED BY <2>2 DEF part, at, AloneIn
  <1>7. {a \in ToSet(atoms) : a[1] = "name"} \subseteq {Name(x)[1] : x \in shown}
    <2> SUFFICES ASSUME NEW a \in ToSet(atoms), a[1] = "name"
                 PROVE  \E x \in shown : a = Name(x)[1]
      OBVIOUS
    <2>1. PICK p \in DOMAIN atoms : a = atoms[p]
      BY DEF ToSet
    <2>2. PICK x \in DOMAIN assigned : ~Hidden(assigned[x]) /\ atoms[p] = Name(x)[1]
      BY <1>2, <1>5, <2>1
    <2> QED BY <1>3, <2>1, <2>2
  <1>8. {Name(x)[1] : x \in shown} \subseteq {a \in ToSet(atoms) : a[1] = "name"}
    <2> SUFFICES ASSUME NEW x \in shown
                 PROVE  Name(x)[1] \in ToSet(atoms) /\ Name(x)[1][1] = "name"
      OBVIOUS
    <2>1. PICK i \in DOMAIN atoms : atoms[i] = Name(x)[1]
      BY <1>6
    <2>2. Name(x)[1][1] = "name"
      BY DEF Name
    <2> QED BY <2>1, <2>2 DEF ToSet
  <1>9. {a \in ToSet(atoms) : a[1] = "name"} = {Name(x)[1] : x \in shown}
    BY <1>7, <1>8
  <1> QED BY <1>6, <1>9 DEF AttributesWin, assigned, atoms

\* The source is used up to a place in it.
LEMMA UsedWithin ==
  ASSUME DOMAIN source = 1 .. Len(source), Len(source) \in Nat
  PROVE  Used \in 0 .. Len(source)
  <1>1. CASE Ends = {}
    BY <1>1 DEF Used
  <1>2. CASE Ends # {}
    <2>1. Ends \in SUBSET Nat /\ Ends \subseteq DOMAIN source
      BY DEF Ends
    <2>2. Min(Ends) \in Ends
      BY <1>2, <2>1, MinIs
    <2>3. Min(Ends) \in 1 .. Len(source)
      BY <2>1, <2>2
    <2>4. Used = Min(Ends)
      BY <1>2 DEF Used
    <2> QED BY <2>3, <2>4
  <1> QED BY <1>1, <1>2

LEMMA LaterWin == TypeInv => LaterAttributesWin
  <1> SUFFICES ASSUME TypeInv, kind = "jsx", out # {},
                      NEW p \in ToSet(SubSeq(source, 1, Used)), p.k \in {"tag", "void"}
               PROVE  AttributesWin(p.attrs, props)
    BY DEF LaterAttributesWin, AttributesWin
  <1>1. props \in PropMaps
    BY DEF TypeInv, TemplateTypeOK
  <1>2. source \in Seq(Piece) /\ Len(source) \in Nat /\ DOMAIN source = 1 .. Len(source)
    BY SourceType DEF TypeInv
  <1>3. p \in Piece
    <2> DEFINE t == SubSeq(source, 1, Used)
    <2>1. Used \in 0 .. Len(source)
      BY <1>2, UsedWithin
    <2>2. t \in Seq(Piece)
      <3>1. \A k \in 1 .. Used : source[k] \in Piece
        BY <1>2, <2>1, ElementOfSeq
      <3> QED BY <1>2, <2>1, <3>1, SubSeqProperties
    <2> HIDE DEF t
    <2>3. PICK i \in DOMAIN t : p = t[i]
      BY DEF ToSet, t
    <2> QED BY <2>2, <2>3, ElementOfSeq
  <1>4. p.attrs \in Seq(Attribute)
    BY <1>3 DEF Piece, Broken
  <1> QED BY <1>1, <1>4, AttributesDoWin

\* Of several attributes and spreads that set one name the last wins, in its
\* place, and it alone shows (jsx.cpp, evaluate_attributes and
\* render_attributes).
THEOREM LaterAttributesAlwaysWin == Spec => []LaterAttributesWin
  <1>1. Init => TypeInv
    BY TypeInit
  <1>2. TypeInv /\ [Next]_vars => TypeInv'
    BY TypeNext
  <1> QED BY <1>1, <1>2, LaterWin, PTL DEF Spec
=============================================================================
