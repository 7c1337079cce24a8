---------------------------- MODULE ArrayProofs ----------------------------
(***************************************************************************)
(* Proofs about arrays: that their table and their list stay in step, and  *)
(* that they are the ordered maps of OrderedMap.                           *)
(***************************************************************************)
EXTENDS ManagedArray, FiniteSetTheorems, SequenceTheorems, WellFoundedInduction, TLAPS

-----------------------------------------------------------------------------
(* Numbers                                                                 *)

LEMMA FirstNumbers ==
  ASSUME NEW n \in Nat
  PROVE  IsFiniteSet(1..n) /\ Cardinality(1..n) = n
  BY FS_Interval

\* A non-empty set of numbers has a least element.
LEMMA LeastOf ==
  ASSUME NEW T \in SUBSET Nat, T # {}
  PROVE  \E d \in T : \A e \in T : d <= e
  <1> DEFINE less == {p \in Nat \X Nat : p[1] < p[2]}
  <1>1. IsWellFoundedOn(OpToRel(<, Nat), Nat)
    BY NatLessThanWellFounded
  <1>2. OpToRel(<, Nat) = less
    BY DEF OpToRel
  <1>3. IsWellFoundedOn(less, Nat)
    BY <1>1, <1>2
  <1>4. \E d \in T : \A e \in T : <<e, d>> \notin less
    <2> HIDE DEF less
    <2> QED BY <1>3, WFMin
  <1>5. PICK d \in T : \A e \in T : <<e, d>> \notin less
    BY <1>4
  <1>6. ASSUME NEW e \in T PROVE d <= e
    <2>1. d \in Nat /\ e \in Nat /\ <<e, d>> \in Nat \X Nat
      OBVIOUS
    <2>2. ~(<<e, d>>[1] < <<e, d>>[2])
      BY <1>5, <2>1
    <2> QED BY <2>1, <2>2
  <1> QED BY <1>6

\* Induction, for a set in place of a predicate.
LEMMA UpFromZero ==
  ASSUME NEW N \in Nat, NEW T, 0 \in T,
         \A n \in 0..(N - 1) : n \in T => n + 1 \in T
  PROVE  0..N \subseteq T
  <1> SUFFICES ASSUME 0..N \ T # {} PROVE FALSE
    OBVIOUS
  <1> DEFINE U == 0..N \ T
  <1>0. U \in SUBSET Nat /\ U # {}
    OBVIOUS
  <1>1. PICK d \in U : \A e \in U : d <= e
    <2> HIDE DEF U
    <2> QED BY <1>0, LeastOf
  <1>2. d # 0 /\ d - 1 \in 0..(N - 1)
    BY <1>1
  <1>3. d - 1 \in T
    BY <1>1, <1>2
  <1> QED BY <1>1, <1>2, <1>3

\* A non-empty finite set of integers has a greatest element.
LEMMA GreatestOf ==
  ASSUME NEW S \in SUBSET Int, IsFiniteSet(S), S # {}
  PROVE  \E m \in S : \A n \in S : n <= m
  <1> DEFINE above(m) == {n \in S : n > m}
             C == {Cardinality(above(m)) : m \in S}
  <1>1. \A m \in S : IsFiniteSet(above(m)) /\ Cardinality(above(m)) \in Nat
    BY FS_Subset, FS_CardinalityType
  <1>2. C \in SUBSET Nat /\ C # {}
    BY <1>1
  <1>3. PICK m \in S : \A n \in S : Cardinality(above(m)) <= Cardinality(above(n))
    <2>1. \E c \in C : \A d \in C : c <= d
      <3> HIDE DEF C
      <3> QED BY <1>2, LeastOf
    <2> QED BY <2>1
  <1>4. ASSUME NEW n \in S, n > m PROVE FALSE
    <2>1. above(n) \in SUBSET above(m) /\ n \in above(m) /\ n \notin above(n)
      <3>1. m \in Int /\ n \in Int /\ \A x \in S : x \in Int
        OBVIOUS
      <3>2. \A x \in above(n) : x \in above(m)
        BY <1>4, <3>1
      <3>3. n \in above(m) /\ n \notin above(n)
        BY <1>4, <3>1
      <3> HIDE DEF above
      <3> QED BY <3>2, <3>3
    <2>2. /\ Cardinality(above(n)) <= Cardinality(above(m))
          /\ Cardinality(above(m)) = Cardinality(above(n)) => above(m) = above(n)
      BY <2>1, <1>1, FS_Subset
    <2>3. /\ Cardinality(above(n)) \in Nat /\ Cardinality(above(m)) \in Nat
          /\ Cardinality(above(m)) <= Cardinality(above(n))
      BY <1>1, <1>3, <1>4
    <2> HIDE DEF above
    <2>4. Cardinality(above(m)) = Cardinality(above(n))
      BY <2>2, <2>3
    <2> QED BY <2>1, <2>2, <2>4
  <1> QED BY <1>3, <1>4

-----------------------------------------------------------------------------
(* Only                                                                    *)

\* g counts the numbers of P upwards.
Rising(g, m, P) ==
  /\ g \in [1..m -> P]
  /\ \A i, j \in 1..m : i < j => g[i] < g[j]
  /\ \A p \in P : \E i \in 1..m : g[i] = p

\* The places of the elements that are in S.
Places(s, S) == {i \in 1..Len(s) : s[i] \in S}

\* What Only steps through, up to n.
IsKept(f, s, S, n) ==
  f = [i \in 0..n |-> IF i = 0 THEN <<>>
                      ELSE IF s[i] \in S THEN Append(f[i - 1], s[i]) ELSE f[i - 1]]

LEMMA KeptExists ==
  ASSUME NEW s, NEW S, NEW N \in Nat
  PROVE  \E f : IsKept(f, s, S, N)
  <1> DEFINE T == {n \in 0..N : \E f : IsKept(f, s, S, n)}
  <1>1. 0 \in T
    <2>1. IsKept([i \in 0..0 |-> <<>>], s, S, 0)
      BY DEF IsKept
    <2> QED BY <2>1
  <1>2. ASSUME NEW n \in 0..(N - 1), n \in T PROVE n + 1 \in T
    <2>1. PICK f : IsKept(f, s, S, n)
      BY <1>2
    <2> DEFINE g == [i \in 0..(n + 1) |->
                       IF i = n + 1
                         THEN IF s[i] \in S THEN Append(f[n], s[i]) ELSE f[n]
                         ELSE f[i]]
    <2>2. \A i \in 0..n :
            f[i] = IF i = 0 THEN <<>>
                   ELSE IF s[i] \in S THEN Append(f[i - 1], s[i]) ELSE f[i - 1]
      BY <2>1 DEF IsKept
    <2>3. \A i \in 0..(n + 1) :
            g[i] = IF i = 0 THEN <<>>
                   ELSE IF s[i] \in S THEN Append(g[i - 1], s[i]) ELSE g[i - 1]
      BY <2>2
    <2>4. g = [i \in 0..(n + 1) |->
                 IF i = 0 THEN <<>>
                 ELSE IF s[i] \in S THEN Append(g[i - 1], s[i]) ELSE g[i - 1]]
      BY <2>3
    <2>5. IsKept(g, s, S, n + 1)
      BY <2>4 DEF IsKept
    <2> QED BY <2>5
  <1>3. 0..N \subseteq T
    <2> HIDE DEF T
    <2> QED BY <1>1, <1>2, UpFromZero
  <1>4. N \in T
    BY <1>3
  <1> QED BY <1>4

LEMMA KeptIsOnly ==
  ASSUME NEW U, NEW s \in Seq(U), NEW S
  PROVE  \E f : IsKept(f, s, S, Len(s)) /\ Only(s, S) = f[Len(s)]
  <1> DEFINE f == CHOOSE f : IsKept(f, s, S, Len(s))
  <1>1. IsKept(f, s, S, Len(s))
    BY KeptExists
  <1>2. Only(s, S) = f[Len(s)]
    BY DEF Only, IsKept
  <1> QED BY <1>1, <1>2

\* A number above all others goes on where counting has ended.
LEMMA RisingFurther ==
  ASSUME NEW m \in Nat, NEW P \in SUBSET Nat, NEW g, Rising(g, m, P),
         NEW x \in Nat, \A p \in P : p < x
  PROVE  Rising([i \in 1..(m + 1) |-> IF i = m + 1 THEN x ELSE g[i]], m + 1, P \cup {x})
  <1> DEFINE h == [i \in 1..(m + 1) |-> IF i = m + 1 THEN x ELSE g[i]]
  <1>1. h \in [1..(m + 1) -> P \cup {x}]
    BY DEF Rising
  <1>2. \A i \in 1..m : h[i] = g[i] /\ g[i] \in P /\ g[i] \in Nat
    <2>1. \A i \in 1..m : g[i] \in P
      BY DEF Rising
    <2>2. \A i \in 1..m : g[i] \in Nat
      BY <2>1
    <2>3. \A i \in 1..m : h[i] = g[i]
      OBVIOUS
    <2> HIDE DEF h
    <2> QED BY <2>1, <2>2, <2>3
  <1>3. h[m + 1] = x
    OBVIOUS
  <1>4. ASSUME NEW i \in 1..(m + 1), NEW j \in 1..(m + 1), i < j PROVE h[i] < h[j]
    <2>1. i \in 1..m
      BY <1>4
    <2>2. CASE j = m + 1
      BY <1>2, <1>3, <2>1, <2>2
    <2>3. CASE j \in 1..m
      BY <1>2, <1>4, <2>1, <2>3 DEF Rising
    <2> QED BY <2>2, <2>3
  <1>5. ASSUME NEW p \in P \cup {x} PROVE \E i \in 1..(m + 1) : h[i] = p
    <2>1. CASE p = x
      BY <1>3, <2>1
    <2>2. CASE p \in P
      <3>1. PICK i \in 1..m : g[i] = p
        BY <2>2 DEF Rising
      <3> QED BY <3>1, <1>2
    <2> QED BY <2>1, <2>2
  <1> HIDE DEF h
  <1> QED BY <1>1, <1>4, <1>5 DEF Rising, h

\* Only keeps the elements at the places of those in S.
LEMMA OnlyIs ==
  ASSUME NEW U, NEW s \in Seq(U), NEW S
  PROVE  \E m \in Nat : \E g :
           /\ Rising(g, m, Places(s, S))
           /\ Only(s, S) = [j \in 1..m |-> s[g[j]]]
  <1>1. PICK f : IsKept(f, s, S, Len(s)) /\ Only(s, S) = f[Len(s)]
    BY KeptIsOnly
  <1>0. Places(s, S) = {i \in 1..Len(s) : s[i] \in S}
    BY DEF Places
  <1> DEFINE N == Len(s)
             P(n) == {i \in 1..n : s[i] \in S}
             Are(n, m, g) == Rising(g, m, P(n)) /\ f[n] = [j \in 1..m |-> s[g[j]]]
             T == {n \in 0..N : \E m \in Nat : \E g : Are(n, m, g)}
  <1>2. \A n \in 0..N :
          f[n] = IF n = 0 THEN <<>>
                 ELSE IF s[n] \in S THEN Append(f[n - 1], s[n]) ELSE f[n - 1]
    BY <1>1 DEF IsKept
  <1>3. N \in Nat /\ \A i \in 1..N : s[i] \in U
    OBVIOUS
  <1>4. 0 \in T
    <2>1. f[0] = [j \in 1..0 |-> s[<<>>[j]]]
      BY <1>2, <1>3
    <2>2. Rising(<<>>, 0, P(0))
      BY DEF Rising
    <2>3. Are(0, 0, <<>>)
      BY <2>1, <2>2
    <2> HIDE DEF Are
    <2> QED BY <2>3, <1>3
  <1>5. ASSUME NEW n \in 0..(N - 1), n \in T PROVE n + 1 \in T
    <2>0. PICK m \in Nat : \E g : Are(n, m, g)
      BY <1>5
    <2>1. PICK g : Are(n, m, g)
      BY <2>0
    <2>2. n + 1 \in 1..N /\ n \in Nat
      BY <1>3
    <2>3. f[n + 1] = IF s[n + 1] \in S THEN Append(f[n], s[n + 1]) ELSE f[n]
      BY <1>2, <1>3
    <2>4. CASE s[n + 1] \notin S
      <3>1. P(n + 1) = P(n)
        BY <2>2, <2>4
      <3>2. Are(n + 1, m, g)
        BY <2>1, <2>3, <2>4, <3>1
      <3> HIDE DEF Are
      <3> QED BY <2>2, <3>2
    <2>5. CASE s[n + 1] \in S
      <3> DEFINE h == [i \in 1..(m + 1) |-> IF i = m + 1 THEN n + 1 ELSE g[i]]
      <3>1. P(n + 1) = P(n) \cup {n + 1} /\ P(n) \in SUBSET Nat
        BY <2>2, <2>5
      <3>2. Rising(h, m + 1, P(n + 1))
        <4>1. \A p \in P(n) : p < n + 1
          OBVIOUS
        <4> HIDE DEF P
        <4> QED BY <2>1, <2>2, <3>1, <4>1, RisingFurther
      <3>3. \A j \in 1..m : g[j] \in 1..N /\ s[g[j]] \in U
        BY <2>1, <2>2, <1>3 DEF Rising
      <3>4. f[n] \in Seq(U) /\ Len(f[n]) = m /\ s[n + 1] \in U
        BY <2>1, <2>2, <3>3, <1>3
      <3>5. Append(f[n], s[n + 1]) = [j \in 1..(m + 1) |-> s[h[j]]]
        <4>1. DOMAIN Append(f[n], s[n + 1]) = 1..(m + 1)
          BY <3>4
        <4>2. \A j \in 1..(m + 1) : Append(f[n], s[n + 1])[j] = s[h[j]]
          BY <2>1, <3>4
        <4>3. Append(f[n], s[n + 1]) \in Seq(U)
          BY <3>4
        <4> QED BY <4>1, <4>2, <4>3
      <3>6. Are(n + 1, m + 1, h)
        BY <2>3, <2>5, <3>2, <3>5
      <3> HIDE DEF h, Are
      <3> QED BY <2>2, <3>6
    <2> QED BY <2>4, <2>5
  <1>6. N \in T
    <2>1. 0..N \subseteq T
      <3> HIDE DEF T
      <3> QED BY <1>3, <1>4, <1>5, UpFromZero
    <2> HIDE DEF T
    <2> QED BY <2>1, <1>3
  <1> QED BY <1>0, <1>1, <1>6

IsOnly(g, m, s, S) == Rising(g, m, Places(s, S)) /\ Only(s, S) = [j \in 1..m |-> s[g[j]]]

LEMMA OnlyBy ==
  ASSUME NEW U, NEW s \in Seq(U), NEW S
  PROVE  \E m \in Nat : \E g : IsOnly(g, m, s, S)
  BY OnlyIs DEF IsOnly

LEMMA RisingType ==
  ASSUME NEW m \in Nat, NEW P \in SUBSET Nat, NEW g, Rising(g, m, P)
  PROVE  /\ \A i \in 1..m : g[i] \in P /\ g[i] \in Nat
         /\ \A i, j \in 1..m : g[i] < g[j] <=> i < j
         /\ \A i, j \in 1..m : g[i] = g[j] => i = j
  <1>1. \A i \in 1..m : g[i] \in P
    BY DEF Rising
  <1>2. \A i \in 1..m : g[i] \in Nat
    BY <1>1
  <1>3. \A i, j \in 1..m : i < j => g[i] < g[j]
    BY DEF Rising
  <1>4. ASSUME NEW i \in 1..m, NEW j \in 1..m
        PROVE  (g[i] < g[j] <=> i < j) /\ (g[i] = g[j] => i = j)
    <2>1. g[i] \in Nat /\ g[j] \in Nat /\ i \in Nat /\ j \in Nat
      BY <1>2
    <2>2. (i < j => g[i] < g[j]) /\ (j < i => g[j] < g[i])
      BY <1>3
    <2> QED BY <2>1, <2>2
  <1> QED BY <1>1, <1>2, <1>4

LEMMA RisingCardinality ==
  ASSUME NEW m \in Nat, NEW P \in SUBSET Nat, NEW g, Rising(g, m, P)
  PROVE  IsFiniteSet(P) /\ Cardinality(P) = m
  <1>1. g \in Bijection(1..m, P)
    <2>1. g \in [1..m -> P] /\ \A p \in P : \E i \in 1..m : g[i] = p
      BY DEF Rising
    <2>2. \A i, j \in 1..m : g[i] = g[j] => i = j
      BY RisingType
    <2>3. g \in Surjection(1..m, P)
      BY <2>1 DEF Surjection
    <2>4. g \in Injection(1..m, P)
      BY <2>1, <2>2 DEF Injection, IsInjective
    <2> QED BY <2>3, <2>4 DEF Bijection
  <1>2. ExistsBijection(1..m, P)
    BY <1>1 DEF ExistsBijection
  <1> QED BY <1>2, FS_NatBijection, FS_CountingElements

\* There is one way to count upwards.
LEMMA RisingUnique ==
  ASSUME NEW P \in SUBSET Nat, NEW m \in Nat, NEW g, Rising(g, m, P),
         NEW n \in Nat, NEW h, Rising(h, n, P)
  PROVE  m = n /\ g = h
  <1>1. m = n
    BY RisingCardinality
  <1> DEFINE D == {i \in 1..m : g[i] # h[i]}
  <1>2. ASSUME D # {} PROVE FALSE
    <2>1. PICK i \in D : \A j \in D : i <= j
      <3>1. D \in SUBSET Nat
        OBVIOUS
      <3> HIDE DEF D
      <3> QED BY <1>2, <3>1, LeastOf
    <2>2. /\ i \in 1..m /\ g[i] # h[i]
          /\ \A j \in 1..m : j < i => g[j] = h[j]
      BY <2>1
    <2>3. /\ \A j \in 1..m : g[j] \in P /\ g[j] \in Nat /\ h[j] \in P /\ h[j] \in Nat
          /\ \A j \in 1..m : (g[j] < g[i] => j < i) /\ (h[j] < h[i] => j < i)
          /\ \A j \in 1..m : (g[j] = g[i] => j = i) /\ (h[j] = h[i] => j = i)
      BY <1>1, <2>2, RisingType
    <2>4. g[i] # h[i] => g[i] < h[i] \/ h[i] < g[i]
      BY <2>2, <2>3
    <2>5. CASE g[i] < h[i]
      <3>1. PICK j \in 1..m : h[j] = g[i]
        BY <1>1, <2>2, <2>3 DEF Rising
      <3>2. j < i
        BY <2>2, <2>3, <2>5, <3>1
      <3> QED BY <2>2, <2>3, <3>1, <3>2
    <2>6. CASE h[i] < g[i]
      <3>1. PICK j \in 1..m : g[j] = h[i]
        BY <1>1, <2>2, <2>3 DEF Rising
      <3>2. j < i
        BY <2>2, <2>3, <2>6, <3>1
      <3> QED BY <2>2, <2>3, <3>1, <3>2
    <2> QED BY <2>2, <2>4, <2>5, <2>6
  <1>3. \A i \in 1..m : g[i] = h[i]
    BY <1>2
  <1>4. g \in [1..m -> P] /\ h \in [1..m -> P]
    BY <1>1 DEF Rising
  <1> QED BY <1>1, <1>3, <1>4

\* Any sequence of the right elements in the right order is Only.
LEMMA OnlyIsThis ==
  ASSUME NEW U, NEW s \in Seq(U), NEW S, NEW m \in Nat, NEW g,
         Rising(g, m, Places(s, S))
  PROVE  Only(s, S) = [j \in 1..m |-> s[g[j]]]
  <1>0. PICK n \in Nat : \E h : Rising(h, n, Places(s, S)) /\ Only(s, S) = [j \in 1..n |-> s[h[j]]]
    BY OnlyIs
  <1>1. PICK h : Rising(h, n, Places(s, S)) /\ Only(s, S) = [j \in 1..n |-> s[h[j]]]
    BY <1>0
  <1>2. Places(s, S) \in SUBSET Nat
    BY DEF Places
  <1>3. m = n /\ g = h
    BY <1>1, <1>2, RisingUnique
  <1> QED BY <1>1, <1>3

LEMMA OnlyByThis ==
  ASSUME NEW U, NEW s \in Seq(U), NEW S, NEW m \in Nat, NEW g,
         Rising(g, m, Places(s, S))
  PROVE  IsOnly(g, m, s, S)
  BY OnlyIsThis DEF IsOnly

\* What is in Only(s, S), how much of it, and that nothing comes twice.
LEMMA OnlyFacts ==
  ASSUME NEW U, NEW s \in Seq(U), NEW S
  PROVE  /\ Only(s, S) \in Seq(U \cap S)
         /\ \A i \in DOMAIN s : s[i] \in S => \E j \in DOMAIN Only(s, S) : Only(s, S)[j] = s[i]
         /\ \A j \in DOMAIN Only(s, S) : \E i \in DOMAIN s : Only(s, S)[j] = s[i]
         /\ Len(Only(s, S)) = Cardinality(Places(s, S))
         /\ (\A i, j \in DOMAIN s : s[i] = s[j] => i = j) =>
              \A i, j \in DOMAIN Only(s, S) : Only(s, S)[i] = Only(s, S)[j] => i = j
  <1>0. PICK m \in Nat : \E g : Rising(g, m, Places(s, S)) /\ Only(s, S) = [j \in 1..m |-> s[g[j]]]
    BY OnlyIs
  <1>1. PICK g : Rising(g, m, Places(s, S)) /\ Only(s, S) = [j \in 1..m |-> s[g[j]]]
    BY <1>0
  <1>2. /\ Places(s, S) \in SUBSET Nat /\ DOMAIN s = 1..Len(s)
        /\ \A i \in Places(s, S) : i \in 1..Len(s) /\ s[i] \in U \cap S
        /\ \A i \in 1..Len(s) : s[i] \in S => i \in Places(s, S)
    BY DEF Places
  <1>3. \A j \in 1..m : g[j] \in Places(s, S)
    BY <1>1 DEF Rising
  <1>4. \A j \in 1..m : g[j] \in 1..Len(s) /\ s[g[j]] \in U \cap S
    BY <1>2, <1>3
  <1>5. Only(s, S) \in [1..m -> U \cap S]
    BY <1>1, <1>4
  <1>6. Only(s, S) \in Seq(U \cap S) /\ Len(Only(s, S)) = m /\ DOMAIN Only(s, S) = 1..m
    BY <1>5
  <1>7. Cardinality(Places(s, S)) = m
    BY <1>1, <1>2, RisingCardinality
  <1>8. \A i \in Places(s, S) : \E j \in 1..m : g[j] = i
    BY <1>1 DEF Rising
  <1>9. \A i, j \in 1..m : g[i] = g[j] => i = j
    <2>1. Rising(g, m, Places(s, S)) /\ Places(s, S) \in SUBSET Nat
      BY <1>1, <1>2
    <2> QED BY <2>1, RisingType
  <1>10. \A j \in 1..m : Only(s, S)[j] = s[g[j]]
    BY <1>1
  <1>11. ASSUME NEW i \in DOMAIN s, s[i] \in S
         PROVE  \E j \in DOMAIN Only(s, S) : Only(s, S)[j] = s[i]
    BY <1>2, <1>6, <1>8, <1>10, <1>11
  <1>12. ASSUME NEW j \in DOMAIN Only(s, S)
         PROVE  \E i \in DOMAIN s : Only(s, S)[j] = s[i]
    BY <1>2, <1>4, <1>6, <1>10
  <1>13. ASSUME \A i, j \in DOMAIN s : s[i] = s[j] => i = j,
                NEW i \in DOMAIN Only(s, S), NEW j \in DOMAIN Only(s, S),
                Only(s, S)[i] = Only(s, S)[j]
         PROVE  i = j
    BY <1>2, <1>4, <1>6, <1>9, <1>10, <1>13
  <1> QED BY <1>2, <1>6, <1>7, <1>11, <1>12, <1>13

-----------------------------------------------------------------------------
(* The table                                                               *)

\* With the fields of a record known, the provers can tell what EXCEPT does.
IsArray(a) ==
  a = [entry |-> a.entry, head |-> a.head, tail |-> a.tail,
       buckets |-> a.buckets, count |-> a.count, size |-> a.size]

SameList(a, b) ==
  a.entry = b.entry /\ a.head = b.head /\ a.tail = b.tail /\ a.size = b.size

\* The table of a holds the slots S: each in its bucket, one for each key.
Hashed(a, S) ==
  /\ \E n \in Nat : DOMAIN a.buckets = 0..(n - 1)
  /\ a.buckets = [i \in DOMAIN a.buckets |-> a.buckets[i]]
  /\ \A i \in DOMAIN a.buckets : \A s \in a.buckets[i] :
       s \in S /\ BucketIndex(Hash[s.key], NumBuckets(a)) = i
  /\ \A s \in S :
       NumBuckets(a) > 0 /\ s \in a.buckets[BucketIndex(Hash[s.key], NumBuckets(a))]
  /\ S \subseteq Slot /\ IsFiniteSet(S)
  /\ \A s, t \in S : s.key = t.key => s = t
  /\ a.count = Cardinality(S)

LEMMA BucketCount ==
  ASSUME NEW a, NEW n \in Nat, DOMAIN a.buckets = 0..(n - 1)
  PROVE  NumBuckets(a) = n
  BY FS_Interval DEF NumBuckets

LEMMA HashedBuckets ==
  ASSUME NEW a, NEW S, Hashed(a, S)
  PROVE  NumBuckets(a) \in Nat /\ DOMAIN a.buckets = 0..(NumBuckets(a) - 1)
  BY BucketCount DEF Hashed

LEMMA BucketInRange ==
  ASSUME NEW k \in Keys, NEW n \in Nat, n > 0
  PROVE  BucketIndex(Hash[k], n) \in 0..(n - 1)
  <1>1. Hash[k] \in Nat
    BY TableAssumption
  <1> QED BY <1>1 DEF BucketIndex

LEMMA HitsAre ==
  ASSUME NEW a, NEW S, Hashed(a, S), NEW k \in Keys
  PROVE  Hits(a, k) = {s \in S : s.key = k}
  <1>1. CASE NumBuckets(a) = 0
    <2>1. S = {}
      BY <1>1 DEF Hashed
    <2> QED BY <1>1, <2>1 DEF Hits
  <1>2. CASE NumBuckets(a) # 0
    <2> DEFINE i == BucketIndex(Hash[k], NumBuckets(a))
    <2>1. i \in DOMAIN a.buckets
      BY <1>2, HashedBuckets, BucketInRange
    <2>2. \A s \in a.buckets[i] : s \in S
      BY <2>1 DEF Hashed
    <2>3. \A s \in S : s.key = k => s \in a.buckets[i]
      BY DEF Hashed
    <2>4. Hits(a, k) = {s \in a.buckets[i] : s.key = k}
      BY <1>2 DEF Hits
    <2> HIDE DEF i
    <2> QED BY <2>2, <2>3, <2>4
  <1> QED BY <1>1, <1>2

LEMMA FindIs ==
  ASSUME NEW a, NEW S, Hashed(a, S), NEW k \in Keys
  PROVE  /\ \A s \in S : s.key = k => Find(a, k) = s.at /\ s.at \in Address /\ s.at # NULL
         /\ (\A s \in S : s.key # k) => Find(a, k) = NULL
         /\ Find(a, k) = NULL \/ \E s \in S : s.key = k /\ s.at = Find(a, k)
  <1>1. Hits(a, k) = {s \in S : s.key = k}
    BY HitsAre
  <1>2. S \subseteq Slot /\ \A s, t \in S : s.key = t.key => s = t
    BY DEF Hashed
  <1>3. ASSUME NEW s \in S, s.key = k
        PROVE  Find(a, k) = s.at /\ s.at \in Address /\ s.at # NULL
    <2>1. Hits(a, k) = {s}
      BY <1>1, <1>2, <1>3
    <2>2. (CHOOSE t \in Hits(a, k) : TRUE) = s
      BY <2>1
    <2>3. Find(a, k) = s.at
      BY <2>1, <2>2 DEF Find
    <2>4. s.at \in Address
      BY <1>2 DEF Slot
    <2> QED BY <2>3, <2>4, TableAssumption
  <1>4. ASSUME \A s \in S : s.key # k PROVE Find(a, k) = NULL
    BY <1>1, <1>4 DEF Find
  <1> QED BY <1>3, <1>4

LEMMA RehashHolds ==
  ASSUME NEW a, IsArray(a), NEW S, Hashed(a, S)
  PROVE  /\ Hashed(MaybeRehash(a), S) /\ NumBuckets(MaybeRehash(a)) > 0
         /\ IsArray(MaybeRehash(a)) /\ SameList(a, MaybeRehash(a))
  <1> DEFINE n == NumBuckets(a)
             b == MaybeRehash(a)
             all == UNION {a.buckets[i] : i \in DOMAIN a.buckets}
  <1>1. n \in Nat /\ DOMAIN a.buckets = 0..(n - 1)
    BY HashedBuckets
  <1>2. CASE n = 0
    <2>1. b = [a EXCEPT !.buckets = EmptyBuckets(InitialBuckets), !.count = 0]
      BY <1>2 DEF MaybeRehash
    <2>2. /\ b.buckets = EmptyBuckets(InitialBuckets) /\ b.count = 0
          /\ IsArray(b) /\ SameList(a, b)
      BY <2>1 DEF IsArray, SameList
    <2>3. S = {}
      BY <1>2 DEF Hashed
    <2> DEFINE m == IF InitialBuckets < 4 THEN 4 ELSE InitialBuckets
    <2>4. m \in Nat /\ m > 0 /\ b.buckets = [i \in 0..(m - 1) |-> {}]
      BY <2>2, TableAssumption DEF EmptyBuckets
    <2> HIDE DEF m
    <2>5. NumBuckets(b) = m
      BY <2>4, BucketCount
    <2>6. Hashed(b, S)
      BY <2>2, <2>3, <2>4, FS_EmptySet DEF Hashed
    <2> QED BY <2>2, <2>4, <2>5, <2>6
  <1>3. CASE n # 0 /\ 4 * (a.count + 1) <= 3 * n
    <2>1. b = a
      BY <1>3 DEF MaybeRehash
    <2> QED BY <1>1, <1>3, <2>1 DEF SameList
  <1>4. CASE n # 0 /\ ~(4 * (a.count + 1) <= 3 * n)
    <2> DEFINE new == [i \in 0..(2 * n - 1) |->
                         {s \in all : BucketIndex(Hash[s.key], 2 * n) = i}]
    <2>1. b = [a EXCEPT !.buckets = new]
      BY <1>4 DEF MaybeRehash
    <2>2. b.buckets = new /\ b.count = a.count /\ IsArray(b) /\ SameList(a, b)
      <3> HIDE DEF new
      <3> QED BY <2>1 DEF IsArray, SameList
    <2>3. 2 * n \in Nat /\ 2 * n > 0
      BY <1>1, <1>4
    <2>4. NumBuckets(b) = 2 * n
      <3>1. DOMAIN b.buckets = 0..(2 * n - 1)
        BY <2>2
      <3> QED BY <2>3, <3>1, BucketCount
    <2>5. all = S
      <3>1. \A s \in S : s \in all
        <4> SUFFICES ASSUME NEW s \in S PROVE s \in all
          OBVIOUS
        <4>1. s.key \in Keys /\ s \in a.buckets[BucketIndex(Hash[s.key], n)]
          BY DEF Hashed, Slot
        <4>2. n > 0
          BY <1>1, <1>4
        <4>3. BucketIndex(Hash[s.key], n) \in 0..(n - 1)
          <5> HIDE DEF n
          <5> QED BY <1>1, <4>1, <4>2, BucketInRange
        <4> QED BY <1>1, <4>1, <4>3
      <3>2. \A s \in all : s \in S
        BY DEF Hashed
      <3> HIDE DEF all
      <3> QED BY <3>1, <3>2
    <2>6. \A s \in S : BucketIndex(Hash[s.key], 2 * n) \in 0..(2 * n - 1)
      <3>1. \A s \in S : s.key \in Keys
        BY DEF Hashed, Slot
      <3> QED BY <2>3, <3>1, BucketInRange
    <2>7. \A i \in 0..(2 * n - 1) :
            new[i] = {s \in S : BucketIndex(Hash[s.key], 2 * n) = i}
      <3> HIDE DEF all
      <3> QED BY <2>5
    <2>8. new = [i \in DOMAIN new |-> new[i]] /\ DOMAIN new = 0..(2 * n - 1)
      OBVIOUS
    <2>9. /\ S \subseteq Slot /\ IsFiniteSet(S)
          /\ \A s, t \in S : s.key = t.key => s = t
          /\ a.count = Cardinality(S)
      BY DEF Hashed
    <2> HIDE DEF new, n
    <2>10. Hashed(b, S)
      BY <2>2, <2>3, <2>4, <2>6, <2>7, <2>8, <2>9 DEF Hashed
    <2> QED BY <2>2, <2>3, <2>4, <2>10
  <1> QED BY <1>2, <1>3, <1>4

\* The slots without the one of k.
Others(S, k) == {s \in S : s.key # k}

LEMMA OthersFinite ==
  ASSUME NEW S, IsFiniteSet(S), NEW k, \A s, t \in S : s.key = t.key => s = t
  PROVE  /\ IsFiniteSet(Others(S, k)) /\ Cardinality(S) \in Nat
         /\ Cardinality(Others(S, k)) =
              IF \E s \in S : s.key = k THEN Cardinality(S) - 1 ELSE Cardinality(S)
  <1>1. Cardinality(S) \in Nat
    BY FS_CardinalityType
  <1>2. CASE \E s \in S : s.key = k
    <2>1. PICK s \in S : s.key = k
      BY <1>2
    <2>2. Others(S, k) = S \ {s}
      BY <2>1 DEF Others
    <2> QED BY <1>1, <1>2, <2>2, FS_RemoveElement
  <1>3. CASE ~\E s \in S : s.key = k
    <2>1. Others(S, k) = S
      BY <1>3 DEF Others
    <2> QED BY <1>1, <1>3, <2>1
  <1> QED BY <1>2, <1>3

LEMMA EraseHolds ==
  ASSUME NEW a, IsArray(a), NEW S, Hashed(a, S), NEW k \in Keys
  PROVE  /\ Hashed(IndexErase(a, k), Others(S, k))
         /\ IsArray(IndexErase(a, k)) /\ SameList(a, IndexErase(a, k))
  <1> DEFINE b == IndexErase(a, k)
             i == BucketIndex(Hash[k], NumBuckets(a))
  <1>1. Hits(a, k) = {s \in S : s.key = k}
    BY HitsAre
  <1>2. /\ S \subseteq Slot /\ IsFiniteSet(S)
        /\ \A s, t \in S : s.key = t.key => s = t
        /\ a.count = Cardinality(S)
    BY DEF Hashed
  <1>3. CASE Hits(a, k) = {}
    <2>1. b = a /\ Others(S, k) = S
      BY <1>1, <1>3 DEF IndexErase, Others
    <2> QED BY <2>1 DEF SameList
  <1>4. CASE Hits(a, k) # {}
    <2>1. b = [a EXCEPT !.buckets[i] = @ \ Hits(a, k), !.count = @ - 1]
      BY <1>4 DEF IndexErase
    <2> DEFINE new == [a.buckets EXCEPT ![i] = @ \ Hits(a, k)]
    <2>2. b.buckets = new /\ b.count = a.count - 1 /\ IsArray(b) /\ SameList(a, b)
      BY <2>1 DEF IsArray, SameList
    <2>3. /\ NumBuckets(a) \in Nat /\ DOMAIN a.buckets = 0..(NumBuckets(a) - 1)
          /\ DOMAIN new = DOMAIN a.buckets
      BY HashedBuckets
    <2>4. NumBuckets(b) = NumBuckets(a)
      BY <2>2, <2>3, BucketCount
    <2>5. \A j \in DOMAIN a.buckets : new[j] = a.buckets[j] \cap Others(S, k)
      <3> SUFFICES ASSUME NEW j \in DOMAIN a.buckets
                   PROVE  new[j] = a.buckets[j] \cap Others(S, k)
        OBVIOUS
      <3>1. \A s \in a.buckets[j] : s \in S /\ BucketIndex(Hash[s.key], NumBuckets(a)) = j
        BY DEF Hashed
      <3>2. CASE j = i
        <4>1. new[j] = a.buckets[j] \ Hits(a, k)
          BY <3>2
        <4> QED BY <1>1, <3>1, <4>1 DEF Others
      <3>3. CASE j # i
        <4>1. new[j] = a.buckets[j]
          BY <3>3
        <4>2. \A s \in a.buckets[j] : s.key # k
          BY <3>1, <3>3
        <4> QED BY <3>1, <4>1, <4>2 DEF Others
      <3> QED BY <3>2, <3>3
    <2>6. new = [j \in DOMAIN new |-> new[j]]
      BY <2>3 DEF Hashed
    <2>7. a.count - 1 = Cardinality(Others(S, k)) /\ IsFiniteSet(Others(S, k))
      BY <1>1, <1>2, <1>4, OthersFinite
    <2>8. Others(S, k) \subseteq S
      BY DEF Others
    <2>9. \A s \in S : /\ NumBuckets(a) > 0
                       /\ s \in a.buckets[BucketIndex(Hash[s.key], NumBuckets(a))]
                       /\ BucketIndex(Hash[s.key], NumBuckets(a)) \in DOMAIN a.buckets
      BY <1>2, <2>3, BucketInRange DEF Hashed, Slot
    <2> HIDE DEF new, b
    <2>10. Hashed(b, Others(S, k))
      <3>1. \A j \in DOMAIN b.buckets : \A s \in b.buckets[j] :
              s \in Others(S, k) /\ BucketIndex(Hash[s.key], NumBuckets(b)) = j
        BY <2>2, <2>3, <2>4, <2>5 DEF Hashed
      <3>2. \A s \in Others(S, k) :
              /\ NumBuckets(b) > 0
              /\ s \in b.buckets[BucketIndex(Hash[s.key], NumBuckets(b))]
        BY <2>2, <2>4, <2>5, <2>8, <2>9
      <3> QED BY <1>2, <2>2, <2>3, <2>6, <2>7, <2>8, <3>1, <3>2 DEF Hashed
    <2> QED BY <2>2, <2>10 DEF b
  <1> QED BY <1>3, <1>4

LEMMA IndexSetHolds ==
  ASSUME NEW a, IsArray(a), NEW S, Hashed(a, S), NEW k \in Keys, NEW e \in Address
  PROVE  /\ Hashed(IndexSet(a, k, e), Others(S, k) \cup {[key |-> k, at |-> e]})
         /\ IsArray(IndexSet(a, k, e)) /\ SameList(a, IndexSet(a, k, e))
  <1> DEFINE grown == MaybeRehash(a)
             b == IndexSet(a, k, e)
             n == NumBuckets(grown)
             i == BucketIndex(Hash[k], n)
             slot == [key |-> k, at |-> e]
             S2 == Others(S, k) \cup {slot}
             new == [grown.buckets EXCEPT ![i] = {s \in @ : s.key # k} \cup {slot}]
  <1>1. Hashed(grown, S) /\ n > 0 /\ IsArray(grown) /\ SameList(a, grown)
    BY RehashHolds
  <1>2. Hits(grown, k) = {s \in S : s.key = k}
    BY <1>1, HitsAre
  <1>3. /\ S \subseteq Slot /\ IsFiniteSet(S)
        /\ \A s, t \in S : s.key = t.key => s = t
        /\ grown.count = Cardinality(S)
    BY <1>1 DEF Hashed
  <1>4. n \in Nat /\ DOMAIN grown.buckets = 0..(n - 1)
    BY <1>1, HashedBuckets
  <1>5. b = [grown EXCEPT !.buckets[i] = {s \in @ : s.key # k} \cup {slot},
                          !.count = IF Hits(grown, k) = {} THEN @ + 1 ELSE @]
    BY DEF IndexSet
  <1>6. /\ b.buckets = new
        /\ b.count = IF Hits(grown, k) = {} THEN grown.count + 1 ELSE grown.count
        /\ IsArray(b) /\ SameList(a, b)
    <2> HIDE DEF grown, i, slot
    <2> QED BY <1>1, <1>5 DEF IsArray, SameList
  <1>7. i \in 0..(n - 1)
    <2> HIDE DEF n
    <2> QED BY <1>1, <1>4, BucketInRange
  <1>8. DOMAIN new = 0..(n - 1) /\ new = [j \in DOMAIN new |-> new[j]]
    <2>1. grown.buckets = [j \in DOMAIN grown.buckets |-> grown.buckets[j]]
      BY <1>1 DEF Hashed
    <2> HIDE DEF grown, i, slot, n
    <2> QED BY <1>4, <2>1
  <1>9. NumBuckets(b) = n
    <2> HIDE DEF b, new, n
    <2> QED BY <1>4, <1>6, <1>8, BucketCount
  <1>10. slot \in Slot /\ slot.key = k /\ slot \notin Others(S, k)
    BY DEF Slot, Others
  <1>11. Others(S, k) \subseteq S /\ \A s \in S : s.key # k <=> s \in Others(S, k)
    BY DEF Others
  <1>12. IsFiniteSet(S2) /\ b.count = Cardinality(S2)
    <2>1. /\ IsFiniteSet(Others(S, k)) /\ Cardinality(S) \in Nat
          /\ Cardinality(Others(S, k)) =
               IF \E s \in S : s.key = k THEN Cardinality(S) - 1 ELSE Cardinality(S)
      BY <1>3, OthersFinite
    <2>2. IsFiniteSet(S2) /\ Cardinality(S2) = Cardinality(Others(S, k)) + 1
      <3> HIDE DEF slot
      <3> QED BY <1>10, <2>1, FS_AddElement
    <2>3. Hits(grown, k) = {} <=> ~\E s \in S : s.key = k
      BY <1>2
    <2> HIDE DEF grown, b, S2
    <2> QED BY <1>3, <1>6, <2>1, <2>2, <2>3
  <1>13. \A s \in S : /\ s \in grown.buckets[BucketIndex(Hash[s.key], n)]
                      /\ BucketIndex(Hash[s.key], n) \in 0..(n - 1)
    <2>1. \A s \in S : s.key \in Keys
      BY <1>3 DEF Slot
    <2>2. \A s \in S : s \in grown.buckets[BucketIndex(Hash[s.key], n)]
      BY <1>1 DEF Hashed
    <2> HIDE DEF n, grown
    <2> QED BY <1>1, <1>4, <2>1, <2>2, BucketInRange
  <1>14. \A j \in 0..(n - 1) : \A s \in grown.buckets[j] :
           s \in S /\ BucketIndex(Hash[s.key], n) = j
    <2>1. \A j \in DOMAIN grown.buckets : \A s \in grown.buckets[j] :
            s \in S /\ BucketIndex(Hash[s.key], n) = j
      BY <1>1 DEF Hashed
    <2> QED BY <1>4, <2>1
  <1>15. new[i] = {s \in grown.buckets[i] : s.key # k} \cup {slot}
    <2> HIDE DEF grown, i, slot, n
    <2> QED BY <1>4, <1>7
  <1>16. \A j \in 0..(n - 1) : j # i => new[j] = grown.buckets[j]
    <2> HIDE DEF grown, i, slot, n
    <2> QED BY <1>4
  <1> HIDE DEF grown, b, n, slot, new
  <1>17. \A j \in DOMAIN new : \A s \in new[j] : s \in S2 /\ BucketIndex(Hash[s.key], n) = j
    <2> SUFFICES ASSUME NEW j \in 0..(n - 1), NEW s \in new[j]
                 PROVE  s \in S2 /\ BucketIndex(Hash[s.key], n) = j
      BY <1>8
    <2>1. CASE j = i
      BY <1>7, <1>10, <1>11, <1>14, <1>15, <2>1
    <2>2. CASE j # i
      <3>1. s \in grown.buckets[j]
        BY <1>16, <2>2
      <3>2. s \in S /\ BucketIndex(Hash[s.key], n) = j
        BY <1>14, <3>1
      <3>3. s.key # k
        BY <2>2, <3>2
      <3> QED BY <1>11, <3>2, <3>3
    <2> QED BY <2>1, <2>2
  <1>18. \A s \in S2 : s \in new[BucketIndex(Hash[s.key], n)]
    <2> SUFFICES ASSUME NEW s \in S2 PROVE s \in new[BucketIndex(Hash[s.key], n)]
      OBVIOUS
    <2>1. CASE s = slot
      BY <1>10, <1>15, <2>1
    <2>2. CASE s \in Others(S, k)
      <3>1. s \in S /\ s.key # k
        BY <1>11, <2>2
      <3> QED BY <1>13, <1>15, <1>16, <3>1
    <2> QED BY <2>1, <2>2
  <1>19. S2 \subseteq Slot /\ \A s, t \in S2 : s.key = t.key => s = t
    BY <1>3, <1>10, <1>11
  <1>20. Hashed(b, S2)
    <2> HIDE DEF S2, i
    <2> QED BY <1>1, <1>4, <1>6, <1>8, <1>9, <1>12, <1>17, <1>18, <1>19 DEF Hashed
  <1> QED BY <1>6, <1>20 DEF b, slot

-----------------------------------------------------------------------------
(* The list                                                                *)

\* f is the entries of a from its head to its tail, each linked to the next.
Chain(a, f) ==
  /\ f \in Seq(Address)
  /\ \A i, j \in 1..Len(f) : f[i] = f[j] => i = j
  /\ Live(a) = {f[i] : i \in 1..Len(f)}
  /\ a.entry \in [Live(a) -> Entry]
  /\ a.head = IF Len(f) = 0 THEN NULL ELSE f[1]
  /\ a.tail = IF Len(f) = 0 THEN NULL ELSE f[Len(f)]
  /\ \A i \in 1..Len(f) :
       /\ a.entry[f[i]].next = IF i = Len(f) THEN NULL ELSE f[i + 1]
       /\ a.entry[f[i]].prev = IF i = 1 THEN NULL ELSE f[i - 1]

LEMMA ChainFacts ==
  ASSUME NEW a, NEW f, Chain(a, f)
  PROVE  /\ Len(f) \in Nat /\ DOMAIN f = 1..Len(f)
         /\ \A i \in 1..Len(f) : f[i] \in Live(a) /\ f[i] \in Address /\ f[i] # NULL
         /\ \A e \in Live(a) : \E i \in 1..Len(f) : f[i] = e
         /\ Live(a) \subseteq Address /\ NULL \notin Live(a)
         /\ IsFiniteSet(Live(a)) /\ Cardinality(Live(a)) = Len(f)
  <1>1. Len(f) \in Nat /\ DOMAIN f = 1..Len(f) /\ \A i \in 1..Len(f) : f[i] \in Address
    BY DEF Chain
  <1>2. Live(a) = {f[i] : i \in 1..Len(f)}
    BY DEF Chain
  <1>3. \A i \in 1..Len(f) : f[i] \in Live(a) /\ f[i] # NULL
    BY <1>1, <1>2, TableAssumption
  <1>4. IsFiniteSet(Live(a)) /\ Cardinality(Live(a)) = Len(f)
    <2>1. f \in [1..Len(f) -> Live(a)]
      BY <1>3, LenProperties DEF Chain
    <2>2. f \in Surjection(1..Len(f), Live(a))
      BY <1>2, <2>1 DEF Surjection
    <2>3. f \in Injection(1..Len(f), Live(a))
      BY <2>1 DEF Injection, IsInjective, Chain
    <2>4. ExistsBijection(1..Len(f), Live(a))
      BY <2>2, <2>3 DEF Bijection, ExistsBijection
    <2> QED BY <1>1, <2>4, FS_NatBijection, FS_CountingElements
  <1> QED BY <1>1, <1>2, <1>3, <1>4, TableAssumption

SameTable(a, b) == a.buckets = b.buckets /\ a.count = b.count

\* What an entry holds, its links apart.
SameContent(p, q) == p.key = q.key /\ p.value = q.value

LEMMA SameTableHashed ==
  ASSUME NEW a, NEW b, SameTable(a, b), NEW S, Hashed(a, S)
  PROVE  Hashed(b, S)
  BY DEF SameTable, Hashed, NumBuckets

LEMMA LinkHolds ==
  ASSUME NEW a, IsArray(a), NEW f, Chain(a, f),
         NEW e \in Address, e \notin Live(a), NEW k \in Keys, NEW v \in Values
  PROVE  /\ IsArray(Link(a, e, k, v)) /\ SameTable(a, Link(a, e, k, v))
         /\ Link(a, e, k, v).size = a.size
         /\ Chain(Link(a, e, k, v), Append(f, e))
         /\ Live(Link(a, e, k, v)) = Live(a) \cup {e}
         /\ \A x \in Live(a) : SameContent(Link(a, e, k, v).entry[x], a.entry[x])
         /\ Link(a, e, k, v).entry[e].key = k /\ Link(a, e, k, v).entry[e].value = v
  <1> DEFINE b == Link(a, e, k, v)
             g == Append(f, e)
             new == [key |-> k, value |-> v, prev |-> a.tail, next |-> NULL]
             E == [x \in Live(a) \cup {e} |->
                     IF x = e THEN new
                     ELSE IF x = a.tail THEN [a.entry[x] EXCEPT !.next = e]
                     ELSE a.entry[x]]
  <1>1. b = [a EXCEPT !.entry = E, !.tail = e, !.head = IF @ = NULL THEN e ELSE @]
    BY DEF Link
  <1>2. /\ b.entry = E /\ b.tail = e /\ b.head = IF a.head = NULL THEN e ELSE a.head
        /\ b.buckets = a.buckets /\ b.count = a.count /\ b.size = a.size /\ IsArray(b)
    <2> HIDE DEF E
    <2> QED BY <1>1 DEF IsArray
  <1>3. Live(b) = Live(a) \cup {e}
    BY <1>2 DEF Live
  <1>4. /\ Len(f) \in Nat
        /\ \A i \in 1..Len(f) : f[i] \in Live(a) /\ f[i] \in Address /\ f[i] # NULL /\ f[i] # e
        /\ Live(a) \subseteq Address /\ e # NULL
    BY ChainFacts, TableAssumption
  <1>5. /\ g \in Seq(Address) /\ Len(g) = Len(f) + 1 /\ g[Len(f) + 1] = e
        /\ \A i \in 1..Len(f) : g[i] = f[i]
    BY DEF Chain
  <1>6. /\ a.entry \in [Live(a) -> Entry]
        /\ a.tail \in Address \cup {NULL}
        /\ a.head = NULL <=> Len(f) = 0
    <2>1. a.entry \in [Live(a) -> Entry]
      BY DEF Chain
    <2>2. CASE Len(f) = 0
      BY <2>1, <2>2 DEF Chain
    <2>3. CASE Len(f) # 0
      <3>1. 1 \in 1..Len(f) /\ Len(f) \in 1..Len(f)
        BY <1>4, <2>3
      <3> QED BY <1>4, <2>1, <2>3, <3>1 DEF Chain
    <2> QED BY <2>2, <2>3
  <1>7. \A x \in Live(a) :
          /\ E[x] \in Entry /\ E[x].key = a.entry[x].key /\ E[x].value = a.entry[x].value
          /\ E[x].prev = a.entry[x].prev
          /\ E[x].next = IF x = a.tail THEN e ELSE a.entry[x].next
    BY <1>6 DEF Entry
  <1>8. E[e] = new /\ new \in Entry /\ new.prev = a.tail /\ new.next = NULL
        /\ new.key = k /\ new.value = v
    BY <1>6 DEF Entry
  <1> HIDE DEF b, E, new
  <1>9. b.entry \in [Live(b) -> Entry]
    <2>1. E = [x \in Live(a) \cup {e} |-> E[x]]
      BY DEF E
    <2> QED BY <1>2, <1>3, <1>7, <1>8, <2>1
  <1>10. Live(b) = {g[i] : i \in 1..Len(g)}
    <2>1. Live(a) = {f[i] : i \in 1..Len(f)}
      BY DEF Chain
    <2>2. \A i \in 1..Len(g) : g[i] \in Live(b)
      BY <1>3, <1>4, <1>5
    <2>3. \A x \in Live(b) : \E i \in 1..Len(g) : g[i] = x
      <3>1. \A x \in Live(a) : \E i \in 1..Len(f) : f[i] = x
        BY <2>1
      <3>2. Len(f) + 1 \in 1..Len(g) /\ \A i \in 1..Len(f) : i \in 1..Len(g)
        BY <1>4, <1>5
      <3> QED BY <1>3, <1>5, <3>1, <3>2
    <2> HIDE DEF g
    <2> QED BY <2>2, <2>3
  <1>11. \A i, j \in 1..Len(g) : g[i] = g[j] => i = j
    <2>1. \A i \in 1..Len(g) : i \in 1..Len(f) \/ i = Len(f) + 1
      BY <1>4, <1>5
    <2>2. \A i, j \in 1..Len(f) : f[i] = f[j] => i = j
      BY DEF Chain
    <2> HIDE DEF g
    <2> QED BY <1>4, <1>5, <2>1, <2>2
  <1>12. \A i \in 1..Len(f) : f[i] = a.tail <=> i = Len(f)
    <2>1. \A i, j \in 1..Len(f) : f[i] = f[j] => i = j
      BY DEF Chain
    <2>2. ASSUME NEW i \in 1..Len(f) PROVE f[i] = a.tail <=> i = Len(f)
      <3>1. Len(f) # 0 /\ Len(f) \in 1..Len(f)
        BY <1>4
      <3>2. a.tail = f[Len(f)]
        BY <3>1 DEF Chain
      <3> QED BY <2>1, <3>1, <3>2
    <2> QED BY <2>2
  <1>13. ASSUME NEW i \in 1..Len(g)
         PROVE  /\ b.entry[g[i]].next = IF i = Len(g) THEN NULL ELSE g[i + 1]
                /\ b.entry[g[i]].prev = IF i = 1 THEN NULL ELSE g[i - 1]
    <2>1. CASE i = Len(f) + 1
      <3>1. b.entry[g[i]].next = NULL /\ b.entry[g[i]].prev = a.tail
        BY <1>2, <1>5, <1>8, <2>1
      <3>2. a.tail = IF Len(f) = 0 THEN NULL ELSE f[Len(f)]
        BY DEF Chain
      <3>3. Len(f) # 0 => Len(f) \in 1..Len(f)
        BY <1>4
      <3> QED BY <1>4, <1>5, <2>1, <3>1, <3>2, <3>3
    <2>2. CASE i \in 1..Len(f)
      <3>1. /\ a.entry[f[i]].next = IF i = Len(f) THEN NULL ELSE f[i + 1]
            /\ a.entry[f[i]].prev = IF i = 1 THEN NULL ELSE f[i - 1]
        BY <2>2 DEF Chain
      <3>2. /\ b.entry[g[i]].next = IF i = Len(f) THEN e ELSE a.entry[f[i]].next
            /\ b.entry[g[i]].prev = a.entry[f[i]].prev
        BY <1>2, <1>4, <1>5, <1>7, <1>12, <2>2
      <3>3. i # 1 => i - 1 \in 1..Len(f)
        BY <1>4, <2>2
      <3>4. i # Len(f) => i + 1 \in 1..Len(f)
        BY <1>4, <2>2
      <3> QED BY <1>4, <1>5, <2>2, <3>1, <3>2, <3>3, <3>4
    <2> QED BY <1>4, <1>5, <2>1, <2>2
  <1>14. /\ b.head = IF Len(g) = 0 THEN NULL ELSE g[1]
         /\ b.tail = IF Len(g) = 0 THEN NULL ELSE g[Len(g)]
    <2>1. a.head = IF Len(f) = 0 THEN NULL ELSE f[1]
      BY DEF Chain
    <2>2. Len(f) # 0 => 1 \in 1..Len(f)
      BY <1>4
    <2> QED BY <1>2, <1>4, <1>5, <1>6, <2>1, <2>2
  <1>15. Chain(b, g)
    <2> HIDE DEF g
    <2> QED BY <1>5, <1>9, <1>10, <1>11, <1>13, <1>14 DEF Chain
  <1> QED BY <1>2, <1>3, <1>7, <1>8, <1>15 DEF b, SameTable, SameContent

\* f without its p-th element.
Skip(f, p) == [j \in 1..(Len(f) - 1) |-> IF j < p THEN f[j] ELSE f[j + 1]]

LEMMA SkipFacts ==
  ASSUME NEW U, NEW f \in Seq(U), NEW p \in 1..Len(f),
         \A i, j \in 1..Len(f) : f[i] = f[j] => i = j
  PROVE  /\ Skip(f, p) \in Seq(U) /\ Len(Skip(f, p)) = Len(f) - 1
         /\ \A j \in 1..(Len(f) - 1) : Skip(f, p)[j] = IF j < p THEN f[j] ELSE f[j + 1]
         /\ \A i, j \in 1..(Len(f) - 1) : Skip(f, p)[i] = Skip(f, p)[j] => i = j
         /\ \A i \in 1..Len(f) : i # p => \E j \in 1..(Len(f) - 1) : Skip(f, p)[j] = f[i]
         /\ \A j \in 1..(Len(f) - 1) : Skip(f, p)[j] # f[p]
  <1>1. Len(f) \in Nat /\ Len(f) - 1 \in Nat /\ \A i \in 1..Len(f) : f[i] \in U
    OBVIOUS
  <1>2. \A j \in 1..(Len(f) - 1) :
          /\ j \in 1..Len(f) /\ j + 1 \in 1..Len(f)
          /\ Skip(f, p)[j] = IF j < p THEN f[j] ELSE f[j + 1]
    BY <1>1 DEF Skip
  <1>3. Skip(f, p) \in [1..(Len(f) - 1) -> U]
    <2>1. \A j \in 1..(Len(f) - 1) : (IF j < p THEN f[j] ELSE f[j + 1]) \in U
      BY <1>1, <1>2
    <2> QED BY <2>1 DEF Skip
  <1>4. Skip(f, p) \in Seq(U) /\ Len(Skip(f, p)) = Len(f) - 1
    BY <1>1, <1>3
  <1>5. ASSUME NEW i \in 1..(Len(f) - 1), NEW j \in 1..(Len(f) - 1),
               Skip(f, p)[i] = Skip(f, p)[j]
        PROVE  i = j
    <2>1. /\ Skip(f, p)[i] = f[IF i < p THEN i ELSE i + 1]
          /\ Skip(f, p)[j] = f[IF j < p THEN j ELSE j + 1]
      BY <1>2
    <2>2. /\ (IF i < p THEN i ELSE i + 1) \in 1..Len(f)
          /\ (IF j < p THEN j ELSE j + 1) \in 1..Len(f)
      BY <1>2
    <2>3. (IF i < p THEN i ELSE i + 1) = (IF j < p THEN j ELSE j + 1)
      BY <1>5, <2>1, <2>2
    <2> QED BY <1>1, <2>3
  <1>6. ASSUME NEW i \in 1..Len(f), i # p
        PROVE  \E j \in 1..(Len(f) - 1) : Skip(f, p)[j] = f[i]
    <2>1. CASE i < p
      <3>1. i \in 1..(Len(f) - 1) /\ Skip(f, p)[i] = f[i]
        BY <1>1, <1>2, <2>1
      <3> QED BY <3>1
    <2>2. CASE i > p
      <3>1. i - 1 \in 1..(Len(f) - 1) /\ Skip(f, p)[i - 1] = f[(i - 1) + 1]
        BY <1>1, <1>2, <2>2
      <3>2. (i - 1) + 1 = i
        OBVIOUS
      <3> QED BY <3>1, <3>2
    <2> QED BY <1>6, <2>1, <2>2
  <1>7. ASSUME NEW j \in 1..(Len(f) - 1) PROVE Skip(f, p)[j] # f[p]
    BY <1>1, <1>2
  <1> QED BY <1>2, <1>4, <1>5, <1>6, <1>7

LEMMA UnlinkHolds ==
  ASSUME NEW a, IsArray(a), NEW f, Chain(a, f), NEW p \in 1..Len(f)
  PROVE  /\ IsArray(Unlink(a, f[p])) /\ SameTable(a, Unlink(a, f[p]))
         /\ Unlink(a, f[p]).size = a.size
         /\ Chain(Unlink(a, f[p]), Skip(f, p))
         /\ Live(Unlink(a, f[p])) = Live(a) \ {f[p]}
         /\ \A x \in Live(a) \ {f[p]} : SameContent(Unlink(a, f[p]).entry[x], a.entry[x])
  <1> DEFINE e == f[p]
             N == Len(f)
             b == Unlink(a, e)
             g == Skip(f, p)
             before == a.entry[e].prev
             after == a.entry[e].next
             E == [x \in Live(a) \ {e} |->
                     [a.entry[x] EXCEPT !.next = IF x = before THEN after ELSE @,
                                        !.prev = IF x = after THEN before ELSE @]]
  <1>1. b = [a EXCEPT !.entry = E,
                      !.head = IF before = NULL THEN after ELSE @,
                      !.tail = IF after = NULL THEN before ELSE @]
    BY DEF Unlink
  <1>2. /\ b.entry = E
        /\ b.head = IF before = NULL THEN after ELSE a.head
        /\ b.tail = IF after = NULL THEN before ELSE a.tail
        /\ b.buckets = a.buckets /\ b.count = a.count /\ b.size = a.size /\ IsArray(b)
    <2> HIDE DEF E, before, after
    <2> QED BY <1>1 DEF IsArray
  <1>3. Live(b) = Live(a) \ {e}
    BY <1>2 DEF Live
  <1>4. /\ N \in Nat /\ p \in 1..N
        /\ \A i \in 1..N : f[i] \in Live(a) /\ f[i] \in Address /\ f[i] # NULL
        /\ Live(a) \subseteq Address /\ NULL \notin Live(a) /\ NULL \notin Address
        /\ \A i, j \in 1..N : f[i] = f[j] => i = j
        /\ \A x \in Live(a) : \E i \in 1..N : f[i] = x
    BY ChainFacts, TableAssumption DEF Chain
  <1>5. /\ before = IF p = 1 THEN NULL ELSE f[p - 1]
        /\ after = IF p = N THEN NULL ELSE f[p + 1]
        /\ (p # 1 => p - 1 \in 1..N) /\ (p # N => p + 1 \in 1..N)
    BY <1>4 DEF Chain
  <1>6. before \in Address \cup {NULL} /\ after \in Address \cup {NULL}
    BY <1>4, <1>5
  <1>7. a.entry \in [Live(a) -> Entry]
    BY DEF Chain
  <1>8. \A x \in Live(b) :
          /\ E[x] \in Entry /\ E[x].key = a.entry[x].key /\ E[x].value = a.entry[x].value
          /\ E[x].next = IF x = before THEN after ELSE a.entry[x].next
          /\ E[x].prev = IF x = after THEN before ELSE a.entry[x].prev
    <2> HIDE DEF before, after
    <2> QED BY <1>3, <1>6, <1>7 DEF Entry
  <1>9. b.entry \in [Live(b) -> Entry]
    <2>1. DOMAIN E = Live(b) /\ E = [x \in Live(b) |-> E[x]]
      BY <1>3
    <2> HIDE DEF E, b
    <2> QED BY <1>2, <1>8, <2>1
  <1>10. /\ g \in Seq(Address) /\ Len(g) = N - 1
         /\ \A j \in 1..(N - 1) : g[j] = IF j < p THEN f[j] ELSE f[j + 1]
         /\ \A i, j \in 1..(N - 1) : g[i] = g[j] => i = j
         /\ \A i \in 1..N : i # p => \E j \in 1..(N - 1) : g[j] = f[i]
         /\ \A j \in 1..(N - 1) : g[j] # f[p]
    <2>1. f \in Seq(Address) /\ p \in 1..Len(f)
      BY DEF Chain
    <2>2. \A i, j \in 1..Len(f) : f[i] = f[j] => i = j
      BY DEF Chain
    <2> HIDE DEF b, E, before, after
    <2> QED BY <2>1, <2>2, SkipFacts
  <1> HIDE DEF b, E, g, before, after, N
  <1>0. N \in Nat /\ N - 1 \in Nat /\ N >= 1
    <2>1. N \in Nat /\ p \in 1..N
      BY <1>4
    <2> QED BY <2>1
  <1>11. \A j \in 1..(N - 1) : j \in 1..N /\ j + 1 \in 1..N /\ g[j] \in Live(b)
    <2> SUFFICES ASSUME NEW j \in 1..(N - 1)
                 PROVE  j \in 1..N /\ j + 1 \in 1..N /\ g[j] \in Live(b)
      OBVIOUS
    <2>1. j \in 1..N /\ j + 1 \in 1..N
      BY <1>0
    <2>2. g[j] # e /\ (g[j] = f[j] \/ g[j] = f[j + 1])
      BY <1>10
    <2>3. f[j] \in Live(a) /\ f[j + 1] \in Live(a)
      BY <1>4, <2>1
    <2> QED BY <1>3, <2>1, <2>2, <2>3
  <1>12. Live(b) = {g[i] : i \in 1..Len(g)}
    <2>1. ASSUME NEW x \in Live(b)
          PROVE  \E j \in 1..(N - 1) : g[j] = x
      <3>1. x \in Live(a) /\ x # f[p]
        BY <1>3 DEF e
      <3>2. PICK i \in 1..N : f[i] = x
        BY <1>4, <3>1
      <3>3. i # p
        BY <3>1, <3>2
      <3>4. PICK j \in 1..(N - 1) : g[j] = f[i]
        BY <1>10, <3>3
      <3> QED BY <3>2, <3>4
    <2>2. \A j \in 1..Len(g) : g[j] \in Live(b)
      BY <1>10, <1>11
    <2>3. 1..Len(g) = 1..(N - 1)
      BY <1>10
    <2> QED BY <2>1, <2>2, <2>3
  <1>13. ASSUME NEW j \in 1..(N - 1)
         PROVE  /\ b.entry[g[j]].next = IF j = N - 1 THEN NULL ELSE g[j + 1]
                /\ b.entry[g[j]].prev = IF j = 1 THEN NULL ELSE g[j - 1]
    <2>1. /\ b.entry[g[j]].next = IF g[j] = before THEN after ELSE a.entry[g[j]].next
          /\ b.entry[g[j]].prev = IF g[j] = after THEN before ELSE a.entry[g[j]].prev
      BY <1>2, <1>8, <1>11
    <2>2. /\ (j # N - 1 => j + 1 \in 1..(N - 1)) /\ (j # 1 => j - 1 \in 1..(N - 1))
          /\ j \in 1..N /\ j + 1 \in 1..N
      BY <1>4
    <2>3. \A i \in 1..N : /\ a.entry[f[i]].next = IF i = N THEN NULL ELSE f[i + 1]
                          /\ a.entry[f[i]].prev = IF i = 1 THEN NULL ELSE f[i - 1]
      BY DEF Chain, N
    <2>4. CASE j < p
      <3>1. g[j] = f[j] /\ g[j] # after
        BY <1>4, <1>5, <1>10, <2>2, <2>4
      <3>2. g[j] = before <=> j = p - 1
        BY <1>4, <1>5, <2>2, <2>4, <3>1
      <3>3. b.entry[g[j]].prev = IF j = 1 THEN NULL ELSE f[j - 1]
        BY <2>1, <2>2, <2>3, <3>1
      <3>4. j # 1 => g[j - 1] = f[j - 1]
        BY <1>4, <1>10, <2>2, <2>4
      <3>5. CASE j = p - 1
        <4>1. b.entry[g[j]].next = after
          BY <2>1, <3>2, <3>5
        <4>2. j # N - 1 => g[j + 1] = f[p + 1]
          BY <1>4, <1>10, <2>2, <3>5
        <4> QED BY <1>4, <1>5, <3>3, <3>4, <3>5, <4>1, <4>2
      <3>6. CASE j # p - 1
        <4>1. b.entry[g[j]].next = f[j + 1] /\ j # N - 1
          BY <1>4, <2>1, <2>2, <2>3, <2>4, <3>1, <3>2, <3>6
        <4>2. g[j + 1] = f[j + 1]
          BY <1>4, <1>10, <2>2, <2>4, <3>6, <4>1
        <4> QED BY <3>3, <3>4, <4>1, <4>2
      <3> QED BY <3>5, <3>6
    <2>5. CASE ~(j < p)
      <3>1. g[j] = f[j + 1] /\ g[j] # before
        BY <1>4, <1>5, <1>10, <2>2, <2>5
      <3>2. g[j] = after <=> j = p
        BY <1>4, <1>5, <2>2, <2>5, <3>1
      <3>3. b.entry[g[j]].next = IF j = N - 1 THEN NULL ELSE f[j + 1 + 1]
        BY <1>4, <2>1, <2>2, <2>3, <3>1
      <3>4. j # N - 1 => g[j + 1] = f[j + 1 + 1]
        BY <1>4, <1>10, <2>2, <2>5
      <3>5. CASE j = p
        <4>1. b.entry[g[j]].prev = before
          BY <2>1, <3>2, <3>5
        <4>2. j # 1 => g[j - 1] = f[p - 1]
          BY <1>4, <1>10, <2>2, <3>5
        <4> QED BY <1>4, <1>5, <3>3, <3>4, <3>5, <4>1, <4>2
      <3>6. CASE j # p
        <4>1. b.entry[g[j]].prev = f[j] /\ j # 1
          <5>1. b.entry[g[j]].prev = a.entry[f[j + 1]].prev
            BY <2>1, <3>1, <3>2, <3>6
          <5>2. a.entry[f[j + 1]].prev = f[(j + 1) - 1] /\ (j + 1) - 1 = j
            BY <2>2, <2>3
          <5> QED BY <1>4, <2>5, <3>6, <5>1, <5>2
        <4>2. g[j - 1] = f[(j - 1) + 1] /\ (j - 1) + 1 = j
          BY <1>4, <1>10, <2>2, <2>5, <3>6, <4>1
        <4> QED BY <3>3, <3>4, <4>1, <4>2
      <3> QED BY <3>5, <3>6
    <2> QED BY <2>4, <2>5
  <1>14. /\ b.head = IF N - 1 = 0 THEN NULL ELSE g[1]
         /\ b.tail = IF N - 1 = 0 THEN NULL ELSE g[N - 1]
    <2>1. a.head = f[1] /\ a.tail = f[N]
      BY <1>0 DEF Chain, N
    <2>2. N - 1 # 0 => 1 \in 1..(N - 1) /\ N - 1 \in 1..(N - 1)
      BY <1>0
    <2>3. b.head = IF p = 1 THEN after ELSE f[1]
      BY <1>2, <1>4, <1>5, <2>1
    <2>4. b.tail = IF p = N THEN before ELSE f[N]
      BY <1>2, <1>4, <1>5, <2>1
    <2>5. b.head = IF N - 1 = 0 THEN NULL ELSE g[1]
      BY <1>4, <1>5, <1>10, <2>2, <2>3
    <2>6. b.tail = IF N - 1 = 0 THEN NULL ELSE g[N - 1]
      BY <1>4, <1>5, <1>10, <2>2, <2>4
    <2> QED BY <2>5, <2>6
  <1>15. Chain(b, g)
    <2>1. Len(g) = N - 1 /\ g \in Seq(Address)
      BY <1>10
    <2>2. \A i, j \in 1..Len(g) : g[i] = g[j] => i = j
      BY <1>10, <2>1
    <2>3. /\ b.head = IF Len(g) = 0 THEN NULL ELSE g[1]
          /\ b.tail = IF Len(g) = 0 THEN NULL ELSE g[Len(g)]
      BY <1>14, <2>1
    <2>4. \A j \in 1..Len(g) :
            /\ b.entry[g[j]].next = IF j = Len(g) THEN NULL ELSE g[j + 1]
            /\ b.entry[g[j]].prev = IF j = 1 THEN NULL ELSE g[j - 1]
      BY <1>13, <2>1
    <2> QED BY <1>9, <1>12, <2>1, <2>2, <2>3, <2>4 DEF Chain
  <1> QED BY <1>2, <1>3, <1>8, <1>15 DEF b, g, SameTable, SameContent

-----------------------------------------------------------------------------
(* The list and the table together                                         *)

SlotOf(a, e) == [key |-> a.entry[e].key, at |-> e]
Slots(a) == {SlotOf(a, e) : e \in Live(a)}

\* f is the list of a, and the table holds exactly its entries.
Well(a, f) ==
  /\ IsArray(a)
  /\ Chain(a, f)
  /\ Hashed(a, Slots(a))
  /\ a.size = Len(f)

Along(a, f) == [i \in 1..Len(f) |-> a.entry[f[i]].key]

LEMMA SlotsAre ==
  ASSUME NEW a
  PROVE  /\ \A s \in Slots(a) : s.at \in Live(a) /\ s.key = a.entry[s.at].key
                                /\ s = SlotOf(a, s.at)
         /\ \A e \in Live(a) : SlotOf(a, e) \in Slots(a) /\ SlotOf(a, e).at = e
                               /\ SlotOf(a, e).key = a.entry[e].key
  BY DEF Slots, SlotOf

\* Arrays with the same entries, their links apart, have the same slots.
LEMMA SameSlots ==
  ASSUME NEW a, NEW b, Live(a) = Live(b),
         \A e \in Live(a) : a.entry[e].key = b.entry[e].key
  PROVE  Slots(a) = Slots(b)
  <1>1. \A s \in Slots(a) : s \in Slots(b)
    BY DEF Slots, SlotOf
  <1>2. \A s \in Slots(b) : s \in Slots(a)
    BY DEF Slots, SlotOf
  <1> QED BY <1>1, <1>2

LEMMA WellFacts ==
  ASSUME NEW a, NEW f, Well(a, f)
  PROVE  /\ \A e \in Live(a) : /\ a.entry[e] \in Entry /\ a.entry[e].key \in Keys
                               /\ a.entry[e].value \in Values
                               /\ Find(a, a.entry[e].key) = e
                               /\ ArrayGet(a, a.entry[e].key) = a.entry[e].value
         /\ \A k \in Keys : \/ Find(a, k) = NULL /\ ArrayGet(a, k) = None
                            \/ /\ Find(a, k) \in Live(a) /\ Find(a, k) # NULL
                               /\ a.entry[Find(a, k)].key = k
                               /\ ArrayGet(a, k) = a.entry[Find(a, k)].value
         /\ \A d, e \in Live(a) : a.entry[d].key = a.entry[e].key => d = e
         /\ \A i, j \in 1..Len(f) : a.entry[f[i]].key = a.entry[f[j]].key => i = j
         /\ a.count = Len(f)
  <1>1. IsArray(a) /\ Chain(a, f) /\ Hashed(a, Slots(a))
    BY DEF Well
  <1>2. \A e \in Live(a) : /\ a.entry[e] \in Entry /\ a.entry[e].key \in Keys
                           /\ a.entry[e].value \in Values /\ e # NULL
    <2>1. a.entry \in [Live(a) -> Entry]
      BY <1>1 DEF Chain
    <2>2. \A e \in Live(a) : a.entry[e] \in Entry
      BY <2>1
    <2>3. NULL \notin Live(a)
      BY <1>1, ChainFacts
    <2> QED BY <2>2, <2>3 DEF Entry
  <1>3. ASSUME NEW e \in Live(a)
        PROVE  /\ Find(a, a.entry[e].key) = e
               /\ ArrayGet(a, a.entry[e].key) = a.entry[e].value
    <2>1. SlotOf(a, e) \in Slots(a) /\ SlotOf(a, e).at = e
          /\ SlotOf(a, e).key = a.entry[e].key
      BY SlotsAre
    <2>2. Find(a, a.entry[e].key) = e
      BY <1>1, <1>2, <2>1, FindIs
    <2> QED BY <1>2, <2>2 DEF ArrayGet
  <1>4. ASSUME NEW k \in Keys, Find(a, k) # NULL
        PROVE  Find(a, k) \in Live(a) /\ a.entry[Find(a, k)].key = k
    <2>1. PICK s \in Slots(a) : s.key = k /\ s.at = Find(a, k)
      BY <1>1, <1>4, FindIs
    <2> QED BY <2>1, SlotsAre
  <1>5. \A k \in Keys : ArrayGet(a, k) = IF Find(a, k) = NULL THEN None
                                         ELSE a.entry[Find(a, k)].value
    BY DEF ArrayGet
  <1>6. \A d, e \in Live(a) : a.entry[d].key = a.entry[e].key => d = e
    BY <1>3
  <1>7. \A i, j \in 1..Len(f) : a.entry[f[i]].key = a.entry[f[j]].key => i = j
    <2>1. \A i \in 1..Len(f) : f[i] \in Live(a)
      BY <1>1, ChainFacts
    <2>2. \A i, j \in 1..Len(f) : f[i] = f[j] => i = j
      BY <1>1 DEF Chain
    <2> QED BY <1>6, <2>1, <2>2
  <1>8. a.count = Len(f)
    <2>1. a.count = Cardinality(Slots(a))
      BY <1>1 DEF Hashed
    <2> DEFINE g == [i \in 1..Len(f) |-> SlotOf(a, f[i])]
    <2>2. \A i \in 1..Len(f) : f[i] \in Live(a) /\ g[i] \in Slots(a) /\ g[i].at = f[i]
      BY <1>1, ChainFacts, SlotsAre
    <2>3. \A i, j \in 1..Len(f) : g[i] = g[j] => i = j
      <3>1. \A i, j \in 1..Len(f) : f[i] = f[j] => i = j
        BY <1>1 DEF Chain
      <3> HIDE DEF g
      <3> QED BY <2>2, <3>1
    <2>4. \A s \in Slots(a) : \E i \in 1..Len(f) : g[i] = s
      <3>1. \A e \in Live(a) : \E i \in 1..Len(f) : f[i] = e
        BY <1>1, ChainFacts
      <3>2. \A s \in Slots(a) : s.at \in Live(a) /\ s = SlotOf(a, s.at)
        BY SlotsAre
      <3> QED BY <3>1, <3>2
    <2>5. g \in [1..Len(f) -> Slots(a)]
      BY <2>2
    <2>6. ExistsBijection(1..Len(f), Slots(a))
      <3> HIDE DEF g
      <3>1. g \in Surjection(1..Len(f), Slots(a))
        BY <2>4, <2>5 DEF Surjection
      <3>2. g \in Injection(1..Len(f), Slots(a))
        BY <2>3, <2>5 DEF Injection, IsInjective
      <3> QED BY <3>1, <3>2 DEF Bijection, ExistsBijection
    <2>7. Len(f) \in Nat
      BY <1>1, ChainFacts
    <2> QED BY <2>1, <2>6, <2>7, FS_NatBijection, FS_CountingElements
  <1> QED BY <1>2, <1>3, <1>4, <1>5, <1>6, <1>7, <1>8

LEMMA WellEmpty ==
  ASSUME NEW a, IsArray(a), a.entry = <<>>, a.head = NULL, a.tail = NULL, a.size = 0,
         a.count = 0, NEW n \in Nat, a.buckets = [i \in 0..(n - 1) |-> {}]
  PROVE  Well(a, <<>>)
  <1>1. Live(a) = {} /\ Slots(a) = {}
    BY DEF Live, Slots
  <1>2. Chain(a, <<>>)
    BY <1>1 DEF Chain
  <1>3. Hashed(a, Slots(a))
    BY <1>1, FS_EmptySet DEF Hashed
  <1> QED BY <1>2, <1>3 DEF Well

LEMMA WellNew == Well(NewArray, <<>>)
  <1> DEFINE n == IF InitialBuckets < 4 THEN 4 ELSE InitialBuckets
  <1>1. n \in Nat
    BY TableAssumption
  <1>2. NewArray.buckets = [i \in 0..(n - 1) |-> {}]
    BY DEF NewArray, EmptyBuckets
  <1>3. /\ IsArray(NewArray) /\ NewArray.entry = <<>> /\ NewArray.head = NULL
        /\ NewArray.tail = NULL /\ NewArray.size = 0 /\ NewArray.count = 0
    BY DEF NewArray, IsArray
  <1> HIDE DEF n
  <1> QED BY <1>1, <1>2, <1>3, WellEmpty

LEMMA WellClear == Well(ArrayClear, <<>>)
  <1>1. ArrayClear = [entry |-> <<>>, head |-> NULL, tail |-> NULL,
                      buckets |-> <<>>, count |-> 0, size |-> 0]
    BY DEF ArrayClear, NewArray
  <1>2. <<>> = [i \in 0..(0 - 1) |-> {}]
    OBVIOUS
  <1>3. IsArray(ArrayClear)
    BY <1>1 DEF IsArray
  <1> QED BY <1>1, <1>2, <1>3, WellEmpty

\* An assignment to a key that is there changes its value, and only that.
LEMMA SetPresent ==
  ASSUME NEW a, NEW f, Well(a, f), NEW k \in Keys, NEW v \in Values, Find(a, k) # NULL
  PROVE  /\ Well(ArraySet(a, k, v), f)
         /\ Along(ArraySet(a, k, v), f) = Along(a, f)
         /\ \A j \in Keys : ArrayGet(ArraySet(a, k, v), j) = IF j = k THEN v ELSE ArrayGet(a, j)
  <1> DEFINE b == ArraySet(a, k, v)
             e == Find(a, k)
             E == [a.entry EXCEPT ![e].value = v]
  <1>1. IsArray(a) /\ Chain(a, f) /\ Hashed(a, Slots(a)) /\ a.size = Len(f)
    BY DEF Well
  <1>2. e \in Live(a) /\ a.entry[e].key = k
    BY WellFacts
  <1>3. b = [a EXCEPT !.entry[e].value = v]
    BY DEF ArraySet
  <1>4. /\ b.entry = E /\ IsArray(b) /\ SameTable(a, b)
        /\ b.head = a.head /\ b.tail = a.tail /\ b.size = a.size
    <2> HIDE DEF e
    <2> QED BY <1>1, <1>3 DEF IsArray, SameTable
  <1>5. a.entry \in [Live(a) -> Entry]
    BY <1>1 DEF Chain
  <1>6. /\ E \in [Live(a) -> Entry]
        /\ \A x \in Live(a) : /\ E[x].key = a.entry[x].key
                              /\ E[x].next = a.entry[x].next /\ E[x].prev = a.entry[x].prev
                              /\ E[x].value = IF x = e THEN v ELSE a.entry[x].value
    <2>1. DOMAIN E = Live(a) /\ E = [x \in Live(a) |-> E[x]]
      BY <1>5
    <2>2. \A x \in Live(a) : E[x] = IF x = e THEN [a.entry[x] EXCEPT !.value = v] ELSE a.entry[x]
      BY <1>5
    <2>3. \A x \in Live(a) : a.entry[x] \in Entry
      BY <1>5
    <2> HIDE DEF E, e
    <2>4. \A x \in Live(a) : /\ E[x] \in Entry /\ E[x].key = a.entry[x].key
                             /\ E[x].next = a.entry[x].next /\ E[x].prev = a.entry[x].prev
                             /\ E[x].value = IF x = e THEN v ELSE a.entry[x].value
      BY <2>2, <2>3 DEF Entry
    <2> QED BY <2>1, <2>4
  <1>7. Live(b) = Live(a)
    BY <1>4, <1>6 DEF Live
  <1>8. \A i \in 1..Len(f) : f[i] \in Live(a)
    BY <1>1, ChainFacts
  <1> HIDE DEF b, E, e
  <1>9. Chain(b, f)
    <2>1. b.entry \in [Live(b) -> Entry]
      BY <1>4, <1>6, <1>7
    <2>2. \A i \in 1..Len(f) : /\ b.entry[f[i]].next = a.entry[f[i]].next
                               /\ b.entry[f[i]].prev = a.entry[f[i]].prev
      BY <1>4, <1>6, <1>8
    <2> QED BY <1>1, <1>4, <1>7, <2>1, <2>2 DEF Chain
  <1>10. Slots(b) = Slots(a)
    BY <1>4, <1>6, <1>7, SameSlots
  <1>11. Well(b, f)
    BY <1>1, <1>4, <1>9, <1>10, SameTableHashed DEF Well
  <1>12. Along(b, f) = Along(a, f)
    BY <1>4, <1>6, <1>8 DEF Along
  <1>13. \A j \in Keys : Find(b, j) = Find(a, j)
    BY <1>4 DEF Find, Hits, SameTable, NumBuckets
  <1>14. ASSUME NEW j \in Keys
         PROVE  ArrayGet(b, j) = IF j = k THEN v ELSE ArrayGet(a, j)
    <2>1. CASE j = k
      BY <1>2, <1>4, <1>6, <1>13, <2>1 DEF ArrayGet, e
    <2>2. CASE j # k
      <3>1. CASE Find(a, j) = NULL
        BY <1>13, <2>2, <3>1 DEF ArrayGet
      <3>2. CASE Find(a, j) # NULL
        <4>1. Find(a, j) \in Live(a) /\ a.entry[Find(a, j)].key = j
          BY <3>2, WellFacts
        <4>2. Find(a, j) # e
          BY <1>2, <2>2, <4>1
        <4> QED BY <1>4, <1>6, <1>13, <2>2, <3>2, <4>1, <4>2 DEF ArrayGet
      <3> QED BY <3>1, <3>2
    <2> QED BY <2>1, <2>2
  <1> QED BY <1>11, <1>12, <1>14 DEF b

\* A new key comes behind the others.
LEMMA SetNew ==
  ASSUME NEW a, NEW f, Well(a, f), NEW k \in Keys, NEW v \in Values, Find(a, k) = NULL,
         Address \ Live(a) # {}
  PROVE  \E e \in Address :
           /\ Well(ArraySet(a, k, v), Append(f, e))
           /\ Along(ArraySet(a, k, v), Append(f, e)) = Append(Along(a, f), k)
           /\ \A j \in Keys :
                ArrayGet(ArraySet(a, k, v), j) = IF j = k THEN v ELSE ArrayGet(a, j)
  <1> DEFINE e == CHOOSE x \in Address : x \notin Live(a)
             l == Link(a, e, k, v)
             t == IndexSet(l, k, e)
             b == ArraySet(a, k, v)
             g == Append(f, e)
  <1>1. IsArray(a) /\ Chain(a, f) /\ Hashed(a, Slots(a)) /\ a.size = Len(f)
    BY DEF Well
  <1>2. e \in Address /\ e \notin Live(a)
    OBVIOUS
  <1>3. b = [t EXCEPT !.size = @ + 1]
    BY DEF ArraySet
  <1> HIDE DEF e
  <1>4. /\ IsArray(l) /\ SameTable(a, l) /\ l.size = a.size /\ Chain(l, g)
        /\ Live(l) = Live(a) \cup {e}
        /\ \A x \in Live(a) : SameContent(l.entry[x], a.entry[x])
        /\ l.entry[e].key = k /\ l.entry[e].value = v
    BY <1>1, <1>2, LinkHolds
  <1>5. Hashed(l, Slots(a))
    BY <1>1, <1>4, SameTableHashed
  <1>6. /\ Hashed(t, Others(Slots(a), k) \cup {[key |-> k, at |-> e]})
        /\ IsArray(t) /\ SameList(l, t)
    <2> HIDE DEF l
    <2> QED BY <1>2, <1>4, <1>5, IndexSetHolds
  <1> HIDE DEF l, t, b, g
  <1>7. \A s \in Slots(a) : s.key # k
    <2>1. \A x \in Live(a) : x # NULL
      BY <1>1, ChainFacts
    <2>2. \A x \in Live(a) : a.entry[x].key # k
      BY <2>1, WellFacts
    <2> QED BY <2>2, SlotsAre
  <1>8. Others(Slots(a), k) = Slots(a)
    BY <1>7 DEF Others
  <1>9. /\ b.entry = l.entry /\ b.head = l.head /\ b.tail = l.tail
        /\ b.buckets = t.buckets /\ b.count = t.count
        /\ b.size = Len(f) + 1 /\ IsArray(b)
    BY <1>1, <1>3, <1>4, <1>6 DEF IsArray, SameList
  <1>10. Live(b) = Live(a) \cup {e}
    BY <1>4, <1>9 DEF Live
  <1>11. /\ \A x \in Live(a) : /\ b.entry[x].key = a.entry[x].key
                               /\ b.entry[x].value = a.entry[x].value
         /\ b.entry[e].key = k /\ b.entry[e].value = v
    BY <1>4, <1>9 DEF SameContent
  <1>12. Slots(b) = Slots(a) \cup {[key |-> k, at |-> e]}
    <2>1. \A s \in Slots(b) : s \in Slots(a) \cup {[key |-> k, at |-> e]}
      BY <1>10, <1>11 DEF Slots, SlotOf
    <2>2. \A s \in Slots(a) \cup {[key |-> k, at |-> e]} : s \in Slots(b)
      BY <1>10, <1>11 DEF Slots, SlotOf
    <2> QED BY <2>1, <2>2
  <1>13. Hashed(b, Slots(b))
    BY <1>6, <1>8, <1>9, <1>12, SameTableHashed DEF SameTable
  <1>14. Chain(b, g)
    BY <1>4, <1>9 DEF Chain, Live
  <1>15. /\ g \in Seq(Address) /\ Len(g) = Len(f) + 1 /\ g[Len(f) + 1] = e
         /\ \A i \in 1..Len(f) : g[i] = f[i] /\ f[i] \in Live(a)
         /\ Len(f) \in Nat
    BY <1>1, <1>2, ChainFacts DEF g, Chain
  <1>16. Well(b, g)
    BY <1>9, <1>13, <1>14, <1>15 DEF Well
  <1>17. Along(b, g) = Append(Along(a, f), k)
    <2>1. Along(a, f) \in Seq(Keys) /\ Len(Along(a, f)) = Len(f)
          /\ \A i \in 1..Len(f) : Along(a, f)[i] = a.entry[f[i]].key
      <3>1. \A i \in 1..Len(f) : a.entry[f[i]].key \in Keys
        BY <1>15, WellFacts
      <3> QED BY <1>15, <3>1 DEF Along
    <2>2. /\ Append(Along(a, f), k) \in Seq(Keys)
          /\ DOMAIN Append(Along(a, f), k) = 1..(Len(f) + 1)
          /\ Append(Along(a, f), k)[Len(f) + 1] = k
          /\ \A i \in 1..Len(f) : Append(Along(a, f), k)[i] = a.entry[f[i]].key
      BY <1>15, <2>1
    <2>3. \A i \in 1..(Len(f) + 1) : b.entry[g[i]].key = Append(Along(a, f), k)[i]
      <3>1. \A i \in 1..Len(f) : b.entry[g[i]].key = a.entry[f[i]].key
        BY <1>11, <1>15
      <3>2. b.entry[g[Len(f) + 1]].key = k
        BY <1>11, <1>15
      <3>3. \A i \in 1..(Len(f) + 1) : i \in 1..Len(f) \/ i = Len(f) + 1
        BY <1>15
      <3> QED BY <2>2, <3>1, <3>2, <3>3
    <2> QED BY <1>15, <2>2, <2>3 DEF Along
  <1>18. ASSUME NEW j \in Keys
         PROVE  ArrayGet(b, j) = IF j = k THEN v ELSE ArrayGet(a, j)
    <2>1. CASE j = k
      BY <1>10, <1>11, <1>16, <2>1, WellFacts
    <2>2. CASE j # k /\ Find(a, j) # NULL
      <3>1. /\ Find(a, j) \in Live(a) /\ a.entry[Find(a, j)].key = j
            /\ ArrayGet(a, j) = a.entry[Find(a, j)].value
        BY <2>2, WellFacts
      <3>2. /\ Find(a, j) \in Live(b) /\ b.entry[Find(a, j)].key = j
            /\ b.entry[Find(a, j)].value = ArrayGet(a, j)
        BY <1>10, <1>11, <3>1
      <3>3. ArrayGet(b, j) = b.entry[Find(a, j)].value
        BY <1>16, <3>2, WellFacts
      <3> QED BY <2>2, <3>2, <3>3
    <2>3. CASE j # k /\ Find(a, j) = NULL
      <3>1. ArrayGet(a, j) = None
        BY <2>3 DEF ArrayGet
      <3>2. \A x \in Live(a) : x # NULL
        BY <1>1, ChainFacts
      <3>3. \A x \in Live(a) : a.entry[x].key # j
        BY <2>3, <3>2, WellFacts
      <3>4. \A x \in Live(b) : b.entry[x].key # j
        BY <1>10, <1>11, <2>3, <3>3
      <3>5. ArrayGet(b, j) = None
        BY <1>16, <3>4, WellFacts
      <3> QED BY <2>3, <3>1, <3>5
    <2> QED BY <2>1, <2>2, <2>3
  <1> QED BY <1>2, <1>16, <1>17, <1>18 DEF b, g

LEMMA FindInChain ==
  ASSUME NEW a, NEW f, Well(a, f), NEW k \in Keys
  PROVE  /\ Find(a, k) # NULL => \E p \in 1..Len(f) : f[p] = Find(a, k) /\ Along(a, f)[p] = k
         /\ (\E p \in 1..Len(f) : Along(a, f)[p] = k) => Find(a, k) # NULL
  <1>1. Chain(a, f)
    BY DEF Well
  <1>2. \A p \in 1..Len(f) : f[p] \in Live(a) /\ f[p] # NULL /\ Along(a, f)[p] = a.entry[f[p]].key
    BY <1>1, ChainFacts DEF Along
  <1>3. ASSUME Find(a, k) # NULL
        PROVE  \E p \in 1..Len(f) : f[p] = Find(a, k) /\ Along(a, f)[p] = k
    <2>1. Find(a, k) \in Live(a) /\ a.entry[Find(a, k)].key = k
      BY <1>3, WellFacts
    <2>2. PICK p \in 1..Len(f) : f[p] = Find(a, k)
      BY <1>1, <2>1, ChainFacts
    <2> QED BY <1>2, <2>1, <2>2
  <1>4. ASSUME NEW p \in 1..Len(f), Along(a, f)[p] = k PROVE Find(a, k) # NULL
    BY <1>2, <1>4, WellFacts
  <1> QED BY <1>3, <1>4

LEMMA AlongFacts ==
  ASSUME NEW a, NEW f, Well(a, f)
  PROVE  /\ Along(a, f) \in Seq(Keys) /\ Len(Along(a, f)) = Len(f)
         /\ \A i, j \in 1..Len(f) : Along(a, f)[i] = Along(a, f)[j] => i = j
         /\ \A i \in 1..Len(f) : Along(a, f)[i] = a.entry[f[i]].key
  <1>1. Len(f) \in Nat /\ \A i \in 1..Len(f) : f[i] \in Live(a)
    BY ChainFacts DEF Well
  <1>2. \A i \in 1..Len(f) : a.entry[f[i]].key \in Keys
    BY <1>1, WellFacts
  <1>3. Along(a, f) \in Seq(Keys) /\ Len(Along(a, f)) = Len(f)
        /\ \A i \in 1..Len(f) : Along(a, f)[i] = a.entry[f[i]].key
    BY <1>1, <1>2 DEF Along
  <1>4. \A i, j \in 1..Len(f) : a.entry[f[i]].key = a.entry[f[j]].key => i = j
    BY WellFacts
  <1> QED BY <1>3, <1>4

\* A deletion takes one key out of the order and leaves the others in it.
LEMMA DeletePresent ==
  ASSUME NEW a, NEW f, Well(a, f), NEW k \in Keys, NEW p \in 1..Len(f), Along(a, f)[p] = k
  PROVE  /\ Well(ArrayDelete(a, k), Skip(f, p))
         /\ Along(ArrayDelete(a, k), Skip(f, p)) = Skip(Along(a, f), p)
         /\ Live(ArrayDelete(a, k)) = Live(a) \ {f[p]}
         /\ \A j \in Keys :
              ArrayGet(ArrayDelete(a, k), j) = IF j = k THEN None ELSE ArrayGet(a, j)
  <1> DEFINE e == f[p]
             l == Unlink(a, e)
             t == IndexErase(l, k)
             b == ArrayDelete(a, k)
             g == Skip(f, p)
  <1>1. IsArray(a) /\ Chain(a, f) /\ Hashed(a, Slots(a)) /\ a.size = Len(f)
    BY DEF Well
  <1>2. Find(a, k) = e /\ e \in Live(a) /\ a.entry[e].key = k /\ e # NULL
    <2>1. e \in Live(a) /\ e # NULL
      BY <1>1, ChainFacts
    <2>2. a.entry[e].key = k
      BY AlongFacts
    <2> QED BY <2>1, <2>2, WellFacts
  <1>3. b = [t EXCEPT !.size = IF @ > 0 THEN @ - 1 ELSE @]
    <2> HIDE DEF e
    <2> QED BY <1>2 DEF ArrayDelete
  <1>4. /\ IsArray(l) /\ SameTable(a, l) /\ l.size = a.size /\ Chain(l, g)
        /\ Live(l) = Live(a) \ {e}
        /\ \A x \in Live(a) \ {e} : SameContent(l.entry[x], a.entry[x])
    BY <1>1, UnlinkHolds
  <1>5. Hashed(l, Slots(a))
    BY <1>1, <1>4, SameTableHashed
  <1> HIDE DEF e, l, b, g
  <1>6. Hashed(t, Others(Slots(a), k)) /\ IsArray(t) /\ SameList(l, t)
    BY <1>4, <1>5, EraseHolds
  <1> HIDE DEF t
  <1>7. /\ Len(f) \in Nat /\ Len(f) > 0 /\ f \in Seq(Address)
        /\ \A i, j \in 1..Len(f) : f[i] = f[j] => i = j
    BY <1>1, ChainFacts DEF Chain
  <1>8. /\ b.entry = l.entry /\ b.head = l.head /\ b.tail = l.tail
        /\ b.buckets = t.buckets /\ b.count = t.count
        /\ b.size = Len(f) - 1 /\ IsArray(b)
    BY <1>1, <1>3, <1>4, <1>6, <1>7 DEF IsArray, SameList
  <1>9. Live(b) = Live(a) \ {e}
    BY <1>4, <1>8 DEF Live
  <1>10. \A x \in Live(b) : /\ b.entry[x].key = a.entry[x].key
                            /\ b.entry[x].value = a.entry[x].value
    BY <1>4, <1>8, <1>9 DEF SameContent
  <1>11. Slots(b) = Others(Slots(a), k)
    <2>1. \A x \in Live(a) : a.entry[x].key = k => x = e
      BY <1>2, WellFacts
    <2>2. \A s \in Slots(b) : s \in Slots(a) /\ s.key # k
      BY <1>9, <1>10, <2>1 DEF Slots, SlotOf
    <2>3. \A s \in Slots(a) : s.key # k => s \in Slots(b)
      BY <1>2, <1>9, <1>10 DEF Slots, SlotOf
    <2> QED BY <2>2, <2>3 DEF Others
  <1>12. Hashed(b, Slots(b))
    BY <1>6, <1>8, <1>11, SameTableHashed DEF SameTable
  <1>13. Chain(b, g)
    BY <1>4, <1>8 DEF Chain, Live
  <1>14. /\ g \in Seq(Address) /\ Len(g) = Len(f) - 1
         /\ \A j \in 1..(Len(f) - 1) : g[j] = IF j < p THEN f[j] ELSE f[j + 1]
    BY <1>7, SkipFacts DEF g
  <1>15. Well(b, g)
    BY <1>8, <1>12, <1>13, <1>14 DEF Well
  <1>16. Along(b, g) = Skip(Along(a, f), p)
    <2>1. \A j \in 1..(Len(f) - 1) :
            /\ j \in 1..Len(f) /\ j + 1 \in 1..Len(f)
            /\ g[j] \in Live(b) /\ b.entry[g[j]].key = a.entry[g[j]].key
      BY <1>7, <1>10, <1>13, <1>14, ChainFacts
    <2>2. Len(Along(a, f)) = Len(f) /\ \A i \in 1..Len(f) : Along(a, f)[i] = a.entry[f[i]].key
      BY AlongFacts
    <2>3. \A j \in 1..(Len(f) - 1) :
            b.entry[g[j]].key = IF j < p THEN Along(a, f)[j] ELSE Along(a, f)[j + 1]
      BY <1>14, <2>1, <2>2
    <2>4. Along(b, g) = [j \in 1..(Len(f) - 1) |-> b.entry[g[j]].key]
      BY <1>14 DEF Along
    <2> QED BY <2>2, <2>3, <2>4 DEF Skip
  <1>17. ASSUME NEW j \in Keys
         PROVE  ArrayGet(b, j) = IF j = k THEN None ELSE ArrayGet(a, j)
    <2>1. CASE j = k
      <3>1. \A x \in Live(b) : b.entry[x].key # k
        BY <1>2, <1>9, <1>10, WellFacts
      <3> QED BY <1>15, <2>1, <3>1, WellFacts
    <2>2. CASE j # k /\ Find(a, j) # NULL
      <3>1. /\ Find(a, j) \in Live(a) /\ a.entry[Find(a, j)].key = j
            /\ ArrayGet(a, j) = a.entry[Find(a, j)].value
        BY <2>2, WellFacts
      <3>2. /\ Find(a, j) \in Live(b) /\ b.entry[Find(a, j)].key = j
            /\ b.entry[Find(a, j)].value = ArrayGet(a, j)
        BY <1>2, <1>9, <1>10, <2>2, <3>1
      <3>3. ArrayGet(b, j) = b.entry[Find(a, j)].value
        BY <1>15, <3>2, WellFacts
      <3> QED BY <2>2, <3>2, <3>3
    <2>3. CASE j # k /\ Find(a, j) = NULL
      <3>1. ArrayGet(a, j) = None
        BY <2>3 DEF ArrayGet
      <3>2. \A x \in Live(a) : x # NULL
        BY <1>1, ChainFacts
      <3>3. \A x \in Live(a) : a.entry[x].key # j
        BY <2>3, <3>2, WellFacts
      <3>4. \A x \in Live(b) : b.entry[x].key # j
        BY <1>9, <1>10, <3>3
      <3>5. ArrayGet(b, j) = None
        BY <1>15, <3>4, WellFacts
      <3> QED BY <2>3, <3>1, <3>5
    <2> QED BY <2>1, <2>2, <2>3
  <1> QED BY <1>9, <1>15, <1>16, <1>17 DEF b, g, e

LEMMA DeleteAbsent ==
  ASSUME NEW a, NEW k, Find(a, k) = NULL
  PROVE  ArrayDelete(a, k) = a
  BY DEF ArrayDelete

\* One step of Walk, and all it steps through.
Visited(a, i, before) ==
  LET e == IF i = 1 THEN a.head ELSE a.entry[before[i - 1]].next IN
  IF Len(before) < i - 1 \/ e = NULL THEN before ELSE Append(before, e)

IsVisit(v, a, n) ==
  v = [i \in 0..n |-> IF i = 0 THEN <<>> ELSE Visited(a, i, v[i - 1])]

\* What array_foreach visits is the list.
LEMMA WalkIs ==
  ASSUME NEW a, NEW f, Chain(a, f)
  PROVE  Walk(a) = f
  <1> DEFINE N == Cardinality(Live(a))
             first(n) == [i \in 1..n |-> f[i]]
             w == [n \in 0..N |-> first(n)]
             v == CHOOSE v : IsVisit(v, a, N)
             T == {n \in 0..N : v[n] = first(n)}
  <1>1. N = Len(f) /\ N \in Nat
    BY ChainFacts
  <1>2. /\ f \in Seq(Address) /\ NULL \notin Address
        /\ \A i \in 1..N : f[i] \in Address /\ f[i] # NULL
        /\ a.head = IF N = 0 THEN NULL ELSE f[1]
        /\ \A i \in 1..N : a.entry[f[i]].next = IF i = N THEN NULL ELSE f[i + 1]
    <2>1. \A i \in 1..Len(f) : f[i] \in Address /\ f[i] # NULL
      BY ChainFacts
    <2>2. /\ f \in Seq(Address) /\ a.head = IF Len(f) = 0 THEN NULL ELSE f[1]
          /\ \A i \in 1..Len(f) : a.entry[f[i]].next = IF i = Len(f) THEN NULL ELSE f[i + 1]
      BY DEF Chain
    <2> HIDE DEF N
    <2> QED BY <1>1, <2>1, <2>2, TableAssumption
  <1>0. Walk(a) = v[N]
    BY DEF Walk, IsVisit, Visited
  <1> HIDE DEF N
  <1>3. ASSUME NEW i \in 1..N PROVE first(i) = Visited(a, i, first(i - 1))
    <2>1. first(i - 1) \in Seq(Address) /\ Len(first(i - 1)) = i - 1
      BY <1>1, <1>2
    <2>2. i # 1 => i - 1 \in 1..N /\ first(i - 1)[i - 1] = f[i - 1]
      BY <1>1
    <2>3. (IF i = 1 THEN a.head ELSE a.entry[first(i - 1)[i - 1]].next) = f[i]
      BY <1>1, <1>2, <2>2
    <2>4. Visited(a, i, first(i - 1)) = Append(first(i - 1), f[i])
      <3> HIDE DEF first
      <3> QED BY <1>1, <1>2, <2>1, <2>3 DEF Visited
    <2>5. Append(first(i - 1), f[i]) = first(i)
      <3>1. /\ Append(first(i - 1), f[i]) \in Seq(Address)
            /\ DOMAIN Append(first(i - 1), f[i]) = 1..i
            /\ Append(first(i - 1), f[i])[i] = f[i]
            /\ \A j \in 1..(i - 1) : Append(first(i - 1), f[i])[j] = f[j]
        <4>1. \A j \in 1..(i - 1) : first(i - 1)[j] = f[j]
          OBVIOUS
        <4> HIDE DEF first
        <4> QED BY <1>1, <1>2, <2>1, <4>1
      <3>2. \A j \in 1..i : Append(first(i - 1), f[i])[j] = f[j]
        BY <3>1
      <3>3. Append(first(i - 1), f[i]) = [j \in 1..i |-> Append(first(i - 1), f[i])[j]]
        BY <3>1
      <3> QED BY <3>2, <3>3
    <2> QED BY <2>4, <2>5
  <1>4. first(0) = <<>>
    OBVIOUS
  <1>5. IsVisit(w, a, N)
    <2>1. \A i \in 0..N : w[i] = first(i) /\ (i # 0 => i \in 1..N /\ w[i - 1] = first(i - 1))
      BY <1>1
    <2> HIDE DEF first
    <2>2. \A i \in 0..N : w[i] = IF i = 0 THEN <<>> ELSE Visited(a, i, w[i - 1])
      BY <1>3, <1>4, <2>1
    <2>3. w = [i \in 0..N |-> w[i]]
      OBVIOUS
    <2> HIDE DEF w
    <2> QED BY <2>2, <2>3 DEF IsVisit
  <1>6. \A n \in 0..N : v[n] = IF n = 0 THEN <<>> ELSE Visited(a, n, v[n - 1])
    <2>1. IsVisit(v, a, N)
      BY <1>5
    <2> HIDE DEF v
    <2> QED BY <2>1 DEF IsVisit
  <1> HIDE DEF v, first
  <1>7. 0..N \subseteq T
    <2>1. 0 \in T
      BY <1>1, <1>4, <1>6
    <2>2. ASSUME NEW n \in 0..(N - 1), n \in T PROVE n + 1 \in T
      <3>1. n + 1 \in 1..N /\ (n + 1) - 1 = n /\ v[n] = first(n)
        BY <1>1, <2>2
      <3>2. v[n + 1] = Visited(a, n + 1, first(n))
        BY <1>6, <3>1
      <3>3. first(n + 1) = Visited(a, n + 1, first(n))
        BY <1>3, <3>1
      <3> QED BY <3>1, <3>2, <3>3
    <2> HIDE DEF T
    <2> QED BY <1>1, <2>1, <2>2, UpFromZero
  <1>8. v[N] = first(N)
    BY <1>1, <1>7
  <1> QED BY <1>0, <1>1, <1>2, <1>8 DEF first

-----------------------------------------------------------------------------
(* The same without the addresses                                          *)

Sound(a) == \E f : Well(a, f)
Has(a, k) == \E i \in 1..Len(KeysOf(a)) : KeysOf(a)[i] = k

LEMMA KeysAre ==
  ASSUME NEW a, NEW f, Well(a, f)
  PROVE  KeysOf(a) = Along(a, f)
  <1>1. Walk(a) = f /\ DOMAIN f = 1..Len(f)
    BY WalkIs, ChainFacts DEF Well
  <1> QED BY <1>1 DEF KeysOf, Along

LEMMA SoundFacts ==
  ASSUME NEW a, Sound(a)
  PROVE  /\ KeysOf(a) \in Seq(Keys) /\ Len(KeysOf(a)) = a.size
         /\ DOMAIN KeysOf(a) = 1..a.size /\ a.size \in Nat
         /\ \A i, j \in 1..a.size : KeysOf(a)[i] = KeysOf(a)[j] => i = j
         /\ \A k \in Keys : IF Has(a, k) THEN ArrayGet(a, k) \in Values /\ Find(a, k) # NULL
                            ELSE ArrayGet(a, k) = None /\ Find(a, k) = NULL
         /\ \A i \in 1..a.size : KeysOf(a)[i] \in Keys /\ Has(a, KeysOf(a)[i])
         /\ IsFiniteSet(Live(a)) /\ Cardinality(Live(a)) = a.size /\ Live(a) \subseteq Address
  <1>1. PICK f : Well(a, f)
    BY DEF Sound
  <1>2. Chain(a, f) /\ a.size = Len(f)
    BY <1>1 DEF Well
  <1>3. KeysOf(a) = Along(a, f)
    BY <1>1, KeysAre
  <1>4. /\ KeysOf(a) \in Seq(Keys) /\ Len(KeysOf(a)) = a.size /\ a.size \in Nat
        /\ \A i, j \in 1..a.size : KeysOf(a)[i] = KeysOf(a)[j] => i = j
    BY <1>1, <1>2, <1>3, AlongFacts, ChainFacts
  <1>5. ASSUME NEW k \in Keys
        PROVE  IF Has(a, k) THEN ArrayGet(a, k) \in Values /\ Find(a, k) # NULL
               ELSE ArrayGet(a, k) = None /\ Find(a, k) = NULL
    <2>1. Has(a, k) <=> Find(a, k) # NULL
      BY <1>1, <1>2, <1>3, <1>4, FindInChain DEF Has
    <2>2. Find(a, k) # NULL => ArrayGet(a, k) \in Values
      BY <1>1, WellFacts
    <2> QED BY <2>1, <2>2 DEF ArrayGet
  <1>6. \A i \in 1..a.size : KeysOf(a)[i] \in Keys /\ Has(a, KeysOf(a)[i])
    BY <1>4 DEF Has
  <1>7. IsFiniteSet(Live(a)) /\ Cardinality(Live(a)) = a.size /\ Live(a) \subseteq Address
    BY <1>2, ChainFacts
  <1> QED BY <1>4, <1>5, <1>6, <1>7

LEMMA SoundEmpty ==
  /\ Sound(NewArray) /\ KeysOf(NewArray) = <<>>
  /\ Sound(ArrayClear) /\ KeysOf(ArrayClear) = <<>>
  <1>1. Well(NewArray, <<>>) /\ Well(ArrayClear, <<>>)
    BY WellNew, WellClear
  <1>2. \A a : Along(a, <<>>) = <<>>
    BY DEF Along
  <1> QED BY <1>1, <1>2, KeysAre DEF Sound

LEMMA SoundSet ==
  ASSUME NEW a, Sound(a), NEW k \in Keys, NEW v \in Values, Address \ Live(a) # {}
  PROVE  /\ Sound(ArraySet(a, k, v))
         /\ KeysOf(ArraySet(a, k, v)) = IF Has(a, k) THEN KeysOf(a) ELSE Append(KeysOf(a), k)
         /\ \A j \in Keys :
              ArrayGet(ArraySet(a, k, v), j) = IF j = k THEN v ELSE ArrayGet(a, j)
  <1>1. PICK f : Well(a, f)
    BY DEF Sound
  <1>2. KeysOf(a) = Along(a, f)
    BY <1>1, KeysAre
  <1>3. CASE Find(a, k) # NULL
    <2>1. Has(a, k)
      BY <1>3, SoundFacts
    <2>2. /\ Well(ArraySet(a, k, v), f) /\ Along(ArraySet(a, k, v), f) = Along(a, f)
          /\ \A j \in Keys :
               ArrayGet(ArraySet(a, k, v), j) = IF j = k THEN v ELSE ArrayGet(a, j)
      BY <1>1, <1>3, SetPresent
    <2>3. KeysOf(ArraySet(a, k, v)) = KeysOf(a)
      BY <1>2, <2>2, KeysAre
    <2> QED BY <2>1, <2>2, <2>3 DEF Sound
  <1>4. CASE Find(a, k) = NULL
    <2>1. ~Has(a, k)
      BY <1>4, SoundFacts
    <2>2. PICK e \in Address :
            /\ Well(ArraySet(a, k, v), Append(f, e))
            /\ Along(ArraySet(a, k, v), Append(f, e)) = Append(Along(a, f), k)
            /\ \A j \in Keys :
                 ArrayGet(ArraySet(a, k, v), j) = IF j = k THEN v ELSE ArrayGet(a, j)
      BY <1>1, <1>4, SetNew
    <2>3. KeysOf(ArraySet(a, k, v)) = Append(KeysOf(a), k)
      BY <1>2, <2>2, KeysAre
    <2> QED BY <2>1, <2>2, <2>3 DEF Sound
  <1> QED BY <1>3, <1>4

LEMMA SoundDelete ==
  ASSUME NEW a, Sound(a), NEW k \in Keys
  PROVE  /\ Sound(ArrayDelete(a, k))
         /\ ~Has(a, k) => ArrayDelete(a, k) = a
         /\ \A p \in 1..a.size : KeysOf(a)[p] = k => KeysOf(ArrayDelete(a, k)) = Skip(KeysOf(a), p)
         /\ \A j \in Keys :
              ArrayGet(ArrayDelete(a, k), j) = IF j = k THEN None ELSE ArrayGet(a, j)
         /\ Live(ArrayDelete(a, k)) \subseteq Live(a)
  <1>1. PICK f : Well(a, f)
    BY DEF Sound
  <1>2. KeysOf(a) = Along(a, f) /\ a.size = Len(f)
    BY <1>1, KeysAre DEF Well
  <1>3. CASE ~Has(a, k)
    <2>1. ArrayDelete(a, k) = a /\ ArrayGet(a, k) = None
      BY <1>3, DeleteAbsent, SoundFacts
    <2>2. \A p \in 1..a.size : KeysOf(a)[p] # k
      BY <1>3, SoundFacts DEF Has
    <2> QED BY <2>1, <2>2
  <1>4. CASE Has(a, k)
    <2>1. PICK q \in 1..a.size : KeysOf(a)[q] = k
      BY <1>4, SoundFacts DEF Has
    <2>2. /\ Well(ArrayDelete(a, k), Skip(f, q))
          /\ Along(ArrayDelete(a, k), Skip(f, q)) = Skip(Along(a, f), q)
          /\ Live(ArrayDelete(a, k)) = Live(a) \ {f[q]}
          /\ \A j \in Keys :
               ArrayGet(ArrayDelete(a, k), j) = IF j = k THEN None ELSE ArrayGet(a, j)
      BY <1>1, <1>2, <2>1, DeletePresent
    <2>3. KeysOf(ArrayDelete(a, k)) = Skip(KeysOf(a), q)
      BY <1>2, <2>2, KeysAre
    <2>4. \A p \in 1..a.size : KeysOf(a)[p] = k => p = q
      BY <2>1, SoundFacts
    <2> QED BY <1>4, <2>2, <2>3, <2>4 DEF Sound
  <1> QED BY <1>3, <1>4

-----------------------------------------------------------------------------
(* Sorted                                                                  *)

Below(s, n) == {i \in DOMAIN s : s[i] < n}
UpTo(s, n) == {i \in DOMAIN s : s[i] <= n}

\* There is an r-th number, so that Sorted picks one of s.
LEMMA SortedFacts ==
  ASSUME NEW s \in Seq(Int)
  PROVE  /\ DOMAIN Sorted(s) = 1..Len(s) /\ Sorted(s) \in Seq(Int) /\ Len(Sorted(s)) = Len(s)
         /\ \A r \in 1..Len(s) : /\ \E i \in DOMAIN s : Sorted(s)[r] = s[i]
                                 /\ Cardinality(Below(s, Sorted(s)[r])) < r
                                 /\ Cardinality(UpTo(s, Sorted(s)[r])) >= r
  <1> DEFINE V == {s[i] : i \in DOMAIN s}
             Nth(n, r) == Cardinality(Below(s, n)) < r /\ Cardinality(UpTo(s, n)) >= r
  <1>1. /\ DOMAIN s = 1..Len(s) /\ Len(s) \in Nat /\ IsFiniteSet(DOMAIN s)
        /\ Cardinality(DOMAIN s) = Len(s) /\ \A i \in DOMAIN s : s[i] \in Int
    <2>1. DOMAIN s = 1..Len(s) /\ Len(s) \in Nat
      OBVIOUS
    <2>2. IsFiniteSet(DOMAIN s) /\ Cardinality(DOMAIN s) = Len(s)
      BY <2>1, FirstNumbers
    <2> QED BY <2>1, <2>2
  <1>2. IsFiniteSet(V) /\ V \in SUBSET Int
    <2>1. s \in Surjection(DOMAIN s, V)
      BY <1>1 DEF Surjection
    <2> HIDE DEF V
    <2>2. IsFiniteSet(V)
      BY <1>1, <2>1, FS_Surjection
    <2> USE DEF V
    <2> QED BY <1>1, <2>2
  <1>3. \A n \in Int : /\ Below(s, n) \in SUBSET DOMAIN s /\ UpTo(s, n) \in SUBSET DOMAIN s
                       /\ IsFiniteSet(Below(s, n)) /\ Cardinality(Below(s, n)) \in Nat
                       /\ IsFiniteSet(UpTo(s, n)) /\ Cardinality(UpTo(s, n)) \in Nat
    <2>1. \A n \in Int : Below(s, n) \in SUBSET DOMAIN s /\ UpTo(s, n) \in SUBSET DOMAIN s
      BY DEF Below, UpTo
    <2> QED BY <1>1, <2>1, FS_Subset, FS_CardinalityType
  <1>4. ASSUME NEW r \in 1..Len(s) PROVE \E n \in V : Nth(n, r)
    <2> DEFINE L == {n \in V : Cardinality(UpTo(s, n)) >= r}
    <2>1. L # {} /\ L \in SUBSET Int
      <3>1. V # {}
        BY <1>1
      <3>2. PICK m \in V : \A n \in V : n <= m
        <4> HIDE DEF V
        <4> QED BY <1>2, <3>1, GreatestOf
      <3>3. UpTo(s, m) = DOMAIN s
        BY <3>2 DEF UpTo
      <3>4. Cardinality(UpTo(s, m)) >= r
        BY <1>1, <3>3
      <3> HIDE DEF V
      <3> QED BY <1>2, <3>2, <3>4
    <2>2. PICK n \in L : \A m \in L : n <= m
      <3> DEFINE neg == {0 - x : x \in L}
      <3>1. IsFiniteSet(L)
        <4>1. L \in SUBSET V
          OBVIOUS
        <4> HIDE DEF L, V
        <4> QED BY <1>2, <4>1, FS_Subset
      <3>2. IsFiniteSet(neg) /\ neg \in SUBSET Int /\ neg # {}
        <4>1. [x \in L |-> 0 - x] \in Surjection(L, neg)
          <5> HIDE DEF L
          <5> QED BY DEF Surjection
        <4> HIDE DEF L
        <4>2. neg \in SUBSET Int /\ neg # {}
          <5>1. \A x \in L : 0 - x \in Int
            BY <2>1
          <5> QED BY <2>1, <5>1
        <4> HIDE DEF neg
        <4> QED BY <3>1, <4>1, <4>2, FS_Surjection
      <3>3. PICK y \in neg : \A z \in neg : z <= y
        <4> HIDE DEF neg
        <4> QED BY <3>2, GreatestOf
      <3> HIDE DEF L
      <3>4. PICK n \in L : y = 0 - n
        BY <3>3
      <3>5. \A m \in L : 0 - m <= 0 - n
        BY <3>3, <3>4
      <3> QED BY <2>1, <3>4, <3>5
    <2>3. Cardinality(Below(s, n)) < r
      <3>1. CASE Below(s, n) = {}
        <4>1. Cardinality(Below(s, n)) = 0
          BY <3>1, FS_EmptySet
        <4> QED BY <1>1, <4>1
      <3>2. CASE Below(s, n) # {}
        <4> DEFINE W == {m \in V : m < n}
        <4>1. W # {} /\ W \in SUBSET V
          BY <3>2 DEF Below
        <4>2. IsFiniteSet(W) /\ W \in SUBSET Int
          <5> HIDE DEF W, V
          <5> QED BY <1>2, <4>1, FS_Subset
        <4>3. PICK m \in W : \A x \in W : x <= m
          <5> HIDE DEF W
          <5> QED BY <4>1, <4>2, GreatestOf
        <4>4. m \in V /\ m < n /\ m \in Int /\ n \in Int
          BY <1>2, <2>1, <2>2, <4>3
        <4>5. \A i \in DOMAIN s : s[i] < n <=> s[i] <= m
          <5>1. \A i \in DOMAIN s : s[i] < n => s[i] <= m
            BY <4>3
          <5>2. \A i \in DOMAIN s : s[i] \in Int
            BY <1>1
          <5>3. \A x \in Int : x <= m => x < n
            BY <4>4
          <5> HIDE DEF V
          <5> QED BY <5>1, <5>2, <5>3
        <4>6. Below(s, n) = UpTo(s, m)
          BY <4>5 DEF Below, UpTo
        <4>7. m \notin L
          BY <2>1, <2>2, <4>4
        <4>8. ~(Cardinality(UpTo(s, m)) >= r)
          BY <4>4, <4>7
        <4>9. Cardinality(UpTo(s, m)) \in Nat /\ r \in Nat
          BY <1>1, <1>3, <4>4
        <4> HIDE DEF V, L, W
        <4> QED BY <4>6, <4>8, <4>9
      <3> QED BY <3>1, <3>2
    <2> QED BY <2>2, <2>3
  <1>5. \A r \in 1..Len(s) : Sorted(s)[r] = CHOOSE n \in V : Nth(n, r)
    BY DEF Sorted, Below, UpTo
  <1>6. \A r \in 1..Len(s) : Sorted(s)[r] \in V /\ Nth(Sorted(s)[r], r)
    <2> HIDE DEF V, Nth
    <2> QED BY <1>4, <1>5
  <1>7. Sorted(s) \in [1..Len(s) -> Int]
    <2>1. Sorted(s) = [r \in 1..Len(s) |-> CHOOSE n \in V : Nth(n, r)]
      BY Zenon DEF Sorted, Below, UpTo
    <2>2. \A r \in 1..Len(s) : Sorted(s)[r] \in Int
      BY <1>2, <1>6
    <2> HIDE DEF V, Nth
    <2> QED BY <2>1, <2>2
  <1>8. Sorted(s) \in Seq(Int) /\ Len(Sorted(s)) = Len(s) /\ DOMAIN Sorted(s) = 1..Len(s)
    BY <1>1, <1>7
  <1> QED BY <1>6, <1>8

-----------------------------------------------------------------------------
(* Refill                                                                  *)

Pairs == [key : Keys, value : Values]

IsFill(g, pairs, n) ==
  g = [i \in 0..n |-> IF i = 0 THEN ArrayClear
                      ELSE ArraySet(g[i - 1], pairs[i].key, pairs[i].value)]

\* b holds the first n pairs.
HoldsFirst(b, pairs, n) ==
  /\ Sound(b) /\ b.size <= n
  /\ (\A i, j \in 1..n : pairs[i].key = pairs[j].key => i = j) =>
       /\ KeysOf(b) = [i \in 1..n |-> pairs[i].key]
       /\ \A i \in 1..n : ArrayGet(b, pairs[i].key) = pairs[i].value

LEMMA FillExists ==
  ASSUME NEW pairs, NEW N \in Nat
  PROVE  \E g : IsFill(g, pairs, N)
  <1> DEFINE T == {n \in 0..N : \E g : IsFill(g, pairs, n)}
  <1>1. 0 \in T
    <2>1. IsFill([i \in 0..0 |-> ArrayClear], pairs, 0)
      BY DEF IsFill
    <2> QED BY <2>1
  <1>2. ASSUME NEW n \in 0..(N - 1), n \in T PROVE n + 1 \in T
    <2>1. PICK g : IsFill(g, pairs, n)
      BY <1>2
    <2> DEFINE h == [i \in 0..(n + 1) |->
                       IF i = n + 1 THEN ArraySet(g[n], pairs[i].key, pairs[i].value)
                       ELSE g[i]]
    <2>2. \A i \in 0..n :
            g[i] = IF i = 0 THEN ArrayClear
                   ELSE ArraySet(g[i - 1], pairs[i].key, pairs[i].value)
      BY <2>1 DEF IsFill
    <2>3. \A i \in 0..(n + 1) :
            h[i] = IF i = 0 THEN ArrayClear
                   ELSE ArraySet(h[i - 1], pairs[i].key, pairs[i].value)
      BY <2>2
    <2>4. h = [i \in 0..(n + 1) |->
                 IF i = 0 THEN ArrayClear
                 ELSE ArraySet(h[i - 1], pairs[i].key, pairs[i].value)]
      BY <2>3
    <2>5. IsFill(h, pairs, n + 1)
      BY <2>4 DEF IsFill
    <2> QED BY <2>5
  <1>3. 0..N \subseteq T
    <2> HIDE DEF T
    <2> QED BY <1>1, <1>2, UpFromZero
  <1>4. N \in T
    BY <1>3
  <1> QED BY <1>4

LEMMA HoldsFurther ==
  ASSUME NEW pairs \in Seq(Pairs), NEW n \in Nat, n + 1 \in 1..Len(pairs),
         NEW b, HoldsFirst(b, pairs, n), Address \ Live(b) # {}
  PROVE  HoldsFirst(ArraySet(b, pairs[n + 1].key, pairs[n + 1].value), pairs, n + 1)
  <1> DEFINE k == pairs[n + 1].key
             v == pairs[n + 1].value
             c == ArraySet(b, k, v)
  <1>1. /\ k \in Keys /\ v \in Values
        /\ \A i \in 1..(n + 1) : pairs[i].key \in Keys /\ i \in 1..Len(pairs)
    <2>1. \A i \in 1..Len(pairs) : pairs[i] \in Pairs
      OBVIOUS
    <2>2. \A i \in 1..(n + 1) : i \in 1..Len(pairs)
      OBVIOUS
    <2> QED BY <2>1, <2>2 DEF Pairs
  <1>2. Sound(b) /\ b.size <= n
    BY DEF HoldsFirst
  <1> HIDE DEF k, v, c
  <1>3. /\ Sound(c)
        /\ KeysOf(c) = IF Has(b, k) THEN KeysOf(b) ELSE Append(KeysOf(b), k)
        /\ \A j \in Keys : ArrayGet(c, j) = IF j = k THEN v ELSE ArrayGet(b, j)
    BY <1>1, <1>2, SoundSet DEF c
  <1>4. KeysOf(b) \in Seq(Keys) /\ Len(KeysOf(b)) = b.size /\ b.size \in Nat
    BY <1>2, SoundFacts
  <1>5. c.size <= n + 1
    <2>1. c.size = Len(KeysOf(c))
      BY <1>3, SoundFacts
    <2>2. Len(KeysOf(c)) <= b.size + 1
      BY <1>1, <1>3, <1>4
    <2> QED BY <1>2, <1>4, <2>1, <2>2
  <1>6. ASSUME \A i, j \in 1..(n + 1) : pairs[i].key = pairs[j].key => i = j
        PROVE  /\ KeysOf(c) = [i \in 1..(n + 1) |-> pairs[i].key]
               /\ \A i \in 1..(n + 1) : ArrayGet(c, pairs[i].key) = pairs[i].value
    <2>1. /\ KeysOf(b) = [i \in 1..n |-> pairs[i].key]
          /\ \A i \in 1..n : ArrayGet(b, pairs[i].key) = pairs[i].value
      <3>1. \A i, j \in 1..n : pairs[i].key = pairs[j].key => i = j
        BY <1>6
      <3> QED BY <3>1 DEF HoldsFirst
    <2>2. \A i \in 1..n : pairs[i].key # k
      BY <1>6 DEF k
    <2>3. Len(KeysOf(b)) = n /\ ~Has(b, k)
      BY <2>1, <2>2 DEF Has
    <2>4. KeysOf(c) = Append(KeysOf(b), k)
      BY <1>3, <2>3
    <2>5. /\ DOMAIN KeysOf(c) = 1..(n + 1) /\ KeysOf(c)[n + 1] = k
          /\ \A i \in 1..n : KeysOf(c)[i] = pairs[i].key
          /\ KeysOf(c) = [i \in 1..(n + 1) |-> KeysOf(c)[i]]
      BY <1>1, <1>4, <2>1, <2>3, <2>4
    <2>6. \A i \in 1..(n + 1) : i \in 1..n \/ i = n + 1
      OBVIOUS
    <2>7. \A i \in 1..(n + 1) : KeysOf(c)[i] = pairs[i].key
      BY <2>5, <2>6 DEF k
    <2>8. \A i \in 1..(n + 1) : ArrayGet(c, pairs[i].key) = pairs[i].value
      BY <1>1, <1>3, <2>1, <2>2, <2>6 DEF k, v
    <2> QED BY <2>5, <2>7, <2>8
  <1> QED BY <1>3, <1>5, <1>6 DEF HoldsFirst, c, k, v

\* With room for all the pairs, Refill makes a sound array of them; one that
\* holds them in their order, if no key comes twice.
LEMMA RefillHolds ==
  ASSUME NEW pairs \in Seq(Pairs), NEW A \in SUBSET Address, IsFiniteSet(A),
         Len(pairs) <= Cardinality(A)
  PROVE  HoldsFirst(Refill(pairs), pairs, Len(pairs))
  <1> DEFINE N == Len(pairs)
             g == CHOOSE g : IsFill(g, pairs, N)
             T == {n \in 0..N : HoldsFirst(g[n], pairs, n)}
  <1>1. N \in Nat
    OBVIOUS
  <1>2. Refill(pairs) = g[N]
    BY DEF Refill, IsFill
  <1>3. \A n \in 0..N : g[n] = IF n = 0 THEN ArrayClear
                               ELSE ArraySet(g[n - 1], pairs[n].key, pairs[n].value)
    <2>1. IsFill(g, pairs, N)
      BY <1>1, FillExists
    <2> HIDE DEF g
    <2> QED BY <2>1 DEF IsFill
  <1> HIDE DEF g
  <1>4. 0 \in T
    <2>1. g[0] = ArrayClear /\ Sound(ArrayClear) /\ KeysOf(ArrayClear) = <<>>
      BY <1>1, <1>3, SoundEmpty
    <2>2. ArrayClear.size = 0
      BY <2>1, SoundFacts
    <2>3. HoldsFirst(g[0], pairs, 0)
      BY <2>1, <2>2 DEF HoldsFirst
    <2> QED BY <1>1, <2>3
  <1>5. ASSUME NEW n \in 0..(N - 1), n \in T PROVE n + 1 \in T
    <2>1. n \in Nat /\ n + 1 \in 1..N /\ (n + 1) - 1 = n /\ n < N /\ n + 1 \in 0..N
      BY <1>1
    <2>2. HoldsFirst(g[n], pairs, n)
      BY <1>5
    <2>3. Address \ Live(g[n]) # {}
      <3>1. IsFiniteSet(Live(g[n])) /\ Cardinality(Live(g[n])) = g[n].size
            /\ g[n].size <= n /\ g[n].size \in Nat
        BY <2>2, SoundFacts DEF HoldsFirst
      <3>2. ~(A \subseteq Live(g[n]))
        <4>1. A \subseteq Live(g[n]) => Cardinality(A) <= Cardinality(Live(g[n]))
          BY <3>1, FS_Subset
        <4>2. Cardinality(A) \in Nat
          BY FS_CardinalityType
        <4> QED BY <1>1, <2>1, <3>1, <4>1, <4>2
      <3> QED BY <3>2
    <2>4. g[n + 1] = ArraySet(g[n], pairs[n + 1].key, pairs[n + 1].value)
      <3>1. n + 1 # 0
        BY <2>1
      <3> QED BY <1>3, <2>1, <3>1
    <2>5. HoldsFirst(g[n + 1], pairs, n + 1)
      BY <2>1, <2>2, <2>3, <2>4, HoldsFurther
    <2> QED BY <2>1, <2>5
  <1>6. 0..N \subseteq T
    <2> HIDE DEF T
    <2> QED BY <1>1, <1>4, <1>5, UpFromZero
  <1> QED BY <1>1, <1>2, <1>6

-----------------------------------------------------------------------------
(* The built-ins that read and rebuild                                     *)

NumberKeys == {k \in Keys : Number[k] # {}}
NameKeys == {k \in Keys : Number[k] = {}}

LEMMA NumFacts ==
  ASSUME NEW k \in NumberKeys
  PROVE  Num(k) \in Number[k] /\ Num(k) \in DOMAIN Decimal /\ Num(k) \in Int
         /\ Number[k] = {Num(k)} /\ Decimal[Num(k)] \in Keys
         /\ Number[Decimal[Num(k)]] = {Num(k)}
  <1>1. Num(k) \in Number[k]
    BY DEF Num, NumberKeys
  <1>2. Number[k] \subseteq DOMAIN Decimal /\ \A m, n \in Number[k] : m = n
    BY KeyAssumption DEF NumberKeys
  <1> QED BY <1>1, <1>2, KeyAssumption

LEMMA NumbersFacts ==
  ASSUME NEW a, Sound(a)
  PROVE  /\ Only(KeysOf(a), NumberKeys) \in Seq(NumberKeys)
         /\ NumbersOf(a) \in Seq(Int) /\ Len(NumbersOf(a)) = Len(Only(KeysOf(a), NumberKeys))
         /\ \A i \in 1..Len(NumbersOf(a)) :
              /\ NumbersOf(a)[i] = Num(Only(KeysOf(a), NumberKeys)[i])
              /\ NumbersOf(a)[i] \in DOMAIN Decimal
         /\ Len(NumbersOf(a)) + Len(Only(KeysOf(a), NameKeys)) = a.size
  <1> DEFINE s == KeysOf(a)
             o == Only(s, NumberKeys)
  <1>1. s \in Seq(Keys) /\ Len(s) = a.size /\ DOMAIN s = 1..a.size /\ a.size \in Nat
    BY SoundFacts
  <1> HIDE DEF s
  <1>2. o \in Seq(Keys \cap NumberKeys) /\ Len(o) = Cardinality(Places(s, NumberKeys))
    BY <1>1, OnlyFacts
  <1>3. Keys \cap NumberKeys = NumberKeys
    BY DEF NumberKeys
  <1> HIDE DEF o
  <1>4. o \in Seq(NumberKeys) /\ DOMAIN o = 1..Len(o) /\ Len(o) \in Nat
    BY <1>2, <1>3
  <1>5. NumbersOf(a) = [i \in DOMAIN o |-> Num(o[i])]
    BY DEF NumbersOf, NumberKeys, s, o
  <1>6. \A i \in 1..Len(o) : Num(o[i]) \in Int /\ Num(o[i]) \in DOMAIN Decimal
    <2>1. \A i \in 1..Len(o) : o[i] \in NumberKeys
      BY <1>4
    <2> QED BY <2>1, NumFacts
  <1>7. /\ NumbersOf(a) \in Seq(Int) /\ Len(NumbersOf(a)) = Len(o)
        /\ \A i \in 1..Len(o) : NumbersOf(a)[i] = Num(o[i])
    BY <1>4, <1>5, <1>6
  <1>8. Len(o) + Len(Only(s, NameKeys)) = a.size
    <2> DEFINE P == Places(s, NumberKeys)
               Q == Places(s, NameKeys)
    <2>1. Len(Only(s, NameKeys)) = Cardinality(Q)
      BY <1>1, OnlyFacts
    <2>2. P \cup Q = DOMAIN s /\ P \cap Q = {}
      <3>1. \A i \in DOMAIN s : s[i] \in Keys
        BY <1>1
      <3>2. \A k \in Keys : (k \in NumberKeys \/ k \in NameKeys) /\ ~(k \in NumberKeys /\ k \in NameKeys)
        BY DEF NumberKeys, NameKeys
      <3> QED BY <1>1, <3>1, <3>2 DEF Places
    <2>3. IsFiniteSet(DOMAIN s) /\ Cardinality(DOMAIN s) = a.size
      BY <1>1, FirstNumbers
    <2>4. P \in SUBSET DOMAIN s /\ Q \in SUBSET DOMAIN s
      BY <1>1 DEF Places
    <2> HIDE DEF P, Q
    <2>5. /\ IsFiniteSet(P) /\ IsFiniteSet(Q)
          /\ Cardinality(P) \in Nat /\ Cardinality(Q) \in Nat
      BY <2>3, <2>4, FS_Subset, FS_CardinalityType
    <2>6. Cardinality(P \cup Q) = Cardinality(P) + Cardinality(Q) - Cardinality(P \cap Q)
      BY <2>5, FS_Union
    <2>7. Cardinality(P \cap Q) = 0
      BY <2>2, FS_EmptySet
    <2>8. Cardinality(P) + Cardinality(Q) = a.size
      BY <2>2, <2>3, <2>5, <2>6, <2>7
    <2>9. Len(o) = Cardinality(P)
      BY <1>2 DEF P
    <2> QED BY <2>1, <2>8, <2>9
  <1> QED BY <1>4, <1>6, <1>7, <1>8 DEF s, o

LEMMA IndicesFacts ==
  ASSUME NEW a, Sound(a)
  PROVE  /\ Indices(a) \in Seq(Int) /\ Len(Indices(a)) = Len(NumbersOf(a))
         /\ \A r \in 1..Len(Indices(a)) : Indices(a)[r] \in DOMAIN Decimal
         /\ Len(Indices(a)) \in Nat
  <1>1. /\ NumbersOf(a) \in Seq(Int)
        /\ \A i \in 1..Len(NumbersOf(a)) : NumbersOf(a)[i] \in DOMAIN Decimal
    BY NumbersFacts
  <1>2. /\ Indices(a) \in Seq(Int) /\ Len(Indices(a)) = Len(NumbersOf(a))
        /\ \A r \in 1..Len(NumbersOf(a)) :
             \E i \in DOMAIN NumbersOf(a) : Indices(a)[r] = NumbersOf(a)[i]
    BY <1>1, SortedFacts DEF Indices
  <1>3. DOMAIN NumbersOf(a) = 1..Len(NumbersOf(a))
    BY <1>1
  <1> QED BY <1>1, <1>2, <1>3

LEMMA NamedFacts ==
  ASSUME NEW a, Sound(a)
  PROVE  /\ Named(a) \in Seq(Pairs) /\ Len(Named(a)) = Len(Only(KeysOf(a), NameKeys))
         /\ \A i \in 1..Len(Named(a)) :
              /\ Named(a)[i].key = Only(KeysOf(a), NameKeys)[i]
              /\ Named(a)[i].key \in NameKeys /\ Has(a, Named(a)[i].key)
              /\ Named(a)[i].value = ArrayGet(a, Named(a)[i].key)
  <1> DEFINE s == KeysOf(a)
             o == Only(s, NameKeys)
  <1>1. s \in Seq(Keys) /\ DOMAIN s = 1..a.size /\ \A i \in 1..a.size : Has(a, s[i])
    BY SoundFacts
  <1> HIDE DEF s
  <1>2. /\ o \in Seq(Keys \cap NameKeys)
        /\ \A j \in DOMAIN o : \E i \in DOMAIN s : o[j] = s[i]
    BY <1>1, OnlyFacts
  <1>3. Keys \cap NameKeys = NameKeys /\ NameKeys \subseteq Keys
    BY DEF NameKeys
  <1> HIDE DEF o
  <1>4. /\ DOMAIN o = 1..Len(o) /\ Len(o) \in Nat
        /\ \A i \in 1..Len(o) : o[i] \in NameKeys /\ o[i] \in Keys /\ Has(a, o[i])
    BY <1>1, <1>2, <1>3
  <1>5. Named(a) = [i \in DOMAIN o |-> Pair(o[i], ArrayGet(a, o[i]))]
    BY DEF Named, NameKeys, s, o
  <1>6. \A i \in 1..Len(o) : /\ Pair(o[i], ArrayGet(a, o[i])) \in Pairs
                             /\ Pair(o[i], ArrayGet(a, o[i])).key = o[i]
                             /\ Pair(o[i], ArrayGet(a, o[i])).value = ArrayGet(a, o[i])
    BY <1>4, SoundFacts DEF Pair, Pairs
  <1>7. Named(a) \in Seq(Pairs) /\ Len(Named(a)) = Len(o)
    BY <1>4, <1>5, <1>6
  <1>8. \A i \in 1..Len(o) : Named(a)[i] = Pair(o[i], ArrayGet(a, o[i]))
    BY <1>4, <1>5
  <1> QED BY <1>4, <1>6, <1>7, <1>8 DEF s, o

LEMMA RenumberedFacts ==
  ASSUME NEW a, Sound(a), NEW ns \in Seq(DOMAIN Decimal), NEW first \in Int,
         \A i \in 1..Len(ns) : i - 1 + first \in DOMAIN Decimal
  PROVE  Renumbered(a, ns, first) \in Seq(Pairs) /\ Len(Renumbered(a, ns, first)) <= Len(ns)
  <1> DEFINE s == [i \in DOMAIN ns |-> i]
             S == {i \in DOMAIN ns : Find(a, Decimal[ns[i]]) # NULL}
             o == Only(s, S)
  <1>1. /\ DOMAIN ns = 1..Len(ns) /\ Len(ns) \in Nat
        /\ \A i \in 1..Len(ns) : Decimal[ns[i]] \in Keys
    <2>1. \A i \in 1..Len(ns) : ns[i] \in DOMAIN Decimal
      OBVIOUS
    <2> QED BY <2>1, KeyAssumption
  <1>2. s \in Seq(1..Len(ns)) /\ Len(s) = Len(ns) /\ DOMAIN s = 1..Len(ns)
    BY <1>1
  <1> HIDE DEF s
  <1>3. o \in Seq((1..Len(ns)) \cap S) /\ Len(o) = Cardinality(Places(s, S))
    <2> HIDE DEF S
    <2> QED BY <1>2, OnlyFacts
  <1>4. Len(o) <= Len(ns)
    <2>1. IsFiniteSet(1..Len(ns)) /\ Cardinality(1..Len(ns)) = Len(ns)
      BY <1>1, FirstNumbers
    <2> DEFINE P == Places(s, S)
    <2>2. P \in SUBSET (1..Len(ns))
      BY <1>2 DEF Places
    <2> HIDE DEF P
    <2>3. Cardinality(P) <= Len(ns)
      BY <2>1, <2>2, FS_Subset
    <2> QED BY <1>3, <2>3 DEF P
  <1>5. \A j \in 1..Len(o) : /\ o[j] \in 1..Len(ns)
                             /\ Find(a, Decimal[ns[o[j]]]) # NULL
    BY <1>3
  <1>6. DOMAIN o = 1..Len(o) /\ Len(o) \in Nat
    BY <1>3
  <1>7. Renumbered(a, ns, first)
          = [j \in DOMAIN o |-> Pair(Decimal[o[j] - 1 + first], ArrayGet(a, Decimal[ns[o[j]]]))]
    BY DEF Renumbered, s
  <1> HIDE DEF o
  <1>8. ASSUME NEW j \in 1..Len(o)
        PROVE  Pair(Decimal[o[j] - 1 + first], ArrayGet(a, Decimal[ns[o[j]]])) \in Pairs
    <2>1. Decimal[o[j] - 1 + first] \in Keys
      BY <1>5, KeyAssumption
    <2>2. ArrayGet(a, Decimal[ns[o[j]]]) \in Values
      BY <1>1, <1>5, SoundFacts
    <2> QED BY <2>1, <2>2 DEF Pair, Pairs
  <1>9. Renumbered(a, ns, first) \in Seq(Pairs) /\ Len(Renumbered(a, ns, first)) = Len(o)
    BY <1>6, <1>7, <1>8
  <1> QED BY <1>4, <1>9

\* Deleting a key that is a number leaves the names as they were.
LEMMA OnlyEmbedded ==
  ASSUME NEW U, NEW s \in Seq(U), NEW t \in Seq(U), NEW S,
         NEW e \in [1..Len(t) -> 1..Len(s)],
         \A i, j \in 1..Len(t) : i < j => e[i] < e[j],
         \A j \in 1..Len(t) : t[j] = s[e[j]],
         \A i \in 1..Len(s) : s[i] \in S => \E j \in 1..Len(t) : e[j] = i
  PROVE  Only(t, S) = Only(s, S)
  <1>1. PICK m \in Nat : \E h : IsOnly(h, m, t, S)
    BY OnlyBy
  <1>2. PICK h : Rising(h, m, Places(t, S)) /\ Only(t, S) = [j \in 1..m |-> t[h[j]]]
    BY <1>1 DEF IsOnly
  <1> DEFINE g == [j \in 1..m |-> e[h[j]]]
  <1>3. /\ \A i \in 1..m : h[i] \in 1..Len(t) /\ t[h[i]] \in S
        /\ \A i, j \in 1..m : i < j => h[i] < h[j]
        /\ \A i \in 1..Len(t) : t[i] \in S => \E j \in 1..m : h[j] = i
    BY <1>2 DEF Rising, Places
  <1>4. g \in [1..m -> Places(s, S)]
    BY <1>3 DEF Places
  <1>5. \A i, j \in 1..m : i < j => g[i] < g[j]
    BY <1>3
  <1>6. ASSUME NEW p \in Places(s, S) PROVE \E i \in 1..m : g[i] = p
    <2>1. p \in 1..Len(s) /\ s[p] \in S
      BY DEF Places
    <2>2. PICK j \in 1..Len(t) : e[j] = p
      BY <2>1
    <2>3. PICK i \in 1..m : h[i] = j
      BY <1>3, <2>1, <2>2
    <2> QED BY <2>2, <2>3
  <1>7. Rising(g, m, Places(s, S))
    <2> HIDE DEF g
    <2> QED BY <1>4, <1>5, <1>6 DEF Rising
  <1>8. Only(s, S) = [j \in 1..m |-> s[g[j]]]
    <2> HIDE DEF g
    <2> QED BY <1>7, OnlyIsThis
  <1>9. \A j \in 1..m : s[g[j]] = t[h[j]]
    BY <1>3
  <1> QED BY <1>2, <1>8, <1>9

LEMMA OnlySkip ==
  ASSUME NEW U, NEW s \in Seq(U), NEW S, NEW p \in 1..Len(s), s[p] \notin S
  PROVE  Only(Skip(s, p), S) = Only(s, S)
  <1> DEFINE t == Skip(s, p)
             e == [j \in 1..Len(t) |-> IF j < p THEN j ELSE j + 1]
  <1>1. Len(s) \in Nat /\ Len(s) - 1 \in Nat /\ \A i \in 1..Len(s) : s[i] \in U
    OBVIOUS
  <1>2. t \in [1..(Len(s) - 1) -> U]
    <2>1. \A j \in 1..(Len(s) - 1) : (IF j < p THEN s[j] ELSE s[j + 1]) \in U
      BY <1>1
    <2> QED BY <2>1 DEF Skip
  <1>3. t \in Seq(U) /\ Len(t) = Len(s) - 1
    BY <1>1, <1>2
  <1>4. \A j \in 1..Len(t) : t[j] = IF j < p THEN s[j] ELSE s[j + 1]
    BY <1>3 DEF Skip
  <1> HIDE DEF t
  <1>5. e \in [1..Len(t) -> 1..Len(s)]
    BY <1>1, <1>3
  <1>6. \A i, j \in 1..Len(t) : i < j => e[i] < e[j]
    BY <1>1, <1>3
  <1>7. \A j \in 1..Len(t) : t[j] = s[e[j]]
    BY <1>4
  <1>8. ASSUME NEW i \in 1..Len(s), s[i] \in S PROVE \E j \in 1..Len(t) : e[j] = i
    <2>1. CASE i < p
      <3>1. i \in 1..Len(t) /\ e[i] = i
        BY <1>1, <1>3, <2>1
      <3> QED BY <3>1
    <2>2. CASE i > p
      <3>1. i - 1 \in 1..Len(t) /\ e[i - 1] = (i - 1) + 1
        BY <1>1, <1>3, <2>2
      <3> QED BY <3>1
    <2> QED BY <1>8, <2>1, <2>2
  <1> HIDE DEF e
  <1>9. Only(t, S) = Only(s, S)
    BY <1>3, <1>5, <1>6, <1>7, <1>8, OnlyEmbedded
  <1> QED BY <1>9 DEF t

-----------------------------------------------------------------------------
(* The invariants                                                          *)

IInv == Sound(arr) /\ out \in Values \cup {None}

LEMMA SoundType ==
  ASSUME Sound(arr), out \in Values \cup {None}
  PROVE  TypeOK
  <1>1. PICK f : Well(arr, f)
    BY DEF Sound
  <1>2. Chain(arr, f) /\ Hashed(arr, Slots(arr)) /\ arr.size = Len(f)
    BY <1>1 DEF Well
  <1>3. arr.entry \in [Live(arr) -> Entry] /\ Live(arr) \subseteq Address /\ Len(f) \in Nat
    BY <1>2, ChainFacts DEF Chain
  <1>4. arr.head \in Address \cup {NULL} /\ arr.tail \in Address \cup {NULL}
    <2>1. Len(f) # 0 => f[1] \in Address /\ f[Len(f)] \in Address
      BY <1>2, ChainFacts
    <2> QED BY <1>2, <2>1 DEF Chain
  <1>5. DOMAIN arr.buckets = 0..(NumBuckets(arr) - 1)
    BY <1>2, HashedBuckets
  <1>6. \A i \in DOMAIN arr.buckets : arr.buckets[i] \subseteq Slot
    BY <1>2 DEF Hashed
  <1>7. arr.count \in Nat /\ arr.size \in Nat
    BY <1>1, <1>2, <1>3, WellFacts
  <1> QED BY <1>3, <1>4, <1>5, <1>6, <1>7 DEF TypeOK

LEMMA SoundLinked ==
  ASSUME NEW a, Sound(a)
  PROVE  Linked(a)
  <1>1. PICK f : Well(a, f)
    BY DEF Sound
  <1> DEFINE N == Len(f)
  <1>2. Chain(a, f)
    BY <1>1 DEF Well
  <1>3. /\ N \in Nat /\ DOMAIN f = 1..N
        /\ \A i \in 1..N : f[i] \in Live(a) /\ f[i] # NULL
        /\ \A e \in Live(a) : \E i \in 1..N : f[i] = e
        /\ NULL \notin Live(a)
    BY <1>2, ChainFacts
  <1>4. /\ \A i, j \in 1..N : f[i] = f[j] => i = j
        /\ a.head = IF N = 0 THEN NULL ELSE f[1]
        /\ a.tail = IF N = 0 THEN NULL ELSE f[N]
        /\ \A i \in 1..N : /\ a.entry[f[i]].next = IF i = N THEN NULL ELSE f[i + 1]
                           /\ a.entry[f[i]].prev = IF i = 1 THEN NULL ELSE f[i - 1]
    BY <1>2 DEF Chain
  <1> HIDE DEF N
  <1>5. ASSUME NEW e \in Live(a)
        PROVE  /\ a.entry[e].next = NULL <=> e = a.tail
               /\ a.entry[e].prev = NULL <=> e = a.head
               /\ a.entry[e].next # NULL => /\ a.entry[e].next \in Live(a)
                                           /\ a.entry[a.entry[e].next].prev = e
               /\ a.entry[e].prev # NULL => /\ a.entry[e].prev \in Live(a)
                                           /\ a.entry[a.entry[e].prev].next = e
    <2>1. PICK i \in 1..N : f[i] = e
      BY <1>3
    <2>2. i \in Nat /\ i >= 1 /\ N >= i /\ 1 \in 1..N /\ N \in 1..N
          /\ (i # N => i + 1 \in 1..N) /\ (i # 1 => i - 1 \in 1..N)
      BY <1>3
    <2>3. /\ a.entry[e].next = IF i = N THEN NULL ELSE f[i + 1]
          /\ a.entry[e].prev = IF i = 1 THEN NULL ELSE f[i - 1]
      BY <1>4, <2>1
    <2>4. (e = a.tail <=> i = N) /\ (e = a.head <=> i = 1)
      BY <1>4, <2>1, <2>2
    <2>5. i # N => a.entry[f[i + 1]].prev = e
      <3>1. i # N => i + 1 # 1 /\ (i + 1) - 1 = i
        BY <2>2
      <3> QED BY <1>4, <2>1, <2>2, <3>1
    <2>6. i # 1 => a.entry[f[i - 1]].next = e
      <3>1. i # 1 => i - 1 # N /\ (i - 1) + 1 = i
        BY <2>2
      <3> QED BY <1>4, <2>1, <2>2, <3>1
    <2> QED BY <1>3, <2>2, <2>3, <2>4, <2>5, <2>6
  <1>6. (a.head = NULL <=> Live(a) = {}) /\ (a.tail = NULL <=> Live(a) = {})
        /\ {a.head, a.tail} \subseteq Live(a) \cup {NULL}
    <2>1. N = 0 => Live(a) = {}
      BY <1>3
    <2>2. N # 0 => /\ f[1] \in Live(a) /\ f[1] # NULL
                   /\ f[N] \in Live(a) /\ f[N] # NULL
      <3>1. N # 0 => 1 \in 1..N /\ N \in 1..N
        BY <1>3
      <3> QED BY <1>3, <3>1
    <2> QED BY <1>4, <2>1, <2>2
  <1>7. ToSet(Walk(a)) = Live(a)
    BY <1>2, <1>3, WalkIs DEF ToSet
  <1> QED BY <1>5, <1>6, <1>7 DEF Linked

LEMMA SoundIndexed ==
  ASSUME NEW a, Sound(a)
  PROVE  Indexed(a)
  <1>1. PICK f : Well(a, f)
    BY DEF Sound
  <1>2. Chain(a, f) /\ Hashed(a, Slots(a)) /\ a.size = Len(f)
    BY <1>1 DEF Well
  <1>3. ASSUME NEW e \in Live(a)
        PROVE  NumBuckets(a) > 0 /\ Find(a, a.entry[e].key) = e
    <2>1. SlotOf(a, e) \in Slots(a)
      BY SlotsAre
    <2> QED BY <1>1, <1>2, <2>1, WellFacts DEF Hashed
  <1>4. ASSUME NEW i \in DOMAIN a.buckets, NEW s \in a.buckets[i]
        PROVE  s.at \in Live(a) /\ a.entry[s.at].key = s.key
               /\ BucketIndex(Hash[s.key], NumBuckets(a)) = i
    <2>1. s \in Slots(a) /\ BucketIndex(Hash[s.key], NumBuckets(a)) = i
      BY <1>2 DEF Hashed
    <2> QED BY <2>1, SlotsAre
  <1>5. a.count = Cardinality(Live(a)) /\ a.size = Cardinality(Live(a))
    BY <1>1, <1>2, WellFacts, ChainFacts
  <1> QED BY <1>3, <1>4, <1>5 DEF Indexed

LEMMA SetHolds ==
  ASSUME IInv, NEW k \in Keys, NEW v \in Values, Room
  PROVE  Sound(ArraySet(arr, k, v))
  <1>1. Sound(arr) /\ Address \ Live(arr) # {}
    BY DEF IInv, Room
  <1> QED BY <1>1, SoundSet

LEMMA GetHolds ==
  ASSUME IInv, NEW k \in Keys
  PROVE  ArrayGet(arr, k) \in Values \cup {None}
  BY SoundFacts DEF IInv

LEMMA DeleteHolds ==
  ASSUME IInv, NEW k \in Keys, Delete(k)
  PROVE  IInv'
  BY GetHolds, SoundDelete DEF IInv, Delete

LEMMA HighestFacts ==
  ASSUME NEW a, Sound(a)
  PROVE  /\ NumbersOf(a) \in Seq(Int)
         /\ IF \E n \in ToSet(NumbersOf(a)) : n >= 0
            THEN /\ Highest(a) >= 0 /\ Highest(a) \in ToSet(NumbersOf(a))
                 /\ \A n \in ToSet(NumbersOf(a)) : n <= Highest(a)
                 /\ Decimal[Highest(a)] \in Keys
            ELSE Highest(a) = -1
  <1> DEFINE N == ToSet(NumbersOf(a))
             ns == {n \in N : n >= 0}
  <1>1. /\ NumbersOf(a) \in Seq(Int)
        /\ \A i \in 1..Len(NumbersOf(a)) : NumbersOf(a)[i] \in DOMAIN Decimal
    BY NumbersFacts
  <1>2. N \subseteq Int /\ N \subseteq DOMAIN Decimal /\ IsFiniteSet(N)
    <2>1. NumbersOf(a) \in Surjection(1..Len(NumbersOf(a)), N)
      BY <1>1 DEF ToSet, Surjection
    <2>2. IsFiniteSet(1..Len(NumbersOf(a)))
      BY <1>1, FirstNumbers
    <2>3. IsFiniteSet(N)
      BY <2>1, <2>2, FS_Surjection
    <2> QED BY <1>1, <2>3 DEF ToSet
  <1>3. Highest(a) = IF ns = {} THEN -1 ELSE CHOOSE n \in ns : \A m \in ns : m <= n
    BY DEF Highest
  <1> HIDE DEF N
  <1>4. ns \in SUBSET Int /\ IsFiniteSet(ns)
    <2>1. ns \in SUBSET N
      OBVIOUS
    <2> HIDE DEF ns
    <2> QED BY <1>2, <2>1, FS_Subset
  <1>5. CASE ns = {}
    BY <1>1, <1>3, <1>5 DEF N
  <1>6. CASE ns # {}
    <2> HIDE DEF ns
    <2>1. \E n \in ns : \A m \in ns : m <= n
      BY <1>4, <1>6, GreatestOf
    <2> DEFINE h == Highest(a)
    <2>2. h \in ns /\ \A m \in ns : m <= h
      BY <1>3, <1>6, <2>1
    <2> HIDE DEF h
    <2>3. h \in N /\ h >= 0 /\ Decimal[h] \in Keys
      BY <1>2, <2>2, KeyAssumption DEF ns
    <2>4. \A n \in N : n <= h
      <3> SUFFICES ASSUME NEW n \in N PROVE n <= h
        OBVIOUS
      <3>1. CASE n >= 0
        BY <2>2, <3>1 DEF ns
      <3>2. CASE ~(n >= 0)
        BY <1>2, <2>3, <3>2
      <3> QED BY <3>1, <3>2
    <2> QED BY <1>1, <2>3, <2>4 DEF N, h
  <1> QED BY <1>5, <1>6

LEMMA PopHolds ==
  ASSUME IInv, Pop
  PROVE  IInv'
  <1>1. CASE Highest(arr) < 0 /\ arr' = arr /\ out' = None
    BY <1>1 DEF IInv
  <1>2. CASE Highest(arr) >= 0 /\ Delete(Decimal[Highest(arr)])
    <2>1. IF \E n \in ToSet(NumbersOf(arr)) : n >= 0 THEN Decimal[Highest(arr)] \in Keys
          ELSE Highest(arr) = -1
      BY HighestFacts DEF IInv
    <2>2. Decimal[Highest(arr)] \in Keys
      BY <1>2, <2>1
    <2> QED BY <1>2, <2>2, DeleteHolds
  <1> QED BY <1>1, <1>2 DEF Pop

\* The names that are left after the first index has gone.
LEMMA NamesAfterDelete ==
  ASSUME NEW a, Sound(a), NEW k \in NumberKeys
  PROVE  Only(KeysOf(ArrayDelete(a, k)), NameKeys) = Only(KeysOf(a), NameKeys)
  <1>0. k \in Keys /\ k \notin NameKeys
    BY DEF NumberKeys, NameKeys
  <1>1. CASE ~Has(a, k)
    BY <1>0, <1>1, SoundDelete
  <1>2. CASE Has(a, k)
    <2>1. KeysOf(a) \in Seq(Keys) /\ Len(KeysOf(a)) = a.size
      BY SoundFacts
    <2>2. PICK p \in 1..a.size : KeysOf(a)[p] = k
      BY <1>2, <2>1 DEF Has
    <2>3. KeysOf(ArrayDelete(a, k)) = Skip(KeysOf(a), p)
      BY <1>0, <2>2, SoundDelete
    <2>4. Only(Skip(KeysOf(a), p), NameKeys) = Only(KeysOf(a), NameKeys)
      BY <1>0, <2>1, <2>2, OnlySkip
    <2> QED BY <2>3, <2>4
  <1> QED BY <1>1, <1>2

\* There is room for what shift and unshift put back.
LEMMA ShiftPairs ==
  ASSUME NEW a, Sound(a), Indices(a) # <<>>, Decimals(Len(Indices(a)) - 1)
  PROVE  LET first == Decimal[Head(Indices(a))]
             rest == ArrayDelete(a, first)
             pairs == Named(rest) \o Renumbered(rest, Tail(Indices(a)), 0) IN
         /\ first \in NumberKeys /\ Sound(rest)
         /\ Renumbered(rest, Tail(Indices(a)), 0) \in Seq(Pairs)
         /\ pairs \in Seq(Pairs) /\ Len(pairs) <= a.size
  <1> DEFINE ns == Indices(a)
             first == Decimal[Head(ns)]
             rest == ArrayDelete(a, first)
             tail == Tail(ns)
             named == Named(rest)
             renum == Renumbered(rest, tail, 0)
  <1>1. /\ ns \in Seq(Int) /\ Len(ns) = Len(NumbersOf(a)) /\ Len(ns) \in Nat
        /\ \A r \in 1..Len(ns) : ns[r] \in DOMAIN Decimal
    BY IndicesFacts
  <1>2. Len(NumbersOf(a)) + Len(Only(KeysOf(a), NameKeys)) = a.size
    BY NumbersFacts
  <1> HIDE DEF ns
  <1>3. Len(ns) # 0 /\ Len(ns) - 1 \in Nat
    BY <1>1 DEF ns
  <1>4. Head(ns) \in DOMAIN Decimal
    BY <1>1, <1>3
  <1>5. first \in Keys /\ Number[first] = {Head(ns)}
    BY <1>4, KeyAssumption
  <1>6. first \in NumberKeys
    BY <1>5 DEF NumberKeys
  <1> HIDE DEF first
  <1>7. Sound(rest)
    BY <1>5, SoundDelete
  <1>8. tail \in Seq(DOMAIN Decimal) /\ Len(tail) = Len(ns) - 1
    <2>1. ns \in Seq(DOMAIN Decimal)
      BY <1>1
    <2> QED BY <1>3, <2>1
  <1>9. \A i \in 1..Len(tail) : i - 1 + 0 \in DOMAIN Decimal
    <2>1. 0..((Len(ns) - 1) - 1) \subseteq DOMAIN Decimal
      BY DEF Decimals, ns
    <2> QED BY <1>3, <1>8, <2>1
  <1>10. Only(KeysOf(rest), NameKeys) = Only(KeysOf(a), NameKeys)
    BY <1>6, NamesAfterDelete
  <1> HIDE DEF rest, tail
  <1>11. renum \in Seq(Pairs) /\ Len(renum) <= Len(tail)
    BY <1>7, <1>8, <1>9, RenumberedFacts
  <1>12. named \in Seq(Pairs) /\ Len(named) = Len(Only(KeysOf(a), NameKeys))
    BY <1>7, <1>10, NamedFacts
  <1> HIDE DEF renum, named
  <1>13. named \o renum \in Seq(Pairs) /\ Len(named \o renum) = Len(named) + Len(renum)
    BY <1>11, <1>12, ConcatProperties
  <1>14. Len(named) \in Nat /\ Len(renum) \in Nat
    BY <1>11, <1>12
  <1>15. Len(named \o renum) <= a.size
    BY <1>1, <1>2, <1>3, <1>8, <1>11, <1>12, <1>13, <1>14
  <1> QED BY <1>6, <1>7, <1>11, <1>13, <1>15 DEF renum, named, rest, tail, first, ns

LEMMA ShiftHolds ==
  ASSUME IInv, Shift
  PROVE  IInv'
  <1>0. Sound(arr)
    BY DEF IInv
  <1>1. CASE Indices(arr) = <<>> /\ arr' = arr /\ out' = None
    BY <1>1 DEF IInv
  <1>2. CASE Indices(arr) # <<>> /\ Decimals(Len(Indices(arr)) - 1)
    <2> DEFINE first == Decimal[Head(Indices(arr))]
               rest == ArrayDelete(arr, first)
               pairs == Named(rest) \o Renumbered(rest, Tail(Indices(arr)), 0)
    <2>1. arr' = Refill(pairs) /\ out' = ArrayGet(arr, first)
      BY <1>2 DEF Shift
    <2>2. first \in NumberKeys /\ pairs \in Seq(Pairs) /\ Len(pairs) <= arr.size
      BY <1>0, <1>2, ShiftPairs
    <2> HIDE DEF pairs, first
    <2>3. first \in Keys
      BY <2>2 DEF NumberKeys
    <2>4. IsFiniteSet(Live(arr)) /\ Cardinality(Live(arr)) = arr.size /\ Live(arr) \in SUBSET Address
      BY <1>0, SoundFacts
    <2>5. HoldsFirst(Refill(pairs), pairs, Len(pairs))
      BY <2>2, <2>4, RefillHolds
    <2> QED BY <2>1, <2>3, <2>5, GetHolds DEF IInv, HoldsFirst
  <1> QED BY <1>1, <1>2 DEF Shift

LEMMA UnshiftPairs ==
  ASSUME NEW a, Sound(a), Decimals(Len(Indices(a)) + 1), NEW v \in Values
  PROVE  LET renum == Renumbered(a, Indices(a), 1)
             pairs == Named(a) \o <<Pair(Decimal[0], v)>> \o renum IN
         /\ renum \in Seq(Pairs) /\ Pair(Decimal[0], v) \in Pairs
         /\ pairs \in Seq(Pairs) /\ Len(pairs) <= a.size + 1
  <1> DEFINE ns == Indices(a)
             named == Named(a)
             renum == Renumbered(a, ns, 1)
             new == Pair(Decimal[0], v)
  <1>1. /\ ns \in Seq(Int) /\ Len(ns) = Len(NumbersOf(a)) /\ Len(ns) \in Nat
        /\ \A r \in 1..Len(ns) : ns[r] \in DOMAIN Decimal
    BY IndicesFacts
  <1>2. Len(NumbersOf(a)) + Len(Only(KeysOf(a), NameKeys)) = a.size
    BY NumbersFacts
  <1>3. 0..((Len(ns) + 1) - 1) \subseteq DOMAIN Decimal
    BY DEF Decimals
  <1> HIDE DEF ns
  <1>4. ns \in Seq(DOMAIN Decimal)
    BY <1>1
  <1>5. 0 \in DOMAIN Decimal /\ \A i \in 1..Len(ns) : i - 1 + 1 \in DOMAIN Decimal
    BY <1>1, <1>3
  <1>6. renum \in Seq(Pairs) /\ Len(renum) <= Len(ns)
    BY <1>4, <1>5, RenumberedFacts
  <1>7. named \in Seq(Pairs) /\ Len(named) = Len(Only(KeysOf(a), NameKeys))
    BY NamedFacts
  <1>8. new \in Pairs
    BY <1>5, KeyAssumption DEF Pair, Pairs
  <1> HIDE DEF renum, named, new
  <1>9. <<new>> \in Seq(Pairs) /\ Len(<<new>>) = 1
    BY <1>8
  <1>10. /\ named \o <<new>> \in Seq(Pairs) /\ Len(named \o <<new>>) = Len(named) + 1
    BY <1>7, <1>9, ConcatProperties
  <1>11. /\ named \o <<new>> \o renum \in Seq(Pairs)
         /\ Len(named \o <<new>> \o renum) = Len(named) + 1 + Len(renum)
    BY <1>6, <1>10, ConcatProperties
  <1>12. Len(named) \in Nat /\ Len(renum) \in Nat
    BY <1>6, <1>7
  <1>13. Len(named \o <<new>> \o renum) <= a.size + 1
    BY <1>1, <1>2, <1>6, <1>7, <1>11, <1>12
  <1> QED BY <1>6, <1>8, <1>11, <1>13 DEF renum, named, new, ns

LEMMA RoomFor ==
  ASSUME NEW a, Sound(a), Address \ Live(a) # {}
  PROVE  \E A \in SUBSET Address : IsFiniteSet(A) /\ Cardinality(A) = a.size + 1
  <1>1. IsFiniteSet(Live(a)) /\ Cardinality(Live(a)) = a.size /\ Live(a) \subseteq Address
    BY SoundFacts
  <1>2. PICK e \in Address : e \notin Live(a)
    OBVIOUS
  <1>3. IsFiniteSet(Live(a) \cup {e}) /\ Cardinality(Live(a) \cup {e}) = a.size + 1
    BY <1>1, <1>2, FS_AddElement
  <1> QED BY <1>1, <1>2, <1>3

LEMMA UnshiftHolds ==
  ASSUME IInv, NEW v \in Values, Unshift(v)
  PROVE  IInv'
  <1> DEFINE pairs == Named(arr) \o <<Pair(Decimal[0], v)>> \o Renumbered(arr, Indices(arr), 1)
  <1>1. Sound(arr) /\ Address \ Live(arr) # {} /\ Decimals(Len(Indices(arr)) + 1)
    BY DEF IInv, Unshift, Room
  <1>2. arr' = Refill(pairs) /\ out' = None
    BY DEF Unshift
  <1>3. pairs \in Seq(Pairs) /\ Len(pairs) <= arr.size + 1
    BY <1>1, UnshiftPairs
  <1> HIDE DEF pairs
  <1>4. PICK A \in SUBSET Address : IsFiniteSet(A) /\ Cardinality(A) = arr.size + 1
    BY <1>1, RoomFor
  <1>5. HoldsFirst(Refill(pairs), pairs, Len(pairs))
    BY <1>3, <1>4, RefillHolds
  <1> QED BY <1>2, <1>5 DEF IInv, HoldsFirst

LEMMA PushHolds ==
  ASSUME IInv, NEW v \in Values, Push(v)
  PROVE  IInv'
  <1>1. Room /\ Decimal[arr.size] \in Keys
    BY KeyAssumption DEF Push
  <1> QED BY <1>1, SetHolds DEF Push, IInv

\* Sound arrays stay sound: the inductive invariant.
THEOREM StaysSound == Spec => []IInv
  <1>1. Init => IInv
    BY SoundEmpty DEF Init, IInv
  <1>2. IInv /\ [Next]_vars => IInv'
    <2> SUFFICES ASSUME IInv, [Next]_vars PROVE IInv'
      OBVIOUS
    <2>1. ASSUME NEW v \in Values, Push(v) PROVE IInv'
      BY <2>1, PushHolds
    <2>2. ASSUME NEW v \in Values, Unshift(v) PROVE IInv'
      BY <2>2, UnshiftHolds
    <2>3. ASSUME NEW v \in Values, NEW k \in Keys, SetItem(k, v) PROVE IInv'
      BY <2>3, SetHolds DEF SetItem, IInv
    <2>4. ASSUME NEW k \in Keys, Delete(k) PROVE IInv'
      BY <2>4, DeleteHolds
    <2>5. CASE Pop
      BY <2>5, PopHolds
    <2>6. CASE Shift
      BY <2>6, ShiftHolds
    <2>7. CASE UNCHANGED vars
      BY <2>7 DEF vars, IInv
    <2> QED BY <2>1, <2>2, <2>3, <2>4, <2>5, <2>6, <2>7 DEF Next
  <1> QED BY <1>1, <1>2, PTL DEF Spec

\* Entries, links, buckets and counters always have their types, and what a
\* built-in returns is a value or none.
THEOREM ArraysTyped == Spec => []TypeOK
  <1>1. IInv => TypeOK
    BY SoundType DEF IInv
  <1> QED BY <1>1, StaysSound, PTL

\* Whatever is set, deleted, pushed, popped, shifted and unshifted, the list
\* and the table of an array hold the same entries.
THEOREM TableAndListInStep == Spec => []IndexInStep
  <1>1. IInv => IndexInStep
    BY SoundLinked, SoundIndexed DEF IInv, IndexInStep
  <1> QED BY <1>1, StaysSound, PTL

-----------------------------------------------------------------------------
(* Arrays whose numbers are written in their shortest form                 *)

Numbers(a) == {k \in NumberKeys : Has(a, k)}
AllPlain(a) == \A k \in Numbers(a) : k = Decimal[Num(k)]
Lower(a, k) == {j \in Numbers(a) : Num(j) < Num(k)}

\* NumbersOf lists the numbers of Numbers, each once.
LEMMA PlainNumbers ==
  ASSUME NEW a, Sound(a), AllPlain(a)
  PROVE  /\ \A i, j \in 1..Len(NumbersOf(a)) : NumbersOf(a)[i] = NumbersOf(a)[j] => i = j
         /\ \A i \in 1..Len(NumbersOf(a)) :
              /\ Decimal[NumbersOf(a)[i]] \in Numbers(a)
              /\ Num(Decimal[NumbersOf(a)[i]]) = NumbersOf(a)[i]
         /\ \A k \in Numbers(a) : \E i \in 1..Len(NumbersOf(a)) : NumbersOf(a)[i] = Num(k)
         /\ \A j, k \in Numbers(a) : Num(j) = Num(k) => j = k
  <1> DEFINE s == KeysOf(a)
             o == Only(s, NumberKeys)
             m == Len(NumbersOf(a))
  <1>1. /\ s \in Seq(Keys) /\ DOMAIN s = 1..a.size /\ Len(s) = a.size
        /\ \A i \in 1..a.size : Has(a, s[i])
        /\ \A i, j \in DOMAIN s : s[i] = s[j] => i = j
    BY SoundFacts
  <1>2. /\ o \in Seq(NumberKeys) /\ m = Len(o)
        /\ \A i \in 1..m : NumbersOf(a)[i] = Num(o[i])
    BY NumbersFacts
  <1> HIDE DEF s
  <1>3. /\ \A i \in DOMAIN s : s[i] \in NumberKeys => \E j \in DOMAIN o : o[j] = s[i]
        /\ \A j \in DOMAIN o : \E i \in DOMAIN s : o[j] = s[i]
        /\ \A i, j \in DOMAIN o : o[i] = o[j] => i = j
    BY <1>1, OnlyFacts
  <1> HIDE DEF o, m
  <1>4. DOMAIN o = 1..m /\ m \in Nat /\ \A i \in 1..m : o[i] \in NumberKeys
    BY <1>2
  <1>5. \A i \in 1..m : o[i] \in Numbers(a)
    <2>1. \A i \in 1..m : Has(a, o[i])
      BY <1>1, <1>3, <1>4
    <2> QED BY <1>4, <2>1 DEF Numbers
  <1>6. \A i \in 1..m : o[i] = Decimal[NumbersOf(a)[i]] /\ Num(o[i]) = NumbersOf(a)[i]
    BY <1>2, <1>5 DEF AllPlain
  <1>7. ASSUME NEW k \in Numbers(a) PROVE \E i \in 1..m : o[i] = k
    <2>1. PICK i \in DOMAIN s : s[i] = k
      <3>1. \E i \in 1..Len(s) : s[i] = k
        BY DEF Numbers, Has, s
      <3> QED BY <1>1, <3>1
    <2>2. k \in NumberKeys
      BY DEF Numbers
    <2> QED BY <1>3, <1>4, <2>1, <2>2
  <1>8. \A i, j \in 1..m : NumbersOf(a)[i] = NumbersOf(a)[j] => i = j
    BY <1>3, <1>4, <1>6
  <1>9. \A i \in 1..m : /\ Decimal[NumbersOf(a)[i]] \in Numbers(a)
                        /\ Num(Decimal[NumbersOf(a)[i]]) = NumbersOf(a)[i]
    BY <1>5, <1>6
  <1>10. \A k \in Numbers(a) : \E i \in 1..m : NumbersOf(a)[i] = Num(k)
    BY <1>6, <1>7
  <1>11. \A j, k \in Numbers(a) : Num(j) = Num(k) => j = k
    BY DEF AllPlain
  <1> QED BY <1>8, <1>9, <1>10, <1>11 DEF m

\* The r-th index has r - 1 numbers below it.
LEMMA PlainRank ==
  ASSUME NEW a, Sound(a), AllPlain(a)
  PROVE  /\ IsFiniteSet(Numbers(a)) /\ Cardinality(Numbers(a)) = Len(Indices(a))
         /\ \A r \in 1..Len(Indices(a)) :
              /\ Decimal[Indices(a)[r]] \in Numbers(a)
              /\ Num(Decimal[Indices(a)[r]]) = Indices(a)[r]
              /\ Cardinality(Lower(a, Decimal[Indices(a)[r]])) = r - 1
         /\ \A k \in Numbers(a) : IsFiniteSet(Lower(a, k))
         /\ \A j, k \in Numbers(a) : Cardinality(Lower(a, j)) = Cardinality(Lower(a, k)) => j = k
  <1> DEFINE nums == NumbersOf(a)
             m == Len(nums)
             d == [i \in 1..m |-> Decimal[nums[i]]]
  <1>1. /\ nums \in Seq(Int) /\ m \in Nat /\ DOMAIN nums = 1..m
        /\ \A i \in 1..m : nums[i] \in Int
    BY NumbersFacts
  <1>2. /\ \A i, j \in 1..m : nums[i] = nums[j] => i = j
        /\ \A i \in 1..m : Decimal[nums[i]] \in Numbers(a) /\ Num(Decimal[nums[i]]) = nums[i]
        /\ \A k \in Numbers(a) : \E i \in 1..m : nums[i] = Num(k)
        /\ \A j, k \in Numbers(a) : Num(j) = Num(k) => j = k
    BY PlainNumbers
  <1>3. /\ Len(Indices(a)) = m
        /\ \A r \in 1..m : /\ \E i \in 1..m : Indices(a)[r] = nums[i]
                           /\ Cardinality(Below(nums, Indices(a)[r])) < r
                           /\ Cardinality(UpTo(nums, Indices(a)[r])) >= r
    BY <1>1, SortedFacts DEF Indices
  <1> HIDE DEF nums, m
  <1>4. /\ d \in [1..m -> Numbers(a)]
        /\ \A i, j \in 1..m : d[i] = d[j] => i = j
        /\ \A k \in Numbers(a) : \E i \in 1..m : d[i] = k
        /\ \A i \in 1..m : Num(d[i]) = nums[i]
    <2>1. \A i \in 1..m : d[i] = Decimal[nums[i]]
      OBVIOUS
    <2>2. d \in [1..m -> Numbers(a)]
      BY <1>2
    <2> HIDE DEF d
    <2> QED BY <1>2, <2>1, <2>2
  <1> HIDE DEF d
  <1>5. IsFiniteSet(Numbers(a)) /\ Cardinality(Numbers(a)) = m
    <2>1. d \in Surjection(1..m, Numbers(a)) /\ d \in Injection(1..m, Numbers(a))
      BY <1>4 DEF Surjection, Injection, IsInjective
    <2>2. ExistsBijection(1..m, Numbers(a))
      BY <2>1 DEF Bijection, ExistsBijection
    <2> QED BY <1>1, <2>2, FS_NatBijection, FS_CountingElements
  <1>6. ASSUME NEW k \in Numbers(a)
        PROVE  IsFiniteSet(Lower(a, k)) /\ Cardinality(Lower(a, k)) \in Nat
    <2>1. Lower(a, k) \in SUBSET Numbers(a)
      BY DEF Lower
    <2> QED BY <1>5, <2>1, FS_Subset, FS_CardinalityType
  <1>7. \A k \in Numbers(a) : Num(k) \in Int
    BY NumFacts DEF Numbers
  <1>8. ASSUME NEW j \in Numbers(a), NEW k \in Numbers(a), Num(j) < Num(k)
        PROVE  Cardinality(Lower(a, j)) < Cardinality(Lower(a, k))
    <2>1. \A i \in Lower(a, j) : i \in Lower(a, k)
      BY <1>7, <1>8 DEF Lower
    <2>2. j \in Lower(a, k) /\ j \notin Lower(a, j)
      BY <1>7, <1>8 DEF Lower
    <2>3. Lower(a, j) \in SUBSET Lower(a, k) /\ Lower(a, j) # Lower(a, k)
      BY <2>1, <2>2
    <2> QED BY <1>6, <2>3, FS_Subset
  <1>9. \A j, k \in Numbers(a) : Cardinality(Lower(a, j)) = Cardinality(Lower(a, k)) => j = k
    <2> SUFFICES ASSUME NEW j \in Numbers(a), NEW k \in Numbers(a),
                        Cardinality(Lower(a, j)) = Cardinality(Lower(a, k))
                 PROVE  j = k
      OBVIOUS
    <2>1. ~(Num(j) < Num(k)) /\ ~(Num(k) < Num(j))
      BY <1>6, <1>8
    <2>2. Num(j) = Num(k)
      BY <1>7, <2>1
    <2> QED BY <1>2, <2>2
  <1>10. ASSUME NEW r \in 1..m
         PROVE  /\ Decimal[Indices(a)[r]] \in Numbers(a)
                /\ Num(Decimal[Indices(a)[r]]) = Indices(a)[r]
                /\ Cardinality(Lower(a, Decimal[Indices(a)[r]])) = r - 1
    <2> DEFINE n == Indices(a)[r]
               B == Below(nums, n)
    <2>1. PICK p \in 1..m : n = nums[p]
      BY <1>3
    <2>2. Decimal[n] \in Numbers(a) /\ Num(Decimal[n]) = n /\ n \in Int
      BY <1>1, <1>2, <2>1
    <2>3. Cardinality(B) < r /\ Cardinality(UpTo(nums, n)) >= r
      BY <1>3
    <2> HIDE DEF n
    <2>4. UpTo(nums, n) = B \cup {p} /\ p \notin B /\ B \in SUBSET (1..m)
      <3>1. \A i \in 1..m : nums[i] <= n <=> nums[i] < n \/ i = p
        BY <1>1, <1>2, <2>1, <2>2
      <3> QED BY <1>1, <2>1, <3>1 DEF Below, UpTo
    <2>5. IsFiniteSet(B) /\ Cardinality(B) \in Nat
      <3>1. IsFiniteSet(1..m)
        BY <1>1, FirstNumbers
      <3> HIDE DEF B
      <3> QED BY <2>4, <3>1, FS_Subset, FS_CardinalityType
    <2>6. Cardinality(B) = r - 1
      <3>1. Cardinality(UpTo(nums, n)) = Cardinality(B) + 1
        <4> HIDE DEF B
        <4> QED BY <2>4, <2>5, FS_AddElement
      <3>2. r \in Nat
        BY <1>1
      <3> HIDE DEF B
      <3> QED BY <2>3, <2>5, <3>1, <3>2
    <2> DEFINE L == Lower(a, Decimal[n])
               e == [i \in B |-> d[i]]
    <2>7. \A i \in B : i \in 1..m /\ nums[i] < n
      BY <1>1 DEF Below
    <2>8. \A i \in 1..m : nums[i] < n => i \in B
      BY <1>1 DEF Below
    <2>9. \A k \in Numbers(a) : k \in L <=> Num(k) < n
      BY <2>2 DEF Lower
    <2>10. \A k \in L : k \in Numbers(a)
      BY DEF Lower
    <2> HIDE DEF B, L
    <2>11. e \in [B -> L] /\ \A i \in B : e[i] = d[i]
      <3>1. \A i \in B : d[i] \in L
        BY <1>4, <2>7, <2>9
      <3> QED BY <3>1
    <2> HIDE DEF e
    <2>12. \A i, j \in B : e[i] = e[j] => i = j
      BY <1>4, <2>7, <2>11
    <2>13. \A k \in L : \E i \in B : e[i] = k
      <3> SUFFICES ASSUME NEW k \in L PROVE \E i \in B : e[i] = k
        OBVIOUS
      <3>1. k \in Numbers(a) /\ Num(k) < n
        BY <2>9, <2>10
      <3>2. PICK i \in 1..m : d[i] = k
        BY <1>4, <3>1
      <3>3. i \in B
        BY <1>4, <2>8, <3>1, <3>2
      <3> QED BY <2>11, <3>2, <3>3
    <2>14. Cardinality(L) = Cardinality(B)
      <3>1. e \in Surjection(B, L) /\ e \in Injection(B, L)
        BY <2>11, <2>12, <2>13 DEF Surjection, Injection, IsInjective
      <3>2. ExistsBijection(B, L)
        BY <3>1 DEF Bijection, ExistsBijection
      <3> QED BY <2>5, <3>2, FS_Bijection
    <2> QED BY <2>2, <2>6, <2>14 DEF n, L
  <1> QED BY <1>3, <1>5, <1>6, <1>9, <1>10

LEMMA OnlyAll ==
  ASSUME NEW U, NEW s \in Seq(U), NEW S, \A i \in 1..Len(s) : s[i] \in S
  PROVE  Only(s, S) = s
  <1> DEFINE N == Len(s)
             g == [i \in 1..N |-> i]
  <1>1. N \in Nat /\ s = [i \in 1..N |-> s[i]]
    OBVIOUS
  <1>2. Rising(g, N, Places(s, S))
    BY DEF Rising, Places
  <1>3. \A i \in 1..N : g[i] = i
    OBVIOUS
  <1> HIDE DEF g, N
  <1>4. Only(s, S) = [j \in 1..N |-> s[g[j]]]
    <2>1. N \in Nat
      BY <1>1
    <2>2. IsOnly(g, N, s, S)
      BY <1>2, <2>1, OnlyByThis
    <2> QED BY <2>2 DEF IsOnly
  <1>5. [j \in 1..N |-> s[g[j]]] = [j \in 1..N |-> s[j]]
    BY <1>3
  <1> QED BY <1>1, <1>4, <1>5

LEMMA RenumberedAll ==
  ASSUME NEW a, NEW ns \in Seq(DOMAIN Decimal), NEW first \in Int,
         \A i \in 1..Len(ns) : Find(a, Decimal[ns[i]]) # NULL
  PROVE  Renumbered(a, ns, first)
           = [j \in 1..Len(ns) |-> Pair(Decimal[j - 1 + first], ArrayGet(a, Decimal[ns[j]]))]
  <1> DEFINE s == [i \in DOMAIN ns |-> i]
             S == {i \in DOMAIN ns : Find(a, Decimal[ns[i]]) # NULL}
             o == Only(s, S)
  <1>1. DOMAIN ns = 1..Len(ns) /\ Len(ns) \in Nat
    OBVIOUS
  <1>2. s \in Seq(Nat) /\ Len(s) = Len(ns) /\ \A i \in 1..Len(ns) : s[i] = i /\ s[i] \in S
    BY <1>1
  <1> HIDE DEF s, S
  <1>3. o = s
    BY <1>2, OnlyAll
  <1> HIDE DEF o
  <1>4. Renumbered(a, ns, first)
          = [j \in DOMAIN o |-> Pair(Decimal[o[j] - 1 + first], ArrayGet(a, Decimal[ns[o[j]]]))]
    BY DEF Renumbered, s, S, o
  <1>5. DOMAIN o = 1..Len(ns) /\ \A j \in 1..Len(ns) : o[j] = j
    BY <1>1, <1>2, <1>3
  <1> QED BY <1>4, <1>5

IsJoined(u, s, t) ==
  /\ Len(u) = Len(s) + Len(t)
  /\ \A i \in 1..Len(s) : u[i] = s[i]
  /\ \A i \in 1..Len(t) : u[Len(s) + i] = t[i]

LEMMA Joined ==
  ASSUME NEW U, NEW s \in Seq(U), NEW t \in Seq(U)
  PROVE  s \o t \in Seq(U) /\ IsJoined(s \o t, s, t)
  BY DEF IsJoined

\* The pairs for the numbers 0, 1, ... with the values of a list.
Listed(list) == [i \in 1..Len(list) |-> Pair(Decimal[i - 1], list[i])]

LEMMA ListedFacts ==
  ASSUME NEW list \in Seq(Values), Decimals(Len(list))
  PROVE  /\ Listed(list) \in Seq(Pairs) /\ Len(Listed(list)) = Len(list)
         /\ \A i \in 1..Len(list) :
              /\ Decimal[i - 1] \in Keys /\ Number[Decimal[i - 1]] = {i - 1}
              /\ Listed(list)[i] = Pair(Decimal[i - 1], list[i])
              /\ Listed(list)[i].key = Decimal[i - 1] /\ Listed(list)[i].value = list[i]
  <1> DEFINE M == Len(list)
             l == Listed(list)
  <1>1. M \in Nat /\ \A i \in 1..M : list[i] \in Values
    OBVIOUS
  <1>2. \A i \in 1..M : /\ i - 1 \in DOMAIN Decimal /\ Decimal[i - 1] \in Keys
                        /\ Number[Decimal[i - 1]] = {i - 1}
    <2>1. \A i \in 1..M : i - 1 \in 0..(M - 1)
      BY <1>1
    <2> QED BY <2>1, KeyAssumption DEF Decimals
  <1>3. l \in Seq(Pairs) /\ Len(l) = M /\ \A i \in 1..M : l[i] = Pair(Decimal[i - 1], list[i])
    <2>1. \A i \in 1..M : Pair(Decimal[i - 1], list[i]) \in Pairs
      BY <1>1, <1>2 DEF Pair, Pairs
    <2> QED BY <1>1, <2>1 DEF Listed
  <1> HIDE DEF l, M
  <1>4. \A i \in 1..M : l[i].key = Decimal[i - 1] /\ l[i].value = list[i]
    <2> SUFFICES ASSUME NEW i \in 1..M
                 PROVE  l[i].key = Decimal[i - 1] /\ l[i].value = list[i]
      OBVIOUS
    <2>1. l[i] = Pair(Decimal[i - 1], list[i])
      BY <1>3
    <2> QED BY <2>1 DEF Pair
  <1> QED BY <1>2, <1>3, <1>4 DEF l, M

LEMMA SameSeq ==
  ASSUME NEW U, NEW s \in Seq(U), NEW t \in Seq(U), Len(s) = Len(t),
         \A i \in 1..Len(s) : s[i] = t[i]
  PROVE  s = t
  OBVIOUS

\* What comes of pairs for names and for the numbers of a list behind them.
LEMMA RebuiltHolds ==
  ASSUME NEW named \in Seq(Pairs), NEW list \in Seq(Values), Decimals(Len(list)),
         \A i \in 1..Len(named) : named[i].key \in NameKeys,
         \A i, j \in 1..Len(named) : named[i].key = named[j].key => i = j,
         NEW A \in SUBSET Address, IsFiniteSet(A), Len(named) + Len(list) <= Cardinality(A)
  PROVE  LET b == Refill(named \o Listed(list)) IN
         /\ Sound(b)
         /\ b.size = Len(named) + Len(list)
         /\ \A i \in 1..Len(named) : /\ KeysOf(b)[i] = named[i].key
                                     /\ ArrayGet(b, named[i].key) = named[i].value
         /\ \A i \in 1..Len(list) : /\ KeysOf(b)[Len(named) + i] = Decimal[i - 1]
                                    /\ ArrayGet(b, Decimal[i - 1]) = list[i]
  <1> DEFINE L == Len(named)
             M == Len(list)
             l == Listed(list)
             pairs == named \o l
             b == Refill(pairs)
  <1>1. L \in Nat /\ M \in Nat /\ \A i \in 1..M : list[i] \in Values
    OBVIOUS
  <1>2. \A i \in 1..M : Decimal[i - 1] \in Keys /\ Number[Decimal[i - 1]] = {i - 1}
    BY ListedFacts
  <1>3. l \in Seq(Pairs) /\ Len(l) = M
        /\ \A i \in 1..M : l[i].key = Decimal[i - 1] /\ l[i].value = list[i]
    BY ListedFacts
  <1> HIDE DEF l
  <1>4. /\ pairs \in Seq(Pairs) /\ Len(pairs) = L + M
        /\ \A i \in 1..L : pairs[i] = named[i]
        /\ \A i \in 1..M : pairs[L + i] = l[i]
    <2>1. named \in Seq(Pairs) /\ l \in Seq(Pairs) /\ Len(l) = M
      BY <1>3
    <2>2. pairs \in Seq(Pairs) /\ IsJoined(pairs, named, l)
      BY <2>1, Joined
    <2> QED BY <2>1, <2>2 DEF IsJoined
  <1> HIDE DEF pairs, L, M, b
  <1>5. \A i \in 1..M : /\ pairs[L + i].key = Decimal[i - 1] /\ pairs[L + i].value = list[i]
    BY <1>3, <1>4
  <1>6. \A i \in 1..(L + M) : i \in 1..L \/ \E j \in 1..M : i = L + j
    <2> SUFFICES ASSUME NEW i \in 1..(L + M), i \notin 1..L PROVE \E j \in 1..M : i = L + j
      OBVIOUS
    <2>1. i - L \in 1..M /\ i = L + (i - L)
      BY <1>1
    <2> QED BY <2>1
  <1>7. ASSUME NEW i \in 1..(L + M), NEW j \in 1..(L + M), pairs[i].key = pairs[j].key
        PROVE  i = j
    <2>1. \A x \in 1..L : \A y \in 1..M : pairs[x].key # pairs[L + y].key
      <3>1. \A x \in 1..L : Number[pairs[x].key] = {}
        BY <1>4 DEF NameKeys, L
      <3>2. \A y \in 1..M : Number[pairs[L + y].key] # {}
        BY <1>2, <1>5
      <3> QED BY <3>1, <3>2
    <2>2. \A x, y \in 1..M : pairs[L + x].key = pairs[L + y].key => x = y
      <3>1. \A x, y \in 1..M : Decimal[x - 1] = Decimal[y - 1] => x - 1 = y - 1
        BY <1>2
      <3>2. \A x, y \in 1..M : x - 1 = y - 1 => x = y
        BY <1>1
      <3> QED BY <1>5, <3>1, <3>2
    <2>3. \A x, y \in 1..L : pairs[x].key = pairs[y].key => x = y
      BY <1>4 DEF L
    <2> QED BY <1>6, <1>7, <2>1, <2>2, <2>3
  <1>8. HoldsFirst(b, pairs, L + M)
    BY <1>4, RefillHolds DEF L, M, b
  <1>9. /\ Sound(b) /\ KeysOf(b) = [i \in 1..(L + M) |-> pairs[i].key]
        /\ \A i \in 1..(L + M) : ArrayGet(b, pairs[i].key) = pairs[i].value
    BY <1>7, <1>8 DEF HoldsFirst
  <1>10. b.size = L + M
    <2>1. DOMAIN KeysOf(b) = 1..b.size /\ b.size \in Nat /\ Len(KeysOf(b)) = b.size
      BY <1>9, SoundFacts
    <2> QED BY <1>1, <1>9, <2>1
  <1>11. \A i \in 1..L : /\ KeysOf(b)[i] = named[i].key
                         /\ ArrayGet(b, named[i].key) = named[i].value
    <2>1. \A i \in 1..L : i \in 1..(L + M)
      BY <1>1
    <2> QED BY <1>4, <1>9, <2>1
  <1>12. \A i \in 1..M : /\ KeysOf(b)[L + i] = Decimal[i - 1]
                         /\ ArrayGet(b, Decimal[i - 1]) = list[i]
    <2>1. \A i \in 1..M : L + i \in 1..(L + M)
      BY <1>1
    <2> QED BY <1>5, <1>9, <2>1
  <1> QED BY <1>9, <1>10, <1>11, <1>12 DEF b, pairs, l, L, M

\* The values at the indices of a, in their order.
ValuesAt(a) == [i \in 1..Len(Indices(a)) |-> ArrayGet(a, Decimal[Indices(a)[i]])]

LEMMA ValuesAtFacts ==
  ASSUME NEW a, Sound(a), AllPlain(a)
  PROVE  ValuesAt(a) \in Seq(Values) /\ Len(ValuesAt(a)) = Len(Indices(a))
  <1>1. \A i \in 1..Len(Indices(a)) : ArrayGet(a, Decimal[Indices(a)[i]]) \in Values
    <2>1. \A i \in 1..Len(Indices(a)) : Decimal[Indices(a)[i]] \in Numbers(a)
      BY PlainRank
    <2>2. \A k \in Numbers(a) : k \in Keys /\ Has(a, k)
      BY DEF Numbers, NumberKeys
    <2> QED BY <2>1, <2>2, SoundFacts
  <1>2. Len(Indices(a)) \in Nat
    BY IndicesFacts
  <1> QED BY <1>1, <1>2 DEF ValuesAt

LEMMA NamedApart ==
  ASSUME NEW a, Sound(a)
  PROVE  /\ \A i \in 1..Len(Named(a)) : Named(a)[i].key \in NameKeys
         /\ \A i, j \in 1..Len(Named(a)) : Named(a)[i].key = Named(a)[j].key => i = j
  <1> DEFINE s == KeysOf(a)
             o == Only(s, NameKeys)
  <1>1. s \in Seq(Keys) /\ \A i, j \in DOMAIN s : s[i] = s[j] => i = j
    BY SoundFacts
  <1>2. /\ Len(Named(a)) = Len(o)
        /\ \A i \in 1..Len(o) : Named(a)[i].key = o[i] /\ o[i] \in NameKeys
    BY NamedFacts
  <1> HIDE DEF s
  <1>3. o \in Seq(Keys \cap NameKeys) /\ \A i, j \in DOMAIN o : o[i] = o[j] => i = j
    BY <1>1, OnlyFacts
  <1>4. DOMAIN o = 1..Len(o)
    BY <1>3
  <1> HIDE DEF o
  <1> QED BY <1>2, <1>3, <1>4

NamesOf(a) == Only(KeysOf(a), NameKeys)

\* b has the names of a, as they were, and then 0, 1, ... with the values of
\* a list.
Rebuilt(b, a, list) ==
  /\ Sound(b)
  /\ b.size = Len(NamesOf(a)) + Len(list)
  /\ \A i \in 1..Len(NamesOf(a)) :
       /\ KeysOf(b)[i] = NamesOf(a)[i]
       /\ ArrayGet(b, NamesOf(a)[i]) = ArrayGet(a, NamesOf(a)[i])
  /\ \A i \in 1..Len(list) :
       /\ KeysOf(b)[Len(NamesOf(a)) + i] = Decimal[i - 1]
       /\ ArrayGet(b, Decimal[i - 1]) = list[i]

LEMMA ShiftPlain ==
  ASSUME NEW a, Sound(a), AllPlain(a), Indices(a) # <<>>, Decimals(Len(Indices(a)) - 1)
  PROVE  LET rest == ArrayDelete(a, Decimal[Head(Indices(a))]) IN
         Rebuilt(Refill(Named(rest) \o Renumbered(rest, Tail(Indices(a)), 0)),
                 a, Tail(ValuesAt(a)))
  <1> DEFINE ns == Indices(a)
             n == Len(ns)
             first == Decimal[Head(ns)]
             rest == ArrayDelete(a, first)
             tail == Tail(ns)
             named == Named(rest)
             renum == Renumbered(rest, tail, 0)
             list == Tail(ValuesAt(a))
  <1>1. first \in NumberKeys /\ Sound(rest) /\ renum \in Seq(Pairs)
        /\ Len(named \o renum) <= a.size
    BY ShiftPairs
  <1>2. /\ ns \in Seq(Int) /\ n \in Nat /\ \A r \in 1..n : ns[r] \in DOMAIN Decimal
    BY IndicesFacts
  <1>3. /\ ValuesAt(a) \in Seq(Values) /\ Len(ValuesAt(a)) = n
        /\ \A i \in 1..n : ValuesAt(a)[i] = ArrayGet(a, Decimal[ns[i]])
    BY <1>2, ValuesAtFacts DEF ValuesAt
  <1>4. \A r \in 1..n : /\ Decimal[ns[r]] \in Numbers(a) /\ Num(Decimal[ns[r]]) = ns[r]
                        /\ Cardinality(Lower(a, Decimal[ns[r]])) = r - 1
    BY PlainRank
  <1>5. ns # <<>> /\ Decimals(n - 1)
    OBVIOUS
  <1>6. first \in Keys
    BY <1>1 DEF NumberKeys
  <1>7. \A j \in Keys : ArrayGet(rest, j) = IF j = first THEN None ELSE ArrayGet(a, j)
    <2> HIDE DEF first
    <2> QED BY <1>6, SoundDelete
  <1>8. NamesOf(rest) = NamesOf(a)
    <2> HIDE DEF first
    <2> QED BY <1>1, NamesAfterDelete DEF NamesOf
  <1> HIDE DEF ns, n, rest
  <1>9. n # 0 /\ n - 1 \in Nat /\ Len(ns) = n
    BY <1>2, <1>5 DEF n
  <1>10. /\ tail \in Seq(DOMAIN Decimal) /\ Len(tail) = n - 1
         /\ \A i \in 1..(n - 1) : tail[i] = ns[i + 1]
    <2>1. ns \in Seq(DOMAIN Decimal)
      BY <1>2 DEF n
    <2> QED BY <1>9, <2>1
  <1>11. /\ list \in Seq(Values) /\ Len(list) = n - 1
         /\ \A i \in 1..(n - 1) : list[i] = ArrayGet(a, Decimal[ns[i + 1]])
    BY <1>3, <1>9
  <1>12. Head(ns) = ns[1]
    BY <1>2, <1>9
  <1>13. ASSUME NEW i \in 1..(n - 1)
         PROVE  /\ Decimal[ns[i + 1]] \in Keys /\ Decimal[ns[i + 1]] # first
                /\ Has(a, Decimal[ns[i + 1]])
    <2>1. i + 1 \in 1..n /\ 1 \in 1..n
      BY <1>9
    <2>2. Decimal[ns[i + 1]] \in Numbers(a)
      BY <1>4, <2>1
    <2>3. /\ Cardinality(Lower(a, Decimal[ns[i + 1]])) = (i + 1) - 1
          /\ Cardinality(Lower(a, Decimal[ns[1]])) = 1 - 1
      BY <1>4, <2>1
    <2>4. (i + 1) - 1 # 1 - 1
      BY <1>9
    <2> QED BY <1>12, <2>2, <2>3, <2>4 DEF Numbers, NumberKeys
  <1> HIDE DEF first, list, tail
  <1>14. \A i \in 1..(n - 1) : /\ ArrayGet(rest, Decimal[ns[i + 1]]) = list[i]
                               /\ Find(rest, Decimal[ns[i + 1]]) # NULL
    <2> SUFFICES ASSUME NEW i \in 1..(n - 1)
                 PROVE  /\ ArrayGet(rest, Decimal[ns[i + 1]]) = list[i]
                        /\ Find(rest, Decimal[ns[i + 1]]) # NULL
      OBVIOUS
    <2>1. ArrayGet(rest, Decimal[ns[i + 1]]) = list[i]
      BY <1>7, <1>11, <1>13
    <2>2. list[i] \in Values
      BY <1>11
    <2>3. list[i] # None
      BY <2>2, KeyAssumption
    <2> QED BY <1>1, <1>13, <2>1, <2>3, SoundFacts
  <1>15. renum = Listed(list)
    <2>1. \A i \in 1..Len(tail) : Find(rest, Decimal[tail[i]]) # NULL
      BY <1>10, <1>14
    <2>2. renum = [j \in 1..Len(tail) |-> Pair(Decimal[j - 1 + 0], ArrayGet(rest, Decimal[tail[j]]))]
      BY <1>10, <2>1, RenumberedAll
    <2>3. \A j \in 1..(n - 1) : j - 1 + 0 = j - 1 /\ ArrayGet(rest, Decimal[tail[j]]) = list[j]
      BY <1>9, <1>10, <1>14
    <2> HIDE DEF renum
    <2> QED BY <1>10, <1>11, <2>2, <2>3 DEF Listed
  <1>16. /\ named \in Seq(Pairs) /\ Len(named) = Len(NamesOf(a))
         /\ \A i \in 1..Len(named) : /\ named[i].key = NamesOf(a)[i]
                                     /\ named[i].key \in NameKeys
                                     /\ named[i].value = ArrayGet(rest, named[i].key)
         /\ \A i, j \in 1..Len(named) : named[i].key = named[j].key => i = j
    BY <1>1, <1>8, NamedFacts, NamedApart DEF NamesOf
  <1> HIDE DEF named, renum
  <1>17. \A i \in 1..Len(named) : named[i].value = ArrayGet(a, named[i].key)
    <2>1. first \notin NameKeys /\ NameKeys \subseteq Keys
      BY <1>1 DEF NameKeys, NumberKeys
    <2> QED BY <1>7, <1>16, <2>1
  <1>18. Len(named) + Len(list) <= a.size
    <2>1. Len(renum) = n - 1
      BY <1>9, <1>11, <1>15 DEF Listed
    <2>2. Len(named \o renum) = Len(named) + Len(renum)
      BY <1>1, <1>16, ConcatProperties
    <2> QED BY <1>1, <1>11, <2>1, <2>2
  <1>19. IsFiniteSet(Live(a)) /\ Cardinality(Live(a)) = a.size /\ Live(a) \in SUBSET Address
    BY SoundFacts
  <1>20. Decimals(Len(list))
    BY <1>5, <1>11
  <1> DEFINE b == Refill(named \o Listed(list))
  <1>21. /\ Sound(b)
         /\ b.size = Len(named) + Len(list)
         /\ \A i \in 1..Len(named) : /\ KeysOf(b)[i] = named[i].key
                                     /\ ArrayGet(b, named[i].key) = named[i].value
         /\ \A i \in 1..Len(list) : /\ KeysOf(b)[Len(named) + i] = Decimal[i - 1]
                                    /\ ArrayGet(b, Decimal[i - 1]) = list[i]
    BY <1>11, <1>16, <1>18, <1>19, <1>20, RebuiltHolds
  <1> HIDE DEF b
  <1>22. Rebuilt(b, a, list)
    BY <1>16, <1>17, <1>21 DEF Rebuilt
  <1> QED BY <1>15, <1>22 DEF b, renum, named, tail, list, rest, first, ns

LEMMA UnshiftPlain ==
  ASSUME NEW a, Sound(a), AllPlain(a), Decimals(Len(Indices(a)) + 1), NEW v \in Values,
         Address \ Live(a) # {}
  PROVE  Rebuilt(Refill(Named(a) \o <<Pair(Decimal[0], v)>> \o Renumbered(a, Indices(a), 1)),
                 a, <<v>> \o ValuesAt(a))
  <1> DEFINE ns == Indices(a)
             n == Len(ns)
             named == Named(a)
             new == Pair(Decimal[0], v)
             renum == Renumbered(a, ns, 1)
             list == <<v>> \o ValuesAt(a)
             pairs == named \o <<new>> \o renum
  <1>1. /\ renum \in Seq(Pairs) /\ new \in Pairs
        /\ pairs \in Seq(Pairs) /\ Len(pairs) <= a.size + 1
    BY UnshiftPairs
  <1>2. /\ ns \in Seq(Int) /\ n \in Nat /\ \A r \in 1..n : ns[r] \in DOMAIN Decimal
    BY IndicesFacts
  <1>3. /\ ValuesAt(a) \in Seq(Values) /\ Len(ValuesAt(a)) = n
        /\ \A i \in 1..n : ValuesAt(a)[i] = ArrayGet(a, Decimal[ns[i]])
    BY <1>2, ValuesAtFacts DEF ValuesAt
  <1>4. \A r \in 1..n : Find(a, Decimal[ns[r]]) # NULL
    <2>1. \A r \in 1..n : Decimal[ns[r]] \in Numbers(a)
      BY PlainRank
    <2>2. \A k \in Numbers(a) : k \in Keys /\ Has(a, k)
      BY DEF Numbers, NumberKeys
    <2> QED BY <2>1, <2>2, SoundFacts
  <1>5. Decimals(n + 1)
    OBVIOUS
  <1> HIDE DEF ns
  <1>6. ns \in Seq(DOMAIN Decimal)
    BY <1>2
  <1>7. renum = [j \in 1..n |-> Pair(Decimal[j - 1 + 1], ArrayGet(a, Decimal[ns[j]]))]
    BY <1>4, <1>6, RenumberedAll
  <1> HIDE DEF n, named, renum
  <1>8. /\ list \in Seq(Values) /\ Len(list) = n + 1 /\ list[1] = v
        /\ \A i \in 1..n : list[i + 1] = ValuesAt(a)[i]
    <2>1. <<v>> \in Seq(Values) /\ Len(<<v>>) = 1
      OBVIOUS
    <2>2. list \in Seq(Values) /\ IsJoined(list, <<v>>, ValuesAt(a))
      BY <1>3, <2>1, Joined
    <2> HIDE DEF list
    <2>3. Len(list) = 1 + n /\ 1 + n = n + 1
      BY <1>2, <1>3, <2>1, <2>2 DEF IsJoined
    <2>4. list[1] = v
      <3>1. 1 \in 1..1 /\ <<v>>[1] = v
        OBVIOUS
      <3> QED BY <2>1, <2>2, <3>1 DEF IsJoined
    <2>5. \A i \in 1..n : list[i + 1] = ValuesAt(a)[i]
      <3>1. \A i \in 1..n : list[1 + i] = ValuesAt(a)[i]
        BY <1>3, <2>1, <2>2 DEF IsJoined
      <3>2. \A i \in 1..n : i + 1 = 1 + i
        BY <1>2
      <3> QED BY <3>1, <3>2
    <2> QED BY <2>2, <2>3, <2>4, <2>5
  <1> HIDE DEF list
  <1>9. /\ named \in Seq(Pairs) /\ Len(named) = Len(NamesOf(a))
        /\ \A i \in 1..Len(named) : /\ named[i].key = NamesOf(a)[i]
                                    /\ named[i].key \in NameKeys
                                    /\ named[i].value = ArrayGet(a, named[i].key)
        /\ \A i, j \in 1..Len(named) : named[i].key = named[j].key => i = j
    BY NamedFacts, NamedApart DEF NamesOf, named
  <1>10. pairs = named \o Listed(list)
    <2> DEFINE L == Len(named)
               one == named \o <<new>>
               other == named \o Listed(list)
    <2>1. L \in Nat /\ Len(renum) = n
      BY <1>2, <1>7, <1>9
    <2>2. <<new>> \in Seq(Pairs) /\ Len(<<new>>) = 1 /\ <<new>>[1] = new
      BY <1>1
    <2>3. one \in Seq(Pairs) /\ IsJoined(one, named, <<new>>)
      BY <1>9, <2>2, Joined
    <2>4. pairs \in Seq(Pairs) /\ IsJoined(pairs, one, renum)
      <3> HIDE DEF one, new
      <3> QED BY <1>1, <2>3, Joined DEF one
    <2>5. Listed(list) \in Seq(Pairs) /\ Len(Listed(list)) = n + 1
          /\ \A i \in 1..(n + 1) : Listed(list)[i] = Pair(Decimal[i - 1], list[i])
      BY <1>5, <1>8, ListedFacts
    <2>6. other \in Seq(Pairs) /\ IsJoined(other, named, Listed(list))
      BY <1>9, <2>5, Joined
    <2> HIDE DEF one, other, pairs, new
    <2>7. Len(one) = L + 1 /\ Len(pairs) = L + 1 + n /\ Len(other) = L + (n + 1)
      BY <2>1, <2>2, <2>3, <2>4, <2>5, <2>6 DEF IsJoined
    <2>8. ASSUME NEW i \in 1..(L + 1 + n) PROVE pairs[i] = other[i]
      <3>1. CASE i \in 1..L
        <4>1. i \in 1..(L + 1)
          BY <2>1, <3>1
        <4>2. pairs[i] = one[i]
          BY <2>4, <2>7, <4>1 DEF IsJoined
        <4> QED BY <2>3, <2>6, <3>1, <4>2 DEF IsJoined
      <3>2. CASE i = L + 1
        <4>1. i \in 1..(L + 1) /\ 1 \in 1..1 /\ 1 \in 1..(n + 1) /\ i \in Int
          BY <1>2, <2>1, <3>2
        <4>2. pairs[i] = one[i] /\ one[i] = <<new>>[1]
          BY <2>2, <2>3, <2>4, <2>7, <3>2, <4>1 DEF IsJoined
        <4>3. other[i] = Listed(list)[1]
          BY <2>5, <2>6, <3>2, <4>1 DEF IsJoined
        <4>4. Listed(list)[1] = Pair(Decimal[0], v)
          BY <1>8, <2>5, <4>1
        <4> QED BY <2>2, <4>2, <4>3, <4>4 DEF new
      <3>3. CASE i > L + 1
        <4> DEFINE j == i - (L + 1)
        <4>1. j \in 1..n /\ i = (L + 1) + j /\ j + 1 \in 1..(n + 1) /\ i = L + (j + 1)
              /\ (j + 1) - 1 = j /\ j - 1 + 1 = j
          BY <1>2, <2>1, <3>3
        <4> HIDE DEF j
        <4>2. pairs[i] = renum[j]
          BY <2>1, <2>4, <2>7, <4>1 DEF IsJoined
        <4>3. other[i] = Listed(list)[j + 1]
          BY <2>5, <2>6, <4>1 DEF IsJoined
        <4>4. Listed(list)[j + 1] = Pair(Decimal[j], ArrayGet(a, Decimal[ns[j]]))
          BY <1>3, <1>8, <2>5, <4>1 DEF n
        <4>5. renum[j] = Pair(Decimal[j], ArrayGet(a, Decimal[ns[j]]))
          BY <1>7, <4>1
        <4> QED BY <4>2, <4>3, <4>4, <4>5
      <3> QED BY <2>1, <3>1, <3>2, <3>3
    <2>9. Len(pairs) = Len(other) /\ \A i \in 1..Len(pairs) : pairs[i] = other[i]
      BY <1>2, <2>1, <2>7, <2>8
    <2>10. pairs = other
      BY <2>4, <2>6, <2>9, SameSeq
    <2> QED BY <2>10 DEF other
  <1>11. Decimals(Len(list))
    BY <1>5, <1>8
  <1>12. PICK A \in SUBSET Address : IsFiniteSet(A) /\ Cardinality(A) = a.size + 1
    BY RoomFor
  <1>13. Len(named) + Len(list) <= Cardinality(A)
    <2>1. Len(pairs) = Len(named) + Len(list)
      <3>1. Listed(list) \in Seq(Pairs) /\ Len(Listed(list)) = Len(list)
        BY <1>8, <1>11, ListedFacts
      <3>2. IsJoined(named \o Listed(list), named, Listed(list))
        BY <1>9, <3>1, Joined
      <3> HIDE DEF pairs
      <3> QED BY <1>10, <3>1, <3>2 DEF IsJoined
    <2> QED BY <1>1, <1>12, <2>1
  <1> DEFINE b == Refill(named \o Listed(list))
  <1>14. /\ Sound(b)
         /\ b.size = Len(named) + Len(list)
         /\ \A i \in 1..Len(named) : /\ KeysOf(b)[i] = named[i].key
                                     /\ ArrayGet(b, named[i].key) = named[i].value
         /\ \A i \in 1..Len(list) : /\ KeysOf(b)[Len(named) + i] = Decimal[i - 1]
                                    /\ ArrayGet(b, Decimal[i - 1]) = list[i]
    BY <1>8, <1>9, <1>11, <1>12, <1>13, RebuiltHolds
  <1> HIDE DEF b
  <1>15. Rebuilt(b, a, list)
    BY <1>9, <1>14 DEF Rebuilt
  <1> QED BY <1>10, <1>15 DEF b, renum, named, list, ns

----------------------------------------------------------------------------
(* The array is an ordered map                                             *)

Held(a) == ToSet(KeysOf(a))
Contents(a) == [k \in Held(a) |-> ArrayGet(a, k)]

LEMMA HeldFacts ==
  ASSUME NEW a, Sound(a)
  PROVE  /\ Held(a) \subseteq Keys /\ \A k : k \in Held(a) <=> Has(a, k)
         /\ \A k \in Keys : k \notin Held(a) => ArrayGet(a, k) = None
         /\ \A k \in Held(a) : ArrayGet(a, k) \in Values
  BY SoundFacts DEF Held, Has, ToSet

LEMMA SameOnly ==
  ASSUME NEW U, NEW s \in Seq(U), NEW S, NEW T,
         \A i \in 1..Len(s) : s[i] \in S <=> s[i] \in T
  PROVE  Only(s, S) = Only(s, T)
  <1>1. Places(s, S) = Places(s, T)
    BY DEF Places
  <1>2. PICK m \in Nat : \E g : IsOnly(g, m, s, S)
    BY OnlyBy
  <1>3. PICK g : IsOnly(g, m, s, S)
    BY <1>2
  <1>4. Rising(g, m, Places(s, T))
    BY <1>1, <1>3 DEF IsOnly
  <1>5. IsOnly(g, m, s, T)
    BY <1>4, OnlyByThis
  <1> QED BY <1>3, <1>5 DEF IsOnly

LEMMA NamesHeld ==
  ASSUME NEW a, Sound(a)
  PROVE  /\ Only(KeysOf(a), {k \in Held(a) : Number[k] = {}}) = NamesOf(a)
         /\ NamesOf(a) \in Seq(Keys)
         /\ \A i \in 1..Len(NamesOf(a)) : NamesOf(a)[i] \in NameKeys /\ Has(a, NamesOf(a)[i])
  <1> DEFINE s == KeysOf(a)
             S == {k \in Held(a) : Number[k] = {}}
  <1>1. s \in Seq(Keys) /\ \A i \in 1..Len(s) : s[i] \in Keys /\ s[i] \in Held(a)
    BY SoundFacts DEF Held, ToSet
  <1>2. \A i \in 1..Len(s) : s[i] \in S <=> s[i] \in NameKeys
    BY <1>1 DEF NameKeys
  <1>3. \A k : k \in Held(a) <=> Has(a, k)
    BY HeldFacts
  <1> HIDE DEF s, S
  <1>4. Only(s, S) = Only(s, NameKeys)
    BY <1>1, <1>2, SameOnly
  <1>5. /\ Only(s, NameKeys) \in Seq(Keys \cap NameKeys)
        /\ \A j \in DOMAIN Only(s, NameKeys) : \E i \in DOMAIN s : Only(s, NameKeys)[j] = s[i]
    BY <1>1, OnlyFacts
  <1>6. DOMAIN s = 1..Len(s)
    BY <1>1
  <1> DEFINE o == Only(s, NameKeys)
  <1> HIDE DEF o
  <1>7. o \in Seq(Keys) /\ \A j \in 1..Len(o) : o[j] \in NameKeys /\ \E i \in DOMAIN s : o[j] = s[i]
    BY <1>5 DEF o
  <1>8. \A j \in 1..Len(o) : Has(a, o[j])
    BY <1>1, <1>3, <1>6, <1>7
  <1> QED BY <1>4, <1>7, <1>8 DEF NamesOf, o, s, S

\* The entries that an assignment leaves.
Assigned(f, S, k, v) == [j \in S \cup {k} |-> IF j = k THEN v ELSE f[j]]

LEMMA AssignHolds ==
  ASSUME NEW a, Sound(a), NEW k \in Keys, NEW v \in Values, Address \ Live(a) # {},
         NEW b, b = ArraySet(a, k, v)
  PROVE  /\ KeysOf(b) = IF k \in Held(a) THEN KeysOf(a) ELSE Append(KeysOf(a), k)
         /\ Contents(b) = Assigned(Contents(a), Held(a), k, v)
  <1>1. /\ KeysOf(b) = IF Has(a, k) THEN KeysOf(a) ELSE Append(KeysOf(a), k)
        /\ \A j \in Keys : ArrayGet(b, j) = IF j = k THEN v ELSE ArrayGet(a, j)
    BY SoundSet
  <1>2. Held(a) \subseteq Keys /\ (k \in Held(a) <=> Has(a, k)) /\ KeysOf(a) \in Seq(Keys)
    BY HeldFacts, SoundFacts
  <1>3. Held(b) = Held(a) \cup {k}
    <2>1. CASE k \in Held(a)
      BY <1>1, <1>2, <2>1 DEF Held
    <2>2. CASE k \notin Held(a)
      <3>1. KeysOf(b) = Append(KeysOf(a), k)
        BY <1>1, <1>2, <2>2
      <3> QED BY <1>2, <3>1 DEF Held, ToSet
    <2> QED BY <2>1, <2>2
  <1>4. Contents(b) = [j \in Held(a) \cup {k} |-> IF j = k THEN v ELSE Contents(a)[j]]
    <2>1. \A j \in Held(a) \cup {k} : ArrayGet(b, j) = IF j = k THEN v ELSE Contents(a)[j]
      BY <1>1, <1>2 DEF Contents
    <2> QED BY <1>3, <2>1 DEF Contents
  <1> QED BY <1>1, <1>2, <1>4 DEF Assigned

LEMMA RemoveHolds ==
  ASSUME NEW a, Sound(a), NEW k \in Keys
  PROVE  LET b == ArrayDelete(a, k) IN
         /\ KeysOf(b) = Only(KeysOf(a), Held(a) \ {k})
         /\ Contents(b) = [j \in Held(a) \ {k} |-> Contents(a)[j]]
         /\ ArrayGet(a, k) = IF k \in Held(a) THEN Contents(a)[k] ELSE None
  <1> DEFINE b == ArrayDelete(a, k)
             s == KeysOf(a)
             S == Held(a) \ {k}
  <1>1. /\ Sound(b)
        /\ ~Has(a, k) => b = a
        /\ \A p \in 1..a.size : KeysOf(a)[p] = k => KeysOf(b) = Skip(KeysOf(a), p)
        /\ \A j \in Keys : ArrayGet(b, j) = IF j = k THEN None ELSE ArrayGet(a, j)
    BY SoundDelete
  <1>2. /\ Held(a) \subseteq Keys /\ (\A j : j \in Held(a) <=> Has(a, j))
        /\ \A j \in Keys : j \notin Held(a) => ArrayGet(a, j) = None
        /\ Held(b) \subseteq Keys /\ (\A j : j \in Held(b) <=> Has(b, j))
        /\ \A j \in Keys : j \notin Held(b) => ArrayGet(b, j) = None
        /\ \A j \in Held(a) : ArrayGet(a, j) \in Values
        /\ \A j \in Held(b) : ArrayGet(b, j) \in Values
    BY <1>1, HeldFacts
  <1>3. /\ s \in Seq(Keys) /\ Len(s) = a.size
        /\ \A i \in 1..Len(s) : s[i] \in Held(a)
        /\ \A i, j \in 1..Len(s) : s[i] = s[j] => i = j
    BY SoundFacts DEF Held, ToSet
  <1> HIDE DEF b, s, S
  <1>4. Held(b) = Held(a) \ {k}
    <2>1. None \notin Values
      BY KeyAssumption
    <2> QED BY <1>1, <1>2, <2>1
  <1>5. KeysOf(b) = Only(s, S)
    <2>1. CASE ~Has(a, k)
      <3>1. \A i \in 1..Len(s) : s[i] \in S
        BY <1>2, <1>3, <2>1 DEF S
      <3>2. Only(s, S) = s
        BY <1>3, <3>1, OnlyAll
      <3> QED BY <1>1, <2>1, <3>2 DEF s
    <2>2. CASE Has(a, k)
      <3>1. PICK p \in 1..Len(s) : s[p] = k
        BY <2>2 DEF Has, s
      <3>2. KeysOf(b) = Skip(s, p)
        BY <1>1, <1>3, <3>1 DEF s
      <3> DEFINE t == Skip(s, p)
      <3>3. t \in Seq(Keys)
        BY <1>3, SkipFacts
      <3>4. Only(t, S) = Only(s, S)
        BY <1>3, <3>1, OnlySkip DEF S
      <3>5. \A i \in 1..Len(t) : t[i] \in S
        <4>1. \A i \in 1..Len(t) : t[i] \in Held(b)
          BY <3>2 , <1>1, SoundFacts DEF Held, ToSet
        <4> QED BY <1>4, <4>1 DEF S
      <3> HIDE DEF t
      <3>6. Only(t, S) = t
        BY <3>3, <3>5, OnlyAll
      <3> QED BY <3>2, <3>4, <3>6 DEF t
    <2> QED BY <2>1, <2>2
  <1>6. Contents(b) = [j \in Held(a) \ {k} |-> Contents(a)[j]]
    <2>1. \A j \in Held(a) \ {k} : ArrayGet(b, j) = Contents(a)[j]
      BY <1>1, <1>2 DEF Contents
    <2> QED BY <1>4, <2>1 DEF Contents
  <1>7. ArrayGet(a, k) = IF k \in Held(a) THEN Contents(a)[k] ELSE None
    BY <1>2 DEF Contents
  <1> QED BY <1>5, <1>6, <1>7 DEF b, s, S

\* The key at a rank, and what stands there.
LEMMA AtRank ==
  ASSUME NEW a, Sound(a), AllPlain(a), NEW r \in 1..Len(Indices(a))
  PROVE  /\ (CHOOSE j \in Numbers(a) : Cardinality(Lower(a, j)) = r - 1) = Decimal[Indices(a)[r]]
         /\ Decimal[Indices(a)[r]] \in Numbers(a)
         /\ Cardinality(Lower(a, Decimal[Indices(a)[r]])) = r - 1
         /\ Contents(a)[Decimal[Indices(a)[r]]] = ValuesAt(a)[r]
  <1> DEFINE k == Decimal[Indices(a)[r]]
  <1>1. k \in Numbers(a) /\ Cardinality(Lower(a, k)) = r - 1
    BY PlainRank
  <1>2. \A j \in Numbers(a) : Cardinality(Lower(a, j)) = Cardinality(Lower(a, k)) => j = k
    BY <1>1, PlainRank
  <1>3. k \in Held(a)
    BY <1>1, HeldFacts DEF Numbers
  <1>4. Contents(a)[k] = ValuesAt(a)[r]
    BY <1>3 DEF Contents, ValuesAt
  <1> HIDE DEF k
  <1>5. \A j \in Numbers(a) : Cardinality(Lower(a, j)) = r - 1 <=> j = k
    BY <1>1, <1>2
  <1>6. (CHOOSE j \in Numbers(a) : Cardinality(Lower(a, j)) = r - 1) = k
    BY <1>1, <1>5
  <1> QED BY <1>1, <1>4, <1>6 DEF k

\* The keys 0, 1, ... of a list.
FirstKeys(n) == [i \in 1..n |-> Decimal[i - 1]]

\* What b has for k after a rebuilding of a.
IsRebuilt(b, a, list, k) ==
  IF Number[k] = {} THEN Contents(b)[k] = Contents(a)[k]
  ELSE Num(k) \in 0..(Len(list) - 1) /\ Contents(b)[k] = list[Num(k) + 1]

LEMMA RebuiltContents ==
  ASSUME NEW a, NEW b, Sound(a), NEW list \in Seq(Values), Decimals(Len(list)), Rebuilt(b, a, list)
  PROVE  /\ KeysOf(b) = NamesOf(a) \o FirstKeys(Len(list))
         /\ \A k \in Held(b) : IsRebuilt(b, a, list, k)
  <1> DEFINE s == NamesOf(a)
             t == FirstKeys(Len(list))
             L == Len(s)
             M == Len(list)
             u == KeysOf(b)
  <1>1. M \in Nat /\ \A i \in 1..M : Decimal[i - 1] \in Keys /\ Number[Decimal[i - 1]] = {i - 1}
    <2>1. M \in Nat
      OBVIOUS
    <2> QED BY <2>1, ListedFacts
  <1>2. /\ s \in Seq(Keys) /\ L \in Nat
        /\ \A i \in 1..L : s[i] \in NameKeys /\ Has(a, s[i])
    <2>1. s \in Seq(Keys) /\ \A i \in 1..Len(s) : s[i] \in NameKeys /\ Has(a, s[i])
      BY NamesHeld
    <2> QED BY <2>1
  <1>3. t \in Seq(Keys) /\ Len(t) = M /\ \A i \in 1..M : t[i] = Decimal[i - 1]
    BY <1>1 DEF FirstKeys
  <1> HIDE DEF t
  <1>4. s \o t \in Seq(Keys) /\ IsJoined(s \o t, s, t)
    BY <1>2, <1>3, Joined
  <1>5. /\ Sound(b) /\ b.size = L + M
        /\ \A i \in 1..L : u[i] = s[i] /\ ArrayGet(b, s[i]) = ArrayGet(a, s[i])
        /\ \A i \in 1..M : u[L + i] = Decimal[i - 1] /\ ArrayGet(b, Decimal[i - 1]) = list[i]
    BY DEF Rebuilt
  <1>6. u \in Seq(Keys) /\ Len(u) = L + M /\ DOMAIN u = 1..(L + M)
    BY <1>5, SoundFacts
  <1>7. Held(b) = {u[i] : i \in 1..(L + M)}
    BY <1>6 DEF Held, ToSet
  <1>8. \A i \in 1..(L + M) : i \in 1..L \/ \E j \in 1..M : i = L + j
    <2> SUFFICES ASSUME NEW i \in 1..(L + M), i \notin 1..L PROVE \E j \in 1..M : i = L + j
      OBVIOUS
    <2>1. i - L \in 1..M /\ i = L + (i - L)
      BY <1>1, <1>2
    <2> QED BY <2>1
  <1> HIDE DEF s, u, L, M
  <1>9. u = s \o t
    <2> DEFINE w == s \o t
    <2> HIDE DEF w
    <2>1. w \in Seq(Keys) /\ Len(w) = L + M /\ (\A i \in 1..L : w[i] = s[i])
          /\ \A i \in 1..M : w[L + i] = t[i]
      BY <1>3, <1>4 DEF IsJoined, w, L
    <2>2. \A i \in 1..(L + M) : u[i] = w[i]
      <3>1. \A i \in 1..L : u[i] = w[i]
        BY <1>5, <2>1
      <3>2. \A i \in 1..M : u[L + i] = w[L + i]
        BY <1>3, <1>5, <2>1
      <3> QED BY <1>8, <3>1, <3>2
    <2>3. u = w
      BY <1>6, <2>1, <2>2, SameSeq
    <2> QED BY <2>3 DEF w
  <1>10. ASSUME NEW k \in Held(b)
         PROVE  IF Number[k] = {} THEN Contents(b)[k] = Contents(a)[k]
                ELSE Num(k) \in 0..(M - 1) /\ Contents(b)[k] = list[Num(k) + 1]
    <2>1. PICK i \in 1..(L + M) : u[i] = k
      BY <1>7
    <2>2. CASE i \in 1..L
      <3>1. k = s[i] /\ Number[k] = {} /\ Has(a, k)
        BY <1>2, <1>5, <2>1, <2>2 DEF NameKeys
      <3>2. k \in Held(a)
        BY <3>1, HeldFacts
      <3>3. Contents(b)[k] = Contents(a)[k]
        BY <1>5, <2>2, <3>1, <3>2 DEF Contents
      <3> QED BY <3>1, <3>3
    <2>3. CASE i \notin 1..L
      <3>1. PICK j \in 1..M : i = L + j
        BY <1>8, <2>3
      <3>2. k = Decimal[j - 1] /\ Number[k] = {j - 1} /\ ArrayGet(b, k) = list[j]
        BY <1>1, <1>5, <2>1, <3>1
      <3>3. Num(k) = j - 1
        BY <3>2 DEF Num
      <3>4. j - 1 \in 0..(M - 1) /\ (j - 1) + 1 = j
        BY <1>1
      <3>5. Contents(b)[k] = list[j]
        BY <3>2 DEF Contents
      <3> QED BY <3>2, <3>3, <3>4, <3>5
    <2> QED BY <2>2, <2>3
  <1> QED BY <1>9, <1>10 DEF u, s, t, M, IsRebuilt

LEMMA SameCardinality == \A S : Abstract!Cardinality(S) = Cardinality(S)
  BY DEF Abstract!Cardinality, Cardinality

LEMMA AbstractState ==
  ASSUME Sound(arr)
  PROVE  /\ Abstract!Present = Held(arr) /\ Abstract!Numbered = Numbers(arr)
         /\ \A k : Abstract!Num(k) = Num(k)
         /\ \A k : Abstract!Rank(k) = Cardinality(Lower(arr, k))
         /\ Abstract!Names = NamesOf(arr)
         /\ \A k \in Numbers(arr) : Abstract!Plain(k) <=> k = Decimal[Num(k)]
  <1>1. Abstract!Present = Held(arr)
    BY DEF Abstract!Present, Abstract!Elements, Held, ToSet
  <1>2. \A k : Abstract!Num(k) = Num(k)
    BY DEF Abstract!Num, Num
  <1>3. Abstract!Numbered = Numbers(arr)
    BY <1>1, HeldFacts DEF Abstract!Numbered, Numbers, NumberKeys
  <1>4. \A k : Abstract!Rank(k) = Cardinality(Lower(arr, k))
    BY <1>2, <1>3, SameCardinality DEF Abstract!Rank, Lower
  <1>5. Abstract!Names = NamesOf(arr)
    BY <1>1, NamesHeld DEF Abstract!Names, Abstract!Only, Only
  <1>6. \A k \in Numbers(arr) : Abstract!Plain(k) <=> k = Decimal[Num(k)]
    BY NumFacts DEF Abstract!Plain, Numbers
  <1> QED BY <1>1, <1>2, <1>3, <1>4, <1>5, <1>6

LEMMA AbstractInit == Init => Abstract!Init
  <1> SUFFICES ASSUME Init PROVE Abstract!Init
    OBVIOUS
  <1>1. KeysOf(arr) = <<>>
    BY SoundEmpty DEF Init
  <1>2. [k \in ToSet(KeysOf(arr)) |-> ArrayGet(arr, k)] = <<>>
    BY <1>1 DEF ToSet
  <1> QED BY <1>1, <1>2 DEF Abstract!Init, Init

LEMMA AbstractAssign ==
  ASSUME IInv, NEW k \in Keys, NEW v \in Values, SetItem(k, v)
  PROVE  Abstract!Assign(k, v)
  <1>1. Sound(arr) /\ Address \ Live(arr) # {} /\ arr' = ArraySet(arr, k, v) /\ out' = None
    BY DEF IInv, SetItem, Room
  <1>2. /\ KeysOf(arr') = IF k \in Held(arr) THEN KeysOf(arr) ELSE Append(KeysOf(arr), k)
        /\ Contents(arr') = Assigned(Contents(arr), Held(arr), k, v)
    BY <1>1, AssignHolds
  <1> QED BY <1>1, <1>2, AbstractState DEF Abstract!Assign, Assigned, Contents, Held

LEMMA AbstractPush ==
  ASSUME IInv, NEW v \in Values, Push(v)
  PROVE  Abstract!Push(v)
  <1>1. Len(KeysOf(arr)) = arr.size
    BY SoundFacts DEF IInv
  <1>2. arr.size \in DOMAIN Decimal /\ SetItem(Decimal[arr.size], v)
    BY DEF Push, SetItem
  <1>3. Abstract!Assign(Decimal[arr.size], v)
    BY <1>2, KeyAssumption, AbstractAssign
  <1>4. Abstract!Listed => arr.size = Len(KeysOf(arr))
    BY <1>1
  <1> QED BY <1>2, <1>3, <1>4 DEF Abstract!Push

LEMMA AbstractRemove ==
  ASSUME IInv, NEW k \in Keys, Delete(k)
  PROVE  Abstract!Remove(k)
  <1>1. Sound(arr) /\ arr' = ArrayDelete(arr, k) /\ out' = ArrayGet(arr, k)
    BY DEF IInv, Delete
  <1>2. /\ KeysOf(arr') = Only(KeysOf(arr), Held(arr) \ {k})
        /\ Contents(arr') = [j \in Held(arr) \ {k} |-> Contents(arr)[j]]
        /\ out' = IF k \in Held(arr) THEN Contents(arr)[k] ELSE None
    BY <1>1, RemoveHolds
  <1>3. Only(KeysOf(arr), Held(arr) \ {k}) = Abstract!Only(KeysOf(arr), Held(arr) \ {k})
    BY DEF Only, Abstract!Only
  <1> QED BY <1>1, <1>2, <1>3, AbstractState DEF Abstract!Remove, Contents, Held

\* NumbersOf lists the numbers of the keys that are numbers.
LEMMA NumberedAre ==
  ASSUME NEW a, Sound(a)
  PROVE  /\ \A n \in ToSet(NumbersOf(a)) : \E k \in Numbers(a) : Num(k) = n
         /\ \A k \in Numbers(a) : Num(k) \in ToSet(NumbersOf(a))
  <1> DEFINE s == KeysOf(a)
             o == Only(s, NumberKeys)
             ns == NumbersOf(a)
  <1>1. /\ o \in Seq(NumberKeys) /\ ns \in Seq(Int) /\ Len(ns) = Len(o)
        /\ \A i \in 1..Len(ns) : ns[i] = Num(o[i])
    BY NumbersFacts
  <1>2. s \in Seq(Keys)
    BY SoundFacts
  <1> HIDE DEF s
  <1>3. /\ \A i \in DOMAIN s : s[i] \in NumberKeys => \E j \in DOMAIN o : o[j] = s[i]
        /\ \A j \in DOMAIN o : \E i \in DOMAIN s : o[j] = s[i]
    BY <1>2, OnlyFacts
  <1> HIDE DEF o
  <1>4. DOMAIN o = 1..Len(o) /\ DOMAIN ns = 1..Len(o) /\ DOMAIN s = 1..Len(s)
    BY <1>1, <1>2
  <1>5. \A j \in 1..Len(o) : o[j] \in Numbers(a)
    <2>1. \A j \in 1..Len(o) : o[j] \in NumberKeys
      BY <1>1
    <2>2. \A j \in 1..Len(o) : \E i \in 1..Len(s) : o[j] = s[i]
      BY <1>3, <1>4
    <2> QED BY <2>1, <2>2 DEF Numbers, Has, s
  <1>6. ToSet(ns) = {ns[i] : i \in 1..Len(o)}
    BY <1>4 DEF ToSet
  <1>7. \A k \in Numbers(a) : \E j \in 1..Len(o) : o[j] = k
    BY <1>3, <1>4 DEF Numbers, Has, s
  <1> HIDE DEF ns
  <1> QED BY <1>1, <1>5, <1>6, <1>7 DEF ns

LEMMA AbstractPop ==
  ASSUME IInv, Pop
  PROVE  Abstract!Pop
  <1> DEFINE h == Highest(arr)
             N == ToSet(NumbersOf(arr))
  <1>1. Sound(arr)
    BY DEF IInv
  <1>2. Abstract!Numbered = Numbers(arr) /\ \A k : Abstract!Num(k) = Num(k)
    BY <1>1, AbstractState
  <1>3. /\ \A n \in N : \E k \in Numbers(arr) : Num(k) = n
        /\ \A k \in Numbers(arr) : Num(k) \in N
    BY <1>1, NumberedAre
  <1>4. IF \E n \in N : n >= 0
        THEN h >= 0 /\ h \in N /\ (\A n \in N : n <= h) /\ Decimal[h] \in Keys
        ELSE h = -1
    BY <1>1, HighestFacts
  <1>5. \/ h < 0 /\ arr' = arr /\ out' = None
        \/ h >= 0 /\ Delete(Decimal[h])
    BY DEF Pop
  <1> HIDE DEF h, N
  <1>6. CASE h = -1
    <2>1. arr' = arr /\ out' = None
      BY <1>5, <1>6
    <2>2. \A k \in Numbers(arr) : Num(k) < 0
      <3>1. \A k \in Numbers(arr) : ~(Num(k) >= 0) /\ Num(k) \in Int
        BY <1>3, <1>4, <1>6, NumFacts DEF Numbers
      <3> QED BY <3>1
    <2> QED BY <1>2, <2>1, <2>2 DEF Abstract!Pop, Abstract!Keep
  <1>7. CASE h # -1
    <2>1. h \in N /\ (\A n \in N : n <= h) /\ Decimal[h] \in Keys /\ h >= 0
      BY <1>4, <1>7
    <2>2. PICK k \in Numbers(arr) : Num(k) = h
      BY <1>3, <2>1
    <2>3. \A j \in Numbers(arr) : Num(j) <= h
      BY <1>3, <2>1
    <2>4. Delete(Decimal[h])
      <3>1. h \in Int
        BY <2>2, NumFacts DEF Numbers
      <3> QED BY <1>5, <2>1, <3>1
    <2>5. Abstract!Remove(Decimal[h])
      BY <2>1, <2>4, AbstractRemove
    <2> QED BY <1>2, <2>1, <2>2, <2>3, <2>5 DEF Abstract!Pop
  <1> QED BY <1>6, <1>7

\* The pairs that Renumbered makes have decimals for keys, each once.
LEMMA RenumberedApart ==
  ASSUME NEW a, Sound(a), NEW ns \in Seq(DOMAIN Decimal), NEW first \in Nat,
         \A i \in 1..Len(ns) : i - 1 + first \in DOMAIN Decimal
  PROVE  LET renum == Renumbered(a, ns, first) IN
         /\ \A j \in 1..Len(renum) : \E m \in DOMAIN Decimal :
              m >= first /\ renum[j].key = Decimal[m]
         /\ \A i, j \in 1..Len(renum) : renum[i].key = renum[j].key => i = j
  <1> DEFINE s == [i \in DOMAIN ns |-> i]
             S == {i \in DOMAIN ns : Find(a, Decimal[ns[i]]) # NULL}
             o == Only(s, S)
             renum == Renumbered(a, ns, first)
  <1>1. s \in Seq(1..Len(ns)) /\ DOMAIN s = 1..Len(ns) /\ \A i \in 1..Len(ns) : s[i] = i
    BY DEF s
  <1>2. renum = [j \in DOMAIN o |-> Pair(Decimal[o[j] - 1 + first], ArrayGet(a, Decimal[ns[o[j]]]))]
    BY DEF Renumbered, s
  <1> HIDE DEF s, S
  <1>3. \A i, j \in DOMAIN s : s[i] = s[j] => i = j
    BY <1>1
  <1>4. /\ o \in Seq((1..Len(ns)) \cap S)
        /\ \A i, j \in DOMAIN o : o[i] = o[j] => i = j
    BY <1>1, <1>3, OnlyFacts
  <1> HIDE DEF o, renum
  <1>5. DOMAIN o = 1..Len(o) /\ Len(o) \in Nat /\ \A j \in 1..Len(o) : o[j] \in 1..Len(ns)
    BY <1>4
  <1>6. Len(renum) = Len(o) /\ \A j \in 1..Len(o) : renum[j].key = Decimal[o[j] - 1 + first]
    <2>1. renum = [j \in 1..Len(o) |-> Pair(Decimal[o[j] - 1 + first], ArrayGet(a, Decimal[ns[o[j]]]))]
      BY <1>2, <1>5
    <2>2. Len(renum) = Len(o)
      BY <1>5, <2>1
    <2>3. \A j \in 1..Len(o) : renum[j] = Pair(Decimal[o[j] - 1 + first], ArrayGet(a, Decimal[ns[o[j]]]))
      BY <2>1
    <2>4. \A x, y : Pair(x, y).key = x
      BY DEF Pair
    <2> HIDE DEF Pair
    <2> QED BY <2>2, <2>3, <2>4
  <1>7. \A j \in 1..Len(o) :
          LET m == o[j] - 1 + first IN
          m \in DOMAIN Decimal /\ m >= first /\ Number[Decimal[m]] = {m}
    BY <1>5, KeyAssumption
  <1>8. ASSUME NEW i \in 1..Len(o), NEW j \in 1..Len(o), renum[i].key = renum[j].key
        PROVE  i = j
    <2>1. o[i] - 1 + first = o[j] - 1 + first
      BY <1>6, <1>7, <1>8
    <2>2. o[i] \in Int /\ o[j] \in Int
      BY <1>5
    <2>3. o[i] = o[j]
      BY <2>1, <2>2
    <2> QED BY <1>4, <1>5, <2>3
  <1>9. \A j \in 1..Len(o) : \E m \in DOMAIN Decimal : m >= first /\ renum[j].key = Decimal[m]
    BY <1>6, <1>7
  <1> QED BY <1>6, <1>8, <1>9 DEF renum

\* What a refilling makes of the names of arr and of pairs for numbers.
LEMMA NamesRemain ==
  ASSUME Sound(arr), out' \in Values \cup {None},
         NEW named \in Seq(Pairs), NEW renum \in Seq(Pairs),
         Len(named) = Len(NamesOf(arr)),
         \A i \in 1..Len(named) : /\ named[i].key = NamesOf(arr)[i]
                                  /\ named[i].value = ArrayGet(arr, NamesOf(arr)[i]),
         \A i, j \in 1..Len(named) : named[i].key = named[j].key => i = j,
         \A i \in 1..Len(renum) : \E m \in DOMAIN Decimal : renum[i].key = Decimal[m],
         \A i, j \in 1..Len(renum) : renum[i].key = renum[j].key => i = j,
         NEW A \in SUBSET Address, IsFiniteSet(A), Len(named) + Len(renum) <= Cardinality(A),
         arr' = Refill(named \o renum)
  PROVE  Abstract!RebuildNames
  <1> DEFINE L == Len(named)
             M == Len(renum)
             pairs == named \o renum
             s == NamesOf(arr)
             u == KeysOf(arr')
  <1>1. L \in Nat /\ M \in Nat
    OBVIOUS
  <1>2. /\ pairs \in Seq(Pairs) /\ Len(pairs) = L + M
        /\ \A i \in 1..L : pairs[i] = named[i]
        /\ \A i \in 1..M : pairs[L + i] = renum[i]
    <2>1. pairs \in Seq(Pairs) /\ IsJoined(pairs, named, renum)
      BY Joined
    <2> QED BY <2>1 DEF IsJoined
  <1>3. /\ s \in Seq(Keys) /\ Len(s) = L
        /\ \A i \in 1..L : s[i] \in NameKeys /\ Has(arr, s[i])
    <2>1. s \in Seq(Keys) /\ \A i \in 1..Len(s) : s[i] \in NameKeys /\ Has(arr, s[i])
      BY NamesHeld
    <2> QED BY <2>1
  <1>4. arr' = Refill(pairs)
    OBVIOUS
  <1> HIDE DEF L, M, pairs, s, u
  <1>5. \A i \in 1..(L + M) : i \in 1..L \/ \E j \in 1..M : i = L + j
    <2> SUFFICES ASSUME NEW i \in 1..(L + M), i \notin 1..L PROVE \E j \in 1..M : i = L + j
      OBVIOUS
    <2>1. i - L \in 1..M /\ i = L + (i - L)
      BY <1>1
    <2> QED BY <2>1
  <1>6. \A i \in 1..L : pairs[i].key = s[i] /\ pairs[i].value = ArrayGet(arr, s[i])
    BY <1>2 DEF L, s
  <1>7. \A i \in 1..M : /\ \E m \in DOMAIN Decimal : pairs[L + i].key = Decimal[m]
                        /\ Number[pairs[L + i].key] # {}
    <2> SUFFICES ASSUME NEW i \in 1..M
                 PROVE  /\ \E m \in DOMAIN Decimal : pairs[L + i].key = Decimal[m]
                        /\ Number[pairs[L + i].key] # {}
      OBVIOUS
    <2>1. pairs[L + i] = renum[i] /\ i \in 1..Len(renum)
      BY <1>2 DEF M
    <2>2. PICK m \in DOMAIN Decimal : renum[i].key = Decimal[m]
      BY <2>1
    <2>3. Number[Decimal[m]] = {m}
      BY KeyAssumption
    <2> QED BY <2>1, <2>2, <2>3
  <1>8. ASSUME NEW i \in 1..(L + M), NEW j \in 1..(L + M), pairs[i].key = pairs[j].key
        PROVE  i = j
    <2>1. \A x \in 1..L : \A y \in 1..M : pairs[x].key # pairs[L + y].key
      BY <1>3, <1>6, <1>7 DEF NameKeys
    <2>2. \A x, y \in 1..M : pairs[L + x].key = pairs[L + y].key => x = y
      BY <1>2 DEF M
    <2>3. \A x, y \in 1..L : pairs[x].key = pairs[y].key => x = y
      BY <1>2 DEF L
    <2> QED BY <1>5, <1>8, <2>1, <2>2, <2>3
  <1>9. HoldsFirst(arr', pairs, L + M)
    <2>1. Len(pairs) <= Cardinality(A)
      BY <1>2 DEF L, M
    <2>2. HoldsFirst(Refill(pairs), pairs, Len(pairs))
      BY <1>2, <2>1, RefillHolds
    <2> QED BY <1>2, <1>4, <2>2
  <1>10. /\ Sound(arr') /\ u = [i \in 1..(L + M) |-> pairs[i].key]
         /\ \A i \in 1..(L + M) : ArrayGet(arr', pairs[i].key) = pairs[i].value
    BY <1>8, <1>9 DEF HoldsFirst, u
  <1>11. /\ u \in Seq(Keys) /\ Len(u) = L + M /\ DOMAIN u = 1..(L + M)
         /\ Contents(arr') \in [Held(arr') -> Values]
    <2>1. KeysOf(arr') \in Seq(Keys) /\ Contents(arr') \in [Held(arr') -> Values]
      BY <1>10, SoundFacts, HeldFacts DEF Contents
    <2>2. DOMAIN u = 1..(L + M)
      BY <1>10
    <2>3. u \in Seq(Keys) /\ Contents(arr') \in [Held(arr') -> Values]
      BY <2>1 DEF u
    <2> QED BY <1>1, <2>2, <2>3
  <1>12. \A i, j \in 1..(L + M) : u[i] = u[j] => i = j
    BY <1>8, <1>10
  <1>13. \A i \in 1..L : u[i] = s[i] /\ i \in 1..(L + M) /\ ArrayGet(arr', s[i]) = ArrayGet(arr, s[i])
    <2>1. \A i \in 1..L : i \in 1..(L + M)
      BY <1>1
    <2> QED BY <1>6, <1>10, <2>1
  <1>14. ASSUME NEW i \in 1..(L + M), ~(i <= L)
         PROVE  \E m \in DOMAIN Decimal : u[i] = Decimal[m]
    <2>1. i \notin 1..L
      BY <1>14
    <2>2. PICK j \in 1..M : i = L + j
      BY <1>5, <2>1
    <2> QED BY <1>7, <1>10, <2>2
  <1>15. \A i \in 1..L : /\ s[i] \in Held(arr) /\ s[i] \in Held(arr')
                         /\ Contents(arr')[s[i]] = Contents(arr)[s[i]]
    <2>1. \A i \in 1..L : s[i] \in Held(arr)
      BY <1>3, HeldFacts
    <2>2. \A i \in 1..L : s[i] \in Held(arr')
      BY <1>11, <1>13 DEF Held, ToSet, u
    <2> QED BY <1>13, <2>1, <2>2 DEF Contents
  <1>16. L <= Len(u)
    BY <1>1, <1>11
  <1>17. \A i \in 1..(L + M) : i <= L => u[i] = s[i]
    <2>1. \A i \in 1..(L + M) : i <= L => i \in 1..L
      BY <1>1
    <2> QED BY <1>13, <2>1
  <1>18. Abstract!Elements(u) = Held(arr')
    BY <1>11 DEF Abstract!Elements, Held, ToSet, u
  <1>19. Abstract!Names = s /\ Len(Abstract!Names) = L
    <2>1. Abstract!Names = NamesOf(arr)
      BY AbstractState
    <2> QED BY <1>3, <2>1 DEF s
  <1>20. /\ KeysOf(arr') \in Seq(Keys) /\ L <= Len(KeysOf(arr'))
         /\ \A i, j \in DOMAIN KeysOf(arr') : KeysOf(arr')[i] = KeysOf(arr')[j] => i = j
    BY <1>11, <1>12, <1>16 DEF u
  <1>21. \A i \in DOMAIN KeysOf(arr') :
           IF i <= L THEN KeysOf(arr')[i] = Abstract!Names[i]
                     ELSE \E m \in DOMAIN Decimal : KeysOf(arr')[i] = Decimal[m]
    BY <1>11, <1>14, <1>17, <1>19 DEF u
  <1>22. Contents(arr') \in [Abstract!Elements(KeysOf(arr')) -> Values]
    BY <1>11, <1>18 DEF u
  <1>23. \A i \in 1..L : Contents(arr')[Abstract!Names[i]] = Contents(arr)[Abstract!Names[i]]
    BY <1>15, <1>19
  <1> QED BY <1>19, <1>20, <1>21, <1>22, <1>23 DEF Abstract!RebuildNames, Contents, Held

LEMMA AbstractAnyUnshift ==
  ASSUME IInv, NEW v \in Values, Unshift(v)
  PROVE  Abstract!RebuildNames
  <1> DEFINE ns == Indices(arr)
             named == Named(arr)
             new == Pair(Decimal[0], v)
             renum == Renumbered(arr, ns, 1)
             behind == <<new>> \o renum
  <1>1. Sound(arr) /\ Address \ Live(arr) # {} /\ Decimals(Len(ns) + 1) /\ out' = None
        /\ arr' = Refill(named \o <<new>> \o renum)
    BY DEF IInv, Unshift, Room
  <1>2. /\ ns \in Seq(Int) /\ Len(ns) \in Nat
        /\ \A r \in 1..Len(ns) : ns[r] \in DOMAIN Decimal
    BY <1>1, IndicesFacts
  <1>3. 0..((Len(ns) + 1) - 1) \subseteq DOMAIN Decimal
    BY <1>1 DEF Decimals
  <1>4. /\ renum \in Seq(Pairs) /\ new \in Pairs
        /\ named \o <<new>> \o renum \in Seq(Pairs)
        /\ Len(named \o <<new>> \o renum) <= arr.size + 1
    BY <1>1, UnshiftPairs
  <1>5. /\ named \in Seq(Pairs) /\ Len(named) = Len(NamesOf(arr))
        /\ \A i \in 1..Len(named) : /\ named[i].key = NamesOf(arr)[i]
                                    /\ named[i].value = ArrayGet(arr, NamesOf(arr)[i])
    BY <1>1, NamedFacts DEF NamesOf
  <1>6. \A i, j \in 1..Len(named) : named[i].key = named[j].key => i = j
    BY <1>1, NamedApart
  <1> HIDE DEF ns
  <1>7. ns \in Seq(DOMAIN Decimal)
    BY <1>2
  <1>8. 0 \in DOMAIN Decimal /\ \A i \in 1..Len(ns) : i - 1 + 1 \in DOMAIN Decimal
    BY <1>2, <1>3
  <1>9. /\ \A j \in 1..Len(renum) : \E m \in DOMAIN Decimal : m >= 1 /\ renum[j].key = Decimal[m]
        /\ \A i, j \in 1..Len(renum) : renum[i].key = renum[j].key => i = j
    BY <1>1, <1>7, <1>8, RenumberedApart
  <1>10. new.key = Decimal[0] /\ Number[Decimal[0]] = {0}
    BY <1>8, KeyAssumption DEF Pair
  <1> HIDE DEF renum, named, new
  <1>11. /\ behind \in Seq(Pairs) /\ Len(behind) = 1 + Len(renum) /\ behind[1] = new
         /\ \A i \in 1..Len(renum) : behind[1 + i] = renum[i]
    <2>1. <<new>> \in Seq(Pairs) /\ Len(<<new>>) = 1 /\ <<new>>[1] = new
      BY <1>4
    <2>2. behind \in Seq(Pairs) /\ IsJoined(behind, <<new>>, renum)
      BY <1>4, <2>1, Joined
    <2> HIDE DEF behind
    <2> QED BY <2>1, <2>2 DEF IsJoined
  <1>12. named \o <<new>> \o renum = named \o behind
    BY <1>4, <1>5, ConcatAssociative
  <1>13. Len(named \o behind) = Len(named) + Len(behind)
    BY <1>5, <1>11, ConcatProperties
  <1> HIDE DEF behind
  <1>14. Len(renum) \in Nat
    BY <1>4
  <1>15. \A i \in 1..Len(behind) : i = 1 \/ \E j \in 1..Len(renum) : i = 1 + j
    <2> SUFFICES ASSUME NEW i \in 1..Len(behind), i # 1 PROVE \E j \in 1..Len(renum) : i = 1 + j
      OBVIOUS
    <2>1. i - 1 \in 1..Len(renum) /\ i = 1 + (i - 1)
      BY <1>11, <1>14
    <2> QED BY <2>1
  <1>16. \A i \in 1..Len(behind) : \E m \in DOMAIN Decimal : behind[i].key = Decimal[m]
    BY <1>8, <1>9, <1>10, <1>11, <1>15
  <1>17. ASSUME NEW i \in 1..Len(behind), NEW j \in 1..Len(behind), behind[i].key = behind[j].key
         PROVE  i = j
    <2>1. \A x \in 1..Len(renum) : renum[x].key # Decimal[0]
      <3>1. ASSUME NEW m \in DOMAIN Decimal, m >= 1 PROVE Decimal[m] # Decimal[0]
        <4>1. Number[Decimal[m]] = {m} /\ m # 0
          BY <3>1, KeyAssumption
        <4> QED BY <1>10, <4>1
      <3> SUFFICES ASSUME NEW x \in 1..Len(renum) PROVE renum[x].key # Decimal[0]
        OBVIOUS
      <3>2. PICK m \in DOMAIN Decimal : m >= 1 /\ renum[x].key = Decimal[m]
        BY <1>9
      <3> QED BY <3>1, <3>2
    <2>2. CASE i = 1
      <3>1. ASSUME NEW y \in 1..Len(renum), j = 1 + y PROVE FALSE
        BY <1>10, <1>11, <1>17, <2>1, <2>2, <3>1
      <3> QED BY <1>15, <2>2, <3>1
    <2>3. ASSUME NEW x \in 1..Len(renum), i = 1 + x PROVE i = j
      <3>1. behind[i] = renum[x]
        BY <1>11, <2>3
      <3>2. CASE j = 1
        BY <1>10, <1>11, <1>17, <2>1, <3>1, <3>2
      <3>3. ASSUME NEW y \in 1..Len(renum), j = 1 + y PROVE i = j
        <4>1. renum[x].key = renum[y].key
          BY <1>11, <1>17, <3>1, <3>3
        <4>2. x = y
          BY <1>9, <4>1
        <4> QED BY <2>3, <3>3, <4>2
      <3> QED BY <1>15, <3>2, <3>3
    <2> QED BY <1>15, <2>2, <2>3
  <1>18. PICK A \in SUBSET Address : IsFiniteSet(A) /\ Cardinality(A) = arr.size + 1
    BY <1>1, RoomFor
  <1>19. Len(named) + Len(behind) <= Cardinality(A)
    BY <1>4, <1>12, <1>13, <1>18
  <1>20. arr' = Refill(named \o behind)
    BY <1>1, <1>12
  <1> QED BY <1>1, <1>5, <1>6, <1>11, <1>16, <1>17, <1>18, <1>19, <1>20, NamesRemain

LEMMA AbstractAnyShift ==
  ASSUME IInv, Shift, Indices(arr) # <<>>
  PROVE  Abstract!RebuildNames
  <1> DEFINE ns == Indices(arr)
             first == Decimal[Head(ns)]
             rest == ArrayDelete(arr, first)
             tail == Tail(ns)
             named == Named(rest)
             renum == Renumbered(rest, tail, 0)
  <1>1. Sound(arr) /\ Decimals(Len(ns) - 1) /\ out' = ArrayGet(arr, first)
        /\ arr' = Refill(named \o renum)
    BY DEF IInv, Shift
  <1>2. /\ ns \in Seq(Int) /\ Len(ns) \in Nat
        /\ \A r \in 1..Len(ns) : ns[r] \in DOMAIN Decimal
    BY <1>1, IndicesFacts
  <1>3. /\ first \in NumberKeys /\ Sound(rest) /\ renum \in Seq(Pairs)
        /\ named \o renum \in Seq(Pairs) /\ Len(named \o renum) <= arr.size
    BY <1>1, ShiftPairs
  <1>4. first \in Keys
    BY <1>3 DEF NumberKeys
  <1>5. NamesOf(rest) = NamesOf(arr)
    BY <1>1, <1>3, NamesAfterDelete DEF NamesOf
  <1> HIDE DEF first
  <1>6. \A k \in NameKeys : k \in Keys /\ k # first
    BY <1>3 DEF NameKeys, NumberKeys
  <1>7. \A k \in NameKeys : ArrayGet(rest, k) = ArrayGet(arr, k)
    <2>1. \A j \in Keys : ArrayGet(rest, j) = IF j = first THEN None ELSE ArrayGet(arr, j)
      BY <1>1, <1>4, SoundDelete
    <2> QED BY <1>6, <2>1
  <1> HIDE DEF rest
  <1>8. /\ named \in Seq(Pairs) /\ Len(named) = Len(NamesOf(arr))
        /\ \A i \in 1..Len(named) : /\ named[i].key = NamesOf(arr)[i]
                                    /\ named[i].key \in NameKeys
                                    /\ named[i].value = ArrayGet(rest, named[i].key)
    BY <1>3, <1>5, NamedFacts DEF NamesOf
  <1>9. \A i \in 1..Len(named) : /\ named[i].key = NamesOf(arr)[i]
                                 /\ named[i].value = ArrayGet(arr, NamesOf(arr)[i])
    BY <1>7, <1>8
  <1>10. \A i, j \in 1..Len(named) : named[i].key = named[j].key => i = j
    BY <1>3, NamedApart
  <1> HIDE DEF ns
  <1>11. Len(ns) # 0 /\ tail \in Seq(DOMAIN Decimal) /\ Len(tail) = Len(ns) - 1
    <2>1. ns # <<>>
      BY DEF ns
    <2>2. ns \in Seq(DOMAIN Decimal)
      BY <1>2
    <2> QED BY <2>1, <2>2
  <1>12. \A i \in 1..Len(tail) : i - 1 + 0 \in DOMAIN Decimal
    <2>1. 0..((Len(ns) - 1) - 1) \subseteq DOMAIN Decimal
      BY <1>1 DEF Decimals
    <2> QED BY <1>2, <1>11, <2>1
  <1> HIDE DEF tail
  <1>13. /\ \A j \in 1..Len(renum) : \E m \in DOMAIN Decimal : m >= 0 /\ renum[j].key = Decimal[m]
         /\ \A i, j \in 1..Len(renum) : renum[i].key = renum[j].key => i = j
    <2>1. 0 \in Nat
      OBVIOUS
    <2> QED BY <1>3, <1>11, <1>12, <2>1, RenumberedApart
  <1> HIDE DEF renum, named
  <1>14. Len(named) + Len(renum) <= arr.size
    <2>1. Len(named \o renum) = Len(named) + Len(renum)
      BY <1>3, <1>8, ConcatProperties
    <2> QED BY <1>3, <2>1
  <1>15. IsFiniteSet(Live(arr)) /\ Cardinality(Live(arr)) = arr.size /\ Live(arr) \in SUBSET Address
    BY <1>1, SoundFacts
  <1>16. out' \in Values \cup {None}
    BY <1>1, <1>4, GetHolds
  <1> QED BY <1>1, <1>3, <1>8, <1>9, <1>10, <1>13, <1>14, <1>15, <1>16, NamesRemain

\* What comes of a rebuilding, in the words of the ordered map.
LEMMA AbstractRebuild ==
  ASSUME Sound(arr), AllPlain(arr), NEW first \in Seq(Values), NEW list \in Seq(Values),
         NEW n \in Nat, Len(list) = Len(first) + n, n <= Len(Indices(arr)),
         Decimals(Len(list)), Rebuilt(arr', arr, list),
         \A i \in 1..Len(first) : list[i] = first[i],
         \A i \in 1..n : list[Len(first) + i] = ValuesAt(arr)[i + (Len(Indices(arr)) - n)]
  PROVE  Abstract!Rebuild(first, n)
  <1> DEFINE new == NamesOf(arr) \o FirstKeys(Len(list))
             F == Len(first)
             M == Len(Indices(arr))
             at(e) == CHOOSE j \in Numbers(arr) : Cardinality(Lower(arr, j)) = e
  <1>1. /\ KeysOf(arr') = new
        /\ \A k \in Held(arr') : IsRebuilt(arr', arr, list, k)
    BY RebuiltContents
  <1>2. F \in Nat /\ Len(list) \in Nat /\ M \in Nat /\ n <= M
    BY IndicesFacts
  <1>3. ASSUME NEW k \in Held(arr'), Number[k] # {}
        PROVE  Contents(arr')[k] = IF Num(k) < F THEN first[Num(k) + 1]
                                   ELSE Contents(arr)[at(Num(k) - F + (M - n))]
    <2>1. Num(k) \in 0..(F + n - 1) /\ Contents(arr')[k] = list[Num(k) + 1]
      BY <1>1, <1>3 DEF IsRebuilt
    <2>2. CASE Num(k) < F
      <3>1. Num(k) + 1 \in 1..F
        BY <1>2, <2>1, <2>2
      <3> QED BY <2>1, <2>2, <3>1
    <2>3. CASE ~(Num(k) < F)
      <3> DEFINE i == Num(k) - F + 1
                 r == i + (M - n)
      <3>1. i \in 1..n /\ F + i = Num(k) + 1 /\ r \in 1..M /\ r - 1 = Num(k) - F + (M - n)
        <4> HIDE DEF F, M, at
        <4>1. Num(k) \in 0..(F + n - 1)
          BY <2>1
        <4> HIDE DEF i, r
        <4>2. i = Num(k) - F + 1 /\ r = Num(k) - F + 1 + (M - n)
          BY DEF i, r
        <4>3. PICK x \in 0..(F + n - 1) : x = Num(k)
          BY <4>1
        <4>4. i = x - F + 1 /\ r = x - F + 1 + (M - n) /\ ~(x < F)
          BY <2>3, <4>2, <4>3
        <4>5. /\ i \in 1..n /\ F + i = x + 1
              /\ r \in 1..M /\ r - 1 = x - F + (M - n)
          BY <1>2, <4>4
        <4> QED BY <4>3, <4>5
      <3>2. list[Num(k) + 1] = ValuesAt(arr)[r]
        <4> HIDE DEF F, M
        <4>1. list[F + i] = ValuesAt(arr)[r]
          BY <3>1 DEF F, M
        <4> QED BY <3>1, <4>1
      <3> HIDE DEF i, r
      <3>3. at(r - 1) = Decimal[Indices(arr)[r]]
            /\ Contents(arr)[Decimal[Indices(arr)[r]]] = ValuesAt(arr)[r]
        BY <3>1, AtRank
      <3> HIDE DEF at
      <3> QED BY <2>1, <2>3, <3>1, <3>2, <3>3
    <2> QED BY <2>2, <2>3
  <1>4. M = Abstract!Cardinality(Abstract!Numbered)
    BY PlainRank, AbstractState, SameCardinality
  <1>5. /\ Abstract!Numbered = Numbers(arr) /\ Abstract!Names = NamesOf(arr)
        /\ \A k : Abstract!Num(k) = Num(k)
        /\ \A k : Abstract!Rank(k) = Cardinality(Lower(arr, k))
    BY AbstractState
  <1> DEFINE now(k) ==
               IF Number[k] = {} THEN Contents(arr)[k]
               ELSE IF Abstract!Num(k) < Len(first) THEN first[Abstract!Num(k) + 1]
               ELSE Contents(arr)[CHOOSE j \in Abstract!Numbered : Abstract!Rank(j) =
                                    Abstract!Num(k) - Len(first)
                                    + (Abstract!Cardinality(Abstract!Numbered) - n)]
  <1>6. \A e : at(e) = CHOOSE j \in Abstract!Numbered : Abstract!Rank(j) = e
    BY <1>5
  <1>7. Abstract!Elements(new) = Held(arr')
    BY <1>1 DEF Abstract!Elements, Held, ToSet
  <1> HIDE DEF at
  <1>8. \A k \in Held(arr') : ArrayGet(arr', k) = now(k)
    <2> SUFFICES ASSUME NEW k \in Held(arr') PROVE ArrayGet(arr', k) = now(k)
      OBVIOUS
    <2>1. ArrayGet(arr', k) = Contents(arr')[k]
      BY DEF Contents
    <2>2. CASE Number[k] = {}
      BY <1>1, <2>1, <2>2 DEF IsRebuilt
    <2>3. CASE Number[k] # {}
      BY <1>3, <1>4, <1>5, <1>6, <2>1, <2>3
    <2> QED BY <2>2, <2>3
  <1> HIDE DEF now
  <1>9. Contents(arr') = [k \in Abstract!Elements(new) |-> now(k)]
    BY <1>7, <1>8 DEF Contents
  <1>10. new = Abstract!Names \o [i \in 1..(Len(first) + n) |-> Decimal[i - 1]]
    BY <1>5 DEF FirstKeys
  <1> HIDE DEF new
  <1> QED BY <1>1, <1>9, <1>10 DEF Abstract!Rebuild, Held, Contents, now

LEMMA AbstractUnshift ==
  ASSUME IInv, NEW v \in Values, Unshift(v)
  PROVE  Abstract!Unshift(v)
  <1>1. Sound(arr)
    BY DEF IInv
  <1>2. CASE AllPlain(arr)
    <2> DEFINE n == Len(Indices(arr))
               list == <<v>> \o ValuesAt(arr)
    <2>1. n \in Nat /\ ValuesAt(arr) \in Seq(Values) /\ Len(ValuesAt(arr)) = n
      BY <1>1, <1>2, IndicesFacts, ValuesAtFacts
    <2>2. Address \ Live(arr) # {} /\ Decimals(n + 1) /\ out' = None
      BY DEF Unshift, Room
    <2>3. Rebuilt(arr', arr, list)
      BY <1>1, <1>2, <2>2, UnshiftPlain DEF Unshift
    <2>4. <<v>> \in Seq(Values) /\ Len(<<v>>) = 1 /\ <<v>>[1] = v
      OBVIOUS
    <2>5. list \in Seq(Values) /\ IsJoined(list, <<v>>, ValuesAt(arr))
      BY <2>1, <2>4, Joined
    <2> HIDE DEF n, list
    <2>6. Len(list) = Len(<<v>>) + n
      BY <2>1, <2>5 DEF IsJoined
    <2>7. \A i \in 1..Len(<<v>>) : list[i] = <<v>>[i]
      BY <2>5 DEF IsJoined
    <2>8. \A i \in 1..n : list[Len(<<v>>) + i] = ValuesAt(arr)[i + (n - n)]
      <3>1. \A i \in 1..n : i + (n - n) = i
        BY <2>1
      <3> QED BY <2>1, <2>5, <3>1 DEF IsJoined
    <2>9. Decimals(Len(list)) /\ n <= n
      <3>1. Len(list) = n + 1 /\ n <= n
        BY <2>1, <2>4, <2>6
      <3> QED BY <2>2, <3>1
    <2>10. Abstract!Rebuild(<<v>>, n)
      BY <1>1, <1>2, <2>1, <2>3, <2>4, <2>5, <2>6, <2>7, <2>8, <2>9, AbstractRebuild DEF n
    <2>11. n = Abstract!Cardinality(Abstract!Numbered)
           /\ \A k \in Abstract!Numbered : Abstract!Plain(k)
      BY <1>1, <1>2, PlainRank, AbstractState, SameCardinality DEF n, AllPlain
    <2>12. n \in DOMAIN Decimal
      <3>1. n \in 0..(n + 1 - 1)
        BY <2>1
      <3> QED BY <2>2, <3>1 DEF Decimals
    <2> QED BY <2>2, <2>10, <2>11, <2>12 DEF Abstract!Unshift
  <1>3. CASE ~AllPlain(arr)
    <2>1. Abstract!RebuildNames
      BY AbstractAnyUnshift
    <2>2. \E k \in Abstract!Numbered : ~Abstract!Plain(k)
      BY <1>1, <1>3, AbstractState DEF AllPlain
    <2> QED BY <2>1, <2>2 DEF Abstract!Unshift
  <1> QED BY <1>2, <1>3

LEMMA AbstractShift ==
  ASSUME IInv, Shift
  PROVE  Abstract!Shift
  <1> DEFINE ns == Indices(arr)
             M == Len(ns)
             values == ValuesAt(arr)
             list == Tail(values)
  <1>1. Sound(arr) /\ ns \in Seq(Int) /\ M \in Nat
    <2>1. Sound(arr)
      BY DEF IInv
    <2> QED BY <2>1, IndicesFacts
  <1>2. Abstract!Numbered = Numbers(arr)
    BY <1>1, AbstractState
  <1>3. CASE ns = <<>>
    <2>1. arr' = arr /\ out' = None
      BY <1>3 DEF Shift
    <2>2. NumbersOf(arr) \in Seq(Int) /\ Len(NumbersOf(arr)) = 0
      BY <1>1, <1>3, NumbersFacts, IndicesFacts
    <2>3. ToSet(NumbersOf(arr)) = {}
      BY <2>2 DEF ToSet
    <2>4. Numbers(arr) = {}
      BY <1>1, <2>3, NumberedAre
    <2> QED BY <1>2, <2>1, <2>4 DEF Abstract!Shift, Abstract!Keep
  <1>4. CASE ns # <<>> /\ AllPlain(arr)
    <2>1. /\ Decimals(M - 1) /\ out' = ArrayGet(arr, Decimal[Head(ns)])
          /\ arr' = Refill(Named(ArrayDelete(arr, Decimal[Head(ns)]))
                             \o Renumbered(ArrayDelete(arr, Decimal[Head(ns)]), Tail(ns), 0))
      BY <1>4 DEF Shift
    <2>2. Rebuilt(arr', arr, list)
      BY <1>1, <1>4, <2>1, ShiftPlain
    <2>3. values \in Seq(Values) /\ Len(values) = M
      BY <1>1, <1>4, ValuesAtFacts
    <2>4. M # 0 /\ Head(ns) = ns[1] /\ 1 \in 1..M
      BY <1>1, <1>4
    <2>5. /\ Decimal[Indices(arr)[1]] \in Numbers(arr)
          /\ Cardinality(Lower(arr, Decimal[Indices(arr)[1]])) = 1 - 1
          /\ Contents(arr)[Decimal[Indices(arr)[1]]] = ValuesAt(arr)[1]
      BY <1>1, <1>4, <2>4, AtRank
    <2>6. ValuesAt(arr)[1] = ArrayGet(arr, Decimal[Indices(arr)[1]])
      BY <2>4 DEF ValuesAt
    <2>7. \E k \in Abstract!Numbered :
            Abstract!Rank(k) = 0 /\ out' = [j \in ToSet(KeysOf(arr)) |-> ArrayGet(arr, j)][k]
      <3>1. out' = Contents(arr)[Decimal[Indices(arr)[1]]]
        BY <2>1, <2>4, <2>5, <2>6
      <3>2. Abstract!Rank(Decimal[Indices(arr)[1]]) = 0
        BY <1>1, <2>5, AbstractState
      <3> QED BY <1>2, <2>5, <3>1, <3>2 DEF Contents, Held
    <2> HIDE DEF M, ns, values
    <2>8. M - 1 \in Nat /\ M - 1 <= M /\ M - (M - 1) = 1
      BY <1>1, <2>4
    <2>9. list \in Seq(Values) /\ Len(list) = M - 1
          /\ \A i \in 1..(M - 1) : list[i] = values[i + 1]
      BY <1>1, <2>3, <2>4
    <2> DEFINE none == <<>>
    <2>10. none \in Seq(Values) /\ Len(none) = 0
      OBVIOUS
    <2> HIDE DEF list, none
    <2>11. /\ Len(list) = Len(none) + (M - 1)
           /\ \A i \in 1..Len(none) : list[i] = none[i]
      BY <2>8, <2>9, <2>10
    <2>12. \A i \in 1..(M - 1) : list[Len(none) + i] = values[i + (M - (M - 1))]
      <3>1. \A i \in 1..(M - 1) : 0 + i = i
        BY <2>8
      <3> QED BY <2>8, <2>9, <2>10, <3>1
    <2>13. Abstract!Rebuild(none, M - 1)
      <3>1. Decimals(Len(list))
        BY <2>1, <2>9 DEF M
      <3> QED BY <1>1, <1>4, <2>2, <2>8, <2>9, <2>10, <2>11, <2>12, <3>1, AbstractRebuild
              DEF M, ns, values
    <2>14. /\ M = Abstract!Cardinality(Abstract!Numbered)
           /\ \A k \in Abstract!Numbered : Abstract!Plain(k)
           /\ Abstract!Numbered # {}
      <3>1. M = Cardinality(Numbers(arr))
        BY <1>1, <1>4, PlainRank DEF M, ns
      <3> QED BY <1>1, <1>2, <1>4, <2>5, <3>1, AbstractState, SameCardinality DEF AllPlain
    <2> QED BY <2>7, <2>13, <2>14 DEF Abstract!Shift, none
  <1>5. CASE ns # <<>> /\ ~AllPlain(arr)
    <2>1. Abstract!RebuildNames
      BY <1>5, AbstractAnyShift
    <2>2. \E k \in Abstract!Numbered : ~Abstract!Plain(k)
      BY <1>1, <1>5, AbstractState DEF AllPlain
    <2> QED BY <2>1, <2>2 DEF Abstract!Shift
  <1> QED BY <1>3, <1>4, <1>5

\* An array does what an ordered map does, through every growth of its table
\* and every renumbering of its entries.
THEOREM ArraysAreOrderedMaps == Spec => ImplementsOrderedMap
  <1>1. Init => Abstract!Init
    BY AbstractInit
  <1>2. IInv /\ [Next]_vars => [Abstract!Next]_(Abstract!vars)
    <2> SUFFICES ASSUME IInv, [Next]_vars PROVE [Abstract!Next]_(Abstract!vars)
      OBVIOUS
    <2>1. ASSUME NEW v \in Values, Push(v) PROVE Abstract!Next
      BY <2>1, AbstractPush DEF Abstract!Next
    <2>2. ASSUME NEW v \in Values, Unshift(v) PROVE Abstract!Next
      BY <2>2, AbstractUnshift DEF Abstract!Next
    <2>3. ASSUME NEW v \in Values, NEW k \in Keys, SetItem(k, v) PROVE Abstract!Next
      BY <2>3, AbstractAssign DEF Abstract!Next
    <2>4. ASSUME NEW k \in Keys, Delete(k) PROVE Abstract!Next
      BY <2>4, AbstractRemove DEF Abstract!Next
    <2>5. CASE Pop
      BY <2>5, AbstractPop DEF Abstract!Next
    <2>6. CASE Shift
      BY <2>6, AbstractShift DEF Abstract!Next
    <2>7. CASE UNCHANGED vars
      BY <2>7 DEF vars, Abstract!vars
    <2> QED BY <2>1, <2>2, <2>3, <2>4, <2>5, <2>6, <2>7 DEF Next
  <1> QED BY <1>1, <1>2, StaysSound, PTL DEF Spec, ImplementsOrderedMap, Abstract!Spec

----------------------------------------------------------------------------
(* Arrays that are lists                                                   *)

LEMMA EmptyOnly ==
  ASSUME NEW U, NEW s \in Seq(U), NEW S, \A i \in 1..Len(s) : s[i] \notin S
  PROVE  Only(s, S) = <<>>
  <1>1. /\ Only(s, S) \in Seq(U \cap S)
        /\ \A j \in DOMAIN Only(s, S) : \E i \in DOMAIN s : Only(s, S)[j] = s[i]
    BY OnlyFacts
  <1> DEFINE o == Only(s, S)
  <1> HIDE DEF o
  <1>2. o \in Seq(U \cap S) /\ \A j \in DOMAIN o : \E i \in DOMAIN s : o[j] = s[i]
    BY <1>1 DEF o
  <1>3. DOMAIN s = 1..Len(s) /\ DOMAIN o = 1..Len(o) /\ Len(o) \in Nat
    BY <1>2
  <1>4. \A j \in 1..Len(o) : o[j] \in S /\ o[j] \notin S
    BY <1>2, <1>3
  <1>5. Len(o) = 0
    BY <1>3, <1>4
  <1> QED BY <1>2, <1>5 DEF o

\* The keys of a list are 0 .. n-1, each of them once, whatever their order.
LEMMA ListKeys ==
  ASSUME NEW a, Sound(a), IsList(a)
  PROVE  /\ \A i \in 0..(a.size - 1) : i \in DOMAIN Decimal /\ Has(a, Decimal[i])
         /\ \A k \in Keys : Has(a, k) =>
              \E i \in 0..(a.size - 1) : i \in DOMAIN Decimal /\ k = Decimal[i]
  <1> DEFINE n == a.size
             s == KeysOf(a)
             S == 1..n
             T == 0..(n - 1)
             f == [i \in S |-> CHOOSE m \in DOMAIN Decimal \cap T : s[i] = Decimal[m]]
  <1>1. n \in Nat /\ s \in Seq(Keys) /\ Len(s) = n /\ DOMAIN s = S
        /\ \A i, j \in S : s[i] = s[j] => i = j
    BY SoundFacts
  <1>2. \A i \in S : \E m \in DOMAIN Decimal \cap T : s[i] = Decimal[m]
    BY <1>1 DEF IsList, ToSet
  <1>3. \A i \in S : f[i] \in DOMAIN Decimal /\ f[i] \in T /\ s[i] = Decimal[f[i]]
    BY <1>2
  <1> HIDE DEF f, s
  <1>4. f \in Injection(S, T)
    <2>1. f \in [S -> T]
      BY <1>3 DEF f
    <2>2. \A i, j \in S : f[i] = f[j] => i = j
      BY <1>1, <1>3
    <2> QED BY <2>1, <2>2 DEF Injection, IsInjective
  <1> HIDE DEF n
  <1>5. IsFiniteSet(S) /\ IsFiniteSet(T) /\ Cardinality(S) = n /\ Cardinality(T) = n
    <2>1. 0 \in Int /\ 1 \in Int /\ n \in Int /\ n - 1 \in Int /\ n - 1 - 0 + 1 = n /\ n - 1 + 1 = n
      BY <1>1
    <2>2. IsFiniteSet(1..n) /\ Cardinality(1..n) = IF 1 > n THEN 0 ELSE n - 1 + 1
      BY <2>1, FS_Interval
    <2>3. IsFiniteSet(0..(n - 1)) /\ Cardinality(0..(n - 1)) = IF 0 > n - 1 THEN 0 ELSE n - 1 - 0 + 1
      BY <2>1, FS_Interval
    <2> QED BY <1>1, <2>1, <2>2, <2>3
  <1> HIDE DEF S, T
  <1>6. f \in Surjection(S, T)
    BY <1>4, <1>5, FS_Injection
  <1>7. \A m \in T : \E i \in S : f[i] = m
    BY <1>6 DEF Surjection
  <1>8. \A m \in T : m \in DOMAIN Decimal /\ \E i \in S : s[i] = Decimal[m]
    BY <1>3, <1>7
  <1>9. \A k : Has(a, k) <=> \E i \in S : s[i] = k
    BY <1>1 DEF Has, s, S
  <1> QED BY <1>3, <1>8, <1>9 DEF n, T

LEMMA ListFacts ==
  ASSUME NEW a, Sound(a), IsList(a)
  PROVE  /\ AllPlain(a) /\ NamesOf(a) = <<>> /\ Len(Indices(a)) = a.size
         /\ \A r \in 1..a.size : Indices(a)[r] = r - 1
         /\ ValuesAt(a) = List(a) /\ List(a) \in Seq(Values) /\ Len(List(a)) = a.size
  <1> DEFINE n == a.size
             N == 0..(n - 1)
  <1>1. /\ \A i \in N : i \in DOMAIN Decimal /\ Has(a, Decimal[i])
        /\ \A k \in Keys : Has(a, k) => \E i \in N : i \in DOMAIN Decimal /\ k = Decimal[i]
    BY ListKeys
  <1>2. n \in Nat /\ KeysOf(a) \in Seq(Keys) /\ Len(KeysOf(a)) = n
        /\ \A i \in 1..n : KeysOf(a)[i] \in Keys /\ Has(a, KeysOf(a)[i])
    BY SoundFacts
  <1>3. \A i \in N : Decimal[i] \in NumberKeys /\ Num(Decimal[i]) = i
                     /\ Decimal[i] \in Numbers(a)
    <2> SUFFICES ASSUME NEW i \in N
                 PROVE  Decimal[i] \in NumberKeys /\ Num(Decimal[i]) = i
                        /\ Decimal[i] \in Numbers(a)
      OBVIOUS
    <2>1. Decimal[i] \in Keys /\ Number[Decimal[i]] = {i} /\ Has(a, Decimal[i])
      BY <1>1, KeyAssumption
    <2> QED BY <2>1 DEF NumberKeys, Numbers, Num
  <1> HIDE DEF N
  <1>4. \A k \in Numbers(a) : \E i \in N : k = Decimal[i]
    BY <1>1 DEF Numbers, NumberKeys
  <1>5. AllPlain(a)
    BY <1>3, <1>4 DEF AllPlain
  <1>6. NamesOf(a) = <<>>
    <2>1. \A i \in 1..n : KeysOf(a)[i] \notin NameKeys
      BY <1>1, <1>2, <1>3 DEF NameKeys, NumberKeys
    <2> QED BY <1>2, <2>1, EmptyOnly DEF NamesOf
  <1>7. Len(Indices(a)) = n
    <2>1. Len(NumbersOf(a)) \in Nat /\ Len(NumbersOf(a)) + Len(NamesOf(a)) = n
      BY NumbersFacts DEF NamesOf
    <2> QED BY <1>6, <2>1, IndicesFacts
  <1>8. \A i \in N : Cardinality(Lower(a, Decimal[i])) = i
    <2> SUFFICES ASSUME NEW i \in N PROVE Cardinality(Lower(a, Decimal[i])) = i
      OBVIOUS
    <2> DEFINE S == 0..(i - 1)
               L == Lower(a, Decimal[i])
               f == [m \in S |-> Decimal[m]]
    <2>1. i \in Nat /\ i < n /\ \A m \in S : m \in N /\ m < i
      BY <1>2 DEF N
    <2>2. \A m \in S : Decimal[m] \in L
      BY <1>3, <2>1 DEF Lower
    <2>3. \A k \in L : \E m \in S : Decimal[m] = k
      <3> SUFFICES ASSUME NEW k \in L PROVE \E m \in S : Decimal[m] = k
        OBVIOUS
      <3>1. k \in Numbers(a) /\ Num(k) < i
        BY <1>3 DEF Lower
      <3>2. PICK m \in N : k = Decimal[m]
        BY <1>4, <3>1
      <3>3. m < i
        BY <1>3, <3>1, <3>2
      <3>4. m \in S
        BY <2>1, <3>3 DEF N
      <3> QED BY <3>2, <3>4
    <2>4. \A m, p \in S : Decimal[m] = Decimal[p] => m = p
      BY <1>3, <2>1
    <2> HIDE DEF S, L
    <2>5. f \in Bijection(S, L)
      BY <2>2, <2>3, <2>4 DEF Bijection, Injection, IsInjective, Surjection
    <2>6. IsFiniteSet(S) /\ Cardinality(S) = i
      <3>1. 0 \in Int /\ i - 1 \in Int /\ (IF 0 > i - 1 THEN 0 ELSE i - 1 - 0 + 1) = i
        BY <2>1
      <3> QED BY <3>1, FS_Interval DEF S
    <2>7. ExistsBijection(S, L)
      BY <2>5 DEF ExistsBijection
    <2> QED BY <2>6, <2>7, FS_Bijection DEF L
  <1>9. \A r \in 1..n : Indices(a)[r] = r - 1
    <2> SUFFICES ASSUME NEW r \in 1..n PROVE Indices(a)[r] = r - 1
      OBVIOUS
    <2> DEFINE k == Decimal[Indices(a)[r]]
    <2>1. k \in Numbers(a) /\ Num(k) = Indices(a)[r] /\ Cardinality(Lower(a, k)) = r - 1
      BY <1>5, <1>7, PlainRank
    <2> HIDE DEF k
    <2>2. PICK i \in N : k = Decimal[i]
      BY <1>4, <2>1
    <2> QED BY <1>3, <1>8, <2>1, <2>2
  <1>10. ValuesAt(a) = List(a)
    BY <1>7, <1>9 DEF ValuesAt, List
  <1> QED BY <1>5, <1>6, <1>7, <1>9, <1>10, ValuesAtFacts

\* What has been rebuilt without a name is a list.
LEMMA ListRebuilt ==
  ASSUME NEW a, NEW b, NEW list \in Seq(Values), NamesOf(a) = <<>>, Rebuilt(b, a, list),
         Decimals(Len(list))
  PROVE  IsList(b) /\ List(b) = list
  <1> DEFINE n == Len(list)
  <1>1. n \in Nat /\ \A i \in 1..n : list[i] \in Values
    OBVIOUS
  <1>2. Len(NamesOf(a)) = 0
    OBVIOUS
  <1>3. /\ Sound(b) /\ b.size = 0 + n
        /\ \A i \in 1..n : KeysOf(b)[0 + i] = Decimal[i - 1] /\ ArrayGet(b, Decimal[i - 1]) = list[i]
    BY <1>2 DEF Rebuilt
  <1> HIDE DEF n
  <1>4. b.size = n /\ \A i \in 1..n : KeysOf(b)[i] = Decimal[i - 1]
    <2>1. \A i \in 1..n : 0 + i = i
      BY <1>1
    <2> QED BY <1>1, <1>3, <2>1
  <1>5. KeysOf(b) \in Seq(Keys) /\ DOMAIN KeysOf(b) = 1..n
    BY <1>3, <1>4, SoundFacts
  <1>6. IsList(b)
    <2>1. \A i \in 1..n : i - 1 \in DOMAIN Decimal \cap 0..(n - 1)
      BY <1>1 DEF Decimals, n
    <2> QED BY <1>4, <1>5, <2>1 DEF IsList, ToSet
  <1>7. List(b) = list
    <2>1. list = [i \in 1..n |-> list[i]]
      BY DEF n
    <2> QED BY <1>3, <1>4, <2>1 DEF List
  <1> QED BY <1>6, <1>7

LEMMA ListPushed ==
  ASSUME IInv, IsList(arr), NEW v \in Values, Push(v)
  PROVE  IsList(arr') /\ List(arr') = Append(List(arr), v)
  <1> DEFINE n == arr.size
             k == Decimal[n]
             N == 0..(n - 1)
  <1>1. Sound(arr) /\ Address \ Live(arr) # {} /\ n \in DOMAIN Decimal /\ arr' = ArraySet(arr, k, v)
    BY DEF IInv, Push, Room
  <1>2. n \in Nat /\ KeysOf(arr) \in Seq(Keys) /\ Len(KeysOf(arr)) = n
    BY <1>1, SoundFacts
  <1>3. /\ List(arr) \in Seq(Values) /\ Len(List(arr)) = n
        /\ \A i \in 1..n : List(arr)[i] = ArrayGet(arr, Decimal[i - 1])
    BY <1>1, ListFacts DEF List
  <1>4. /\ \A i \in N : i \in DOMAIN Decimal
        /\ \A j \in Keys : Has(arr, j) => \E i \in N : i \in DOMAIN Decimal /\ j = Decimal[i]
    BY <1>1, ListKeys
  <1> HIDE DEF n, N
  <1>5. k \in Keys /\ Number[k] = {n} /\ \A i \in N : i # n /\ Decimal[i] # k /\ Decimal[i] \in Keys
    <2>1. k \in Keys /\ Number[k] = {n}
      BY <1>1, KeyAssumption
    <2>2. \A i \in N : i # n
      BY <1>2 DEF N
    <2>3. \A i \in N : Decimal[i] \in Keys /\ Number[Decimal[i]] = {i}
      BY <1>4, KeyAssumption
    <2> QED BY <2>1, <2>2, <2>3
  <1> HIDE DEF k
  <1>6. ~Has(arr, k)
    BY <1>4, <1>5
  <1>7. /\ Sound(arr') /\ KeysOf(arr') = Append(KeysOf(arr), k)
        /\ \A j \in Keys : ArrayGet(arr', j) = IF j = k THEN v ELSE ArrayGet(arr, j)
    BY <1>1, <1>5, <1>6, SoundSet
  <1>8. arr'.size = n + 1
    <2>1. Len(KeysOf(arr')) = arr'.size
      BY <1>7, SoundFacts
    <2>2. Len(Append(KeysOf(arr), k)) = n + 1
      BY <1>2, <1>5
    <2> QED BY <1>7, <2>1, <2>2
  <1>9. IsList(arr')
    <2>1. \A j \in ToSet(KeysOf(arr')) : j = k \/ (Has(arr, j) /\ j \in Keys)
      <3>1. \A j \in ToSet(Append(KeysOf(arr), k)) :
              j = k \/ (j \in Keys /\ \E i \in 1..Len(KeysOf(arr)) : KeysOf(arr)[i] = j)
        BY <1>2 DEF ToSet
      <3> QED BY <1>7, <3>1 DEF Has
    <2>2. /\ n \in DOMAIN Decimal \cap 0..(n + 1 - 1)
          /\ \A i \in N : i \in 0..(n + 1 - 1)
      BY <1>1, <1>2 DEF n, N
    <2>3. k = Decimal[n]
      BY DEF k
    <2> QED BY <1>4, <1>8, <2>1, <2>2, <2>3 DEF IsList
  <1>10. List(arr') = Append(List(arr), v)
    <2> DEFINE s == List(arr')
               t == Append(List(arr), v)
    <2>1. t \in Seq(Values) /\ Len(t) = n + 1 /\ t[n + 1] = v
          /\ \A i \in 1..n : t[i] = List(arr)[i]
      BY <1>2, <1>3
    <2>2. s = [i \in 1..(n + 1) |-> ArrayGet(arr', Decimal[i - 1])]
      BY <1>8 DEF List
    <2>3. \A i \in 1..n : ArrayGet(arr', Decimal[i - 1]) = List(arr)[i]
      <3>1. \A i \in 1..n : i - 1 \in N
        BY <1>2 DEF N
      <3> QED BY <1>3, <1>5, <1>7, <3>1
    <2>4. ArrayGet(arr', Decimal[n]) = v
      BY <1>5, <1>7 DEF k
    <2> HIDE DEF t
    <2>5. \A i \in 1..(n + 1) : ArrayGet(arr', Decimal[i - 1]) = t[i]
      <3> SUFFICES ASSUME NEW i \in 1..(n + 1) PROVE ArrayGet(arr', Decimal[i - 1]) = t[i]
        OBVIOUS
      <3>1. CASE i \in 1..n
        BY <2>1, <2>3, <3>1
      <3>2. CASE i = n + 1
        <4>1. i - 1 = n
          BY <1>2, <3>2
        <4>2. t[i] = v
          BY <2>1, <3>2
        <4> QED BY <2>4, <4>1, <4>2
      <3>3. i \in 1..n \/ i = n + 1
        BY <1>2
      <3> QED BY <3>1, <3>2, <3>3
    <2>6. t = [i \in 1..(n + 1) |-> t[i]]
      BY <1>2, <2>1
    <2> HIDE DEF s
    <2>7. s = t
      BY <2>2, <2>5, <2>6
    <2> QED BY <2>7 DEF s, t
  <1> QED BY <1>9, <1>10

LEMMA ListUnshifted ==
  ASSUME IInv, IsList(arr), NEW v \in Values, Unshift(v)
  PROVE  IsList(arr') /\ List(arr') = <<v>> \o List(arr)
  <1> DEFINE list == <<v>> \o ValuesAt(arr)
  <1>1. Sound(arr)
    BY DEF IInv
  <1>2. /\ AllPlain(arr) /\ NamesOf(arr) = <<>> /\ Len(Indices(arr)) = arr.size
        /\ ValuesAt(arr) = List(arr) /\ List(arr) \in Seq(Values) /\ Len(List(arr)) = arr.size
    BY <1>1, ListFacts
  <1>3. Address \ Live(arr) # {} /\ Decimals(Len(Indices(arr)) + 1)
    BY DEF Unshift, Room
  <1>4. Rebuilt(arr', arr, list)
    BY <1>1, <1>2, <1>3, UnshiftPlain DEF Unshift
  <1>5. list \in Seq(Values) /\ Len(list) = Len(Indices(arr)) + 1
    BY <1>2
  <1>6. IsList(arr') /\ List(arr') = list
    <2> HIDE DEF list
    <2> QED BY <1>2, <1>3, <1>4, <1>5, ListRebuilt
  <1> QED BY <1>2, <1>6

LEMMA ListShifted ==
  ASSUME IInv, IsList(arr), Shift, arr.size > 0
  PROVE  IsList(arr') /\ List(arr) = <<out'>> \o List(arr')
  <1> DEFINE ns == Indices(arr)
             n == arr.size
             values == ValuesAt(arr)
             list == Tail(values)
  <1>1. Sound(arr)
    BY DEF IInv
  <1>2. /\ AllPlain(arr) /\ NamesOf(arr) = <<>> /\ Len(ns) = n
        /\ \A r \in 1..n : ns[r] = r - 1
        /\ values = List(arr) /\ List(arr) \in Seq(Values) /\ Len(List(arr)) = n
    BY <1>1, ListFacts
  <1>3. n \in Nat /\ n > 0 /\ ns \in Seq(Int)
    BY <1>1, SoundFacts, IndicesFacts
  <1>4. ns # <<>> /\ Head(ns) = ns[1]
    BY <1>2, <1>3
  <1>5. /\ Decimals(n - 1) /\ out' = ArrayGet(arr, Decimal[Head(ns)])
        /\ arr' = Refill(Named(ArrayDelete(arr, Decimal[Head(ns)]))
                           \o Renumbered(ArrayDelete(arr, Decimal[Head(ns)]), Tail(ns), 0))
    BY <1>2, <1>4 DEF Shift
  <1>6. Rebuilt(arr', arr, list)
    BY <1>1, <1>2, <1>4, <1>5, ShiftPlain
  <1>7. out' = values[1]
    BY <1>2, <1>3, <1>4, <1>5 DEF ValuesAt
  <1> HIDE DEF values, n
  <1>8. list \in Seq(Values) /\ Len(list) = n - 1 /\ values \in Seq(Values)
        /\ \A i \in 1..(n - 1) : list[i] = values[i + 1]
    BY <1>2, <1>3
  <1> HIDE DEF list
  <1>9. IsList(arr') /\ List(arr') = list
    BY <1>2, <1>5, <1>6, <1>8, ListRebuilt
  <1>10. values = <<out'>> \o list
    <2> DEFINE u == <<out'>> \o list
    <2>1. values[1] \in Values
      BY <1>2, <1>3
    <2>2. <<out'>> \in Seq(Values) /\ Len(<<out'>>) = 1 /\ <<out'>>[1] = values[1]
      BY <1>7, <2>1
    <2>3. u \in Seq(Values) /\ IsJoined(u, <<out'>>, list)
      BY <1>8, <2>2, Joined
    <2> HIDE DEF u
    <2>4. /\ Len(u) = 1 + (n - 1) /\ (\A i \in 1..1 : u[i] = values[1])
          /\ \A i \in 1..(n - 1) : u[1 + i] = values[i + 1]
      BY <1>8, <2>2, <2>3 DEF IsJoined
    <2>5. \A i \in 1..n : u[i] = values[i]
      <3> SUFFICES ASSUME NEW i \in 1..n PROVE u[i] = values[i]
        OBVIOUS
      <3>1. CASE i = 1
        BY <2>4, <3>1
      <3>2. CASE i # 1
        <4>1. i - 1 \in 1..(n - 1) /\ 1 + (i - 1) = i /\ (i - 1) + 1 = i
          BY <1>3, <3>2
        <4> QED BY <2>4, <4>1
      <3> QED BY <3>1, <3>2
    <2>6. Len(u) = n /\ Len(values) = n
      BY <1>2, <1>3, <2>4
    <2>7. u = values
      BY <1>8, <2>3, <2>5, <2>6, SameSeq
    <2> QED BY <2>7 DEF u
  <1> QED BY <1>2, <1>9, <1>10

LEMMA ListHighest ==
  ASSUME NEW a, Sound(a), IsList(a), a.size > 0
  PROVE  Highest(a) = a.size - 1
  <1> DEFINE n == a.size
             S == ToSet(NumbersOf(a))
             h == Highest(a)
  <1>1. n \in Nat /\ n > 0
    BY SoundFacts
  <1>2. /\ \A i \in 0..(n - 1) : i \in DOMAIN Decimal /\ Has(a, Decimal[i])
        /\ \A k \in Keys : Has(a, k) => \E i \in 0..(n - 1) : i \in DOMAIN Decimal /\ k = Decimal[i]
    BY ListKeys
  <1>3. /\ \A m \in S : \E k \in Numbers(a) : Num(k) = m
        /\ \A k \in Numbers(a) : Num(k) \in S
    BY NumberedAre
  <1>4. IF \E m \in S : m >= 0
        THEN h >= 0 /\ h \in S /\ (\A m \in S : m <= h) /\ Decimal[h] \in Keys
        ELSE h = -1
    BY HighestFacts
  <1> HIDE DEF n, S, h
  <1>5. \A i \in 0..(n - 1) : Decimal[i] \in Numbers(a) /\ Num(Decimal[i]) = i
    <2> SUFFICES ASSUME NEW i \in 0..(n - 1)
                 PROVE  Decimal[i] \in Numbers(a) /\ Num(Decimal[i]) = i
      OBVIOUS
    <2>1. Decimal[i] \in Keys /\ Number[Decimal[i]] = {i} /\ Has(a, Decimal[i])
      BY <1>2, KeyAssumption
    <2> QED BY <2>1 DEF NumberKeys, Numbers, Num
  <1>6. \A m \in S : m \in 0..(n - 1)
    <2>1. \A k \in Numbers(a) : \E i \in 0..(n - 1) : k = Decimal[i]
      BY <1>2 DEF Numbers, NumberKeys
    <2> QED BY <1>3, <1>5, <2>1
  <1>7. n - 1 \in 0..(n - 1) /\ n - 1 >= 0
    BY <1>1
  <1>8. n - 1 \in S
    BY <1>3, <1>5, <1>7
  <1>9. h \in 0..(n - 1) /\ n - 1 <= h
    BY <1>4, <1>6, <1>7, <1>8
  <1> QED BY <1>1, <1>9 DEF n, h

LEMMA ListPopped ==
  ASSUME IInv, IsList(arr), Pop, arr.size > 0
  PROVE  IsList(arr') /\ List(arr) = Append(List(arr'), out')
  <1> DEFINE n == arr.size
             k == Decimal[n - 1]
             N == 0..(n - 2)
  <1>1. Sound(arr)
    BY DEF IInv
  <1>2. n \in Nat /\ n > 0 /\ KeysOf(arr) \in Seq(Keys) /\ Len(KeysOf(arr)) = n
        /\ \A i, j \in 1..n : KeysOf(arr)[i] = KeysOf(arr)[j] => i = j
    BY <1>1, SoundFacts
  <1>3. arr' = ArrayDelete(arr, k) /\ out' = ArrayGet(arr, k)
    <2>1. Highest(arr) = n - 1 /\ ~(Highest(arr) < 0)
      BY <1>1, <1>2, ListHighest
    <2> QED BY <2>1 DEF Pop, Delete
  <1>4. /\ List(arr) \in Seq(Values) /\ Len(List(arr)) = n
        /\ \A i \in 1..n : List(arr)[i] = ArrayGet(arr, Decimal[i - 1])
    BY <1>1, ListFacts DEF List
  <1>5. /\ \A i \in 0..(n - 1) : i \in DOMAIN Decimal /\ Has(arr, Decimal[i])
        /\ \A j \in Keys : Has(arr, j) =>
             \E i \in 0..(n - 1) : i \in DOMAIN Decimal /\ j = Decimal[i]
    BY <1>1, ListKeys
  <1> HIDE DEF n
  <1>6. \A i \in 0..(n - 1) : Decimal[i] \in Keys /\ Number[Decimal[i]] = {i}
    BY <1>5, KeyAssumption
  <1>7. /\ n - 1 \in Nat /\ n - 1 \in 0..(n - 1) /\ (n - 1) + 1 = n
        /\ \A i \in N : i \in 0..(n - 1) /\ i # n - 1
        /\ \A i \in 0..(n - 1) : i = n - 1 \/ i \in N
    BY <1>2
  <1>8. k \in Keys /\ \A i \in N : Decimal[i] # k
    BY <1>6, <1>7
  <1> HIDE DEF k, N
  <1>9. PICK p \in 1..Len(KeysOf(arr)) : KeysOf(arr)[p] = k
    BY <1>5, <1>7 DEF Has, k
  <1>10. /\ Sound(arr') /\ KeysOf(arr') = Skip(KeysOf(arr), p)
         /\ \A j \in Keys : ArrayGet(arr', j) = IF j = k THEN None ELSE ArrayGet(arr, j)
    BY <1>1, <1>2, <1>3, <1>8, <1>9, SoundDelete DEF n
  <1>11. /\ Skip(KeysOf(arr), p) \in Seq(Keys) /\ Len(Skip(KeysOf(arr), p)) = n - 1
         /\ \A j \in 1..(n - 1) : Skip(KeysOf(arr), p)[j] # KeysOf(arr)[p]
    <2> DEFINE s == KeysOf(arr)
    <2>1. s \in Seq(Keys) /\ p \in 1..Len(s)
          /\ \A i, j \in 1..Len(s) : s[i] = s[j] => i = j
      BY <1>2
    <2>2. Len(s) = n
      BY <1>2
    <2> HIDE DEF s
    <2> DEFINE t == Skip(s, p)
    <2>3. t \in Seq(Keys) /\ Len(t) = Len(s) - 1
      BY <2>1, SkipFacts
    <2>4. \A j \in 1..(Len(s) - 1) : t[j] # s[p]
      BY <2>1, SkipFacts
    <2> QED BY <2>2, <2>3, <2>4 DEF s
  <1>12. arr'.size = n - 1
    BY <1>10, <1>11, SoundFacts
  <1>13. \A j \in 1..(n - 1) : Has(arr, KeysOf(arr')[j]) /\ KeysOf(arr')[j] \in Keys
    <2> SUFFICES ASSUME NEW j \in 1..(n - 1)
                 PROVE  Has(arr, KeysOf(arr')[j]) /\ KeysOf(arr')[j] \in Keys
      OBVIOUS
    <2>1. KeysOf(arr')[j] = KeysOf(arr)[IF j < p THEN j ELSE j + 1]
      BY <1>2, <1>10 DEF Skip
    <2>2. (IF j < p THEN j ELSE j + 1) \in 1..n
      BY <1>2
    <2> QED BY <1>2, <2>1, <2>2 DEF Has
  <1>14. IsList(arr')
    <2>1. \A j \in ToSet(KeysOf(arr')) : j \in Keys /\ Has(arr, j) /\ j # k
      BY <1>9, <1>10, <1>11, <1>13 DEF ToSet
    <2>2. \A j \in ToSet(KeysOf(arr')) : \E i \in N : i \in DOMAIN Decimal /\ j = Decimal[i]
      BY <1>5, <1>7, <2>1 DEF k
    <2>3. \A i \in N : i \in 0..(n - 1 - 1)
      BY <1>2 DEF N
    <2> QED BY <1>12, <2>2, <2>3 DEF IsList
  <1>15. List(arr) = Append(List(arr'), out')
    <2> DEFINE s == List(arr')
               t == Append(s, out')
    <2>1. s = [i \in 1..(n - 1) |-> ArrayGet(arr', Decimal[i - 1])]
      BY <1>12 DEF List
    <2>2. \A i \in 1..(n - 1) : ArrayGet(arr', Decimal[i - 1]) = List(arr)[i]
      <3>1. \A i \in 1..(n - 1) : i - 1 \in N /\ i \in 1..n
        BY <1>2 DEF N
      <3>2. \A i \in N : Decimal[i] \in Keys
        BY <1>6, <1>7
      <3> QED BY <1>4, <1>8, <1>10, <3>1, <3>2
    <2>3. out' = List(arr)[n] /\ n \in 1..n
      BY <1>2, <1>3, <1>4 DEF k
    <2>4. \A i \in 1..n : List(arr)[i] \in Values
      BY <1>4
    <2> HIDE DEF s
    <2>5. s \in Seq(Values) /\ Len(s) = n - 1 /\ \A i \in 1..(n - 1) : s[i] = List(arr)[i]
      <3>1. \A i \in 1..(n - 1) : i \in 1..n
        BY <1>2
      <3>2. \A i \in 1..(n - 1) : s[i] = List(arr)[i] /\ s[i] \in Values
        BY <2>1, <2>2, <2>4, <3>1
      <3>3. s = [i \in 1..(n - 1) |-> s[i]]
        BY <2>1
      <3> QED BY <1>7, <3>2, <3>3
    <2>6. t \in Seq(Values) /\ Len(t) = n /\ t[n] = List(arr)[n]
          /\ \A i \in 1..(n - 1) : t[i] = List(arr)[i]
      BY <1>7, <2>3, <2>4, <2>5
    <2> HIDE DEF t
    <2>7. \A i \in 1..n : t[i] = List(arr)[i]
      <3> SUFFICES ASSUME NEW i \in 1..n PROVE t[i] = List(arr)[i]
        OBVIOUS
      <3>1. i \in 1..(n - 1) \/ i = n
        BY <1>2
      <3> QED BY <2>6, <3>1
    <2>8. t = List(arr)
      BY <1>4, <2>6, <2>7, SameSeq
    <2> QED BY <2>8 DEF t, s
  <1> QED BY <1>14, <1>15

\* Whatever the order in which the keys 0 .. n-1 were inserted, an array that
\* has just them stays a list under the four list operations, and each of
\* them moves the elements by the place it opens or closes.
THEOREM ListsMoveAsOne == Spec => ListsStayLists
  <1> DEFINE A ==
        IsList(arr) =>
          /\ \A v \in Values :
               /\ Push(v) => IsList(arr') /\ List(arr') = Append(List(arr), v)
               /\ Unshift(v) => IsList(arr') /\ List(arr') = <<v>> \o List(arr)
          /\ Shift /\ arr.size > 0 =>
               IsList(arr') /\ List(arr) = <<out'>> \o List(arr')
          /\ Pop /\ arr.size > 0 =>
               IsList(arr') /\ List(arr) = Append(List(arr'), out')
  <1>1. IInv => A
    BY ListPushed, ListUnshifted, ListShifted, ListPopped
  <1>2. IInv /\ [Next]_vars => [A]_vars
    BY <1>1
  <1> QED BY <1>2, StaysSound, PTL DEF Spec, ListsStayLists
=============================================================================
