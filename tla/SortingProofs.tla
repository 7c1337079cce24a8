--------------------------- MODULE SortingProofs ---------------------------
(***************************************************************************)
(* Proofs about sort: that the entry each sort stands at stays in the      *)
(* array, and that what a sort returns is what its key function was called *)
(* with, in the order of what it returned.                                 *)
(***************************************************************************)
EXTENDS Sorting, ArrayProofs

-----------------------------------------------------------------------------
(* The records of the sorts in progress                                    *)

Seen == [value : Values, sort : SortValues, at : Address]
Current == [key : Keys, value : Values, at : Nat]

SortRecord ==
  [cursor : Address \cup {NULL}, calling : BOOLEAN, base : Nat, count : Nat,
   reserved : Nat, index : Nat, failed : BOOLEAN, current : Current \cup {NULL},
   seen : Seq(Seen), lasting : SUBSET Address]

LEMMA AdvanceFacts ==
  ASSUME NEW s \in SortRecord, arr.entry[s.cursor].next \in Address \cup {NULL}
  PROVE  /\ Advance(s) \in SortRecord
         /\ Advance(s).cursor = arr.entry[s.cursor].next
         /\ ~Advance(s).calling
         /\ Advance(s).seen = s.seen /\ Advance(s).lasting = s.lasting
         /\ Advance(s).base = s.base /\ Advance(s).count = s.count
         /\ Advance(s).reserved = s.reserved /\ Advance(s).index = s.index
  BY DEF Advance, SortRecord

LEMMA UnderFacts ==
  ASSUME sorts \in Seq(SortRecord), ~Idle
  PROVE  /\ Len(sorts) \in Nat /\ Len(sorts) \in 1..Len(sorts)
         /\ Under \in Seq(SortRecord) /\ Len(Under) = Len(sorts) - 1
         /\ \A i \in 1..(Len(sorts) - 1) : Under[i] = sorts[i]
  <1>1. Len(sorts) \in Nat /\ Len(sorts) # 0
    BY EmptySeq, LenProperties DEF Idle
  <1> DEFINE n == Len(sorts) - 1
  <1>2. n \in Nat /\ 1..n \subseteq 1..Len(sorts)
    BY <1>1
  <1>3. n \in Nat /\ \A i \in 1..n : sorts[i] \in SortRecord
    BY <1>2
  <1>4. \A i \in 1..n : 1 + i - 1 = i
    OBVIOUS
  <1>5. Under = SubSeq(sorts, 1, n)
    BY DEF Under
  <1> HIDE DEF n
  <1>6. n \in Nat /\ n \in Int
    BY <1>3
  <1>7. n - 1 + 1 = n /\ (~(1 <= n) => n = 0)
    BY <1>6
  <1>8. 1..(n - 1 + 1) = 1..n
    BY <1>7
  <1>9. /\ SubSeq(sorts, 1, n) \in Seq(SortRecord)
        /\ Len(SubSeq(sorts, 1, n)) = IF 1 <= n THEN n - 1 + 1 ELSE 0
        /\ \A i \in 1..(n - 1 + 1) : SubSeq(sorts, 1, n)[i] = sorts[1 + i - 1]
    BY <1>3, <1>6, SubSeqProperties
  <1>10. /\ Under \in Seq(SortRecord) /\ Len(Under) = n
         /\ \A i \in 1..n : Under[i] = sorts[i]
    BY <1>4, <1>5, <1>7, <1>8, <1>9
  <1> QED BY <1>1, <1>10 DEF n

LEMMA SetTopFacts ==
  ASSUME sorts \in Seq(SortRecord), ~Idle, NEW s \in SortRecord
  PROVE  LET t == Append(Under, s) IN
         /\ t \in Seq(SortRecord) /\ Len(t) = Len(sorts) /\ Len(sorts) \in 1..Len(sorts)
         /\ Top \in SortRecord /\ t[Len(sorts)] = s
         /\ \A i \in 1..Len(sorts) : i # Len(sorts) => t[i] = sorts[i]
  <1>1. /\ Len(sorts) \in Nat /\ Len(sorts) \in 1..Len(sorts)
        /\ Under \in Seq(SortRecord) /\ Len(Under) = Len(sorts) - 1
        /\ \A i \in 1..(Len(sorts) - 1) : Under[i] = sorts[i]
    BY UnderFacts
  <1>2. Top \in SortRecord
    BY <1>1 DEF Top
  <1> QED BY <1>1, <1>2, AppendProperties

-----------------------------------------------------------------------------
(* Where a sort stands                                                     *)

VisitedOnce(seen, e) ==
  \E i \in 1..Len(seen) : seen[i].at = e /\ \A j \in 1..Len(seen) : seen[j].at = e => j = i

NotVisited(seen, e) == \A i \in 1..Len(seen) : seen[i].at # e

\* A sort stands at the p-th entry of the list f, or behind its last one.
\* What has been there all along has been visited before p and not after.
StandsAt(s, f, p) ==
  /\ p \in 1..(Len(f) + 1)
  /\ s.cursor = IF p = Len(f) + 1 THEN NULL ELSE f[p]
  /\ s.calling => p # Len(f) + 1 /\ s.current \in Current
  /\ \A e \in s.lasting : \E q \in 1..Len(f) : f[q] = e
  /\ \A q \in 1..Len(f) : f[q] \in s.lasting =>
       IF q < p THEN VisitedOnce(s.seen, f[q]) ELSE NotVisited(s.seen, f[q])

Stands(s, f) == \E p : StandsAt(s, f, p)

WalkInv ==
  /\ Sound(arr) /\ out \in Values \cup {None}
  /\ sorts \in Seq(SortRecord) /\ changes \in 0..MaxChanges
  /\ \A i \in 1..Len(sorts) :
       /\ Stands(sorts[i], Walk(arr))
       /\ i < Len(sorts) => sorts[i].calling

LEMMA SoundWalk ==
  ASSUME NEW a, Sound(a)
  PROVE  /\ Well(a, Walk(a)) /\ Chain(a, Walk(a)) /\ Walk(a) \in Seq(Address)
         /\ Len(Walk(a)) \in Nat
  <1>1. PICK f : Well(a, f)
    BY DEF Sound
  <1>2. Walk(a) = f
    BY <1>1, WalkIs DEF Well
  <1> QED BY <1>1, <1>2 DEF Well, Chain

\* A sort begins at the head of the list.
LEMMA StandsFirst ==
  ASSUME NEW a, NEW f, Chain(a, f), NEW s, s.cursor = a.head, ~s.calling, s.seen = <<>>,
         s.lasting = Live(a)
  PROVE  Stands(s, f)
  <1>1. Len(f) \in Nat /\ 1 \in 1..(Len(f) + 1) /\ (1 = Len(f) + 1 <=> Len(f) = 0)
    BY ChainFacts
  <1>2. StandsAt(s, f, 1)
    BY <1>1, ChainFacts DEF StandsAt, NotVisited, Chain
  <1> QED BY <1>2 DEF Stands

\* The next pointer of the entry leads to the next one of the list.
LEMMA NextOf ==
  ASSUME NEW a, NEW f, Chain(a, f), NEW p \in 1..Len(f)
  PROVE  /\ a.entry[f[p]].next = IF p + 1 = Len(f) + 1 THEN NULL ELSE f[p + 1]
         /\ a.entry[f[p]].next \in Address \cup {NULL}
         /\ p + 1 \in 1..(Len(f) + 1) /\ f[p] \in Address
         /\ \A q \in 1..Len(f) : f[q] = f[p] => q = p
  <1>1. Len(f) \in Nat /\ f[p] \in Address /\ p + 1 \in 1..(Len(f) + 1)
        /\ (p = Len(f) <=> p + 1 = Len(f) + 1)
    BY ChainFacts
  <1>2. p # Len(f) => p + 1 \in 1..Len(f)
    BY <1>1
  <1>3. p # Len(f) => f[p + 1] \in Address
    BY <1>2, ChainFacts
  <1>4. a.entry[f[p]].next = IF p + 1 = Len(f) + 1 THEN NULL ELSE f[p + 1]
    BY <1>1 DEF Chain
  <1>5. \A q \in 1..Len(f) : f[q] = f[p] => q = p
    BY DEF Chain
  <1> QED BY <1>1, <1>3, <1>4, <1>5

\* One more entry has been visited.
LEMMA VisitedFurther ==
  ASSUME NEW seen \in Seq(Seen), NEW new \in Seen
  PROVE  /\ NotVisited(seen, new.at) => VisitedOnce(Append(seen, new), new.at)
         /\ \A e : e # new.at => /\ VisitedOnce(seen, e) => VisitedOnce(Append(seen, new), e)
                                 /\ NotVisited(seen, e) => NotVisited(Append(seen, new), e)
  <1> DEFINE t == Append(seen, new)
             n == Len(seen) + 1
  <1>1. /\ Len(t) = n /\ n \in 1..n /\ t[n] = new
        /\ \A i \in 1..n : i # n => i \in 1..Len(seen) /\ t[i] = seen[i]
        /\ \A i \in 1..Len(seen) : i \in 1..n /\ i # n
    <2>1. Len(t) = n /\ t[n] = new /\ \A i \in 1..Len(seen) : t[i] = seen[i]
      BY AppendProperties
    <2>2. Len(seen) \in Nat
      OBVIOUS
    <2> HIDE DEF t
    <2>3. /\ n \in 1..n
          /\ \A i \in 1..n : i # n => i \in 1..Len(seen)
          /\ \A i \in 1..Len(seen) : i \in 1..n /\ i # n
      BY <2>2
    <2> QED BY <2>1, <2>3
  <1> HIDE DEF t, n
  <1>2. ASSUME NotVisited(seen, new.at) PROVE VisitedOnce(t, new.at)
    <2>1. \A i \in 1..n : i # n => t[i].at # new.at
      BY <1>1, <1>2 DEF NotVisited
    <2>2. t[n].at = new.at /\ \A i \in 1..n : t[i].at = new.at => i = n
      BY <1>1, <2>1
    <2> QED BY <1>1, <2>2 DEF VisitedOnce
  <1>3. ASSUME NEW e, e # new.at
        PROVE  /\ VisitedOnce(seen, e) => VisitedOnce(t, e)
               /\ NotVisited(seen, e) => NotVisited(t, e)
    <2>1. NotVisited(seen, e) => NotVisited(t, e)
      BY <1>1, <1>3 DEF NotVisited
    <2>2. ASSUME VisitedOnce(seen, e) PROVE VisitedOnce(t, e)
      <3>1. PICK i \in 1..Len(seen) :
              seen[i].at = e /\ \A j \in 1..Len(seen) : seen[j].at = e => j = i
        BY <2>2 DEF VisitedOnce
      <3>2. t[i].at = e /\ \A j \in 1..Len(t) : t[j].at = e => j = i
        BY <1>1, <1>3, <3>1
      <3> QED BY <1>1, <3>1, <3>2 DEF VisitedOnce
    <2> QED BY <2>1, <2>2
  <1> QED BY <1>2, <1>3 DEF t

\* The sort goes on to the next entry when the key function has returned,
LEMMA StandsFurther ==
  ASSUME NEW a, NEW f, Chain(a, f), NEW s \in SortRecord, s.calling, Stands(s, f),
         NEW new \in Seen, new.at = s.cursor,
         NEW t, t.cursor = a.entry[s.cursor].next, ~t.calling, t.lasting = s.lasting,
         t.seen = Append(s.seen, new)
  PROVE  Stands(t, f)
  <1>1. PICK p : StandsAt(s, f, p)
    BY DEF Stands
  <1>2. p \in 1..Len(f) /\ s.cursor = f[p] /\ s.seen \in Seq(Seen) /\ Len(f) \in Nat /\ p \in Nat
    BY <1>1, ChainFacts DEF StandsAt, SortRecord
  <1>3. ASSUME NEW q \in 1..Len(f), f[q] \in t.lasting
        PROVE  IF q < p + 1 THEN VisitedOnce(t.seen, f[q]) ELSE NotVisited(t.seen, f[q])
    <2>1. IF q < p THEN VisitedOnce(s.seen, f[q]) ELSE NotVisited(s.seen, f[q])
      BY <1>1, <1>3 DEF StandsAt
    <2>2. q \in Nat /\ (q < p + 1 <=> q < p \/ q = p)
      BY <1>2
    <2>3. CASE q = p
      BY <1>2, <2>1, <2>2, <2>3, VisitedFurther
    <2>4. CASE q # p
      <3>1. f[q] # new.at
        BY <1>2, <2>4, NextOf
      <3> QED BY <1>2, <2>1, <2>2, <2>4, <3>1, VisitedFurther
    <2> QED BY <2>3, <2>4
  <1>4. StandsAt(t, f, p + 1)
    BY <1>1, <1>2, <1>3, NextOf DEF StandsAt
  <1> QED BY <1>4 DEF Stands

\* or failed.
LEMMA StandsAfterFailure ==
  ASSUME NEW a, NEW f, Chain(a, f), NEW s \in SortRecord, s.calling, Stands(s, f),
         NEW t, t.cursor = a.entry[s.cursor].next, ~t.calling,
         t.lasting = s.lasting \ {s.cursor}, t.seen = s.seen
  PROVE  Stands(t, f)
  <1>1. PICK p : StandsAt(s, f, p)
    BY DEF Stands
  <1>2. p \in 1..Len(f) /\ s.cursor = f[p] /\ Len(f) \in Nat /\ p \in Nat
    BY <1>1, ChainFacts DEF StandsAt
  <1>3. ASSUME NEW q \in 1..Len(f), f[q] \in t.lasting
        PROVE  IF q < p + 1 THEN VisitedOnce(t.seen, f[q]) ELSE NotVisited(t.seen, f[q])
    <2>1. q # p /\ q \in Nat /\ f[q] \in s.lasting
      BY <1>2, <1>3
    <2>2. q < p + 1 <=> q < p
      BY <1>2, <2>1
    <2> QED BY <1>1, <2>1, <2>2 DEF StandsAt
  <1>4. StandsAt(t, f, p + 1)
    BY <1>1, <1>2, <1>3, NextOf DEF StandsAt
  <1> QED BY <1>4 DEF Stands

\* Only the record of the sort itself changes when it calls its function.
LEMMA StandsCalling ==
  ASSUME NEW f, Len(f) \in Nat, NULL \notin Address, NEW s, s.cursor # NULL, Stands(s, f),
         NEW t, t.cursor = s.cursor, t.current \in Current, t.lasting = s.lasting,
         t.seen = s.seen
  PROVE  Stands(t, f)
  BY DEF Stands, StandsAt

\* A new entry comes behind the others, where no sort in a call stands.
LEMMA StandsBeforeNew ==
  ASSUME NEW f \in Seq(Address), NEW e \in Address, \A q \in 1..Len(f) : f[q] # e,
         NEW s, s.calling, Stands(s, f),
         NEW t, t.cursor = s.cursor, t.current = s.current, t.seen = s.seen,
         t.lasting \subseteq s.lasting
  PROVE  Stands(t, Append(f, e))
  <1>1. PICK p : StandsAt(s, f, p)
    BY DEF Stands
  <1> DEFINE g == Append(f, e)
  <1>2. /\ Len(f) \in Nat /\ Len(g) = Len(f) + 1 /\ g[Len(f) + 1] = e
        /\ \A q \in 1..Len(f) : q \in 1..Len(g) /\ g[q] = f[q]
        /\ \A q \in 1..Len(g) : q # Len(f) + 1 => q \in 1..Len(f)
    BY AppendProperties
  <1> HIDE DEF g
  <1>3. p \in 1..Len(f) /\ p \in 1..(Len(g) + 1) /\ p # Len(g) + 1
    BY <1>1, <1>2 DEF StandsAt
  <1>4. e \notin s.lasting
    BY <1>1 DEF StandsAt
  <1>5. StandsAt(t, g, p)
    BY <1>1, <1>2, <1>3, <1>4 DEF StandsAt
  <1> QED BY <1>5 DEF Stands, g

\* An entry goes at which no sort stands.
LEMMA StandsBesideHole ==
  ASSUME NEW f \in Seq(Address), \A i, j \in 1..Len(f) : f[i] = f[j] => i = j,
         NEW r \in 1..Len(f),
         NEW s, s.calling, s.cursor # f[r], Stands(s, f),
         NEW t, t.cursor = s.cursor, t.current = s.current, t.seen = s.seen,
         t.lasting \subseteq s.lasting \ {f[r]}
  PROVE  Stands(t, Skip(f, r))
  <1>1. PICK p : StandsAt(s, f, p)
    BY DEF Stands
  <1> DEFINE g == Skip(f, r)
             to == IF r < p THEN p - 1 ELSE p
  <1>2. /\ Len(f) \in Nat /\ Len(g) = Len(f) - 1 /\ r \in Nat
        /\ \A q \in 1..Len(g) : g[q] = IF q < r THEN f[q] ELSE f[q + 1]
    <2>1. Len(f) \in Nat /\ r \in Nat
      OBVIOUS
    <2>2. /\ Len(g) = Len(f) - 1
          /\ \A q \in 1..(Len(f) - 1) : g[q] = IF q < r THEN f[q] ELSE f[q + 1]
      <3>1. Len(f) - 1 \in Nat
        BY <2>1
      <3>2. Skip(f, r) = [j \in 1..(Len(f) - 1) |-> IF j < r THEN f[j] ELSE f[j + 1]]
        BY DEF Skip
      <3>3. Len(Skip(f, r)) = Len(f) - 1
        BY SkipFacts
      <3> QED BY <3>1, <3>2, <3>3
    <2> HIDE DEF g
    <2>3. 1..Len(g) = 1..(Len(f) - 1)
      BY <2>2
    <2> QED BY <2>1, <2>2, <2>3
  <1>3. p \in 1..Len(f) /\ p # r /\ s.cursor = f[p] /\ p \in Nat
    BY <1>1, <1>2 DEF StandsAt
  <1> HIDE DEF g
  <1>4. to \in 1..Len(g) /\ to \in 1..(Len(g) + 1) /\ to # Len(g) + 1
    BY <1>2, <1>3
  <1>5. g[to] = f[p]
    <2>1. CASE r < p
      <3>1. to = p - 1 /\ ~(to < r) /\ to + 1 = p
        BY <1>2, <1>3, <2>1
      <3> QED BY <1>2, <1>4, <3>1
    <2>2. CASE ~(r < p)
      <3>1. to = p /\ to < r
        BY <1>2, <1>3, <2>2
      <3> QED BY <1>2, <1>4, <3>1
    <2> QED BY <2>1, <2>2
  <1>6. \A e \in t.lasting : \E q \in 1..Len(g) : g[q] = e
    <2> SUFFICES ASSUME NEW e \in t.lasting PROVE \E q \in 1..Len(g) : g[q] = e
      OBVIOUS
    <2>1. PICK q \in 1..Len(f) : f[q] = e
      BY <1>1 DEF StandsAt
    <2>2. q # r /\ q \in Nat
      BY <1>2, <2>1
    <2>3. CASE q < r
      <3>1. q \in 1..Len(g)
        BY <1>2, <2>3
      <3> QED BY <1>2, <2>1, <2>3, <3>1
    <2>4. CASE ~(q < r)
      <3>1. q - 1 \in 1..Len(g) /\ ~(q - 1 < r) /\ (q - 1) + 1 = q
        BY <1>2, <2>2, <2>4
      <3> QED BY <1>2, <2>1, <3>1
    <2> QED BY <2>3, <2>4
  <1>7. ASSUME NEW q \in 1..Len(g), g[q] \in t.lasting
        PROVE  IF q < to THEN VisitedOnce(t.seen, g[q]) ELSE NotVisited(t.seen, g[q])
    <2>1. CASE q < r
      <3>1. g[q] = f[q] /\ q \in 1..Len(f) /\ f[q] \in s.lasting
        BY <1>2, <1>7, <2>1
      <3>2. q < to <=> q < p
        BY <1>2, <1>3, <2>1, <3>1
      <3> QED BY <1>1, <3>1, <3>2 DEF StandsAt
    <2>2. CASE ~(q < r)
      <3>1. g[q] = f[q + 1] /\ q + 1 \in 1..Len(f) /\ f[q + 1] \in s.lasting
        BY <1>2, <1>7, <2>2
      <3>2. q < to <=> q + 1 < p
        BY <1>2, <1>3, <2>2, <3>1
      <3> QED BY <1>1, <3>1, <3>2 DEF StandsAt
    <2> QED BY <2>1, <2>2
  <1> HIDE DEF to
  <1>8. StandsAt(t, g, to)
    BY <1>1, <1>3, <1>4, <1>5, <1>6, <1>7 DEF StandsAt
  <1> QED BY <1>8 DEF Stands, g

-----------------------------------------------------------------------------
(* What each action keeps of WalkInv                                       *)

LEMMA WalkSetTop ==
  ASSUME WalkInv, ~Idle, NEW s \in SortRecord, SetTop(s), Stands(s, Walk(arr)),
         UNCHANGED <<arr, out, changes>>
  PROVE  WalkInv'
  <1>1. sorts \in Seq(SortRecord) /\ sorts' = Append(Under, s)
    BY DEF WalkInv, SetTop
  <1>2. /\ sorts' \in Seq(SortRecord) /\ Len(sorts') = Len(sorts)
        /\ sorts'[Len(sorts)] = s
        /\ \A i \in 1..Len(sorts) : i # Len(sorts) => sorts'[i] = sorts[i]
    <2>1. /\ Append(Under, s) \in Seq(SortRecord) /\ Len(Append(Under, s)) = Len(sorts)
          /\ Append(Under, s)[Len(sorts)] = s
          /\ \A i \in 1..Len(sorts) : i # Len(sorts) => Append(Under, s)[i] = sorts[i]
      BY <1>1, SetTopFacts
    <2> QED BY <1>1, <2>1
  <1>3. ASSUME NEW i \in 1..Len(sorts')
        PROVE  Stands(sorts'[i], Walk(arr)) /\ (i < Len(sorts') => sorts'[i].calling)
    <2>1. i \in 1..Len(sorts) /\ (i < Len(sorts) => i # Len(sorts))
      BY <1>2
    <2> QED BY <1>2, <2>1 DEF WalkInv
  <1> QED BY <1>2, <1>3 DEF WalkInv

\* Every sort but the top one is in a call, and that one is when its key
\* function runs.
LEMMA AllCalling ==
  ASSUME WalkInv, InKey
  PROVE  /\ \A i \in 1..Len(sorts) : sorts[i].calling
         /\ ~Idle /\ Top = sorts[Len(sorts)] /\ Top \in SortRecord /\ Top.calling
         /\ Stands(Top, Walk(arr))
  <1>1. sorts \in Seq(SortRecord) /\ ~Idle /\ Top.calling /\ Top = sorts[Len(sorts)]
    BY DEF WalkInv, InKey, Top
  <1>2. Len(sorts) \in 1..Len(sorts) /\ Len(sorts) \in Nat
    BY <1>1, EmptySeq, LenProperties DEF Idle
  <1>3. ASSUME NEW i \in 1..Len(sorts) PROVE sorts[i].calling
    <2>1. i < Len(sorts) \/ i = Len(sorts)
      BY <1>2
    <2> QED BY <1>1, <2>1 DEF WalkInv
  <1> QED BY <1>1, <1>2, <1>3 DEF WalkInv

LEMMA WalkBegin ==
  ASSUME WalkInv, Begin
  PROVE  WalkInv'
  <1> DEFINE new == [cursor |-> arr.head, calling |-> FALSE, base |-> 0, count |-> 0,
                     reserved |-> arr.size, index |-> 0, failed |-> FALSE,
                     current |-> NULL, seen |-> <<>>, lasting |-> Live(arr)]
             f == Walk(arr)
             N == Len(sorts)
  <1>1. sorts' = Append(sorts, new) /\ arr' = arr /\ out' = out /\ changes' = changes
    BY DEF Begin
  <1>2. Sound(arr) /\ Chain(arr, f) /\ arr.size = Len(f) /\ Len(f) \in Nat
    BY SoundWalk DEF WalkInv, Well
  <1>3. new \in SortRecord
    <2>1. arr.head \in Address \cup {NULL} /\ Live(arr) \subseteq Address
      BY <1>2, SoundType, SoundFacts DEF WalkInv, TypeOK
    <2> QED BY <1>2, <2>1 DEF SortRecord
  <1>4. Stands(new, f)
    BY <1>2, StandsFirst
  <1> HIDE DEF new, f
  <1>5. sorts \in Seq(SortRecord) /\ N \in Nat
    BY DEF WalkInv
  <1>6. /\ sorts' \in Seq(SortRecord) /\ Len(sorts') = N + 1 /\ sorts'[N + 1] = new
        /\ \A i \in 1..N : sorts'[i] = sorts[i]
    BY <1>1, <1>3, <1>5, AppendProperties
  <1>7. \A i \in 1..N : sorts[i].calling
    <2>1. CASE Idle
      BY <2>1 DEF Idle
    <2>2. CASE InKey
      BY <2>2, AllCalling
    <2> QED BY <2>1, <2>2 DEF Begin
  <1> HIDE DEF N
  <1>8. ASSUME NEW i \in 1..Len(sorts')
        PROVE  Stands(sorts'[i], f) /\ (i < Len(sorts') => sorts'[i].calling)
    <2>1. (i = N + 1 /\ ~(i < N + 1)) \/ i \in 1..N
      BY <1>5, <1>6
    <2>2. \A j \in 1..N : Stands(sorts[j], f)
      BY DEF WalkInv, f, N
    <2> QED BY <1>4, <1>6, <1>7, <2>1, <2>2
  <1> QED BY <1>1, <1>6, <1>8 DEF WalkInv, f

\* What a call, a failure and a return make of the record of the top sort.
CalledTo(t) ==
  /\ t \in SortRecord /\ t.calling /\ t.cursor = Top.cursor
  /\ t.current \in Current /\ t.current.at = Top.index
  /\ t.current.value = arr.entry[Top.cursor].value
  /\ t.lasting = Top.lasting /\ t.seen = Top.seen
  /\ t.base = Top.base /\ t.count = Top.count /\ t.reserved = Top.reserved
  /\ t.index = Top.index + 1

FailedTo(t) ==
  /\ t \in SortRecord /\ ~t.calling /\ t.cursor = arr.entry[Top.cursor].next
  /\ t.lasting = Top.lasting \ {Top.cursor} /\ t.seen = Top.seen
  /\ t.base = Top.base /\ t.count = Top.count /\ t.reserved = Top.reserved
  /\ t.index = Top.index

Visit(v) == [value |-> Top.current.value, sort |-> v, at |-> Top.cursor]

ReturnedTo(t, v) ==
  /\ t \in SortRecord /\ ~t.calling /\ t.cursor = arr.entry[Top.cursor].next
  /\ t.lasting = Top.lasting /\ t.seen = Append(Top.seen, Visit(v))
  /\ t.base = (IF Top.count = Top.reserved THEN offset ELSE Top.base)
  /\ t.count = Top.count + 1
  /\ t.reserved = (IF Top.count = Top.reserved THEN Doubled(Top.reserved) ELSE Top.reserved)
  /\ t.index = Top.index

LEMMA CallTop ==
  ASSUME WalkInv, Call
  PROVE  \E t : CalledTo(t) /\ SetTop(t)
  <1> DEFINE f == Walk(arr)
             e == arr.entry[Top.cursor]
             c == [key |-> e.key, value |-> e.value, at |-> Top.index]
             n == Top.index + 1
             t == [Top EXCEPT !.calling = TRUE, !.index = n, !.current = c]
  <1>1. ~Idle /\ Top.cursor # NULL /\ SetTop(t)
    BY DEF Call
  <1>2. sorts \in Seq(SortRecord) /\ Len(sorts) \in 1..Len(sorts)
    BY <1>1, UnderFacts DEF WalkInv
  <1>3. Top \in SortRecord /\ Stands(Top, f)
    BY <1>2 DEF WalkInv, Top
  <1>4. Sound(arr) /\ Well(arr, f) /\ Chain(arr, f) /\ Len(f) \in Nat
    BY SoundWalk DEF WalkInv
  <1>5. Top.cursor \in Live(arr)
    <2>1. PICK p : StandsAt(Top, f, p)
      BY <1>3 DEF Stands
    <2>2. p \in 1..Len(f) /\ Top.cursor = f[p]
      BY <1>1, <1>4, <2>1 DEF StandsAt
    <2> QED BY <1>4, <2>2, ChainFacts
  <1>6. e.key \in Keys /\ e.value \in Values
    BY <1>4, <1>5, WellFacts
  <1> HIDE DEF f
  <1>7. c \in Current /\ c.at = Top.index /\ c.value = arr.entry[Top.cursor].value
    <2> HIDE DEF e
    <2>1. c \in Current /\ c.at = Top.index /\ c.value = e.value
      BY <1>3, <1>6 DEF SortRecord, Current
    <2> QED BY <2>1 DEF e
  <1>8. n \in Nat
    BY <1>3 DEF SortRecord
  <1> HIDE DEF n, c
  <1>9. /\ t \in SortRecord /\ t.calling /\ t.cursor = Top.cursor /\ t.current = c
        /\ t.lasting = Top.lasting /\ t.seen = Top.seen
        /\ t.base = Top.base /\ t.count = Top.count /\ t.reserved = Top.reserved
        /\ t.index = n
    BY <1>3, <1>7, <1>8 DEF SortRecord
  <1> HIDE DEF t
  <1>10. CalledTo(t)
    BY <1>7, <1>9 DEF CalledTo, n
  <1> QED BY <1>1, <1>10

LEMMA WalkCall ==
  ASSUME WalkInv, Call
  PROVE  WalkInv'
  <1>1. ~Idle /\ Top.cursor # NULL /\ UNCHANGED <<arr, out, changes>>
    BY DEF Call
  <1>2. PICK t : CalledTo(t) /\ SetTop(t)
    BY CallTop
  <1>3. Stands(Top, Walk(arr)) /\ Len(Walk(arr)) \in Nat
    BY <1>1, UnderFacts, SoundWalk DEF WalkInv, Top
  <1>4. Stands(t, Walk(arr))
    BY <1>1, <1>2, <1>3, StandsCalling, TableAssumption DEF CalledTo
  <1> QED BY <1>1, <1>2, <1>4, WalkSetTop DEF CalledTo

\* The entry whose key function runs is in the list, and has a next one.
LEMMA NextOfTop ==
  ASSUME WalkInv, InKey
  PROVE  /\ Top.cursor \in Live(arr) /\ Top.cursor \in Address
         /\ arr.entry[Top.cursor].next \in Address \cup {NULL}
  <1> DEFINE f == Walk(arr)
  <1>1. Chain(arr, f) /\ Len(f) \in Nat
    BY SoundWalk DEF WalkInv
  <1>2. Top.calling /\ Stands(Top, f)
    BY AllCalling
  <1>3. PICK p : StandsAt(Top, f, p)
    BY <1>2 DEF Stands
  <1>4. p \in 1..Len(f) /\ Top.cursor = f[p]
    BY <1>1, <1>2, <1>3 DEF StandsAt
  <1> HIDE DEF f
  <1> QED BY <1>1, <1>4, NextOf, ChainFacts

LEMMA FailTop ==
  ASSUME WalkInv, Fail
  PROVE  \E t : FailedTo(t) /\ SetTop(t)
  <1> DEFINE a == Advance(Top)
             t == [a EXCEPT !.failed = TRUE, !.lasting = @ \ {Top.cursor}]
  <1>1. InKey /\ SetTop(t)
    BY DEF Fail
  <1>2. Top \in SortRecord /\ arr.entry[Top.cursor].next \in Address \cup {NULL}
    BY <1>1, AllCalling, NextOfTop
  <1>3. /\ a \in SortRecord /\ ~a.calling /\ a.cursor = arr.entry[Top.cursor].next
        /\ a.seen = Top.seen /\ a.lasting = Top.lasting /\ a.base = Top.base
        /\ a.count = Top.count /\ a.reserved = Top.reserved /\ a.index = Top.index
    BY <1>2, AdvanceFacts
  <1> HIDE DEF a
  <1>4. /\ t \in SortRecord /\ ~t.calling /\ t.cursor = a.cursor
        /\ t.lasting = a.lasting \ {Top.cursor} /\ t.seen = a.seen
        /\ t.base = a.base /\ t.count = a.count /\ t.reserved = a.reserved
        /\ t.index = a.index
    BY <1>3 DEF SortRecord
  <1> HIDE DEF t
  <1>5. FailedTo(t)
    BY <1>3, <1>4 DEF FailedTo
  <1> QED BY <1>1, <1>5

LEMMA WalkFail ==
  ASSUME WalkInv, Fail
  PROVE  WalkInv'
  <1>1. InKey /\ UNCHANGED <<arr, out, changes>>
    BY DEF Fail
  <1>2. PICK t : FailedTo(t) /\ SetTop(t)
    BY FailTop
  <1>3. ~Idle /\ Top \in SortRecord /\ Top.calling /\ Stands(Top, Walk(arr))
    BY <1>1, AllCalling
  <1>4. Chain(arr, Walk(arr))
    BY SoundWalk DEF WalkInv
  <1>5. Stands(t, Walk(arr))
    BY <1>2, <1>3, <1>4, StandsAfterFailure DEF FailedTo
  <1> QED BY <1>1, <1>2, <1>3, <1>5, WalkSetTop DEF FailedTo

LEMMA VisitFacts ==
  ASSUME WalkInv, InKey, NEW v \in SortValues
  PROVE  /\ Visit(v) \in Seen /\ Visit(v).at = Top.cursor /\ Visit(v).sort = v
         /\ Visit(v).value = Top.current.value /\ Top.current \in Current
  <1>1. Top.cursor \in Address /\ Top.calling /\ Stands(Top, Walk(arr))
    BY AllCalling, NextOfTop
  <1>2. Top.current \in Current
    BY <1>1 DEF Stands, StandsAt
  <1> QED BY <1>1, <1>2 DEF Seen, Current, Visit

LEMMA ReturnTop ==
  ASSUME WalkInv, NEW v \in SortValues, offset \in Nat, Return(v)
  PROVE  \E t : ReturnedTo(t, v) /\ SetTop(t)
  <1> DEFINE new == [value |-> Top.current.value, sort |-> v, at |-> Top.current.at]
             visit == [new EXCEPT !.at = Top.cursor]
             base == IF Top.count = Top.reserved THEN offset ELSE Top.base
             full == Top.count = Top.reserved
             a == Advance(Top)
             t == [a EXCEPT !.base = base, !.count = @ + 1,
                     !.reserved = IF full THEN Doubled(@) ELSE @,
                     !.seen = Append(@, visit)]
             more == IF full THEN Doubled(a.reserved) ELSE a.reserved
             n == a.count + 1
             seen == Append(a.seen, visit)
             u == [a EXCEPT !.base = base, !.count = n, !.reserved = more, !.seen = seen]
  <1>1. InKey /\ SetTop(t) /\ t = u
    BY DEF Return
  <1>2. Top \in SortRecord /\ arr.entry[Top.cursor].next \in Address \cup {NULL}
    BY <1>1, AllCalling, NextOfTop
  <1>3. visit = Visit(v) /\ Visit(v) \in Seen
    BY <1>1, VisitFacts DEF Visit
  <1>4. /\ a \in SortRecord /\ ~a.calling /\ a.cursor = arr.entry[Top.cursor].next
        /\ a.seen = Top.seen /\ a.lasting = Top.lasting /\ a.base = Top.base
        /\ a.count = Top.count /\ a.reserved = Top.reserved /\ a.index = Top.index
    BY <1>2, AdvanceFacts
  <1>5. base \in Nat
    BY <1>2 DEF SortRecord
  <1> HIDE DEF new, visit, base, a
  <1>6. seen \in Seq(Seen) /\ n \in Nat /\ more \in Nat
    <2>1. a.seen \in Seq(Seen) /\ a.count \in Nat /\ a.reserved \in Nat
      BY <1>4 DEF SortRecord
    <2>2. Doubled(a.reserved) \in Nat
      BY <2>1 DEF Doubled
    <2> QED BY <1>3, <2>1, <2>2, AppendProperties
  <1>7. /\ seen = Append(Top.seen, Visit(v)) /\ n = Top.count + 1
        /\ more = IF Top.count = Top.reserved THEN Doubled(Top.reserved) ELSE Top.reserved
    BY <1>3, <1>4
  <1> HIDE DEF seen, n, more, full
  <1>8. /\ u \in SortRecord /\ ~u.calling /\ u.cursor = a.cursor
        /\ u.lasting = a.lasting /\ u.seen = seen /\ u.base = base
        /\ u.count = n /\ u.reserved = more /\ u.index = a.index
    BY <1>4, <1>5, <1>6 DEF SortRecord
  <1> HIDE DEF t, u
  <1>9. ReturnedTo(u, v)
    BY <1>4, <1>7, <1>8 DEF ReturnedTo, base
  <1> QED BY <1>1, <1>9

LEMMA WalkReturn ==
  ASSUME WalkInv, NEW v \in SortValues, offset \in Nat, Return(v)
  PROVE  WalkInv'
  <1>1. InKey /\ UNCHANGED <<arr, out, changes>>
    BY DEF Return
  <1>2. PICK t : ReturnedTo(t, v) /\ SetTop(t)
    BY ReturnTop
  <1>3. ~Idle /\ Top \in SortRecord /\ Top.calling /\ Stands(Top, Walk(arr))
    BY <1>1, AllCalling
  <1>4. Visit(v) \in Seen /\ Visit(v).at = Top.cursor /\ Chain(arr, Walk(arr))
    BY <1>1, VisitFacts, SoundWalk DEF WalkInv
  <1>5. Stands(t, Walk(arr))
    BY <1>2, <1>3, <1>4, StandsFurther DEF ReturnedTo
  <1> QED BY <1>1, <1>2, <1>3, <1>5, WalkSetTop DEF ReturnedTo

LEMMA WalkEnd ==
  ASSUME WalkInv, End
  PROVE  WalkInv'
  <1>1. ~Idle /\ sorts' = Under /\ UNCHANGED <<arr, out, changes>>
    BY DEF End
  <1>2. sorts \in Seq(SortRecord)
    BY DEF WalkInv
  <1>3. Under \in Seq(SortRecord) /\ Len(Under) = Len(sorts) - 1 /\ Len(sorts) \in Nat
        /\ \A i \in 1..(Len(sorts) - 1) : Under[i] = sorts[i]
    BY <1>1, <1>2, UnderFacts
  <1>4. ASSUME NEW i \in 1..Len(sorts')
        PROVE  Stands(sorts'[i], Walk(arr)) /\ (i < Len(sorts') => sorts'[i].calling)
    <2>1. i \in 1..(Len(sorts) - 1) /\ i \in 1..Len(sorts) /\ i < Len(sorts)
      BY <1>1, <1>3
    <2> QED BY <1>1, <1>3, <2>1 DEF WalkInv
  <1> QED BY <1>1, <1>3, <1>4 DEF WalkInv

-----------------------------------------------------------------------------
(* What a key function changes                                             *)

\* The record s, once the array has only the entries L.
Kept(t, s, L) ==
  /\ t.cursor = s.cursor /\ t.current = s.current /\ t.seen = s.seen
  /\ t.lasting = s.lasting \cap L

LEMMA WalkKept ==
  ASSUME WalkInv, InKey, Sound(arr'), out' \in Values \cup {None}, changes' \in 0..MaxChanges,
         sorts' = [i \in DOMAIN sorts |-> [sorts[i] EXCEPT !.lasting = @ \cap Live(arr')]],
         \A i \in 1..Len(sorts) : \A t :
            Kept(t, sorts[i], Live(arr')) => Stands(t, Walk(arr'))
  PROVE  WalkInv'
  <1>1. sorts \in Seq(SortRecord) /\ DOMAIN sorts = 1..Len(sorts) /\ Len(sorts) \in Nat
    BY DEF WalkInv
  <1>2. ASSUME NEW i \in 1..Len(sorts)
        PROVE  /\ sorts'[i] \in SortRecord /\ Kept(sorts'[i], sorts[i], Live(arr'))
               /\ sorts'[i].calling
    <2>1. sorts[i] \in SortRecord /\ sorts[i].calling
      BY <1>1, AllCalling
    <2>2. sorts'[i] = [sorts[i] EXCEPT !.lasting = @ \cap Live(arr')]
      BY <1>1
    <2> DEFINE r == sorts[i]
               L == Live(arr')
               t == [r EXCEPT !.lasting = @ \cap L]
    <2> HIDE DEF r, L
    <2>3. t \in SortRecord /\ Kept(t, r, L) /\ t.calling
      BY <2>1 DEF SortRecord, Kept, r
    <2> QED BY <2>2, <2>3 DEF r, L
  <1>3. sorts' \in Seq(SortRecord) /\ Len(sorts') = Len(sorts)
    <2>1. sorts' = [i \in 1..Len(sorts) |-> sorts'[i]]
      BY <1>1
    <2>2. sorts' \in [1..Len(sorts) -> SortRecord]
      BY <1>2, <2>1
    <2> QED BY <1>1, <2>2
  <1> QED BY <1>2, <1>3 DEF WalkInv

LEMMA ChangeSet ==
  ASSUME WalkInv, InKey, NEW k \in Keys, NEW v \in Values, Address \ Live(arr) # {},
         arr' = ArraySet(arr, k, v)
  PROVE  /\ Sound(arr')
         /\ \A i \in 1..Len(sorts) : \A t :
              Kept(t, sorts[i], Live(arr')) => Stands(t, Walk(arr'))
  <1> DEFINE f == Walk(arr)
  <1>1. Well(arr, f) /\ Chain(arr, f) /\ f \in Seq(Address)
    BY SoundWalk DEF WalkInv
  <1>2. \A i \in 1..Len(sorts) : Stands(sorts[i], f) /\ sorts[i].calling
    BY AllCalling DEF WalkInv
  <1> HIDE DEF f
  <1>3. CASE Find(arr, k) # NULL
    <2>1. Well(arr', f)
      BY <1>1, <1>3, SetPresent
    <2>2. Walk(arr') = f /\ Sound(arr')
      BY <2>1, WalkIs DEF Well, Sound
    <2> QED BY <1>2, <2>2 DEF Kept, Stands, StandsAt
  <1>4. CASE Find(arr, k) = NULL
    <2>1. PICK e \in Address : Well(arr', Append(f, e))
      BY <1>1, <1>4, SetNew
    <2>2. Walk(arr') = Append(f, e) /\ Sound(arr') /\ Chain(arr', Append(f, e))
      BY <2>1, WalkIs DEF Well, Sound
    <2>3. \A q \in 1..Len(f) : f[q] # e
      <3> SUFFICES ASSUME NEW q \in 1..Len(f), f[q] = e PROVE FALSE
        OBVIOUS
      <3>1. /\ Len(Append(f, e)) = Len(f) + 1 /\ Append(f, e)[Len(f) + 1] = e
            /\ Append(f, e)[q] = f[q] /\ Len(f) \in Nat
        BY <1>1, AppendProperties
      <3>2. q \in 1..Len(Append(f, e)) /\ Len(f) + 1 \in 1..Len(Append(f, e)) /\ q # Len(f) + 1
        BY <3>1
      <3> QED BY <2>2, <3>1, <3>2 DEF Chain
    <2>4. ASSUME NEW i \in 1..Len(sorts), NEW t, Kept(t, sorts[i], Live(arr'))
          PROVE  Stands(t, Append(f, e))
      <3>1. /\ t.cursor = sorts[i].cursor /\ t.current = sorts[i].current
            /\ t.seen = sorts[i].seen /\ t.lasting \subseteq sorts[i].lasting
        BY <2>4 DEF Kept
      <3> QED BY <1>1, <1>2, <2>3, <3>1, StandsBeforeNew
    <2> QED BY <2>2, <2>4
  <1> QED BY <1>3, <1>4

LEMMA ChangeDelete ==
  ASSUME WalkInv, InKey, NEW k \in Keys, Find(arr, k) \notin Cursors,
         arr' = ArrayDelete(arr, k)
  PROVE  /\ Sound(arr')
         /\ \A i \in 1..Len(sorts) : \A t :
              Kept(t, sorts[i], Live(arr')) => Stands(t, Walk(arr'))
  <1> DEFINE f == Walk(arr)
  <1>1. Well(arr, f) /\ Chain(arr, f) /\ f \in Seq(Address) /\ Sound(arr)
    BY SoundWalk DEF WalkInv
  <1>2. \A i \in 1..Len(sorts) : Stands(sorts[i], f) /\ sorts[i].calling
    BY AllCalling DEF WalkInv
  <1>0. \A i \in 1..Len(sorts) : sorts[i].cursor # Find(arr, k)
    BY DEF WalkInv, Cursors
  <1> HIDE DEF f
  <1>3. CASE Find(arr, k) = NULL
    <2>1. arr' = arr /\ Walk(arr') = f
      BY <1>3, DeleteAbsent DEF f
    <2> QED BY <1>1, <1>2, <2>1 DEF Kept, Stands, StandsAt
  <1>4. CASE Find(arr, k) # NULL
    <2>1. PICK r \in 1..Len(f) : f[r] = Find(arr, k) /\ Along(arr, f)[r] = k
      BY <1>1, <1>4, FindInChain
    <2>2. Well(arr', Skip(f, r)) /\ Live(arr') = Live(arr) \ {f[r]}
      BY <1>1, <2>1, DeletePresent
    <2>3. Walk(arr') = Skip(f, r) /\ Sound(arr')
      BY <2>2, WalkIs DEF Well, Sound
    <2>4. ASSUME NEW i \in 1..Len(sorts), NEW t, Kept(t, sorts[i], Live(arr'))
          PROVE  Stands(t, Skip(f, r))
      <3>1. /\ t.cursor = sorts[i].cursor /\ t.current = sorts[i].current
            /\ t.seen = sorts[i].seen /\ t.lasting \subseteq sorts[i].lasting \ {f[r]}
        BY <2>2, <2>4 DEF Kept
      <3>2. \A m, n \in 1..Len(f) : f[m] = f[n] => m = n
        BY <1>1 DEF Chain
      <3> QED BY <1>0, <1>1, <1>2, <2>1, <3>1, <3>2, StandsBesideHole
    <2> QED BY <2>3, <2>4
  <1> QED BY <1>3, <1>4

LEMMA WalkChange ==
  ASSUME WalkInv, Change
  PROVE  WalkInv'
  <1>1. /\ InKey /\ changes' \in 0..MaxChanges
        /\ sorts' = [i \in DOMAIN sorts |-> [sorts[i] EXCEPT !.lasting = @ \cap Live(arr')]]
    BY SortAssumption DEF Change, WalkInv
  <1>2. CASE \E k \in Keys, v \in Values : SetItem(k, v)
    <2>1. PICK k \in Keys, v \in Values : SetItem(k, v)
      BY <1>2
    <2> QED BY <1>1, <2>1, ChangeSet, WalkKept DEF SetItem, Room
  <1>3. CASE \E v \in Values : Push(v)
    <2>1. PICK v \in Values : Push(v)
      BY <1>3
    <2>2. Decimal[arr.size] \in Keys
      BY <2>1, KeyAssumption DEF Push
    <2> QED BY <1>1, <2>1, <2>2, ChangeSet, WalkKept DEF Push, Room
  <1>4. CASE \E k \in Keys : Find(arr, k) \notin Cursors /\ Delete(k)
    <2>1. PICK k \in Keys : Find(arr, k) \notin Cursors /\ Delete(k)
      BY <1>4
    <2>2. out' \in Values \cup {None}
      BY <2>1, GetHolds DEF Delete, IInv, WalkInv
    <2> QED BY <1>1, <2>1, <2>2, ChangeDelete, WalkKept DEF Delete
  <1> QED BY <1>2, <1>3, <1>4 DEF Change

LEMMA SortBegins ==
  ASSUME SortInit
  PROVE  Sound(arr) /\ out = None /\ sorts = <<>> /\ offset = 0 /\ cell = <<>>
         /\ changes = 0 /\ result = <<>>
  <1>1. PICK pairs \in Fillings : arr = Refill(pairs)
    BY DEF SortInit
  <1>2. Cardinality(Address) \in Nat
    BY SortAssumption, FS_CardinalityType
  <1>3. PICK n \in 0..Cardinality(Address) : pairs \in [1..n -> Pairs]
    BY DEF Fillings, Pairs
  <1>4. pairs \in Seq(Pairs) /\ Len(pairs) <= Cardinality(Address)
    BY <1>2, <1>3
  <1>5. HoldsFirst(Refill(pairs), pairs, Len(pairs))
    BY <1>4, SortAssumption, RefillHolds
  <1> QED BY <1>1, <1>5 DEF HoldsFirst, SortInit

LEMMA WalkStart ==
  ASSUME SortInit
  PROVE  WalkInv
  BY SortBegins, SortAssumption, EmptySeq DEF WalkInv

LEMMA WalkStep ==
  ASSUME WalkInv, offset \in Nat, [SortNext]_sortVars
  PROVE  WalkInv' /\ offset' \in Nat
  <1>1. CASE Begin
    <2>1. arr.size \in Nat
      BY SoundFacts DEF WalkInv
    <2> QED BY <1>1, <2>1, WalkBegin DEF Begin
  <1>2. CASE Call
    BY <1>2, WalkCall DEF Call
  <1>3. CASE Fail
    BY <1>3, WalkFail DEF Fail
  <1>4. CASE End
    BY <1>4, WalkEnd DEF End
  <1>5. CASE Change
    BY <1>5, WalkChange DEF Change
  <1>6. ASSUME NEW v \in SortValues, Return(v) PROVE WalkInv' /\ offset' \in Nat
    <2>1. Top.reserved \in Nat
      BY <1>6, AllCalling DEF Return, SortRecord
    <2>2. offset' = offset \/ offset' = offset + Doubled(Top.reserved)
      BY <1>6 DEF Return
    <2> QED BY <1>6, <2>1, <2>2, WalkReturn DEF Doubled
  <1>7. CASE UNCHANGED sortVars
    BY <1>7 DEF sortVars, WalkInv
  <1> QED BY <1>1, <1>2, <1>3, <1>4, <1>5, <1>6, <1>7 DEF SortNext

\* However deep key functions sort in their turn: every sort in progress
\* stands at an entry of the list or behind the last one, and has visited each
\* of those before it once and none of those from it on, as far as they have
\* been in the array since the sort began.
THEOREM SortsKeepTheirPlace == SortSpec => [](WalkInv /\ offset \in Nat)
  <1>1. SortInit => WalkInv /\ offset \in Nat
    BY WalkStart, SortBegins
  <1>2. WalkInv /\ offset \in Nat /\ [SortNext]_sortVars => (WalkInv /\ offset \in Nat)'
    BY WalkStep
  <1> QED BY <1>1, <1>2, PTL DEF SortSpec

\* Whatever the key functions of sorts that are in progress, one inside the
\* other, do to the array: the entry a sort stands at has not been freed.
THEOREM SortsStandInTheArray == SortSpec => []CursorsLive
  <1>1. WalkInv => CursorsLive
    <2> SUFFICES ASSUME WalkInv, NEW i \in 1..Len(sorts)
                 PROVE  sorts[i].cursor \in Live(arr) \cup {NULL}
      BY DEF CursorsLive, ToSet, WalkInv
    <2>1. PICK p : StandsAt(sorts[i], Walk(arr), p)
      BY DEF WalkInv, Stands
    <2>2. Chain(arr, Walk(arr)) /\ Len(Walk(arr)) \in Nat
      BY SoundWalk DEF WalkInv
    <2>3. p # Len(Walk(arr)) + 1 => p \in 1..Len(Walk(arr))
      BY <2>1, <2>2 DEF StandsAt
    <2> QED BY <2>1, <2>2, <2>3, ChainFacts DEF StandsAt
  <1> QED BY <1>1, SortsKeepTheirPlace, PTL

-----------------------------------------------------------------------------
(* The arena, when no key function sorts                                   *)

\* The vector of s lies below o, and its entries are in the cells c: what the
\* key function was called with, in the order of the calls.
Stored(s, c, o) ==
  /\ s.count = Len(s.seen) /\ s.count <= s.reserved /\ s.base + s.reserved <= o
  /\ \A i \in 1..s.count :
       /\ s.base + i - 1 \in DOMAIN c
       /\ c[s.base + i - 1].value = s.seen[i].value
       /\ c[s.base + i - 1].sort = s.seen[i].sort
       /\ c[s.base + i - 1].at \in Nat
       /\ c[s.base + i - 1].at < s.index
       /\ s.calling => c[s.base + i - 1].at < s.current.at
  /\ \A i, j \in 1..s.count : i < j => c[s.base + i - 1].at < c[s.base + j - 1].at
  /\ s.calling => s.current.at < s.index

StoreInv ==
  /\ WalkInv /\ offset \in Nat /\ Len(sorts) <= 1 /\ result \in Seq(Values)
  /\ \A i \in 1..Len(sorts) : Stored(sorts[i], cell, offset)

LEMMA OneSort ==
  ASSUME StoreInv, ~Idle
  PROVE  /\ Len(sorts) = 1 /\ sorts = <<Top>> /\ Top \in SortRecord /\ Under = <<>>
         /\ Stored(Top, cell, offset) /\ Stands(Top, Walk(arr))
         /\ \A s : SetTop(s) => sorts' = <<s>>
  <1>1. sorts \in Seq(SortRecord) /\ Len(sorts) <= 1
    BY DEF StoreInv, WalkInv
  <1>2. /\ Len(sorts) \in Nat /\ Len(sorts) \in 1..Len(sorts)
        /\ Under \in Seq(SortRecord) /\ Len(Under) = Len(sorts) - 1
    BY <1>1, UnderFacts
  <1>3. Len(sorts) = 1 /\ Len(Under) = 0
    BY <1>1, <1>2
  <1>4. Under = <<>>
    BY <1>2, <1>3
  <1>5. Top = sorts[1] /\ Top \in SortRecord /\ sorts = <<Top>>
    BY <1>1, <1>3 DEF Top
  <1>6. \A s : Append(Under, s) = <<s>>
    BY <1>4
  <1> QED BY <1>2, <1>3, <1>4, <1>5, <1>6 DEF StoreInv, WalkInv, SetTop

\* One sort in the place of the other.
LEMMA StoreSetTop ==
  ASSUME StoreInv, ~Idle, NEW s, SetTop(s), Stored(s, cell', offset'), WalkInv',
         offset' \in Nat, result' = result
  PROVE  StoreInv'
  <1>1. sorts' = <<s>>
    BY OneSort
  <1> QED BY <1>1 DEF StoreInv

LEMMA StoreBegin ==
  ASSUME StoreInv, Begin, WalkInv', offset' \in Nat, MaxDepth <= 1
  PROVE  StoreInv'
  <1> DEFINE new == [cursor |-> arr.head, calling |-> FALSE, base |-> 0, count |-> 0,
                     reserved |-> arr.size, index |-> 0, failed |-> FALSE,
                     current |-> NULL, seen |-> <<>>, lasting |-> Live(arr)]
  <1>1. sorts' = Append(sorts, new) /\ offset' = arr.size /\ result' = <<>>
        /\ Len(sorts) < MaxDepth
    BY DEF Begin
  <1>2. sorts \in Seq(SortRecord) /\ Len(sorts) \in Nat /\ arr.size \in Nat
    BY SoundFacts DEF StoreInv, WalkInv
  <1>3. sorts = <<>>
    <2>1. Len(sorts) = 0
      BY <1>1, <1>2, SortAssumption
    <2> QED BY <1>2, <2>1
  <1>4. Stored(new, cell', offset')
    BY <1>1, <1>2 DEF Stored
  <1> HIDE DEF new
  <1>5. sorts' = <<new>>
    BY <1>1, <1>3
  <1> QED BY <1>1, <1>4, <1>5 DEF StoreInv

LEMMA StoreCall ==
  ASSUME StoreInv, Call, WalkInv', offset' \in Nat
  PROVE  StoreInv'
  <1>1. ~Idle /\ ~Top.calling /\ UNCHANGED <<offset, cell, result>> /\ WalkInv
    BY DEF Call, StoreInv
  <1>2. PICK t : CalledTo(t) /\ SetTop(t)
    BY <1>1, CallTop
  <1>3. Stored(Top, cell, offset) /\ Top \in SortRecord
    BY <1>1, OneSort
  <1>4. Top.index \in Nat /\ t.index = Top.index + 1 /\ t.current.at = Top.index
    BY <1>2, <1>3 DEF CalledTo, SortRecord
  <1>5. \A n \in Nat : n < Top.index => n < t.index /\ n < t.current.at
    BY <1>4
  <1>6. t.base = Top.base /\ t.count = Top.count /\ t.reserved = Top.reserved
        /\ t.seen = Top.seen /\ t.current.at < t.index
    BY <1>2, <1>4 DEF CalledTo
  <1>7. Stored(t, cell, offset)
    BY <1>3, <1>5, <1>6 DEF Stored
  <1> QED BY <1>1, <1>2, <1>7, StoreSetTop

LEMMA StoreFail ==
  ASSUME StoreInv, Fail, WalkInv', offset' \in Nat
  PROVE  StoreInv'
  <1>1. ~Idle /\ InKey /\ UNCHANGED <<offset, cell, result>> /\ WalkInv
    BY DEF Fail, StoreInv, InKey
  <1>2. PICK t : FailedTo(t) /\ SetTop(t)
    BY <1>1, FailTop
  <1>3. Stored(Top, cell, offset)
    BY <1>1, OneSort
  <1>4. t.base = Top.base /\ t.count = Top.count /\ t.reserved = Top.reserved
        /\ t.seen = Top.seen /\ t.index = Top.index /\ ~t.calling
    BY <1>2 DEF FailedTo
  <1>5. Stored(t, cell, offset)
    BY <1>3, <1>4 DEF Stored
  <1> QED BY <1>1, <1>2, <1>5, StoreSetTop

LEMMA StoreChange ==
  ASSUME StoreInv, Change, WalkInv', offset' \in Nat
  PROVE  StoreInv'
  <1>1. /\ InKey /\ WalkInv /\ UNCHANGED <<offset, cell, result>>
        /\ sorts' = [i \in DOMAIN sorts |-> [sorts[i] EXCEPT !.lasting = @ \cap Live(arr')]]
    BY DEF Change, StoreInv
  <1>2. sorts \in Seq(SortRecord) /\ sorts' \in Seq(SortRecord)
        /\ DOMAIN sorts = 1..Len(sorts) /\ DOMAIN sorts' = 1..Len(sorts')
        /\ Len(sorts) \in Nat /\ Len(sorts') \in Nat
    BY <1>1 DEF WalkInv
  <1>3. Len(sorts') = Len(sorts)
    BY <1>1, <1>2
  <1>4. ASSUME NEW i \in 1..Len(sorts) PROVE Stored(sorts'[i], cell, offset)
    <2> DEFINE r == sorts[i]
               L == Live(arr')
               t == [r EXCEPT !.lasting = @ \cap L]
    <2>1. sorts'[i] = t /\ r \in SortRecord /\ Stored(r, cell, offset)
      BY <1>1, <1>2 DEF StoreInv
    <2> HIDE DEF r, L
    <2>2. /\ t.base = r.base /\ t.count = r.count /\ t.reserved = r.reserved
          /\ t.seen = r.seen /\ t.index = r.index /\ t.calling = r.calling
          /\ t.current = r.current
      BY <2>1 DEF SortRecord
    <2> HIDE DEF t
    <2>3. Stored(t, cell, offset)
      BY <2>1, <2>2 DEF Stored
    <2> QED BY <2>1, <2>3
  <1> QED BY <1>1, <1>3, <1>4 DEF StoreInv

LEMMA WriteFacts ==
  ASSUME NEW at \in Nat, NEW t, Len(t) \in Nat
  PROVE  /\ \A j \in 1..Len(t) : at + j - 1 \in DOMAIN Write(at, t)
                                 /\ Write(at, t)[at + j - 1] = t[j]
         /\ \A x \in DOMAIN cell : x < at /\ x \in Nat => x \in DOMAIN Write(at, t)
                                   /\ Write(at, t)[x] = cell[x]
  <1> DEFINE new == at..(at + Len(t) - 1)
             w == Write(at, t)
  <1>1. Len(t) \in Nat
    OBVIOUS
  <1>2. /\ DOMAIN w = DOMAIN cell \cup new
        /\ \A x \in DOMAIN cell \cup new :
             w[x] = IF x \in new THEN t[x - at + 1] ELSE cell[x]
    BY DEF Write
  <1> HIDE DEF w
  <1>3. ASSUME NEW j \in 1..Len(t) PROVE at + j - 1 \in DOMAIN w /\ w[at + j - 1] = t[j]
    <2>1. at + j - 1 \in new /\ (at + j - 1) - at + 1 = j
      BY <1>1
    <2> QED BY <1>2, <2>1
  <1>4. ASSUME NEW x \in DOMAIN cell, x < at, x \in Nat PROVE x \in DOMAIN w /\ w[x] = cell[x]
    <2>1. x \notin new
      BY <1>1, <1>4
    <2> QED BY <1>2, <2>1
  <1> QED BY <1>3, <1>4 DEF w

LEMMA LongerByOne ==
  ASSUME NEW n \in Nat, NEW c, c = [j \in 1..n |-> c[j]], NEW x
  PROVE  /\ Len(Append(c, x)) = n + 1 /\ Append(c, x)[n + 1] = x
         /\ \A j \in 1..n : Append(c, x)[j] = c[j]
  <1> DEFINE S == {c[j] : j \in 1..n} \cup {x}
  <1>1. /\ \A j \in 1..n : c[j] \in S
        /\ x \in S
    OBVIOUS
  <1> HIDE DEF S
  <1>2. c \in [1..n -> S]
    BY <1>1
  <1>3. c \in Seq(S) /\ Len(c) = n
    BY <1>2
  <1> QED BY <1>1, <1>3, AppendProperties

\* The entry that is pushed back comes behind the others, wherever they are.
LEMMA PushedBack ==
  ASSUME StoreInv, NEW v \in SortValues, Return(v), NEW t, ReturnedTo(t, v),
         NEW new, new = [value |-> Top.current.value, sort |-> v, at |-> Top.current.at]
  PROVE  /\ \A j \in 1..Top.count : t.base + j - 1 \in DOMAIN cell'
                                    /\ cell'[t.base + j - 1] = cell[Top.base + j - 1]
         /\ t.base + Top.count \in DOMAIN cell' /\ cell'[t.base + Top.count] = new
         /\ t.base + t.reserved <= offset' /\ t.count <= t.reserved
  <1> DEFINE n == Top.count
             b == Top.base
             m == Append(Cells(Top), new)
  <1>1. ~Idle /\ Top \in SortRecord /\ Stored(Top, cell, offset) /\ offset \in Nat
    BY OneSort DEF Return, InKey, StoreInv
  <1>2. n \in Nat /\ b \in Nat /\ Top.reserved \in Nat
    BY <1>1 DEF SortRecord
  <1>3. /\ n <= Top.reserved /\ b + Top.reserved <= offset
        /\ \A j \in 1..n : b + j - 1 \in DOMAIN cell
    BY <1>1 DEF Stored
  <1>4. CASE n = Top.reserved
    <2>1. /\ cell' = Write(offset, m) /\ offset' = offset + Doubled(Top.reserved)
          /\ t.base = offset /\ t.count = n + 1 /\ t.reserved = Doubled(Top.reserved)
      BY <1>4 DEF Return, ReturnedTo
    <2>2. Doubled(Top.reserved) \in Nat /\ n + 1 <= Doubled(Top.reserved)
      BY <1>2, <1>4 DEF Doubled
    <2>3. /\ Cells(Top) = [j \in 1..n |-> Cells(Top)[j]]
          /\ \A j \in 1..n : Cells(Top)[j] = cell[b + j - 1]
      BY DEF Cells
    <2>4. /\ Len(m) = n + 1 /\ m[n + 1] = new
          /\ \A j \in 1..n : m[j] = Cells(Top)[j]
      <3> DEFINE c == Cells(Top)
      <3>1. c = [j \in 1..n |-> c[j]] /\ m = Append(c, new)
        BY <2>3
      <3> HIDE DEF n, c, m
      <3>2. /\ Len(Append(c, new)) = n + 1 /\ Append(c, new)[n + 1] = new
            /\ \A j \in 1..n : Append(c, new)[j] = c[j]
        BY <1>2, <3>1, LongerByOne
      <3> QED BY <3>1, <3>2 DEF c
    <2> HIDE DEF m, n, b
    <2>5. \A j \in 1..n : m[j] = cell[b + j - 1]
      BY <2>3, <2>4
    <2>6. \A j \in 1..(n + 1) : offset + j - 1 \in DOMAIN cell'
                                /\ cell'[offset + j - 1] = m[j]
      <3>1. \A j \in 1..Len(m) : offset + j - 1 \in DOMAIN Write(offset, m)
                                 /\ Write(offset, m)[offset + j - 1] = m[j]
        <4>1. Len(m) \in Nat
          BY <1>2, <2>4
        <4> QED BY <1>1, <4>1, WriteFacts
      <3> QED BY <2>1, <2>4, <3>1
    <2>7. n + 1 \in 1..(n + 1) /\ offset + (n + 1) - 1 = offset + n
          /\ \A j \in 1..n : j \in 1..(n + 1)
      BY <1>1, <1>2
    <2>8. offset + n \in DOMAIN cell' /\ cell'[offset + n] = new
      BY <2>4, <2>6, <2>7
    <2>9. \A j \in 1..n : offset + j - 1 \in DOMAIN cell'
                          /\ cell'[offset + j - 1] = cell[b + j - 1]
      BY <2>5, <2>6, <2>7
    <2> QED BY <1>1, <2>1, <2>2, <2>8, <2>9 DEF n, b
  <1>5. CASE n # Top.reserved
    <2>1. /\ cell' = Write(b + n, <<new>>) /\ offset' = offset
          /\ t.base = b /\ t.count = n + 1 /\ t.reserved = Top.reserved
      BY <1>5 DEF Return, ReturnedTo
    <2>2. Len(<<new>>) = 1 /\ <<new>>[1] = new /\ 1 \in 1..1
      OBVIOUS
    <2> HIDE DEF n, b, m
    <2>3. b + n \in Nat /\ (b + n) + 1 - 1 = b + n
      BY <1>2
    <2>4. /\ \A j \in 1..1 : (b + n) + j - 1 \in DOMAIN cell'
                             /\ cell'[(b + n) + j - 1] = <<new>>[j]
          /\ \A x \in DOMAIN cell : x < b + n /\ x \in Nat => x \in DOMAIN cell'
                                                              /\ cell'[x] = cell[x]
      <3> DEFINE at == b + n
                 w == <<new>>
      <3>1. at \in Nat /\ Len(w) \in Nat /\ Len(w) = 1
        BY <2>2, <2>3
      <3> HIDE DEF at, w
      <3>2. \A j \in 1..Len(w) : at + j - 1 \in DOMAIN Write(at, w)
                                 /\ Write(at, w)[at + j - 1] = w[j]
        BY <3>1, WriteFacts
      <3>4. \A x \in DOMAIN cell : x < at /\ x \in Nat => x \in DOMAIN Write(at, w)
                                      /\ Write(at, w)[x] = cell[x]
        BY <3>1, WriteFacts
      <3>3. cell' = Write(at, w)
        BY <2>1 DEF at, w
      <3> QED BY <3>1, <3>2, <3>3, <3>4 DEF at, w
    <2>5. b + n \in DOMAIN cell' /\ cell'[b + n] = new
      BY <2>2, <2>3, <2>4
    <2>6. ASSUME NEW j \in 1..n
          PROVE  b + j - 1 \in DOMAIN cell' /\ cell'[b + j - 1] = cell[b + j - 1]
      <3>1. b + j - 1 \in DOMAIN cell
        BY <1>3
      <3>2. j \in Nat /\ 1 <= j /\ j <= n
        BY <1>2
      <3>3. b + j - 1 \in Nat /\ b + j - 1 < b + n
        BY <1>2, <3>2
      <3> QED BY <2>4, <3>1, <3>3
    <2>7. n + 1 <= Top.reserved
      BY <1>2, <1>3, <1>5
    <2> QED BY <1>3, <2>1, <2>5, <2>6, <2>7 DEF n, b
  <1> QED BY <1>4, <1>5

LEMMA StoreReturn ==
  ASSUME StoreInv, NEW v \in SortValues, Return(v), WalkInv', offset' \in Nat
  PROVE  StoreInv'
  <1> DEFINE new == [value |-> Top.current.value, sort |-> v, at |-> Top.current.at]
             n == Top.count
  <1>1. ~Idle /\ InKey /\ result' = result /\ WalkInv /\ offset \in Nat /\ Top.calling
    BY DEF Return, StoreInv, InKey
  <1>2. PICK t : ReturnedTo(t, v) /\ SetTop(t)
    BY <1>1, ReturnTop
  <1>3. Stored(Top, cell, offset) /\ Top \in SortRecord /\ n \in Nat /\ Top.base \in Nat
        /\ Top.seen \in Seq(Seen)
    BY <1>1, OneSort DEF SortRecord
  <1>4. /\ Visit(v) \in Seen /\ Visit(v).sort = v /\ Visit(v).value = Top.current.value
        /\ Top.current \in Current
    BY <1>1, VisitFacts
  <1>5. new.value = Visit(v).value /\ new.sort = v /\ new.at = Top.current.at /\ new.at \in Nat
    BY <1>4 DEF Current
  <1> HIDE DEF new
  <1>6. /\ \A j \in 1..n : t.base + j - 1 \in DOMAIN cell'
                           /\ cell'[t.base + j - 1] = cell[Top.base + j - 1]
        /\ t.base + n \in DOMAIN cell' /\ cell'[t.base + n] = new
        /\ t.base + t.reserved <= offset' /\ t.count <= t.reserved
    BY <1>2, PushedBack DEF new
  <1>7. /\ t.count = n + 1 /\ t.index = Top.index /\ ~t.calling
        /\ t.seen = Append(Top.seen, Visit(v)) /\ t \in SortRecord /\ t.base \in Nat
    BY <1>2 DEF ReturnedTo, SortRecord
  <1>8. /\ n = Len(Top.seen) /\ Top.current.at < Top.index
        /\ \A i \in 1..n :
             /\ cell[Top.base + i - 1].value = Top.seen[i].value
             /\ cell[Top.base + i - 1].sort = Top.seen[i].sort
             /\ cell[Top.base + i - 1].at \in Nat
             /\ cell[Top.base + i - 1].at < Top.index
             /\ cell[Top.base + i - 1].at < Top.current.at
        /\ \A i, j \in 1..n :
             i < j => cell[Top.base + i - 1].at < cell[Top.base + j - 1].at
    BY <1>1, <1>3 DEF Stored
  <1>9. /\ Len(t.seen) = n + 1 /\ t.seen[n + 1] = Visit(v)
        /\ \A i \in 1..n : t.seen[i] = Top.seen[i]
    BY <1>3, <1>4, <1>7, <1>8, AppendProperties
  <1> HIDE DEF n
  <1>10. t.base + (n + 1) - 1 = t.base + n
    BY <1>3, <1>7
  <1>11. ASSUME NEW i \in 1..(n + 1)
         PROVE  /\ t.base + i - 1 \in DOMAIN cell'
                /\ cell'[t.base + i - 1].value = t.seen[i].value
                /\ cell'[t.base + i - 1].sort = t.seen[i].sort
                /\ cell'[t.base + i - 1].at \in Nat
                /\ cell'[t.base + i - 1].at < t.index
    <2>1. CASE i = n + 1
      <3>1. t.base + i - 1 = t.base + n
        BY <1>10, <2>1
      <3> QED BY <1>4, <1>5, <1>6, <1>7, <1>8, <1>9, <2>1, <3>1
    <2>2. CASE i # n + 1
      <3>1. i \in 1..n
        BY <1>3, <2>2
      <3> QED BY <1>6, <1>7, <1>8, <1>9, <3>1
    <2> QED BY <2>1, <2>2
  <1>12. ASSUME NEW i \in 1..(n + 1), NEW j \in 1..(n + 1), i < j
         PROVE  cell'[t.base + i - 1].at < cell'[t.base + j - 1].at
    <2>1. i \in 1..n
      BY <1>3, <1>12
    <2>2. cell'[t.base + i - 1] = cell[Top.base + i - 1]
      BY <1>6, <2>1
    <2>3. CASE j = n + 1
      <3>1. cell'[t.base + j - 1] = new
        BY <1>6, <1>10, <2>3
      <3> QED BY <1>5, <1>8, <2>1, <2>2, <3>1
    <2>4. CASE j # n + 1
      <3>1. j \in 1..n
        BY <1>3, <2>4
      <3>2. cell'[t.base + j - 1] = cell[Top.base + j - 1]
        BY <1>6, <3>1
      <3> QED BY <1>8, <1>12, <2>1, <2>2, <3>1, <3>2
    <2> QED BY <2>3, <2>4
  <1>13. Stored(t, cell', offset')
    BY <1>6, <1>7, <1>9, <1>11, <1>12 DEF Stored
  <1> QED BY <1>1, <1>2, <1>13, StoreSetTop

LEMMA StoreEnd ==
  ASSUME StoreInv, End, WalkInv', offset' \in Nat
  PROVE  StoreInv'
  <1> DEFINE n == Top.count
             entries == Cells(Top)
  <1>1. ~Idle /\ sorts' = Under /\ \E reverse \in BOOLEAN, p \in Orders(n) :
                        result' = [i \in 1..n |-> entries[p[i]].value]
    BY DEF End
  <1>2. Stored(Top, cell, offset) /\ Top \in SortRecord /\ Under = <<>>
    BY <1>1, OneSort
  <1>3. n \in Nat /\ n = Len(Top.seen) /\ Top.seen \in Seq(Seen)
    BY <1>2 DEF SortRecord, Stored
  <1>4. ASSUME NEW i \in 1..n PROVE entries[i].value \in Values
    <2>1. entries[i] = cell[Top.base + i - 1]
      BY DEF Cells
    <2>2. cell[Top.base + i - 1].value = Top.seen[i].value /\ Top.seen[i] \in Seen
      BY <1>2, <1>3 DEF Stored
    <2> QED BY <2>1, <2>2 DEF Seen
  <1>5. PICK p \in Orders(n) : result' = [i \in 1..n |-> entries[p[i]].value]
    BY <1>1
  <1>6. \A i \in 1..n : p[i] \in 1..n
    BY DEF Orders
  <1> HIDE DEF n, entries
  <1>7. result' \in Seq(Values)
    <2>1. result' \in [1..n -> Values]
      BY <1>4, <1>5, <1>6
    <2> QED BY <1>3, <2>1
  <1> QED BY <1>1, <1>2, <1>7 DEF StoreInv

LEMMA StoreStep ==
  ASSUME MaxDepth <= 1, StoreInv, [SortNext]_sortVars
  PROVE  StoreInv'
  <1>1. WalkInv' /\ offset' \in Nat
    BY WalkStep DEF StoreInv
  <1>2. CASE Begin
    BY <1>1, <1>2, StoreBegin
  <1>3. CASE Call
    BY <1>1, <1>3, StoreCall
  <1>4. CASE Fail
    BY <1>1, <1>4, StoreFail
  <1>5. CASE End
    BY <1>1, <1>5, StoreEnd
  <1>6. CASE Change
    BY <1>1, <1>6, StoreChange
  <1>7. ASSUME NEW v \in SortValues, Return(v) PROVE StoreInv'
    BY <1>1, <1>7, StoreReturn
  <1>8. CASE UNCHANGED sortVars
    BY <1>1, <1>8 DEF sortVars, StoreInv
  <1> QED BY <1>2, <1>3, <1>4, <1>5, <1>6, <1>7, <1>8 DEF SortNext

\* While no key function sorts, what a sort has written is what it pushed, in
\* the order of the walk, and nothing else is written over it.
THEOREM SortsKeepTheirVectors ==
  ASSUME MaxDepth <= 1
  PROVE  SortSpec => []StoreInv
  <1>1. SortInit => StoreInv
    BY WalkStart, SortBegins, EmptySeq DEF StoreInv
  <1>2. StoreInv /\ [SortNext]_sortVars => StoreInv'
    BY StoreStep
  <1> QED BY <1>1, <1>2, PTL DEF SortSpec

\* Cursors, vectors and counters have their types, and every vector lies
\* within the space that its sort has taken from the arena.
THEOREM SortsTyped ==
  ASSUME MaxDepth <= 1
  PROVE  SortSpec => []SortTypeOK
  <1>1. StoreInv => SortTypeOK
    <2> SUFFICES ASSUME StoreInv PROVE SortTypeOK
      OBVIOUS
    <2>1. TypeOK
      BY SoundType DEF StoreInv, WalkInv
    <2>2. sorts \in Seq(SortRecord) /\ DOMAIN sorts = 1..Len(sorts) /\ changes \in 0..MaxChanges
          /\ result \in Seq(Values)
      BY DEF StoreInv, WalkInv
    <2>3. ASSUME NEW i \in 1..Len(sorts)
          PROVE  /\ sorts[i].cursor \in Address \cup {NULL}
                 /\ sorts[i].count <= sorts[i].reserved
                 /\ sorts[i].base + sorts[i].reserved <= offset
                 /\ i < Len(sorts) => sorts[i].calling
      <3>1. sorts[i] \in SortRecord /\ Stored(sorts[i], cell, offset)
            /\ (i < Len(sorts) => sorts[i].calling)
        BY <2>2 DEF StoreInv, WalkInv
      <3> QED BY <3>1 DEF SortRecord, Stored
    <2> QED BY <2>1, <2>2, <2>3 DEF SortTypeOK
  <1> QED BY <1>1, SortsKeepTheirVectors, PTL

-----------------------------------------------------------------------------
(* Ranks                                                                   *)

\* e is n entries, numbered upwards, with numbers to sort them by.
Entries(e, n) ==
  /\ \A i \in 1..n : e[i].sort \in Int /\ e[i].at \in Int
  /\ \A i, j \in 1..n : i < j => e[i].at < e[j].at

\* Of two entries one comes before the other.
LEMMA BeforeTotal ==
  ASSUME NEW e, NEW n \in Nat, Entries(e, n), NEW reverse \in BOOLEAN,
         NEW i \in 1..n, NEW j \in 1..n
  PROVE  /\ Before(reverse, e[i], e[j]) => ~Before(reverse, e[j], e[i])
         /\ i # j => Before(reverse, e[i], e[j]) \/ Before(reverse, e[j], e[i])
         /\ Before(reverse, e[j], e[i]) <=>
              \/ e[j].sort = e[i].sort /\ j < i
              \/ IF reverse THEN e[j].sort > e[i].sort ELSE e[j].sort < e[i].sort
  <1>1. /\ e[i].sort \in Int /\ e[i].at \in Int /\ e[j].sort \in Int /\ e[j].at \in Int
        /\ i < j => e[i].at < e[j].at
        /\ j < i => e[j].at < e[i].at
    BY DEF Entries
  <1>2. i \in Int /\ j \in Int
    OBVIOUS
  <1> QED BY <1>1, <1>2 DEF Before

\* The entry at m has as many entries before it as there are places before m.
LEMMA RankOf ==
  ASSUME NEW e, NEW n \in Nat, Entries(e, n), NEW reverse \in BOOLEAN, NEW p \in Orders(n),
         \A i, j \in 1..n : i < j => ~Before(reverse, e[p[j]], e[p[i]]),
         NEW m \in 1..n
  PROVE  Cardinality({j \in 1..n : Before(reverse, e[j], e[p[m]])}) = m - 1
  <1> DEFINE S == {j \in 1..n : Before(reverse, e[j], e[p[m]])}
             q == [l \in 1..(m - 1) |-> p[l]]
  <1>1. /\ p \in [1..n -> 1..n]
        /\ \A i, j \in 1..n : p[i] = p[j] => i = j
    BY DEF Orders
  <1>2. p \in Surjection(1..n, 1..n)
    <2>1. p \in Injection(1..n, 1..n)
      BY <1>1 DEF Injection, IsInjective
    <2>2. IsFiniteSet(1..n)
      BY FirstNumbers
    <2> QED BY <2>1, <2>2, FS_Injection
  <1>3. \A l \in 1..(m - 1) : l \in 1..n /\ l < m /\ l # m
    OBVIOUS
  <1>4. \A l \in 1..(m - 1) : q[l] \in S
    <2> SUFFICES ASSUME NEW l \in 1..(m - 1) PROVE p[l] \in S
      OBVIOUS
    <2>1. l \in 1..n /\ p[l] \in 1..n /\ p[m] \in 1..n /\ p[l] # p[m]
      BY <1>1, <1>3
    <2>2. ~Before(reverse, e[p[m]], e[p[l]])
      BY <1>3, <2>1
    <2>3. Before(reverse, e[p[l]], e[p[m]])
      BY <2>1, <2>2, BeforeTotal
    <2> QED BY <2>1, <2>3
  <1>5. ASSUME NEW j \in S PROVE \E l \in 1..(m - 1) : q[l] = j
    <2>1. j \in 1..n /\ Before(reverse, e[j], e[p[m]])
      OBVIOUS
    <2>2. PICK l \in 1..n : p[l] = j
      BY <1>2, <2>1 DEF Surjection
    <2>3. ~(m < l)
      BY <2>1, <2>2
    <2>4. l # m
      <3>1. p[m] \in 1..n
        BY <1>1
      <3> QED BY <2>1, <2>2, <3>1, BeforeTotal
    <2>5. l \in 1..(m - 1)
      BY <2>3, <2>4
    <2> QED BY <2>2, <2>5
  <1> HIDE DEF S
  <1>6. q \in Bijection(1..(m - 1), S)
    <2>1. q \in [1..(m - 1) -> S] /\ \A l \in 1..(m - 1) : q[l] = p[l]
      BY <1>4
    <2> HIDE DEF q
    <2>2. \A i, j \in 1..(m - 1) : q[i] = q[j] => i = j
      BY <1>1, <1>3, <2>1
    <2>3. q \in Surjection(1..(m - 1), S)
      BY <1>5, <2>1 DEF Surjection
    <2>4. q \in Injection(1..(m - 1), S)
      BY <2>1, <2>2 DEF Injection, IsInjective
    <2> QED BY <2>3, <2>4 DEF Bijection
  <1>7. ExistsBijection(1..(m - 1), S) /\ m - 1 \in Nat
    BY <1>6 DEF ExistsBijection
  <1>8. Cardinality(S) = m - 1
    BY <1>7, FS_NatBijection, FS_CountingElements
  <1> QED BY <1>8 DEF S

LEMMA EndInOrder ==
  ASSUME StoreInv, End
  PROVE  \E reverse \in BOOLEAN : InOrder(reverse, Top.seen, result')
  <1> DEFINE n == Top.count
             e == Cells(Top)
             seen == Top.seen
  <1>1. ~Idle /\ ~Top.calling
    BY DEF End
  <1>2. Stored(Top, cell, offset) /\ Top \in SortRecord
    BY <1>1, OneSort
  <1>3. n \in Nat /\ n = Len(seen) /\ seen \in Seq(Seen) /\ DOMAIN seen = 1..n
    BY <1>2 DEF SortRecord, Stored
  <1>4. PICK reverse \in BOOLEAN, p \in Orders(n) :
          /\ \A i, j \in 1..n : i < j => ~Before(reverse, e[p[j]], e[p[i]])
          /\ result' = [i \in 1..n |-> e[p[i]].value]
    BY DEF End
  <1>5. \A i \in 1..n : e[i] = cell[Top.base + i - 1]
    BY DEF Cells
  <1> HIDE DEF n, e, seen
  <1>6. /\ \A i \in 1..n : /\ e[i].value = seen[i].value /\ e[i].sort = seen[i].sort
                           /\ e[i].at \in Nat /\ seen[i] \in Seen
        /\ \A i, j \in 1..n : i < j => e[i].at < e[j].at
    BY <1>2, <1>3, <1>5 DEF Stored, n, seen
  <1>7. Entries(e, n)
    <2>1. \A i \in 1..n : e[i].sort \in Int
      BY <1>6, SortAssumption DEF Seen
    <2> QED BY <1>6, <2>1 DEF Entries
  <1>8. \A i \in 1..n : \E m \in 1..n : p[m] = i
    <2>1. p \in Injection(1..n, 1..n) /\ IsFiniteSet(1..n)
      BY <1>3, FirstNumbers DEF Orders, Injection, IsInjective
    <2>2. p \in Surjection(1..n, 1..n)
      BY <2>1, FS_Injection
    <2> QED BY <2>2 DEF Surjection
  <1> DEFINE R(i) == {j \in DOMAIN seen :
                        \/ seen[j].sort = seen[i].sort /\ j < i
                        \/ IF reverse THEN seen[j].sort > seen[i].sort
                                      ELSE seen[j].sort < seen[i].sort}
  <1>9. ASSUME NEW i \in 1..n PROVE result'[1 + Cardinality(R(i))] = seen[i].value
    <2>1. PICK m \in 1..n : p[m] = i
      BY <1>8
    <2> DEFINE B == {j \in 1..n : Before(reverse, e[j], e[i])}
    <2>2. Cardinality(B) = m - 1
      <3>1. Cardinality({j \in 1..n : Before(reverse, e[j], e[p[m]])}) = m - 1
        BY <1>3, <1>4, <1>7, RankOf
      <3> QED BY <2>1, <3>1
    <2>3. B = R(i)
      <3>1. \A j \in 1..n : j \in B <=> j \in R(i)
        <4> SUFFICES ASSUME NEW j \in 1..n PROVE j \in B <=> j \in R(i)
          OBVIOUS
        <4>1. Before(reverse, e[j], e[i]) <=>
                \/ e[j].sort = e[i].sort /\ j < i
                \/ IF reverse THEN e[j].sort > e[i].sort ELSE e[j].sort < e[i].sort
          BY <1>3, <1>7, BeforeTotal
        <4>2. e[j].sort = seen[j].sort /\ e[i].sort = seen[i].sort
          BY <1>6
        <4> QED BY <1>3, <4>1, <4>2
      <3>2. B \subseteq 1..n /\ R(i) \subseteq 1..n
        BY <1>3
      <3> HIDE DEF B, R
      <3> QED BY <3>1, <3>2
    <2> HIDE DEF B, R
    <2>4. 1 + Cardinality(R(i)) = m
      BY <2>2, <2>3
    <2> QED BY <1>4, <1>6, <2>1, <2>4
  <1>10. Len(result') = Len(seen)
    BY <1>3, <1>4
  <1>11. InOrder(reverse, seen, result')
    BY <1>3, <1>9, <1>10 DEF InOrder
  <1> QED BY <1>11 DEF seen

\* When no entry is left to visit, each that has lasted has been visited.
LEMMA LastingOnce ==
  ASSUME StoreInv, End, NEW e \in Top.lasting
  PROVE  Cardinality({i \in DOMAIN Top.seen : Top.seen[i].at = e}) = 1
  <1> DEFINE f == Walk(arr)
             seen == Top.seen
  <1>1. ~Idle /\ Top.cursor = NULL
    BY DEF End
  <1>2. Stands(Top, f) /\ Top \in SortRecord /\ Chain(arr, f) /\ Len(f) \in Nat
    BY <1>1, OneSort, SoundWalk DEF StoreInv, WalkInv
  <1>3. PICK p : StandsAt(Top, f, p)
    BY <1>2 DEF Stands
  <1> HIDE DEF f
  <1>4. p = Len(f) + 1
    <2> SUFFICES ASSUME p # Len(f) + 1 PROVE FALSE
      OBVIOUS
    <2>1. p \in 1..Len(f) /\ Top.cursor = f[p]
      BY <1>2, <1>3 DEF StandsAt
    <2> QED BY <1>1, <1>2, <2>1, ChainFacts
  <1>5. PICK q \in 1..Len(f) : f[q] = e
    BY <1>3 DEF StandsAt
  <1>6. VisitedOnce(seen, e)
    <2>1. q < p
      BY <1>2, <1>4
    <2> QED BY <1>3, <1>5, <2>1 DEF StandsAt
  <1>7. DOMAIN seen = 1..Len(seen)
    BY <1>2 DEF SortRecord
  <1>8. PICK i \in 1..Len(seen) : seen[i].at = e /\ \A j \in 1..Len(seen) : seen[j].at = e => j = i
    BY <1>6 DEF VisitedOnce
  <1>9. {j \in DOMAIN seen : seen[j].at = e} = {i}
    BY <1>7, <1>8
  <1> QED BY <1>9, FS_Singleton

\* What a sort returns is in the order of what its key function returned, and
\* stable, and every entry that lasted is there once, in spite of what the
\* key function has done to the array meanwhile.
THEOREM SortsAreStable ==
  ASSUME MaxDepth <= 1
  PROVE  SortSpec => SortedCopy
  <1>1. StoreInv /\ [SortNext]_sortVars =>
          [End => /\ \E reverse \in BOOLEAN : InOrder(reverse, Top.seen, result')
                  /\ \A e \in Top.lasting :
                       Cardinality({i \in DOMAIN Top.seen : Top.seen[i].at = e}) = 1]_sortVars
    BY EndInOrder, LastingOnce
  <1>2. SortSpec => []StoreInv
    BY SortsKeepTheirVectors
  <1>3. SortSpec => [][SortNext]_sortVars
    BY PTL DEF SortSpec
  <1> QED BY <1>1, <1>2, <1>3, PTL DEF SortedCopy
=============================================================================
