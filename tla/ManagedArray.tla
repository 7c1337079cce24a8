---------------------------- MODULE ManagedArray ----------------------------
(***************************************************************************)
(* UdonValue::ManagedArray: entries linked in the order of insertion, and  *)
(* a hash table (ValueHashMap) from keys to entries, with the functions of *)
(* helpers.cpp that keep both and the built-ins that use an array as a     *)
(* list.                                                                   *)
(*                                                                         *)
(* Every caller turns a key into a string first, so that keys are strings, *)
(* told apart by what std::stoll makes of them.  A bucket is a set: a key  *)
(* is in it at most once, and erase swaps the last element into the hole,  *)
(* so that its order means nothing.  An address is free again as soon as   *)
(* its entry has been deleted, and the next entry may get it.              *)
(***************************************************************************)
EXTENDS Lists, SequencesExt, TLC

CONSTANTS
  Keys,            \* the strings programs use as keys
  Values,          \* what entries hold
  None,            \* the value none
  Number,          \* Number[k]: what std::stoll makes of k, {} if it throws
  Decimal,         \* Decimal[n]: std::to_string(n)
  Hash,            \* Hash[k]: std::hash of k
  InitialBuckets,  \* buckets of a table that is new or has been cleared
  Address,         \* where entries can be allocated
  NULL

ASSUME KeyAssumption ==
  /\ None \notin Values
  /\ Number \in [Keys -> SUBSET DOMAIN Decimal]
  /\ \A k \in Keys : \A m, n \in Number[k] : m = n
  /\ DOMAIN Decimal \subseteq Int
  /\ \A n \in DOMAIN Decimal : Decimal[n] \in Keys /\ Number[Decimal[n]] = {n}

ASSUME TableAssumption ==
  /\ Hash \in [Keys -> Nat]
  /\ InitialBuckets \in Nat
  /\ NULL \notin Address

VARIABLES
  arr,  \* the array
  out   \* what the last built-in returned

vars == <<arr, out>>

Live(a) == DOMAIN a.entry
Entry == [key : Keys, value : Values, prev : Address \cup {NULL},
          next : Address \cup {NULL}]
Slot == [key : Keys, at : Address]

NumBuckets(a) == Cardinality(DOMAIN a.buckets)
BucketIndex(h, n) == h % n

\* ValueHashMap::init_buckets
EmptyBuckets(n) == [i \in 0..((IF n < 4 THEN 4 ELSE n) - 1) |-> {}]

NewArray == [entry |-> <<>>, head |-> NULL, tail |-> NULL,
             buckets |-> EmptyBuckets(InitialBuckets), count |-> 0, size |-> 0]

----------------------------------------------------------------------------
\* The table.  A cleared one has no bucket at all until the next set.

Hits(a, k) ==
  IF NumBuckets(a) = 0 THEN {}
  ELSE {s \in a.buckets[BucketIndex(Hash[k], NumBuckets(a))] : s.key = k}

Find(a, k) == IF Hits(a, k) = {} THEN NULL ELSE (CHOOSE s \in Hits(a, k) : TRUE).at

\* Deviations from the code, here and below, to show that the properties
\* notice them: a table that grows without moving anything,
MaybeRehashInPlace(a) ==
  LET n == NumBuckets(a) IN
  IF n = 0 THEN [a EXCEPT !.buckets = EmptyBuckets(InitialBuckets), !.count = 0]
  ELSE IF 4 * (a.count + 1) <= 3 * n THEN a
  ELSE [a EXCEPT !.buckets =
          [i \in 0..(2 * n - 1) |-> IF i < n THEN a.buckets[i] ELSE {}]]

\* The load that makes a table grow is three quarters.
MaybeRehash(a) ==
  LET n == NumBuckets(a)
      all == UNION {a.buckets[i] : i \in DOMAIN a.buckets} IN
  IF n = 0 THEN [a EXCEPT !.buckets = EmptyBuckets(InitialBuckets), !.count = 0]
  ELSE IF 4 * (a.count + 1) <= 3 * n THEN a
  ELSE [a EXCEPT !.buckets =
          [i \in 0..(2 * n - 1) |-> {s \in all : BucketIndex(Hash[s.key], 2 * n) = i}]]

IndexSet(a, k, e) ==
  LET grown == MaybeRehash(a)
      i == BucketIndex(Hash[k], NumBuckets(grown)) IN
  [grown EXCEPT !.buckets[i] = {s \in @ : s.key # k} \cup {[key |-> k, at |-> e]},
                !.count = IF Hits(grown, k) = {} THEN @ + 1 ELSE @]

IndexErase(a, k) ==
  IF Hits(a, k) = {} THEN a
  ELSE [a EXCEPT !.buckets[BucketIndex(Hash[k], NumBuckets(a))] = @ \ Hits(a, k),
                 !.count = @ - 1]

----------------------------------------------------------------------------
\* helpers.cpp

ArrayGet(a, k) == IF Find(a, k) = NULL THEN None ELSE a.entry[Find(a, k)].value

\* The new entry goes behind the tail.
Link(a, e, k, v) ==
  LET new == [key |-> k, value |-> v, prev |-> a.tail, next |-> NULL] IN
  [a EXCEPT !.entry = [x \in Live(a) \cup {e} |->
                         IF x = e THEN new
                         ELSE IF x = a.tail THEN [a.entry[x] EXCEPT !.next = e]
                         ELSE a.entry[x]],
            !.tail = e,
            !.head = IF @ = NULL THEN e ELSE @]

\* a neighbour that is not told,
UnlinkBackOnly(a, e) ==
  LET p == a.entry[e].prev
      n == a.entry[e].next IN
  [a EXCEPT !.entry = [x \in Live(a) \ {e} |->
                         [a.entry[x] EXCEPT !.prev = IF x = n THEN p ELSE @]],
            !.head = IF p = NULL THEN n ELSE @,
            !.tail = IF n = NULL THEN p ELSE @]

Unlink(a, e) ==
  LET p == a.entry[e].prev
      n == a.entry[e].next IN
  [a EXCEPT !.entry = [x \in Live(a) \ {e} |->
                         [a.entry[x] EXCEPT !.next = IF x = p THEN n ELSE @,
                                            !.prev = IF x = n THEN p ELSE @]],
            !.head = IF p = NULL THEN n ELSE @,
            !.tail = IF n = NULL THEN p ELSE @]

\* a miss that counts as a deletion,
ArrayDeleteCountsMisses(a, k) ==
  IF Find(a, k) = NULL THEN [a EXCEPT !.size = @ - 1]
  ELSE [IndexErase(Unlink(a, Find(a, k)), k) EXCEPT !.size = @ - 1]

ArrayDelete(a, k) ==
  IF Find(a, k) = NULL THEN a
  ELSE [IndexErase(Unlink(a, Find(a, k)), k) EXCEPT !.size = IF @ > 0 THEN @ - 1 ELSE @]

\* Every entry is deleted, and the table has no bucket left.
ArrayClear == [NewArray EXCEPT !.buckets = <<>>]

\* an assignment to a key that is there and moves to the end,
ArraySetMoves(a, k, v) ==
  LET rest == ArrayDelete(a, k)
      e == CHOOSE x \in Address : x \notin Live(rest) IN
  [IndexSet(Link(rest, e, k, v), k, e) EXCEPT !.size = @ + 1]

ArraySet(a, k, v) ==
  IF Find(a, k) # NULL THEN [a EXCEPT !.entry[Find(a, k)].value = v]
  ELSE LET e == CHOOSE x \in Address : x \notin Live(a) IN
       [IndexSet(Link(a, e, k, v), k, e) EXCEPT !.size = @ + 1]

\* The entries that array_foreach visits; one more step than there are
\* entries would be a step into a cycle.
Walk(a) ==
  LET visit[n \in 0..Cardinality(Live(a))] ==
        IF n = 0 THEN <<>>
        ELSE LET before == visit[n - 1]
                 e == IF n = 1 THEN a.head ELSE a.entry[before[n - 1]].next IN
             IF Len(before) < n - 1 \/ e = NULL THEN before ELSE Append(before, e)
  IN  visit[Cardinality(Live(a))]

KeysOf(a) == LET walk == Walk(a) IN [i \in DOMAIN walk |-> a.entry[walk[i]].key]

----------------------------------------------------------------------------
\* builtins.cpp

Num(k) == CHOOSE n \in Number[k] : TRUE
NumbersOf(a) ==
  LET numbered == Only(KeysOf(a), {k \in Keys : Number[k] # {}}) IN
  [i \in DOMAIN numbered |-> Num(numbered[i])]

\* and positions in the order of insertion instead of the order of numbers.
IndicesAsInserted(a) == NumbersOf(a)

\* The numbers of the keys, ascending; a number that two keys share twice.
Indices(a) == Sorted(NumbersOf(a))

Pair(k, v) == [key |-> k, value |-> v]
Named(a) ==
  LET names == Only(KeysOf(a), {k \in Keys : Number[k] = {}}) IN
  [i \in DOMAIN names |-> Pair(names[i], ArrayGet(a, names[i]))]

\* What stands at the numbers ns, renumbered from first on.
Renumbered(a, ns, first) ==
  LET found == Only([i \in DOMAIN ns |-> i],
                    {i \in DOMAIN ns : Find(a, Decimal[ns[i]]) # NULL}) IN
  [j \in DOMAIN found |->
     Pair(Decimal[found[j] - 1 + first], ArrayGet(a, Decimal[ns[found[j]]]))]

\* The array is cleared and gets the pairs one after the other.
Refill(pairs) ==
  LET fill[n \in 0..Len(pairs)] ==
        IF n = 0 THEN ArrayClear
        ELSE ArraySet(fill[n - 1], pairs[n].key, pairs[n].value)
  IN  fill[Len(pairs)]

\* The bounds of the instances: an array grows while there is an address
\* left, and there are decimals for the n lowest indices.
Room == \E e \in Address : e \notin Live(arr)
Decimals(n) == 0..(n - 1) \subseteq DOMAIN Decimal

\* STORE_PROP of either machine
SetItem(k, v) == Room /\ arr' = ArraySet(arr, k, v) /\ out' = None

Push(v) ==
  /\ Room /\ arr.size \in DOMAIN Decimal
  /\ arr' = ArraySet(arr, Decimal[arr.size], v)
  /\ out' = None

Delete(k) == arr' = ArrayDelete(arr, k) /\ out' = ArrayGet(arr, k)

Highest(a) ==
  LET ns == {n \in ToSet(NumbersOf(a)) : n >= 0} IN
  IF ns = {} THEN -1 ELSE CHOOSE n \in ns : \A m \in ns : m <= n

\* pop without a key; with one it is a delete
Pop ==
  \/ Highest(arr) < 0 /\ arr' = arr /\ out' = None
  \/ Highest(arr) >= 0 /\ Delete(Decimal[Highest(arr)])

Shift ==
  \/ Indices(arr) = <<>> /\ arr' = arr /\ out' = None
  \/ /\ Indices(arr) # <<>> /\ Decimals(Len(Indices(arr)) - 1)
     /\ LET first == Decimal[Head(Indices(arr))]
            rest == ArrayDelete(arr, first) IN
        /\ arr' = Refill(Named(rest) \o Renumbered(rest, Tail(Indices(arr)), 0))
        /\ out' = ArrayGet(arr, first)

Unshift(v) ==
  /\ Room /\ Decimals(Len(Indices(arr)) + 1)
  /\ arr' = Refill(Named(arr) \o <<Pair(Decimal[0], v)>>
                               \o Renumbered(arr, Indices(arr), 1))
  /\ out' = None

Init == arr = NewArray /\ out = None

Next ==
  \/ \E v \in Values : Push(v) \/ Unshift(v) \/ \E k \in Keys : SetItem(k, v)
  \/ \E k \in Keys : Delete(k)
  \/ Pop
  \/ Shift

Spec == Init /\ [][Next]_vars

----------------------------------------------------------------------------
\* Properties

TypeOK ==
  /\ arr.entry \in [Live(arr) -> Entry] /\ Live(arr) \subseteq Address
  /\ arr.head \in Address \cup {NULL} /\ arr.tail \in Address \cup {NULL}
  /\ DOMAIN arr.buckets = 0..(NumBuckets(arr) - 1)
  /\ \A i \in DOMAIN arr.buckets : arr.buckets[i] \subseteq Slot
  /\ arr.count \in Nat /\ arr.size \in Nat
  /\ out \in Values \cup {None}

\* The list read forwards from the head and backwards from the tail links
\* every entry once, and no freed one.
Linked(a) ==
  /\ \A e \in Live(a) :
       /\ a.entry[e].next = NULL <=> e = a.tail
       /\ a.entry[e].prev = NULL <=> e = a.head
       /\ a.entry[e].next # NULL => /\ a.entry[e].next \in Live(a)
                                   /\ a.entry[a.entry[e].next].prev = e
       /\ a.entry[e].prev # NULL => /\ a.entry[e].prev \in Live(a)
                                   /\ a.entry[a.entry[e].prev].next = e
  /\ a.head = NULL <=> Live(a) = {}
  /\ a.tail = NULL <=> Live(a) = {}
  /\ {a.head, a.tail} \subseteq Live(a) \cup {NULL}
  /\ ToSet(Walk(a)) = Live(a)

\* Every entry is in the bucket its key hashes to now, under its own key,
\* and nothing else is in the table: no lookup can miss an entry or find
\* one that has been freed.
Indexed(a) ==
  /\ \A e \in Live(a) : NumBuckets(a) > 0 /\ Find(a, a.entry[e].key) = e
  /\ \A i \in DOMAIN a.buckets : \A s \in a.buckets[i] :
       s.at \in Live(a) /\ a.entry[s.at].key = s.key /\ BucketIndex(Hash[s.key], NumBuckets(a)) = i
  /\ a.count = Cardinality(Live(a)) /\ a.size = Cardinality(Live(a))

IndexInStep == Linked(arr) /\ Indexed(arr)

\* An array whose keys are 0 .. n-1 is a list, whatever the order in which
\* they were inserted, and the four list operations keep it one, moving
\* every element by the place the operation opens or closes.
IsList(a) ==
  \A k \in ToSet(KeysOf(a)) : \E i \in DOMAIN Decimal \cap 0..(a.size - 1) : k = Decimal[i]
List(a) == [i \in 1..a.size |-> ArrayGet(a, Decimal[i - 1])]

ListsStayLists ==
  [][IsList(arr) =>
       /\ \A v \in Values :
            /\ Push(v) => IsList(arr') /\ List(arr') = Append(List(arr), v)
            /\ Unshift(v) => IsList(arr') /\ List(arr') = <<v>> \o List(arr)
       /\ Shift /\ arr.size > 0 =>
            IsList(arr') /\ List(arr) = <<out'>> \o List(arr')
       /\ Pop /\ arr.size > 0 =>
            IsList(arr') /\ List(arr) = Append(List(arr'), out')]_vars

\* What the reference says of push: "appends at the next numeric index".
\* (doc/builtins-reference.md:670)  There is one more entry then, and its
\* number is above those of all the others.
PushAppends ==
  [][\A v \in Values : Push(v) =>
       /\ Len(KeysOf(arr')) = Len(KeysOf(arr)) + 1
       /\ \A n \in ToSet(NumbersOf(arr)) : n < Num(Last(KeysOf(arr')))]_vars

\* Whatever becomes of the table and the list, the array is to a program a
\* map in the order of insertion: no operation loses, moves or exchanges an
\* entry it is not about, and shift and unshift leave the names alone.
Abstract == INSTANCE OrderedMap WITH
  order <- KeysOf(arr),
  value <- [k \in ToSet(KeysOf(arr)) |-> ArrayGet(arr, k)]

ImplementsOrderedMap == Abstract!Spec
=============================================================================
