------------------------------ MODULE Sorting ------------------------------
(***************************************************************************)
(* The built-in sort on an array that its key function may change: one     *)
(* step per call of the key function, with the vector of entries in the    *)
(* scratch arena of the interpreter, which every sort empties when it      *)
(* begins and when it ends.                                                *)
(*                                                                         *)
(* The arena is counted in entries of that vector; the part of alloc that  *)
(* falls back to malloc when the arena is full is left out, for it is      *)
(* never full here.  A cell keeps what was written to it last, which is    *)
(* one of the outcomes of reading an entry that has been destroyed.        *)
(* Without the option key an element is its own sort value, as if the      *)
(* function returned it.                                                   *)
(***************************************************************************)
EXTENDS ManagedArray

CONSTANTS
  SortValues,  \* what a key function returns: numbers
  MaxChanges,  \* bound on the changes key functions make to the array
  MaxDepth     \* bound on sorts in progress: 1 if no key function sorts

ASSUME SortAssumption ==
  /\ SortValues \subseteq Int /\ MaxChanges \in Nat /\ MaxDepth \in Nat
  /\ IsFiniteSet(Address)

VARIABLES
  sorts,    \* the sorts in progress, the outermost first
  offset,   \* the first free cell of the arena
  cell,     \* the contents of the arena
  changes,  \* changes made by key functions so far
  result    \* the values of the array sort has returned, until it is called again

sortVars == <<arr, out, sorts, offset, cell, changes, result>>

Top == sorts[Len(sorts)]
Under == SubSeq(sorts, 1, Len(sorts) - 1)
SetTop(s) == sorts' = Append(Under, s)
Idle == sorts = <<>>
InKey == ~Idle /\ Top.calling

\* The entries vector of a sort, as far as it is filled.
Cells(s) == [i \in 1..s.count |-> cell[s.base + i - 1]]

\* Writes the cells from position at on.
Write(at, entries) ==
  [i \in DOMAIN cell \cup (at..(at + Len(entries) - 1)) |->
     IF i \in at..(at + Len(entries) - 1) THEN entries[i - at + 1] ELSE cell[i]]

\* Deviations from the code, here and below, to show that the properties
\* notice them: a vector whose space is not taken from the arena,
BeginUnreserved ==
  /\ Idle \/ InKey
  /\ Len(sorts) < MaxDepth
  /\ sorts' = Append(sorts,
       [cursor |-> arr.head, calling |-> FALSE, base |-> 0, count |-> 0,
        reserved |-> arr.size, index |-> 0, failed |-> FALSE,
        current |-> NULL, seen |-> <<>>, lasting |-> Live(arr)])
  /\ offset' = 0
  /\ result' = <<>>
  /\ UNCHANGED <<arr, out, cell, changes>>

Begin ==
  /\ Idle \/ InKey
  /\ Len(sorts) < MaxDepth
  /\ sorts' = Append(sorts,
       [cursor |-> arr.head, calling |-> FALSE, base |-> 0, count |-> 0,
        reserved |-> arr.size, index |-> 0, failed |-> FALSE,
        current |-> NULL, seen |-> <<>>, lasting |-> Live(arr)])
  /\ offset' = arr.size  \* ArenaResetGuard, then reserve
  /\ result' = <<>>
  /\ UNCHANGED <<arr, out, cell, changes>>

\* array_foreach hands the key and the value over by copying them into e.
Call ==
  /\ ~Idle /\ ~Top.calling /\ Top.cursor # NULL
  /\ LET e == arr.entry[Top.cursor] IN
     SetTop([Top EXCEPT !.calling = TRUE, !.index = @ + 1,
                        !.current = [key |-> e.key, value |-> e.value, at |-> Top.index]])
  /\ UNCHANGED <<arr, out, offset, cell, changes, result>>

\* The next pointer is read after the key function has returned.
Advance(s) == [s EXCEPT !.calling = FALSE, !.current = NULL,
                        !.cursor = arr.entry[s.cursor].next]

Doubled(n) == IF n = 0 THEN 1 ELSE 2 * n

\* push_back: a full vector moves to a new allocation behind the old one.
Return(v) ==
  /\ InKey
  /\ LET new == [value |-> Top.current.value, sort |-> v, at |-> Top.current.at]
         full == Top.count = Top.reserved
         base == IF full THEN offset ELSE Top.base
         moved == IF full THEN Append(Cells(Top), new) ELSE <<new>> IN
     /\ cell' = Write(IF full THEN base ELSE base + Top.count, moved)
     /\ offset' = IF full THEN offset + Doubled(Top.reserved) ELSE offset
     /\ SetTop([Advance(Top) EXCEPT !.base = base, !.count = @ + 1,
                  !.reserved = IF full THEN Doubled(@) ELSE @,
                  !.seen = Append(@, [new EXCEPT !.at = Top.cursor])])
  /\ UNCHANGED <<arr, out, changes, result>>

\* a failing call that is tried again,
FailAndRetry ==
  /\ InKey
  /\ SetTop([Top EXCEPT !.failed = TRUE, !.calling = FALSE, !.current = NULL,
                        !.index = @ - 1])
  /\ UNCHANGED <<arr, out, offset, cell, changes, result>>

\* A key function that fails: the entry is left out, the error is reported
\* when the sort has ended, and the loop goes on.
Fail ==
  /\ InKey
  /\ SetTop([Advance(Top) EXCEPT !.failed = TRUE, !.lasting = @ \ {Top.cursor}])
  /\ UNCHANGED <<arr, out, offset, cell, changes, result>>

\* and a descending order that also turns equal elements round.
BeforeAllReversed(reverse, a, b) ==
  IF reverse THEN b.sort < a.sort \/ (a.sort = b.sort /\ b.at < a.at)
  ELSE a.sort < b.sort \/ (a.sort = b.sort /\ a.at < b.at)

Before(reverse, a, b) ==
  IF a.sort = b.sort THEN a.at < b.at
  ELSE IF reverse THEN a.sort > b.sort ELSE a.sort < b.sort

\* std::sort: any order of the entries in which none comes before an earlier one.
Orders(n) == {p \in [1..n -> 1..n] : \A i, j \in 1..n : p[i] = p[j] => i = j}

End ==
  /\ ~Idle /\ ~Top.calling /\ Top.cursor = NULL
  /\ LET entries == Cells(Top) IN
     \E reverse \in BOOLEAN, p \in Orders(Top.count) :
       /\ \A i, j \in 1..Top.count : i < j => ~Before(reverse, entries[p[j]], entries[p[i]])
       /\ result' = [i \in 1..Top.count |-> entries[p[i]].value]
  /\ sorts' = Under
  /\ offset' = 0
  /\ cell' = IF Under = <<>> THEN <<>> ELSE cell  \* nobody reads it any more
  /\ UNCHANGED <<arr, out, changes>>

\* What a key function does to the array.  One that deletes the entry it has
\* been called for leaves array_foreach with a freed entry: undefined.
Cursors == {sorts[i].cursor : i \in DOMAIN sorts}

Change ==
  /\ InKey /\ changes < MaxChanges
  /\ \/ \E k \in Keys, v \in Values : SetItem(k, v)
     \/ \E v \in Values : Push(v)
     \/ \E k \in Keys : Find(arr, k) \notin Cursors /\ Delete(k)
  /\ changes' = changes + 1
  /\ sorts' = [i \in DOMAIN sorts |-> [sorts[i] EXCEPT !.lasting = @ \cap Live(arr')]]
  /\ UNCHANGED <<offset, cell, result>>

Fillings ==
  UNION {[1..n -> [key : Keys, value : Values]] : n \in 0..Cardinality(Address)}

\* An array that has been filled and is now sorted again and again.
SortInit ==
  /\ \E pairs \in Fillings :
       /\ \A i, j \in DOMAIN pairs : pairs[i].key = pairs[j].key => i = j
       /\ arr = Refill(pairs)
  /\ out = None /\ sorts = <<>> /\ offset = 0 /\ cell = <<>>
  /\ changes = 0 /\ result = <<>>

SortNext ==
  \/ Begin \/ Call \/ Fail \/ End \/ Change
  \/ \E v \in SortValues : Return(v)

SortSpec == SortInit /\ [][SortNext]_sortVars /\ WF_sortVars(SortNext)

----------------------------------------------------------------------------
\* Properties

SortTypeOK ==
  /\ TypeOK
  /\ \A i \in DOMAIN sorts :
       /\ sorts[i].cursor \in Address \cup {NULL}
       /\ sorts[i].count <= sorts[i].reserved
       /\ sorts[i].base + sorts[i].reserved <= offset
       /\ i < Len(sorts) => sorts[i].calling
  /\ changes \in 0..MaxChanges
  /\ result \in Seq(Values)

\* The entry a sort stands at is in the array, whatever its key function has
\* done to the entries around it.
CursorsLive == \A s \in ToSet(sorts) : s.cursor \in Live(arr) \cup {NULL}

\* What a sort returns is what its key function was called with, in the order
\* of what it returned, equal ones in the order of the array; and every entry
\* that was in the array all along, and for which the function did not fail,
\* is there exactly once.
InOrder(reverse, seen, values) ==
  /\ Len(values) = Len(seen)
  /\ \A i \in DOMAIN seen :
       values[1 + Cardinality({j \in DOMAIN seen :
                     \/ seen[j].sort = seen[i].sort /\ j < i
                     \/ IF reverse THEN seen[j].sort > seen[i].sort
                                   ELSE seen[j].sort < seen[i].sort})] = seen[i].value

SortedCopy ==
  [][End => /\ \E reverse \in BOOLEAN : InOrder(reverse, Top.seen, result')
            /\ \A e \in Top.lasting :
                 Cardinality({i \in DOMAIN Top.seen : Top.seen[i].at = e}) = 1]_sortVars

\* A sort ends once its key function leaves the array alone.
SortEnds == ~Idle ~> Idle
=============================================================================
