---------------------------- MODULE ChunkProofs ----------------------------
(***************************************************************************)
(* Chunks is correct for any number of interpreters, names, functions and  *)
(* calls in progress, provided closures stay in the interpreter that made  *)
(* them.                                                                   *)
(***************************************************************************)
EXTENDS Chunks, TLAPS

\* The tables of one interpreter, as a record: T are all compiled functions
\* and C those of this interpreter.
Fields == {"declared", "functions", "slots", "globals", "v2", "lookup", "cache",
           "entered", "version", "replaced"}

DeclaredOK(t) ==
  /\ t.declared \in Seq(Global) /\ Len(t.declared) >= 1 /\ t.declared[1] = Context
  /\ \A j, k \in 1..Len(t.declared) : t.declared[j] = t.declared[k] => j = k

\* The slot of a name is its place in the order of declaration.
LookupOK(t) ==
  \A n \in DOMAIN t.lookup :
    /\ t.lookup[n] \in Nat /\ t.lookup[n] < Len(t.slots) /\ t.lookup[n] < Len(t.declared)
    /\ t.declared[t.lookup[n] + 1] = n

GlobalsOK(t) ==
  /\ t.slots \in Seq(Value) /\ Maps(t.globals, Global, Value)
  /\ \A n \in DOMAIN t.lookup : n \in DOMAIN t.globals =>
       t.slots[t.lookup[n] + 1] = t.globals[n]

\* function_cache differs from instructions only in what was compiled again.
FunctionsOK(t, C) ==
  /\ Maps(t.functions, Function, C) /\ Maps(t.v2, DOMAIN t.functions, C)
  /\ Maps(t.cache, DOMAIN t.functions, C)
  /\ t.replaced \subseteq DOMAIN t.functions
  /\ \A f \in DOMAIN t.cache : t.cache[f] = t.functions[f] \/ f \in t.replaced

TableInv(t, T, C) ==
  /\ DOMAIN t = Fields
  /\ DeclaredOK(t) /\ LookupOK(t) /\ GlobalsOK(t) /\ FunctionsOK(t, C)
  /\ t.version \in 1..MaxVersion /\ Maps(t.entered, T, 1..MaxVersion)

\* What a chunk leaves of the tables it is added to.
Extends(t, u) ==
  /\ \A n \in DOMAIN t.lookup : n \in DOMAIN u.lookup /\ u.lookup[n] = t.lookup[n]
  /\ \A f \in DOMAIN t.functions :
       f \in DOMAIN u.functions /\ (u.functions[f] = t.functions[f] \/ f \in u.replaced)
  /\ t.replaced \subseteq u.replaced
  /\ u.version = t.version /\ u.entered = t.entered

----------------------------------------------------------------------------
\* The inductive invariant

Codes(i) == {c \in DOMAIN text : text[c].owner = i}

Total(f) == DOMAIN f = Interp

TablesOK ==
  /\ Total(declared) /\ Total(lookup) /\ Total(slots) /\ Total(globals)
  /\ Total(functions) /\ Total(v2) /\ Total(cache) /\ Total(version)
  /\ Total(entered) /\ Total(replaced)
  /\ \A i \in Interp : TableInv(Tables(i), DOMAIN text, Codes(i))

TextOK ==
  /\ DOMAIN text \subseteq Code /\ DOMAIN hint = DOMAIN text
  /\ \A c \in DOMAIN text :
       /\ text[c] \in [global : Global, callee : Function, owner : Interp]
       /\ hint[c] \in [version : 0..MaxVersion, global : Int,
                       callee : {NoCode} \cup Codes(text[c].owner)]
       /\ hint[c].global >= MISS

\* c is what name f stands for in i, or the name was compiled again.
NamedBy(i, f, c) ==
  f \in DOMAIN functions[i] /\ (c = functions[i][f] \/ f \in replaced[i])

FrameType == [interp : Interp, code : DOMAIN text,
              how : {"closure", "named", "cached"}, stale : SUBSET Function]

\* Code runs in its own interpreter; stale is what was compiled again when
\* its call was made, and with two calls in progress still is.
FramesOK ==
  /\ frames \in Seq(FrameType) /\ Len(frames) <= MaxDepth
  /\ \A k \in 1..Len(frames) :
       LET fr == frames[k] IN
       /\ text[fr.code].owner = fr.interp
       /\ replaced[fr.interp] \subseteq fr.stale
       /\ fr.how # "closure" => k >= 2 /\ frames[k - 1].interp = fr.interp
       /\ fr.how = "named" => NamedBy(fr.interp, text[frames[k - 1].code].callee, fr.code)

Current(c) == At(entered[text[c].owner], c, 0) = version[text[c].owner]
OnStack(c) == \E k \in 1..Len(frames) : frames[k].code = c

\* The slot an instruction has cached, in code that is running or that was
\* entered since the caches were dropped.
SlotsRemembered ==
  \A c \in DOMAIN text :
    (Current(c) \/ OnStack(c)) /\ hint[c].global >= 0 =>
      /\ text[c].global \in DOMAIN lookup[text[c].owner]
      /\ lookup[text[c].owner][text[c].global] = hint[c].global

\* The function a call site has cached
CalleesCurrent ==
  \A c \in DOMAIN text : Current(c) /\ hint[c].callee # NoCode =>
    NamedBy(text[c].owner, text[c].callee, hint[c].callee)

CalleesRunning ==
  \A k \in 1..Len(frames) :
    LET c == frames[k].code IN
    hint[c].callee # NoCode =>
      /\ text[c].callee \in DOMAIN functions[text[c].owner]
      /\ \/ hint[c].callee = functions[text[c].owner][text[c].callee]
         \/ text[c].callee \in frames[k].stale

IInv == TextOK /\ TablesOK /\ FramesOK /\ SlotsRemembered /\ CalleesCurrent /\ CalleesRunning

----------------------------------------------------------------------------
\* Sequences given as functions

LEMMA FunctionIsSequence ==
  ASSUME NEW S, NEW n \in Nat, NEW f \in [1..n -> S]
  PROVE  f \in Seq(S) /\ Len(f) = n
  OBVIOUS

LEMMA SequenceElement ==
  ASSUME NEW S, NEW s \in Seq(S), NEW j \in 1..Len(s)
  PROVE  s[j] \in S
  OBVIOUS

\* set_global_value leaves slots that are at least as many and differ from
\* the old ones in slot s only.
LEMMA StoredFacts ==
  ASSUME NEW sl \in Seq(Value), NEW s \in Int, NEW v \in Value
  PROVE  /\ Stored(sl, s, v) \in Seq(Value) /\ Len(Stored(sl, s, v)) >= Len(sl)
         /\ \A j \in 1..Len(sl) : j # s + 1 => Stored(sl, s, v)[j] = sl[j]
         /\ s >= 0 => s < Len(Stored(sl, s, v)) /\ Stored(sl, s, v)[s + 1] = v
<1>1. CASE s < 0
  BY <1>1 DEF Stored
<1>2. CASE s >= 0
  <2> DEFINE n == IF s < Len(sl) THEN Len(sl) ELSE s + 1
             f == [j \in 1..n |-> IF j = s + 1 THEN v
                                  ELSE IF j <= Len(sl) THEN sl[j] ELSE None]
  <2>1. Stored(sl, s, v) = f
    BY <1>2 DEF Stored
  <2>2. n \in Nat /\ n >= Len(sl) /\ s < n
    BY <1>2
  <2>3. f \in [1..n -> Value]
    BY <1>2, ChunkAssumption
  <2>4. f \in Seq(Value) /\ Len(f) = n
    BY <2>2, <2>3, FunctionIsSequence
  <2> QED
    BY <2>1, <2>2, <2>4, <1>2
<1> QED
  BY <1>1, <1>2
----------------------------------------------------------------------------
\* Steps of a compile, on the record of tables

LEMMA FreshInv ==
  ASSUME NEW T, NEW C
  PROVE  TableInv(Fresh, T, C)
<1>1. DOMAIN Fresh = Fields
  BY DEF Fresh, Fields
<1>2. DeclaredOK(Fresh)
  BY ChunkAssumption DEF Fresh, DeclaredOK
<1>3. DOMAIN Empty = {}
  BY DEF Empty
<1>4. LookupOK(Fresh) /\ GlobalsOK(Fresh) /\ FunctionsOK(Fresh, C)
  BY <1>3 DEF Fresh, LookupOK, GlobalsOK, FunctionsOK, Maps
<1>5. Fresh.version \in 1..MaxVersion /\ Maps(Fresh.entered, T, 1..MaxVersion)
  BY <1>3, ChunkAssumption DEF Fresh, Maps
<1> QED
  BY <1>1, <1>2, <1>4, <1>5 DEF TableInv

LEMMA TableWeaken ==
  ASSUME NEW t, NEW T, NEW C, NEW T2, NEW C2, T \subseteq T2, C \subseteq C2,
         TableInv(t, T, C)
  PROVE  TableInv(t, T2, C2)
<1>1. FunctionsOK(t, C2)
  BY DEF TableInv, FunctionsOK, Maps
<1> QED
  BY <1>1 DEF TableInv, Maps

SameTables(t, u) ==
  /\ DOMAIN u = Fields /\ u.declared = t.declared /\ u.functions = t.functions
  /\ u.slots = t.slots /\ u.globals = t.globals /\ u.v2 = t.v2 /\ u.lookup = t.lookup
  /\ u.cache = t.cache /\ u.entered = t.entered /\ u.version = t.version
  /\ u.replaced = t.replaced

LEMMA SameTablesInv ==
  ASSUME NEW t, NEW T, NEW C, NEW u, SameTables(t, u), TableInv(t, T, C)
  PROVE  TableInv(u, T, C)
  BY DEF SameTables, TableInv, DeclaredOK, LookupOK, GlobalsOK, FunctionsOK

LEMMA ExtendsTransitive ==
  ASSUME NEW t, NEW u, NEW w, Extends(t, u), Extends(u, w)
  PROVE  Extends(t, w)
<1>1. ASSUME NEW f \in DOMAIN t.functions
      PROVE  f \in DOMAIN w.functions /\ (w.functions[f] = t.functions[f] \/ f \in w.replaced)
  BY <1>1 DEF Extends
<1> QED
  BY <1>1 DEF Extends

Declares(vs) == vs = <<>> \/ \E n \in Global : vs = <<n>>

LEMMA DeclareInv ==
  ASSUME NEW t, NEW T, NEW C, NEW vs, Declares(vs), TableInv(t, T, C)
  PROVE  /\ TableInv(Declare(t, vs), T, C) /\ Extends(t, Declare(t, vs))
         /\ Declare(t, vs).functions = t.functions
<1>1. CASE Clash(t, vs)
  BY <1>1 DEF Declare, Extends
<1>3. CASE ~Clash(t, vs) /\ vs = <<>>
  <2> DEFINE u == Declare(t, vs)
  <2>1. t.declared \o vs = t.declared
    BY <1>3 DEF TableInv, DeclaredOK
  <2>2. SameTables(t, u)
    BY <1>3, <2>1 DEF Declare, TableInv, Fields, SameTables
  <2> QED
    BY <2>2, SameTablesInv DEF SameTables, Extends
<1>2. CASE ~Clash(t, vs) /\ vs # <<>>
  <2>1. PICK n \in Global : vs = <<n>>
    BY <1>2 DEF Declares
  <2> DEFINE u == Declare(t, vs)
             d == t.declared \o vs
  <2>2. u = [t EXCEPT !.declared = d]
    BY <1>2 DEF Declare
  <2>3. DOMAIN t = Fields
    BY DEF TableInv
  <2>4. /\ DOMAIN u = Fields /\ u.declared = d /\ u.functions = t.functions
        /\ u.slots = t.slots /\ u.globals = t.globals /\ u.v2 = t.v2
        /\ u.lookup = t.lookup /\ u.cache = t.cache /\ u.entered = t.entered
        /\ u.version = t.version /\ u.replaced = t.replaced
    BY <2>2, <2>3 DEF Fields
  <2>5. t.declared \in Seq(Global) /\ Len(t.declared) >= 1
    BY DEF TableInv, DeclaredOK
  <2>6. /\ d \in Seq(Global) /\ Len(d) = Len(t.declared) + 1
        /\ \A j \in 1..Len(t.declared) : d[j] = t.declared[j]
        /\ d[Len(t.declared) + 1] = n
    BY <2>1, <2>5
  <2>7. \A j \in 1..Len(t.declared) : t.declared[j] # n
    <3>1. 1 \in DOMAIN vs /\ vs[1] = n
      BY <2>1
    <3> QED
      BY <1>2, <3>1, <2>5 DEF Clash, Names
  <2>8. DeclaredOK(u)
    <3>1. d[1] = Context
      BY <2>5, <2>6 DEF TableInv, DeclaredOK
    <3>2. ASSUME NEW j \in 1..Len(d), NEW k \in 1..Len(d), d[j] = d[k]
          PROVE  j = k
      <4>1. CASE j \in 1..Len(t.declared) /\ k \in 1..Len(t.declared)
        BY <4>1, <3>2, <2>6 DEF TableInv, DeclaredOK
      <4>2. CASE j = Len(t.declared) + 1 \/ k = Len(t.declared) + 1
        BY <4>2, <3>2, <2>5, <2>6, <2>7
      <4> QED
        BY <4>1, <4>2, <2>5, <2>6
    <3> QED
      BY <2>4, <2>5, <2>6, <3>1, <3>2 DEF DeclaredOK
  <2>9. LookupOK(u)
    <3>1. ASSUME NEW m \in DOMAIN t.lookup
          PROVE  /\ t.lookup[m] \in Nat /\ t.lookup[m] < Len(t.slots) /\ t.lookup[m] < Len(d)
                 /\ d[t.lookup[m] + 1] = m
      <4>1. /\ t.lookup[m] \in Nat /\ t.lookup[m] < Len(t.slots)
            /\ t.lookup[m] < Len(t.declared) /\ t.declared[t.lookup[m] + 1] = m
        BY DEF TableInv, LookupOK
      <4>2. t.lookup[m] + 1 \in 1..Len(t.declared)
        BY <4>1, <2>5
      <4> QED
        BY <4>1, <4>2, <2>5, <2>6
    <3> QED
      BY <2>4, <3>1 DEF LookupOK
  <2>10. GlobalsOK(u) /\ FunctionsOK(u, C) /\ u.version \in 1..MaxVersion
         /\ Maps(u.entered, T, 1..MaxVersion)
    BY <2>4 DEF TableInv, GlobalsOK, FunctionsOK
  <2> QED
    BY <2>4, <2>8, <2>9, <2>10 DEF TableInv, Extends
<1> QED
  BY <1>1, <1>2, <1>3

\* A function compiled again is one that function_cache may differ in.
LEMMA DefineInv ==
  ASSUME NEW t, NEW T, NEW C, NEW f \in Function, NEW c \in C, TableInv(t, T, C)
  PROVE  TableInv(Define(t, f, c), T, C) /\ Extends(t, Define(t, f, c))
<1> DEFINE u == Define(t, f, c)
           r == IF f \in DOMAIN t.functions THEN t.replaced \cup {f} ELSE t.replaced
<1>1. DOMAIN t = Fields
  BY DEF TableInv
<1>2. /\ DOMAIN u = Fields /\ u.declared = t.declared /\ u.functions = Set(t.functions, f, c)
      /\ u.slots = t.slots /\ u.globals = t.globals /\ u.v2 = t.v2
      /\ u.lookup = t.lookup /\ u.cache = t.cache /\ u.entered = t.entered
      /\ u.version = t.version /\ u.replaced = r
  BY <1>1 DEF Define, Fields
<1>3. /\ DOMAIN Set(t.functions, f, c) = DOMAIN t.functions \cup {f}
      /\ \A g \in DOMAIN t.functions \cup {f} :
           Set(t.functions, f, c)[g] = IF g = f THEN c ELSE t.functions[g]
  BY DEF Set
<1>4. FunctionsOK(u, C)
  <2>1. FunctionsOK(t, C)
    BY DEF TableInv
  <2>2. Maps(u.functions, Function, C) /\ Maps(u.v2, DOMAIN u.functions, C)
        /\ Maps(u.cache, DOMAIN u.functions, C) /\ u.replaced \subseteq DOMAIN u.functions
    BY <2>1, <1>2, <1>3 DEF FunctionsOK, Maps
  <2>3. \A g \in DOMAIN u.cache : u.cache[g] = u.functions[g] \/ g \in u.replaced
    BY <2>1, <1>2, <1>3 DEF FunctionsOK, Maps
  <2> QED
    BY <2>2, <2>3 DEF FunctionsOK
<1>5. DeclaredOK(u) /\ LookupOK(u) /\ GlobalsOK(u)
  BY <1>2 DEF TableInv, DeclaredOK, LookupOK, GlobalsOK
<1>6. TableInv(u, T, C)
  BY <1>2, <1>4, <1>5 DEF TableInv
<1>7. Extends(t, u)
  BY <1>2, <1>3 DEF Extends
<1> QED
  BY <1>6, <1>7
\* Slots keep their names, and take the values their names have.
LEMMA RebuildInv ==
  ASSUME NEW t, NEW T, NEW C, TableInv(t, T, C)
  PROVE  /\ TableInv(Rebuild(t), T, C) /\ Extends(t, Rebuild(t))
         /\ Rebuild(t).functions = t.functions
<1> DEFINE u == Rebuild(t)
           d == t.declared
           n == Len(d)
           size == IF Len(t.slots) < n THEN n ELSE Len(t.slots)
           l == [x \in Names(d) |-> (CHOOSE j \in 1..n : d[j] = x) - 1]
           sl == [j \in 1..size |->
                    IF j <= n /\ d[j] \in DOMAIN t.globals THEN t.globals[d[j]]
                    ELSE IF j <= Len(t.slots) THEN t.slots[j] ELSE None]
<1>1. DOMAIN t = Fields
  BY DEF TableInv
<1>2. u = [t EXCEPT !.lookup = l, !.slots = sl]
  BY DEF Rebuild
<1>3. /\ DOMAIN u = Fields /\ u.declared = d /\ u.functions = t.functions
      /\ u.slots = sl /\ u.globals = t.globals /\ u.v2 = t.v2
      /\ u.lookup = l /\ u.cache = t.cache /\ u.entered = t.entered
      /\ u.version = t.version /\ u.replaced = t.replaced
  <2> HIDE DEF l, sl, u
  <2> QED
    BY <1>1, <1>2 DEF Fields
<1>4. /\ d \in Seq(Global) /\ n \in Nat /\ DOMAIN d = 1..n
      /\ t.slots \in Seq(Value) /\ Len(t.slots) \in Nat
  BY DEF TableInv, DeclaredOK, GlobalsOK
<1>5. size \in Nat /\ size >= n /\ size >= Len(t.slots)
  BY <1>4
<1>6. sl \in [1..size -> Value]
  <2>1. ASSUME NEW j \in 1..size, NEW w,
               w = IF j <= n /\ d[j] \in DOMAIN t.globals THEN t.globals[d[j]]
                   ELSE IF j <= Len(t.slots) THEN t.slots[j] ELSE None
        PROVE  w \in Value
    <3>1. CASE j <= n /\ d[j] \in DOMAIN t.globals
      BY <3>1, <2>1 DEF TableInv, GlobalsOK, Maps
    <3>2. CASE ~(j <= n /\ d[j] \in DOMAIN t.globals) /\ j <= Len(t.slots)
      BY <3>2, <2>1, <1>4
    <3>3. CASE ~(j <= n /\ d[j] \in DOMAIN t.globals) /\ ~(j <= Len(t.slots))
      BY <3>3, <2>1, ChunkAssumption
    <3> QED
      BY <3>1, <3>2, <3>3
  <2> QED
    BY <2>1
<1>7. sl \in Seq(Value) /\ Len(sl) = size
  <2> HIDE DEF sl, size
  <2> QED
    BY <1>5, <1>6, FunctionIsSequence
<1>8. ASSUME NEW m \in DOMAIN l
      PROVE  l[m] \in 0..(n - 1) /\ d[l[m] + 1] = m
  <2>1. \E j \in 1..n : d[j] = m
    BY <1>4 DEF Names
  <2>2. (CHOOSE j \in 1..n : d[j] = m) \in 1..n /\ d[CHOOSE j \in 1..n : d[j] = m] = m
    BY <2>1
  <2>3. l[m] = (CHOOSE j \in 1..n : d[j] = m) - 1
    OBVIOUS
  <2>4. PICK k : k \in 1..n /\ d[k] = m /\ l[m] = k - 1
    BY <2>2, <2>3
  <2>5. k - 1 \in 0..(n - 1) /\ (k - 1) + 1 = k
    BY <2>4, <1>4
  <2> HIDE DEF l
  <2> QED
    BY <2>4, <2>5
<1>9. ASSUME NEW m \in DOMAIN t.lookup
      PROVE  m \in DOMAIN l /\ l[m] = t.lookup[m]
  <2>1. t.lookup[m] \in Nat /\ t.lookup[m] < n /\ d[t.lookup[m] + 1] = m
    BY DEF TableInv, LookupOK
  <2>2. t.lookup[m] + 1 \in 1..n
    BY <2>1, <1>4
  <2>3. m \in DOMAIN l
    BY <2>1, <2>2, <1>4 DEF Names
  <2>4. l[m] \in 0..(n - 1) /\ d[l[m] + 1] = m
    BY <2>3, <1>8
  <2>5. l[m] + 1 \in 1..n
    BY <2>4, <1>4
  <2>6. l[m] + 1 = t.lookup[m] + 1
    <3> HIDE DEF l
    <3> QED
      BY <2>1, <2>2, <2>4, <2>5 DEF TableInv, DeclaredOK
  <2> HIDE DEF l
  <2> QED
    BY <2>1, <2>3, <2>4, <2>6
<1>10. DeclaredOK(u)
  BY <1>3 DEF TableInv, DeclaredOK
<1>11. LookupOK(u)
  <2> HIDE DEF l, sl, u, size
  <2> QED
    BY <1>3, <1>4, <1>5, <1>7, <1>8 DEF LookupOK
<1>12. GlobalsOK(u)
  <2>1. ASSUME NEW m \in DOMAIN l, m \in DOMAIN t.globals
        PROVE  sl[l[m] + 1] = t.globals[m]
    <3>1. l[m] + 1 \in 1..n /\ d[l[m] + 1] = m
      <4>1. l[m] \in 0..(n - 1) /\ d[l[m] + 1] = m
        BY <1>8
      <4> HIDE DEF l
      <4> QED
        BY <4>1, <1>4
    <3>2. \A j \in 1..n : d[j] \in DOMAIN t.globals => sl[j] = t.globals[d[j]]
      BY <1>5, <1>4
    <3> HIDE DEF l, sl
    <3> QED
      BY <2>1, <3>1, <3>2
  <2>2. Maps(t.globals, Global, Value)
    BY DEF TableInv, GlobalsOK
  <2> HIDE DEF l, sl, u
  <2> QED
    BY <1>3, <1>7, <2>1, <2>2 DEF GlobalsOK
<1>13. FunctionsOK(u, C)
  BY <1>3 DEF TableInv, FunctionsOK
<1>14. TableInv(u, T, C)
  <2> HIDE DEF u
  <2> QED
    BY <1>3, <1>10, <1>11, <1>12, <1>13 DEF TableInv
<1>15. Extends(t, u)
  <2> HIDE DEF u, l
  <2> QED
    BY <1>3, <1>9 DEF Extends
<1> QED
  BY <1>3, <1>14, <1>15

\* Different names have different slots.
LEMMA SlotsDiffer ==
  ASSUME NEW t, LookupOK(t), NEW m \in DOMAIN t.lookup, NEW n \in DOMAIN t.lookup,
         t.lookup[m] = t.lookup[n]
  PROVE  m = n
  BY DEF LookupOK

\* A store to the slot of a name keeps the two stores of variables alike.
LEMMA StoreKeepsGlobals ==
  ASSUME NEW t, LookupOK(t), GlobalsOK(t), NEW n \in Global, NEW v \in Value, NEW s \in Int,
         s = At(t.lookup, n, -1),
         NEW u, u.lookup = t.lookup, u.slots = Stored(t.slots, s, v),
         u.globals = Set(t.globals, n, v), u.declared = t.declared
  PROVE  LookupOK(u) /\ GlobalsOK(u)
<1>1. t.slots \in Seq(Value) /\ Len(t.slots) \in Nat
  BY DEF GlobalsOK
<1>2. /\ u.slots \in Seq(Value) /\ Len(u.slots) >= Len(t.slots)
      /\ \A j \in 1..Len(t.slots) : j # s + 1 => u.slots[j] = t.slots[j]
      /\ s >= 0 => u.slots[s + 1] = v
  BY <1>1, StoredFacts
<1>3. /\ DOMAIN u.globals = DOMAIN t.globals \cup {n}
      /\ \A x \in DOMAIN t.globals \cup {n} : u.globals[x] = IF x = n THEN v ELSE t.globals[x]
  BY DEF Set
<1>4. Maps(u.globals, Global, Value)
  BY <1>3 DEF GlobalsOK, Maps
<1>5. LookupOK(u)
  <2>1. Len(u.slots) \in Nat
    BY <1>2
  <2> QED
    BY <1>1, <1>2, <2>1 DEF LookupOK
<1>6. ASSUME NEW m \in DOMAIN u.lookup, m \in DOMAIN u.globals
      PROVE  u.slots[u.lookup[m] + 1] = u.globals[m]
  <2>1. t.lookup[m] \in Nat /\ t.lookup[m] < Len(t.slots)
    BY DEF LookupOK
  <2>2. CASE m = n
    <3>1. s = t.lookup[m]
      BY <2>2 DEF At
    <3> QED
      BY <2>1, <2>2, <3>1, <1>2, <1>3
  <2>3. CASE m # n
    <3>1. m \in DOMAIN t.globals /\ u.globals[m] = t.globals[m]
      BY <1>3, <1>6, <2>3
    <3>2. t.lookup[m] # s
      <4>1. CASE n \in DOMAIN t.lookup
        BY <4>1, <2>3, SlotsDiffer DEF At
      <4>2. CASE n \notin DOMAIN t.lookup
        BY <4>2, <2>1 DEF At
      <4> QED
        BY <4>1, <4>2
    <3>3. t.lookup[m] + 1 \in 1..Len(t.slots) /\ t.lookup[m] + 1 # s + 1
      BY <2>1, <3>2, <1>1
    <3>4. t.slots[t.lookup[m] + 1] = t.globals[m]
      BY <3>1 DEF GlobalsOK
    <3> QED
      BY <3>1, <3>3, <3>4, <1>2
  <2> QED
    BY <2>2, <2>3
<1> QED
  BY <1>2, <1>4, <1>5, <1>6 DEF GlobalsOK
LEMMA AssignedInv ==
  ASSUME NEW t, NEW T, NEW C, TableInv(t, T, C), NEW n \in Global, NEW v \in Value
  PROVE  /\ TableInv(Assigned(t, n, v), T, C) /\ Extends(t, Assigned(t, n, v))
         /\ Assigned(t, n, v).functions = t.functions
<1> DEFINE u == Assigned(t, n, v)
           s == At(t.lookup, n, -1)
<1>1. DOMAIN t = Fields
  BY DEF TableInv
<1>2. /\ DOMAIN u = Fields /\ u.declared = t.declared /\ u.functions = t.functions
      /\ u.slots = Stored(t.slots, s, v) /\ u.globals = Set(t.globals, n, v) /\ u.v2 = t.v2
      /\ u.lookup = t.lookup /\ u.cache = t.cache /\ u.entered = t.entered
      /\ u.version = t.version /\ u.replaced = t.replaced
  BY <1>1 DEF Assigned, Fields
<1>3. s \in Int
  BY DEF At, TableInv, LookupOK
<1>4. LookupOK(t) /\ GlobalsOK(t)
  BY DEF TableInv
<1>5. LookupOK(u) /\ GlobalsOK(u)
  <2> HIDE DEF u
  <2> QED
    BY <1>2, <1>3, <1>4, StoreKeepsGlobals
<1>6. DeclaredOK(u) /\ FunctionsOK(u, C)
  <2> HIDE DEF u
  <2> QED
    BY <1>2 DEF TableInv, DeclaredOK, FunctionsOK
<1>7. TableInv(u, T, C)
  <2> HIDE DEF u
  <2> QED
    BY <1>2, <1>5, <1>6 DEF TableInv
<1>8. Extends(t, u)
  <2> HIDE DEF u
  <2> QED
    BY <1>2 DEF Extends
<1> QED
  BY <1>2, <1>7, <1>8

LEMMA FinishInv ==
  ASSUME NEW t, NEW T, NEW C, TableInv(t, T, C), NEW ctx \in Value, NEW v \in Value,
         NEW vs, Declares(vs), NEW d \in BOOLEAN, d => vs # <<>>
  PROVE  TableInv(Finish(t, ctx, vs, v, d), T, C) /\ Extends(t, Finish(t, ctx, vs, v, d))
<1> DEFINE r == Rebuild(t)
           a == Assigned(r, Context, ctx)
           built == [a EXCEPT !.v2 = t.functions]
<1>1. TableInv(r, T, C) /\ Extends(t, r) /\ r.functions = t.functions
  BY RebuildInv
<1>2. TableInv(a, T, C) /\ Extends(r, a) /\ a.functions = t.functions
  <2> HIDE DEF r
  <2> QED
    BY <1>1, AssignedInv, ChunkAssumption
<1>3. /\ DOMAIN built = Fields /\ built.declared = a.declared /\ built.functions = a.functions
      /\ built.slots = a.slots /\ built.globals = a.globals /\ built.v2 = t.functions
      /\ built.lookup = a.lookup /\ built.cache = a.cache /\ built.entered = a.entered
      /\ built.version = a.version /\ built.replaced = a.replaced
  <2> HIDE DEF a
  <2> QED
    BY <1>2 DEF TableInv, Fields
<1>4. TableInv(built, T, C) /\ Extends(a, built)
  <2> HIDE DEF a, built
  <2>1. FunctionsOK(built, C)
    BY <1>2, <1>3 DEF TableInv, FunctionsOK, Maps
  <2>2. DeclaredOK(built) /\ LookupOK(built) /\ GlobalsOK(built)
    BY <1>2, <1>3 DEF TableInv, DeclaredOK, LookupOK, GlobalsOK
  <2> QED
    BY <1>2, <1>3, <2>1, <2>2 DEF TableInv, Extends
<1>5. Extends(t, built)
  <2> HIDE DEF r, a, built
  <2> QED
    BY <1>1, <1>2, <1>4, ExtendsTransitive
<1>6. CASE ~d
  <2>1. Finish(t, ctx, vs, v, d) = built
    BY <1>6 DEF Finish
  <2> HIDE DEF built
  <2> QED
    BY <1>4, <1>5, <2>1
<1>7. CASE d
  <2>1. PICK n \in Global : vs = <<n>>
    BY <1>7 DEF Declares
  <2>2. Finish(t, ctx, vs, v, d) = Assigned(built, n, v)
    BY <1>7, <2>1 DEF Finish
  <2> HIDE DEF a, built
  <2>3. TableInv(Assigned(built, n, v), T, C) /\ Extends(built, Assigned(built, n, v))
    BY <1>4, AssignedInv
  <2> QED
    BY <1>5, <2>2, <2>3, ExtendsTransitive
<1> QED
  BY <1>6, <1>7
----------------------------------------------------------------------------
\* A compile, added to the tables or starting afresh

LEMMA InstallFacts ==
  ASSUME TablesOK, NEW i \in Interp, NEW t, NEW T, NEW C, TableInv(t, T, C), Install(i, t)
  PROVE  /\ Total(declared)' /\ Total(lookup)' /\ Total(slots)' /\ Total(globals)'
         /\ Total(functions)' /\ Total(v2)' /\ Total(cache)' /\ Total(version)'
         /\ Total(entered)' /\ Total(replaced)'
         /\ TableInv(Tables(i)', T, C)
         /\ version[i]' = t.version /\ entered[i]' = t.entered /\ lookup[i]' = t.lookup
         /\ functions[i]' = t.functions /\ replaced[i]' = t.replaced
         /\ \A j \in Interp \ {i} : Tables(j)' = Tables(j)
<1>1. /\ Total(declared)' /\ Total(lookup)' /\ Total(slots)' /\ Total(globals)'
      /\ Total(functions)' /\ Total(v2)' /\ Total(cache)' /\ Total(version)'
      /\ Total(entered)' /\ Total(replaced)'
  BY DEF Install, TablesOK, Total
<1>2. /\ declared[i]' = t.declared /\ functions[i]' = t.functions /\ slots[i]' = t.slots
      /\ globals[i]' = t.globals /\ v2[i]' = t.v2 /\ lookup[i]' = t.lookup
      /\ cache[i]' = t.cache /\ entered[i]' = t.entered /\ version[i]' = t.version
      /\ replaced[i]' = t.replaced
  BY DEF Install, TablesOK, Total
<1>3. SameTables(t, Tables(i)')
  BY <1>2 DEF SameTables, Tables, Fields
<1>4. TableInv(Tables(i)', T, C)
  BY <1>3, SameTablesInv
<1>5. \A j \in Interp \ {i} : Tables(j)' = Tables(j)
  BY DEF Install, TablesOK, Total, Tables
<1> QED
  BY <1>1, <1>2, <1>4, <1>5

\* What a chunk does: its tables extend those it is added to, and code
\* compiled earlier stays as it was.
Outcome(i, t, u) ==
  /\ frames = <<>> /\ frames' = <<>>
  /\ Install(i, u) /\ TableInv(u, DOMAIN text', Codes(i)') /\ Extends(t, u)
  /\ TextOK' /\ DOMAIN text \subseteq DOMAIN text'
  /\ \A c \in DOMAIN text : text'[c] = text[c] /\ hint'[c] = hint[c]
  /\ \A c \in DOMAIN text' \ DOMAIN text : text'[c].owner = i

LEMMA ChunkOutcome ==
  ASSUME TextOK, NEW i \in Interp, NEW t, TableInv(t, DOMAIN text, Codes(i)), Chunk(i, t)
  PROVE  \E u : Outcome(i, t, u)
<1>1. frames = <<>> /\ frames' = <<>>
  BY DEF Chunk
<1>2. PICK vs \in {<<>>} \cup {<<n>> : n \in Global \ {Context}},
           v \in Value, ctx \in Value \ {None} :
       \/ /\ \/ Install(i, Declare(t, vs))
             \/ \E d \in {FALSE, vs # <<>>} :
                  ~Clash(t, vs) /\ Install(i, Finish(Declare(t, vs), ctx, vs, v, d))
          /\ UNCHANGED <<text, hint>>
       \/ \E f, h \in Function, g \in Names(t.declared \o vs) \ {Context},
          c \in Code \ DOMAIN text :
            /\ \A d \in Code \ DOMAIN text : c <= d
            /\ text' = Set(text, c, [global |-> g, callee |-> h, owner |-> i])
            /\ hint' = Set(hint, c, NewHint)
            /\ \/ Install(i, Define(t, f, c))
               \/ LET read == Define(Declare(t, vs), f, c) IN
                  /\ ~Clash(t, vs)
                  /\ \/ Install(i, read)
                     \/ \E d \in {FALSE, vs # <<>>} : Install(i, Finish(read, ctx, vs, v, d))
  BY DEF Chunk
<1>3. Declares(vs)
  BY DEF Declares
<1>4. CASE /\ \/ Install(i, Declare(t, vs))
              \/ \E d \in {FALSE, vs # <<>>} :
                   ~Clash(t, vs) /\ Install(i, Finish(Declare(t, vs), ctx, vs, v, d))
           /\ UNCHANGED <<text, hint>>
  <2>1. TextOK' /\ Codes(i)' = Codes(i) /\ DOMAIN text' = DOMAIN text
    BY <1>4 DEF TextOK, Codes
  <2>2. TableInv(Declare(t, vs), DOMAIN text, Codes(i)) /\ Extends(t, Declare(t, vs))
    BY <1>3, DeclareInv
  <2>3. CASE Install(i, Declare(t, vs))
    BY <1>1, <1>4, <2>1, <2>2, <2>3 DEF Outcome
  <2>4. ASSUME NEW d \in {FALSE, vs # <<>>}, Install(i, Finish(Declare(t, vs), ctx, vs, v, d))
        PROVE  \E u : Outcome(i, t, u)
    <3> DEFINE u == Finish(Declare(t, vs), ctx, vs, v, d)
    <3>1. TableInv(u, DOMAIN text, Codes(i)) /\ Extends(Declare(t, vs), u)
      BY <1>3, <2>2, FinishInv
    <3> HIDE DEF u
    <3>2. Extends(t, u)
      BY <2>2, <3>1, ExtendsTransitive
    <3>3. Install(i, u)
      BY <2>4 DEF u
    <3> QED
      BY <1>1, <1>4, <2>1, <3>1, <3>2, <3>3 DEF Outcome
  <2> QED
    BY <1>4, <2>3, <2>4
<1>5. ASSUME NEW f \in Function, NEW h \in Function, NEW g \in Names(t.declared \o vs) \ {Context},
             NEW c \in Code \ DOMAIN text,
             text' = Set(text, c, [global |-> g, callee |-> h, owner |-> i]),
             hint' = Set(hint, c, NewHint),
             \/ Install(i, Define(t, f, c))
             \/ /\ ~Clash(t, vs)
                /\ \/ Install(i, Define(Declare(t, vs), f, c))
                   \/ \E d \in {FALSE, vs # <<>>} :
                        Install(i, Finish(Define(Declare(t, vs), f, c), ctx, vs, v, d))
      PROVE  \E u : Outcome(i, t, u)
  <2>1. g \in Global
    <3>1. t.declared \in Seq(Global)
      BY DEF TableInv, DeclaredOK
    <3>2. vs \in Seq(Global)
      <4>1. CASE vs = <<>>
        BY <4>1
      <4>2. ASSUME NEW n \in Global, vs = <<n>>
            PROVE  vs \in Seq(Global)
        BY <4>2
      <4> QED
        BY <1>3, <4>1, <4>2 DEF Declares
    <3>3. t.declared \o vs \in Seq(Global)
      BY <3>1, <3>2
    <3> QED
      BY <3>3 DEF Names
  <2>2. /\ DOMAIN text' = DOMAIN text \cup {c} /\ DOMAIN hint' = DOMAIN hint \cup {c}
        /\ text'[c] = [global |-> g, callee |-> h, owner |-> i] /\ hint'[c] = NewHint
        /\ \A e \in DOMAIN text : text'[e] = text[e]
        /\ \A e \in DOMAIN hint : hint'[e] = hint[e]
    BY <1>5 DEF Set, TextOK
  <2>3. Codes(i)' = Codes(i) \cup {c} /\ \A j \in Interp \ {i} : Codes(j)' = Codes(j)
    BY <2>2 DEF Codes
  <2>4. TextOK'
    <3>1. NewHint \in [version : 0..MaxVersion, global : Int, callee : {NoCode}]
          /\ NewHint.global >= MISS
      BY ChunkAssumption DEF NewHint, UNKNOWN, MISS, NoCode
    <3>2. DOMAIN text' \subseteq Code /\ DOMAIN hint' = DOMAIN text'
      BY <2>2 DEF TextOK
    <3>3. ASSUME NEW e \in DOMAIN text'
          PROVE  /\ text'[e] \in [global : Global, callee : Function, owner : Interp]
                 /\ hint'[e] \in [version : 0..MaxVersion, global : Int,
                                  callee : {NoCode} \cup Codes(text[e].owner)']
                 /\ hint'[e].global >= MISS
      <4>1. CASE e = c
        BY <4>1, <2>1, <2>2, <3>1
      <4>2. CASE e \in DOMAIN text
        <5>1. /\ text[e] \in [global : Global, callee : Function, owner : Interp]
              /\ hint[e] \in [version : 0..MaxVersion, global : Int,
                              callee : {NoCode} \cup Codes(text[e].owner)]
              /\ hint[e].global >= MISS /\ text'[e] = text[e] /\ hint'[e] = hint[e]
          BY <4>2, <2>2 DEF TextOK
        <5>2. Codes(text[e].owner) \subseteq Codes(text[e].owner)'
          BY <4>2, <2>2, <5>1 DEF Codes
        <5> QED
          BY <5>1, <5>2
      <4> QED
        BY <4>1, <4>2, <2>2
    <3> QED
      BY <3>2, <3>3 DEF TextOK
  <2>5. TableInv(t, DOMAIN text', Codes(i)')
    BY <2>2, <2>3, TableWeaken
  <2>6. c \in Codes(i)'
    BY <2>3
  <2>7. \A u : Install(i, u) /\ TableInv(u, DOMAIN text', Codes(i)') /\ Extends(t, u) => Outcome(i, t, u)
    BY <1>1, <2>2, <2>4 DEF Outcome, TextOK
  <2> DEFINE q == Declare(t, vs)
             r == Define(q, f, c)
  <2>8. CASE Install(i, Define(t, f, c))
    BY <2>5, <2>6, <2>7, <2>8, DefineInv
  <2>9. TableInv(q, DOMAIN text', Codes(i)') /\ Extends(t, q)
    BY <1>3, <2>5, DeclareInv
  <2>10. TableInv(r, DOMAIN text', Codes(i)') /\ Extends(q, r)
    <3> HIDE DEF q
    <3> QED
      BY <2>6, <2>9, DefineInv
  <2>11. Extends(t, r)
    <3> HIDE DEF q, r
    <3> QED
      BY <2>9, <2>10, ExtendsTransitive
  <2>12. CASE Install(i, r)
    BY <2>7, <2>10, <2>11, <2>12
  <2>13. ASSUME NEW d \in {FALSE, vs # <<>>}, Install(i, Finish(r, ctx, vs, v, d))
         PROVE  \E u : Outcome(i, t, u)
    <3> HIDE DEF q, r
    <3> DEFINE u == Finish(r, ctx, vs, v, d)
    <3>1. TableInv(u, DOMAIN text', Codes(i)') /\ Extends(r, u)
      BY <1>3, <2>10, FinishInv
    <3> HIDE DEF u
    <3>2. Extends(t, u)
      BY <2>11, <3>1, ExtendsTransitive
    <3>3. Install(i, u)
      BY <2>13 DEF u
    <3> QED
      BY <2>7, <3>1, <3>2, <3>3
  <2> QED
    BY <1>5, <2>8, <2>12, <2>13
<1> QED
  BY <1>2, <1>4, <1>5
\* A compile keeps the invariant: it drops all hints, or they still name the
\* slots and functions they did.
LEMMA ChunkInv ==
  ASSUME IInv, NEW i \in Interp, NEW t, TableInv(t, DOMAIN text, Codes(i)),
         t.entered = Empty \/ Extends(Tables(i), t), Chunk(i, t)
  PROVE  IInv'
<1>1. TextOK /\ TablesOK /\ FramesOK /\ SlotsRemembered /\ CalleesCurrent
  BY DEF IInv
<1>2. PICK u : Outcome(i, t, u)
  BY <1>1, ChunkOutcome
<1>3. TextOK' /\ frames' = <<>>
  BY <1>2 DEF Outcome
<1>4. /\ Total(declared)' /\ Total(lookup)' /\ Total(slots)' /\ Total(globals)'
      /\ Total(functions)' /\ Total(v2)' /\ Total(cache)' /\ Total(version)'
      /\ Total(entered)' /\ Total(replaced)'
      /\ TableInv(Tables(i)', DOMAIN text', Codes(i)')
      /\ version[i]' = u.version /\ entered[i]' = u.entered /\ lookup[i]' = u.lookup
      /\ functions[i]' = u.functions /\ replaced[i]' = u.replaced
      /\ \A j \in Interp \ {i} : Tables(j)' = Tables(j)
  BY <1>1, <1>2, InstallFacts DEF Outcome
<1>5. ASSUME NEW j \in Interp \ {i}
      PROVE  TableInv(Tables(j)', DOMAIN text', Codes(j)')
  <2>1. DOMAIN text \subseteq DOMAIN text' /\ Codes(j) \subseteq Codes(j)'
    BY <1>2 DEF Outcome, Codes
  <2>2. TableInv(Tables(j), DOMAIN text, Codes(j))
    BY <1>1 DEF TablesOK
  <2> QED
    BY <1>4, <2>1, <2>2, TableWeaken
<1>6. TablesOK'
  BY <1>4, <1>5 DEF TablesOK
<1>7. FramesOK' /\ CalleesRunning' /\ \A c : ~OnStack(c)'
  <2>1. Len(frames') = 0 /\ 0 \in Nat /\ 1..0 = {} /\ frames' \in Seq(FrameType')
    BY <1>3
  <2> QED
    BY <2>1, <1>3, ChunkAssumption DEF FramesOK, CalleesRunning, OnStack
<1>8. ASSUME NEW c \in DOMAIN text', Current(c)'
      PROVE  /\ c \in DOMAIN text /\ Current(c) /\ text'[c] = text[c] /\ hint'[c] = hint[c]
             /\ text[c].owner = i => Extends(Tables(i), u)
  <2> DEFINE o == text'[c].owner
  <2>1. o \in Interp
    BY <1>3 DEF TextOK
  <2>2. version'[o] \in 1..MaxVersion
    BY <1>6, <2>1 DEF TablesOK, TableInv, Tables
  <2>3. c \in DOMAIN entered'[o] /\ entered'[o][c] = version'[o]
    BY <1>8, <2>2, ChunkAssumption DEF Current, At
  <2>4. CASE o = i
    <3>1. c \in DOMAIN u.entered /\ u.entered = t.entered /\ u.version = t.version /\ Extends(t, u)
      BY <1>2, <1>4, <2>3, <2>4 DEF Outcome, Extends
    <3>2. Extends(Tables(i), t)
      BY <3>1 DEF Empty
    <3>3. Extends(Tables(i), u)
      BY <3>1, <3>2, ExtendsTransitive
    <3>4. entered[i] = u.entered /\ version[i] = u.version
      BY <3>3 DEF Extends, Tables
    <3>5. c \in DOMAIN text
      BY <1>1, <3>1, <3>4 DEF TablesOK, TableInv, Tables, Maps
    <3>6. text'[c] = text[c] /\ hint'[c] = hint[c]
      BY <1>2, <3>5 DEF Outcome
    <3>7. Current(c)
      BY <1>4, <2>3, <2>4, <3>4, <3>6 DEF Current, At
    <3> QED
      BY <3>3, <3>5, <3>6, <3>7
  <2>5. CASE o # i
    <3>1. c \in DOMAIN text /\ text'[c] = text[c] /\ hint'[c] = hint[c]
      BY <1>2, <2>5 DEF Outcome
    <3>2. entered'[o] = entered[o] /\ version'[o] = version[o]
      BY <1>4, <2>1, <2>5 DEF Tables
    <3> QED
      BY <2>3, <2>5, <3>1, <3>2 DEF Current, At
  <2> QED
    BY <2>4, <2>5
<1>9. ASSUME NEW j \in Interp \ {i}
      PROVE  lookup'[j] = lookup[j] /\ functions'[j] = functions[j] /\ replaced'[j] = replaced[j]
  <2>1. /\ Tables(j)'.lookup = lookup'[j] /\ Tables(j)'.functions = functions'[j]
        /\ Tables(j)'.replaced = replaced'[j]
    BY DEF Tables
  <2>2. /\ Tables(j).lookup = lookup[j] /\ Tables(j).functions = functions[j]
        /\ Tables(j).replaced = replaced[j]
    BY DEF Tables
  <2> QED
    BY <1>4, <2>1, <2>2
<1>10. SlotsRemembered'
  <2> SUFFICES ASSUME NEW c \in DOMAIN text', Current(c)', hint'[c].global >= 0
               PROVE  /\ text'[c].global \in DOMAIN lookup'[text'[c].owner]
                      /\ lookup'[text'[c].owner][text'[c].global] = hint'[c].global
    BY <1>7 DEF SlotsRemembered
  <2>1. /\ c \in DOMAIN text /\ Current(c) /\ text'[c] = text[c] /\ hint'[c] = hint[c]
        /\ text[c].owner = i => Extends(Tables(i), u)
    BY <1>8
  <2> DEFINE o == text[c].owner
             n == text[c].global
  <2>2. n \in DOMAIN lookup[o] /\ lookup[o][n] = hint[c].global
    BY <1>1, <2>1 DEF SlotsRemembered
  <2>3. CASE o = i
    BY <1>4, <2>1, <2>2, <2>3 DEF Extends, Tables
  <2>4. CASE o # i
    BY <1>1, <1>9, <2>1, <2>2, <2>4 DEF TextOK
  <2> QED
    BY <2>3, <2>4
<1>11. CalleesCurrent'
  <2> SUFFICES ASSUME NEW c \in DOMAIN text', Current(c)', hint'[c].callee # NoCode
               PROVE  NamedBy(text[c].owner, text[c].callee, hint[c].callee)'
    BY DEF CalleesCurrent
  <2>1. /\ c \in DOMAIN text /\ Current(c) /\ text'[c] = text[c] /\ hint'[c] = hint[c]
        /\ text[c].owner = i => Extends(Tables(i), u)
    BY <1>8
  <2>2. NamedBy(text[c].owner, text[c].callee, hint[c].callee)
    BY <1>1, <2>1 DEF CalleesCurrent
  <2>3. CASE text[c].owner = i
    BY <1>4, <2>1, <2>2, <2>3 DEF NamedBy, Extends, Tables
  <2>4. CASE text[c].owner # i
    BY <1>1, <1>9, <2>1, <2>2, <2>4 DEF NamedBy, TextOK
  <2> QED
    BY <2>3, <2>4
<1> QED
  BY <1>3, <1>6, <1>7, <1>10, <1>11 DEF IInv

LEMMA CompileInv ==
  ASSUME IInv, NEW i \in Interp, Compile(i)
  PROVE  IInv'
<1>1. TableInv(Fresh, DOMAIN text, Codes(i)) /\ Fresh.entered = Empty
  BY FreshInv DEF Fresh
<1> QED
  BY <1>1, ChunkInv DEF Compile

LEMMA CompileAppendInv ==
  ASSUME IInv, NEW i \in Interp, CompileAppend(i)
  PROVE  IInv'
<1>1. TableInv(Tables(i), DOMAIN text, Codes(i))
  BY DEF IInv, TablesOK
<1>2. Extends(Tables(i), Tables(i))
  BY DEF Extends
<1> QED
  BY <1>1, <1>2, ChunkInv DEF CompileAppend
----------------------------------------------------------------------------
\* Calls

\* The calls below some point of the stack
Prefix(below) ==
  /\ below \in Seq(FrameType) /\ Len(below) <= Len(frames)
  /\ \A k \in 1..Len(below) : below[k] = frames[k]

\* A name resolves to the function it stands for, or was compiled again.
LEMMA ResolvedNamed ==
  ASSUME TablesOK, NEW i \in Interp, NEW f, Resolved(i, f) # NoCode
  PROVE  NamedBy(i, f, Resolved(i, f)) /\ Resolved(i, f) \in Codes(i)
<1>1. FunctionsOK(Tables(i), Codes(i))
  BY DEF TablesOK, TableInv
<1>2. /\ Maps(functions[i], Function, Codes(i)) /\ Maps(cache[i], DOMAIN functions[i], Codes(i))
      /\ \A g \in DOMAIN cache[i] : cache[i][g] = functions[i][g] \/ g \in replaced[i]
  BY <1>1 DEF FunctionsOK, Tables
<1>3. CASE f \in DOMAIN cache[i]
  BY <1>2, <1>3 DEF Resolved, At, NamedBy, Maps
<1>4. CASE f \notin DOMAIN cache[i] /\ f \in DOMAIN functions[i]
  BY <1>2, <1>4 DEF Resolved, At, NamedBy, Maps
<1>5. CASE f \notin DOMAIN cache[i] /\ f \notin DOMAIN functions[i]
  BY <1>5 DEF Resolved, At
<1> QED
  BY <1>3, <1>4, <1>5

LEMMA VersionRange ==
  ASSUME TablesOK, NEW i \in Interp
  PROVE  version[i] \in 1..MaxVersion /\ version[i] \in 0..MaxVersion
<1>1. Tables(i).version = version[i]
  BY DEF Tables
<1>2. Tables(i).version \in 1..MaxVersion
  BY DEF TablesOK, TableInv
<1> QED
  BY <1>1, <1>2, ChunkAssumption

\* Entering a function keeps the tables in order.
LEMMA EnterTables ==
  ASSUME TextOK, TablesOK, NEW i \in Interp, NEW c \in Codes(i), NEW below, NEW how,
         Enter(below, i, c, how),
         \/ UNCHANGED cache
         \/ \E f : cache' = [cache EXCEPT ![i] = Set(@, f, c)] /\ NamedBy(i, f, c)
  PROVE  TablesOK'
<1>1. /\ UNCHANGED <<declared, lookup, slots, globals, functions, v2, version, text, replaced>>
      /\ entered' = entered \/ entered' = [entered EXCEPT ![i] = Set(@, c, version[i])]
  BY DEF Enter
<1>2. /\ Total(declared)' /\ Total(lookup)' /\ Total(slots)' /\ Total(globals)'
      /\ Total(functions)' /\ Total(v2)' /\ Total(cache)' /\ Total(version)'
      /\ Total(entered)' /\ Total(replaced)'
  BY <1>1 DEF TablesOK, Total
<1>3. Codes(i)' = Codes(i) /\ \A j \in Interp : Codes(j)' = Codes(j)
  BY <1>1 DEF Codes
<1>4. ASSUME NEW j \in Interp
      PROVE  TableInv(Tables(j)', DOMAIN text', Codes(j)')
  <2> DEFINE t == Tables(j)
             u == Tables(j)'
  <2>1. /\ DOMAIN u = Fields /\ u.declared = t.declared /\ u.functions = t.functions
        /\ u.slots = t.slots /\ u.globals = t.globals /\ u.v2 = t.v2 /\ u.lookup = t.lookup
        /\ u.version = t.version /\ u.replaced = t.replaced
        /\ u.cache = cache'[j] /\ u.entered = entered'[j]
        /\ t.cache = cache[j] /\ t.entered = entered[j]
        /\ t.version = version[j] /\ t.functions = functions[j] /\ t.replaced = replaced[j]
    BY <1>1 DEF Tables, Fields
  <2>2. TableInv(t, DOMAIN text, Codes(j))
    BY DEF TablesOK
  <2>3. Maps(entered'[j], DOMAIN text, 1..MaxVersion)
    <3>1. Maps(entered[j], DOMAIN text, 1..MaxVersion) /\ version[j] \in 1..MaxVersion
      BY <2>1, <2>2 DEF TableInv
    <3>2. entered'[j] = entered[j] \/ (j = i /\ entered'[j] = Set(entered[j], c, version[j]))
      BY <1>1 DEF TablesOK, Total
    <3>3. c \in DOMAIN text
      BY DEF Codes
    <3> QED
      BY <3>1, <3>2, <3>3 DEF Maps, Set
  <2>4. /\ Maps(cache'[j], DOMAIN functions[j], Codes(j))
        /\ \A f \in DOMAIN cache'[j] : cache'[j][f] = functions[j][f] \/ f \in replaced[j]
    <3>1. /\ Maps(cache[j], DOMAIN functions[j], Codes(j))
          /\ \A f \in DOMAIN cache[j] : cache[j][f] = functions[j][f] \/ f \in replaced[j]
      BY <2>1, <2>2 DEF TableInv, FunctionsOK
    <3>2. CASE cache'[j] = cache[j]
      BY <3>1, <3>2
    <3>3. ASSUME NEW f, j = i, cache'[j] = Set(cache[j], f, c), NamedBy(i, f, c)
          PROVE  /\ Maps(cache'[j], DOMAIN functions[j], Codes(j))
                 /\ \A g \in DOMAIN cache'[j] : cache'[j][g] = functions[j][g] \/ g \in replaced[j]
      BY <3>1, <3>3 DEF Maps, Set, NamedBy
    <3>4. cache'[j] = cache[j] \/ \E f : j = i /\ cache'[j] = Set(cache[j], f, c) /\ NamedBy(i, f, c)
      BY DEF TablesOK, Total
    <3> QED
      BY <3>2, <3>3, <3>4
  <2> HIDE DEF t, u
  <2>5. FunctionsOK(u, Codes(j))
    BY <2>1, <2>2, <2>4 DEF TableInv, FunctionsOK
  <2>6. DeclaredOK(u) /\ LookupOK(u) /\ GlobalsOK(u)
    BY <2>1, <2>2 DEF TableInv, DeclaredOK, LookupOK, GlobalsOK
  <2>7. TableInv(u, DOMAIN text, Codes(j))
    BY <2>1, <2>2, <2>3, <2>5, <2>6 DEF TableInv
  <2> QED
    BY <1>1, <1>3, <2>7 DEF u
<1> QED
  BY <1>2, <1>4 DEF TablesOK

\* Entering a function drops its hints, unless they were made with the tables
\* as they are.
LEMMA EnterInv ==
  ASSUME IInv, NEW i \in Interp, NEW c \in Codes(i), NEW below,
         NEW how \in {"closure", "named", "cached"},
         Prefix(below), Enter(below, i, c, how),
         how # "closure" => Len(below) >= 1 /\ below[Len(below)].interp = i,
         how = "named" => NamedBy(i, text[below[Len(below)].code].callee, c),
         \/ UNCHANGED cache
         \/ \E f : cache' = [cache EXCEPT ![i] = Set(@, f, c)] /\ NamedBy(i, f, c)
  PROVE  IInv'
<1>1. TextOK /\ TablesOK /\ FramesOK /\ SlotsRemembered /\ CalleesCurrent /\ CalleesRunning
  BY DEF IInv
<1>2. /\ UNCHANGED <<declared, lookup, slots, globals, functions, v2, version, text, replaced>>
      /\ Len(below) < MaxDepth
      /\ frames' = Append(below, [interp |-> i, code |-> c, how |-> how, stale |-> replaced[i]])
  BY DEF Enter
<1>3. TablesOK'
  BY <1>1, EnterTables
<1>4. c \in DOMAIN text /\ text[c].owner = i
  BY DEF Codes
<1>5. \/ Current(c) /\ hint' = hint /\ entered' = entered
      \/ /\ hint' = [hint EXCEPT ![c] = [NewHint EXCEPT !.version = version[i]]]
         /\ entered' = [entered EXCEPT ![i] = Set(@, c, version[i])]
  BY <1>4 DEF Enter, Current
<1>6. /\ DOMAIN hint' = DOMAIN text
      /\ \A e \in DOMAIN text : e # c => hint'[e] = hint[e]
      /\ \/ Current(c) /\ hint'[c] = hint[c]
         \/ hint'[c] = [version |-> version[i], global |-> UNKNOWN, callee |-> NoCode]
  BY <1>1, <1>4, <1>5 DEF TextOK, NewHint
<1>7. TextOK'
  <2>1. version[i] \in 0..MaxVersion
    BY <1>1, VersionRange
  <2>2. \A j \in Interp : Codes(j)' = Codes(j)
    BY <1>2 DEF Codes
  <2>3. ASSUME NEW e \in DOMAIN text
        PROVE  /\ hint'[e] \in [version : 0..MaxVersion, global : Int,
                                callee : {NoCode} \cup Codes(text[e].owner)]
               /\ hint'[e].global >= MISS
    <3>1. /\ hint[e] \in [version : 0..MaxVersion, global : Int,
                           callee : {NoCode} \cup Codes(text[e].owner)]
          /\ hint[e].global >= MISS
      BY <1>1 DEF TextOK
    <3> QED
      BY <1>6, <2>1, <3>1 DEF UNKNOWN, MISS
  <2> QED
    BY <1>1, <1>2, <1>6, <2>2, <2>3 DEF TextOK
<1>8. /\ Len(below) \in Nat /\ Len(frames') = Len(below) + 1
      /\ \A k \in 1..Len(below) : frames'[k] = below[k] /\ frames'[k] = frames[k] /\ k \in 1..Len(frames)
      /\ frames'[Len(below) + 1] = [interp |-> i, code |-> c, how |-> how, stale |-> replaced[i]]
  BY <1>1, <1>2 DEF Prefix, FramesOK
<1>9. FramesOK'
  <2>1. FrameType' = FrameType
    BY <1>2 DEF FrameType
  <2>2. replaced[i] \subseteq Function
    BY <1>1 DEF TablesOK, TableInv, FunctionsOK, Maps, Tables
  <2>3. [interp |-> i, code |-> c, how |-> how, stale |-> replaced[i]] \in FrameType
    BY <1>4, <2>2 DEF FrameType
  <2>4. frames' \in Seq(FrameType)
    BY <1>2, <2>3 DEF Prefix
  <2>5. Len(frames') <= MaxDepth
    BY <1>2, <1>8, ChunkAssumption
  <2>6. ASSUME NEW k \in 1..Len(frames')
        PROVE  /\ text[frames'[k].code].owner = frames'[k].interp
               /\ replaced[frames'[k].interp] \subseteq frames'[k].stale
               /\ frames'[k].how # "closure" => k >= 2 /\ frames'[k - 1].interp = frames'[k].interp
               /\ frames'[k].how = "named" =>
                    NamedBy(frames'[k].interp, text[frames'[k - 1].code].callee, frames'[k].code)
    <3>1. CASE k \in 1..Len(below)
      <4>1. frames'[k] = frames[k] /\ k \in 1..Len(frames)
        BY <1>8, <3>1
      <4>2. k >= 2 => frames'[k - 1] = frames[k - 1]
        BY <1>8, <3>1
      <4> QED
        BY <1>1, <4>1, <4>2 DEF FramesOK
    <3>2. CASE k = Len(below) + 1
      <4>1. frames'[k] = [interp |-> i, code |-> c, how |-> how, stale |-> replaced[i]]
        BY <1>8, <3>2
      <4>2. how # "closure" => k >= 2 /\ frames'[k - 1] = below[Len(below)]
        BY <1>8, <3>2
      <4> QED
        BY <1>4, <4>1, <4>2
    <3> QED
      BY <1>8, <3>1, <3>2
  <2>7. \A j, f, e : NamedBy(j, f, e)' = NamedBy(j, f, e)
    BY <1>2 DEF NamedBy
  <2> QED
    BY <1>2, <2>1, <2>4, <2>5, <2>6 DEF FramesOK, NamedBy
<1>10. ASSUME NEW e \in DOMAIN text, e # c
       PROVE  (Current(e)' => Current(e)) /\ (OnStack(e)' => OnStack(e))
  <2>1. OnStack(e)' => OnStack(e)
    BY <1>8, <1>10 DEF OnStack
  <2>2. text[e].owner \in Interp
    BY <1>1 DEF TextOK
  <2>3. At(entered'[text[e].owner], e, 0) = At(entered[text[e].owner], e, 0)
    BY <1>1, <1>5, <1>10, <2>2 DEF TablesOK, Total, At, Set
  <2> QED
    BY <1>2, <2>1, <2>3 DEF Current
<1>11. SlotsRemembered'
  <2> SUFFICES ASSUME NEW e \in DOMAIN text, (Current(e) \/ OnStack(e))', hint'[e].global >= 0
               PROVE  /\ text[e].global \in DOMAIN lookup[text[e].owner]
                      /\ lookup[text[e].owner][text[e].global] = hint'[e].global
    BY <1>2 DEF SlotsRemembered
  <2>1. CASE e # c
    BY <1>1, <1>6, <1>10, <2>1 DEF SlotsRemembered
  <2>2. CASE e = c
    BY <1>1, <1>6, <2>2 DEF SlotsRemembered, UNKNOWN
  <2> QED
    BY <2>1, <2>2
<1>12. CalleesCurrent'
  <2> SUFFICES ASSUME NEW e \in DOMAIN text, Current(e)', hint'[e].callee # NoCode
               PROVE  NamedBy(text[e].owner, text[e].callee, hint'[e].callee)
    BY <1>2 DEF CalleesCurrent, NamedBy
  <2>1. CASE e # c
    BY <1>1, <1>6, <1>10, <2>1 DEF CalleesCurrent
  <2>2. CASE e = c
    BY <1>1, <1>6, <2>2 DEF CalleesCurrent
  <2> QED
    BY <2>1, <2>2
<1>13. CalleesRunning'
  <2> SUFFICES ASSUME NEW k \in 1..Len(frames'), NEW e, e = frames'[k].code, hint'[e].callee # NoCode
               PROVE  /\ text[e].callee \in DOMAIN functions[text[e].owner]
                      /\ \/ hint'[e].callee = functions[text[e].owner][text[e].callee]
                         \/ text[e].callee \in frames'[k].stale
    BY <1>2 DEF CalleesRunning
  <2>1. CASE k \in 1..Len(below)
    <3>1. frames'[k] = frames[k] /\ k \in 1..Len(frames) /\ frames[k] \in FrameType
      BY <1>1, <1>8, <2>1 DEF FramesOK
    <3>2. e \in DOMAIN text
      BY <3>1 DEF FrameType
    <3>3. hint'[e] = hint[e]
      BY <1>6, <3>2
    <3> QED
      BY <1>1, <3>1, <3>3 DEF CalleesRunning
  <2>2. CASE k = Len(below) + 1
    <3>1. e = c /\ frames'[k].stale = replaced[i]
      BY <1>8, <2>2
    <3>2. Current(c) /\ hint'[c] = hint[c]
      BY <1>6, <3>1
    <3>3. NamedBy(i, text[c].callee, hint[c].callee)
      BY <1>1, <1>4, <3>1, <3>2 DEF CalleesCurrent
    <3> QED
      BY <1>4, <3>1, <3>2, <3>3 DEF NamedBy
  <2> QED
    BY <1>8, <2>1, <2>2
<1> QED
  BY <1>3, <1>7, <1>9, <1>11, <1>12, <1>13 DEF IInv
LEMMA ClosureInv ==
  ASSUME ~Crossing, IInv, NEW i \in Interp, NEW c \in DOMAIN text, Closure(i, c)
  PROVE  IInv'
<1>1. c \in Codes(i) /\ Enter(frames, i, c, "closure") /\ UNCHANGED cache
  BY DEF Closure, Codes
<1>2. Prefix(frames)
  BY DEF IInv, FramesOK, Prefix
<1> QED
  BY <1>1, <1>2, EnterInv

LEMMA CallByNameInv ==
  ASSUME IInv, NEW i \in Interp, NEW below, NEW f, Prefix(below), Len(below) >= 1,
         below[Len(below)].interp = i, f = text[below[Len(below)].code].callee,
         CallByName(below, i, f)
  PROVE  IInv'
<1>1. TablesOK
  BY DEF IInv
<1> DEFINE c == Resolved(i, f)
<1>2. /\ c # NoCode /\ cache' = [cache EXCEPT ![i] = Set(@, f, c)]
      /\ Enter(below, i, c, "named")
  BY DEF CallByName
<1>3. NamedBy(i, f, c) /\ c \in Codes(i)
  BY <1>1, <1>2, ResolvedNamed
<1> HIDE DEF c
<1> QED
  BY <1>2, <1>3, EnterInv

\* The call on top of the stack
LEMMA TopFacts ==
  ASSUME TextOK, FramesOK, Running
  PROVE  /\ Len(frames) \in Nat /\ Len(frames) \in 1..Len(frames) /\ Top \in FrameType
         /\ Here \in Interp /\ Top.code \in DOMAIN text /\ text[Top.code].owner = Here
         /\ text[Top.code].global \in Global /\ text[Top.code].callee \in Function
         /\ OnStack(Top.code)
<1>1. Len(frames) \in Nat /\ Len(frames) \in 1..Len(frames) /\ Top \in FrameType
  BY DEF FramesOK, Running, Top
<1>2. text[Top.code].owner = Here /\ Top.code \in DOMAIN text /\ Here \in Interp
  BY <1>1 DEF FramesOK, FrameType, Top, Here
<1> QED
  BY <1>1, <1>2 DEF TextOK, OnStack, Top

LEMMA CallInv ==
  ASSUME IInv, Call
  PROVE  IInv'
<1>1. TextOK /\ TablesOK /\ FramesOK /\ Running
  BY DEF IInv, Call
<1>2. Prefix(frames)
  BY <1>1 DEF FramesOK, Prefix
<1>3. /\ Len(frames) >= 1 /\ frames[Len(frames)] = Top /\ Here = Top.interp
      /\ Here \in Interp /\ Top.code \in DOMAIN text /\ text[Top.code].owner = Here
  BY <1>1, TopFacts DEF Top, Here
<1>4. CASE Now.callee # NoCode /\ Enter(frames, Here, Now.callee, "cached") /\ UNCHANGED cache
  <2>1. Now.callee \in Codes(Here)
    BY <1>1, <1>3, <1>4 DEF TextOK, Now
  <2> QED
    BY <1>2, <1>3, <1>4, <2>1, EnterInv
<1>5. CASE Now.callee = NoCode /\ CallByName(frames, Here, text[Top.code].callee)
  BY <1>2, <1>3, <1>5, CallByNameInv
<1> QED
  BY <1>4, <1>5 DEF Call

\* The calls left when one is over; its caller's site may have been filled.
LEMMA PopInv ==
  ASSUME IInv, Prefix(frames'), UNCHANGED <<tables, version, entered, text>>,
         \/ UNCHANGED hint
         \/ \E k \in 1..Len(frames) : \E e :
              /\ hint' = [hint EXCEPT ![frames[k].code].callee = e]
              /\ NamedBy(frames[k].interp, text[frames[k].code].callee, e)
              /\ e \in Codes(frames[k].interp)
  PROVE  IInv'
<1>1. TextOK /\ TablesOK /\ FramesOK /\ SlotsRemembered /\ CalleesCurrent /\ CalleesRunning
  BY DEF IInv
<1>2. /\ UNCHANGED <<declared, lookup, slots, globals, functions, v2, cache, replaced, version,
                    entered, text>>
      /\ FrameType' = FrameType /\ \A i : Codes(i)' = Codes(i)
  BY DEF tables, FrameType, Codes
<1>3. TablesOK'
  BY <1>1, <1>2 DEF TablesOK, Total, Tables
<1>4. /\ DOMAIN hint' = DOMAIN text
      /\ \A c \in DOMAIN text :
           \/ hint'[c] = hint[c]
           \/ \E e : /\ hint'[c] = [hint[c] EXCEPT !.callee = e]
                    /\ NamedBy(text[c].owner, text[c].callee, e) /\ e \in Codes(text[c].owner)
  <2>1. ASSUME NEW k \in 1..Len(frames), NEW e,
               hint' = [hint EXCEPT ![frames[k].code].callee = e],
               NamedBy(frames[k].interp, text[frames[k].code].callee, e),
               e \in Codes(frames[k].interp)
        PROVE  /\ DOMAIN hint' = DOMAIN text
               /\ \A c \in DOMAIN text :
                    \/ hint'[c] = hint[c]
                    \/ /\ hint'[c] = [hint[c] EXCEPT !.callee = e]
                       /\ NamedBy(text[c].owner, text[c].callee, e) /\ e \in Codes(text[c].owner)
    BY <1>1, <2>1 DEF TextOK, FramesOK
  <2>2. CASE UNCHANGED hint
    BY <1>1, <2>2 DEF TextOK
  <2> QED
    BY <2>1, <2>2
<1>5. ASSUME NEW c \in DOMAIN text
      PROVE  /\ hint'[c] \in [version : 0..MaxVersion, global : Int,
                              callee : {NoCode} \cup Codes(text[c].owner)]
             /\ hint'[c].global >= MISS
             /\ hint'[c].global = hint[c].global
             /\ \/ hint'[c].callee = hint[c].callee
                \/ NamedBy(text[c].owner, text[c].callee, hint'[c].callee)
  <2>1. /\ hint[c] \in [version : 0..MaxVersion, global : Int,
                        callee : {NoCode} \cup Codes(text[c].owner)]
        /\ hint[c].global >= MISS
    BY <1>1 DEF TextOK
  <2> QED
    BY <1>4, <2>1
<1>6. TextOK'
  BY <1>1, <1>2, <1>4, <1>5 DEF TextOK
<1>7. /\ Len(frames') \in Nat /\ Len(frames') <= Len(frames)
      /\ \A k \in 1..Len(frames') : frames'[k] = frames[k] /\ k \in 1..Len(frames)
  BY <1>1 DEF Prefix, FramesOK
<1>8. FramesOK'
  <2>1. frames' \in Seq(FrameType) /\ Len(frames') <= MaxDepth
    BY <1>1, <1>7, ChunkAssumption DEF Prefix, FramesOK
  <2>2. ASSUME NEW k \in 1..Len(frames')
        PROVE  /\ text[frames'[k].code].owner = frames'[k].interp
               /\ replaced[frames'[k].interp] \subseteq frames'[k].stale
               /\ frames'[k].how # "closure" => k >= 2 /\ frames'[k - 1].interp = frames'[k].interp
               /\ frames'[k].how = "named" =>
                    NamedBy(frames'[k].interp, text[frames'[k - 1].code].callee, frames'[k].code)
    <3>1. k >= 2 => frames'[k - 1] = frames[k - 1]
      BY <1>7
    <3> QED
      BY <1>1, <1>7, <3>1 DEF FramesOK
  <2> QED
    BY <1>2, <2>1, <2>2 DEF FramesOK, NamedBy
<1>9. \A c : (OnStack(c)' => OnStack(c)) /\ (Current(c)' => Current(c))
  BY <1>2, <1>7 DEF OnStack, Current, At
<1>10. SlotsRemembered'
  BY <1>1, <1>2, <1>5, <1>9 DEF SlotsRemembered
<1>11. CalleesCurrent'
  BY <1>1, <1>2, <1>5, <1>9 DEF CalleesCurrent, NamedBy
<1>12. CalleesRunning'
  <2> SUFFICES ASSUME NEW k \in 1..Len(frames'), NEW c, c = frames'[k].code, hint'[c].callee # NoCode
               PROVE  /\ text[c].callee \in DOMAIN functions[text[c].owner]
                      /\ \/ hint'[c].callee = functions[text[c].owner][text[c].callee]
                         \/ text[c].callee \in frames'[k].stale
    BY <1>2 DEF CalleesRunning
  <2>1. /\ frames'[k] = frames[k] /\ k \in 1..Len(frames) /\ frames[k] \in FrameType
        /\ text[c].owner = frames[k].interp /\ replaced[text[c].owner] \subseteq frames[k].stale
    BY <1>1, <1>7 DEF FramesOK
  <2>2. c \in DOMAIN text
    BY <2>1 DEF FrameType
  <2>3. CASE hint'[c].callee = hint[c].callee
    BY <1>1, <2>1, <2>3 DEF CalleesRunning
  <2>4. CASE NamedBy(text[c].owner, text[c].callee, hint'[c].callee)
    BY <2>1, <2>4 DEF NamedBy
  <2> QED
    BY <1>5, <2>2, <2>3, <2>4
<1> QED
  BY <1>3, <1>6, <1>8, <1>10, <1>11, <1>12 DEF IInv

LEMMA CutPrefix ==
  ASSUME FramesOK, NEW m \in 0..Len(frames)
  PROVE  /\ Prefix(SubSeq(frames, 1, m)) /\ Len(SubSeq(frames, 1, m)) = m
         /\ \A k \in 1..m : SubSeq(frames, 1, m)[k] = frames[k]
  BY DEF FramesOK, Prefix

LEMMA ReturnInv ==
  ASSUME IInv, Return
  PROVE  IInv'
<1>1. TextOK /\ FramesOK /\ Running
  BY DEF IInv, Return
<1>2. Len(frames) \in Nat /\ Len(frames) \in 1..Len(frames) /\ Top = frames[Len(frames)]
  BY <1>1, TopFacts DEF Top
<1>3. Len(frames) - 1 \in 0..Len(frames)
  BY <1>2
<1>4. Prefix(frames') /\ UNCHANGED <<tables, version, entered, text>>
  BY <1>1, <1>3, CutPrefix DEF Return
<1>5. CASE Top.how # "named"
  <2>1. UNCHANGED hint
    BY <1>5 DEF Return
  <2> QED
    BY <1>4, <2>1, PopInv
<1>6. CASE Top.how = "named"
  <2> DEFINE k == Len(frames) - 1
  <2>1. /\ k \in 1..Len(frames) /\ frames[k].interp = Top.interp
        /\ NamedBy(Top.interp, text[frames[k].code].callee, Top.code)
    BY <1>1, <1>2, <1>6 DEF FramesOK
  <2>2. Top.code \in Codes(Top.interp)
    BY <1>1, TopFacts DEF Codes, Here
  <2>3. hint' = [hint EXCEPT ![frames[k].code].callee = Top.code]
    BY <1>6 DEF Return
  <2> HIDE DEF k
  <2> QED
    BY <1>4, <2>1, <2>2, <2>3, PopInv
<1> QED
  BY <1>5, <1>6

LEMMA FailInv ==
  ASSUME IInv, Fail
  PROVE  IInv'
<1>1. TextOK /\ FramesOK
  BY DEF IInv
<1>2. PICK k \in DOMAIN frames :
        \/ /\ frames[k].how = "closure" /\ frames' = Below(k)
           /\ UNCHANGED <<tables, version, entered, text, hint>>
        \/ /\ frames[k].how = "cached"
           /\ CallByName(Below(k), frames[k].interp, text[frames[k - 1].code].callee)
  BY DEF Fail
<1>3. k \in 1..Len(frames) /\ k - 1 \in 0..Len(frames)
  BY <1>1 DEF FramesOK
<1>4. Prefix(Below(k)) /\ Len(Below(k)) = k - 1 /\ \A j \in 1..(k - 1) : Below(k)[j] = frames[j]
  BY <1>1, <1>3, CutPrefix DEF Below
<1>5. CASE /\ frames[k].how = "closure" /\ frames' = Below(k)
           /\ UNCHANGED <<tables, version, entered, text, hint>>
  <2>1. Prefix(frames')
    BY <1>4, <1>5
  <2> QED
    BY <1>5, <2>1, PopInv
<1>6. CASE /\ frames[k].how = "cached"
           /\ CallByName(Below(k), frames[k].interp, text[frames[k - 1].code].callee)
  <2>1. /\ k >= 2 /\ frames[k - 1].interp = frames[k].interp /\ frames[k].interp \in Interp
    <3>1. frames[k] \in FrameType
      BY <1>1, <1>3 DEF FramesOK
    <3>2. frames[k].how # "closure"
      BY <1>6
    <3>3. k >= 2 /\ frames[k - 1].interp = frames[k].interp
      BY <1>1, <1>3, <3>2 DEF FramesOK
    <3> QED
      BY <3>1, <3>3 DEF FrameType
  <2>2. Len(Below(k)) >= 1 /\ Below(k)[Len(Below(k))] = frames[k - 1]
    BY <1>3, <1>4, <2>1
  <2> QED
    BY <1>4, <1>6, <2>1, <2>2, CallByNameInv
<1> QED
  BY <1>2, <1>5, <1>6
----------------------------------------------------------------------------
\* Accesses to globals

\* The slot an instruction uses is that of its name.
LEMMA SlotOfName ==
  ASSUME TextOK, TablesOK, FramesOK, SlotsRemembered, Running
  PROVE  /\ SlotUsed \in Int /\ SlotUsed >= MISS
         /\ Chosen(Here, text[Top.code].global, SlotUsed) = Slot(Here, text[Top.code].global)
         /\ SlotUsed >= 0 => /\ text[Top.code].global \in DOMAIN lookup[Here]
                             /\ lookup[Here][text[Top.code].global] = SlotUsed
         /\ Slot(Here, text[Top.code].global) \in Int
<1> DEFINE n == text[Top.code].global
<1>1. /\ Here \in Interp /\ Top.code \in DOMAIN text /\ text[Top.code].owner = Here
      /\ OnStack(Top.code)
  BY TopFacts
<1>2. LookupOK(Tables(Here)) /\ Tables(Here).lookup = lookup[Here]
  BY <1>1 DEF TablesOK, TableInv, Tables
<1>3. /\ Slot(Here, n) \in Int /\ Slot(Here, n) >= -1
      /\ Slot(Here, n) >= 0 => n \in DOMAIN lookup[Here] /\ lookup[Here][n] = Slot(Here, n)
  BY <1>2 DEF LookupOK, Slot, At
<1>4. Now.global \in Int /\ Now.global >= MISS
  BY <1>1 DEF TextOK, Now
<1>5. Now.global >= 0 => n \in DOMAIN lookup[Here] /\ lookup[Here][n] = Now.global
  BY <1>1 DEF SlotsRemembered, Now
<1>6. CASE Resolves
  <2>1. SlotUsed = Slot(Here, n)
    BY <1>6 DEF SlotUsed
  <2> QED
    BY <2>1, <1>3 DEF Chosen, MISS
<1>7. CASE ~Resolves
  <2>1. SlotUsed = Now.global
    BY <1>7 DEF SlotUsed
  <2>2. SlotUsed >= 0 => Slot(Here, n) = SlotUsed
    BY <2>1, <1>5 DEF Slot, At
  <2> QED
    BY <2>1, <2>2, <1>3, <1>4, <1>5 DEF Chosen
<1> QED
  BY <1>6, <1>7

\* What an access remembers leaves the invariant of hints true.
LEMMA RememberInv ==
  ASSUME IInv, Running, Remember,
         UNCHANGED <<lookup, functions, replaced, version, entered, text, frames>>
  PROVE  TextOK' /\ FramesOK' /\ SlotsRemembered' /\ CalleesCurrent' /\ CalleesRunning'
<1>1. TextOK /\ TablesOK /\ FramesOK /\ SlotsRemembered /\ CalleesCurrent /\ CalleesRunning
  BY DEF IInv
<1> DEFINE n == text[Top.code].global
           g == IF SlotUsed >= 0 THEN SlotUsed ELSE MISS
<1>2. /\ SlotUsed \in Int
      /\ SlotUsed >= 0 => n \in DOMAIN lookup[Here] /\ lookup[Here][n] = SlotUsed
  BY <1>1, SlotOfName
<1>3. Here \in Interp /\ Top.code \in DOMAIN text /\ text[Top.code].owner = Here
  BY <1>1, TopFacts
<1>4. /\ g \in Int /\ g >= MISS
      /\ g >= 0 => n \in DOMAIN lookup[Here] /\ lookup[Here][n] = g
  BY <1>2 DEF MISS
<1>5. hint' = hint \/ hint' = [hint EXCEPT ![Top.code].global = g]
  BY DEF Remember
<1> HIDE DEF g
<1>6. /\ DOMAIN hint' = DOMAIN text
      /\ \A c \in DOMAIN text : c # Top.code => hint'[c] = hint[c]
      /\ \/ hint'[Top.code] = hint[Top.code]
         \/ hint'[Top.code] = [hint[Top.code] EXCEPT !.global = g]
  BY <1>1, <1>3, <1>5 DEF TextOK
<1>7. ASSUME NEW c \in DOMAIN text
      PROVE  /\ hint'[c] \in [version : 0..MaxVersion, global : Int,
                              callee : {NoCode} \cup Codes(text[c].owner)]
             /\ hint'[c].global >= MISS
             /\ hint'[c].callee = hint[c].callee
             /\ hint'[c].global = hint[c].global \/ (c = Top.code /\ hint'[c].global = g)
  <2>1. /\ hint[c] \in [version : 0..MaxVersion, global : Int,
                        callee : {NoCode} \cup Codes(text[c].owner)]
        /\ hint[c].global >= MISS
    BY <1>1 DEF TextOK
  <2> QED
    BY <1>4, <1>6, <2>1
<1>8. \A i : Codes(i)' = Codes(i)
  BY DEF Codes
<1>9. TextOK'
  BY <1>1, <1>6, <1>7, <1>8 DEF TextOK
<1>10. FrameType' = FrameType /\ \A i, f, c : NamedBy(i, f, c)' = NamedBy(i, f, c)
  BY DEF FrameType, NamedBy
<1>11. FramesOK'
  BY <1>1, <1>10 DEF FramesOK, NamedBy
<1>12. \A c : OnStack(c)' = OnStack(c) /\ Current(c)' = Current(c)
  BY DEF OnStack, Current, At
<1>13. SlotsRemembered'
  BY <1>1, <1>3, <1>4, <1>7, <1>12 DEF SlotsRemembered
<1>14. CalleesCurrent'
  BY <1>1, <1>7, <1>12 DEF CalleesCurrent, NamedBy
<1>15. CalleesRunning'
  <2>1. ASSUME NEW k \in 1..Len(frames)
        PROVE  frames[k].code \in DOMAIN text
    <3>1. frames[k] \in FrameType
      BY <1>1 DEF FramesOK
    <3> QED
      BY <3>1 DEF FrameType
  <2> QED
    BY <1>1, <1>7, <2>1 DEF CalleesRunning
<1> QED
  BY <1>9, <1>11, <1>13, <1>14, <1>15

LEMMA LoadInv ==
  ASSUME IInv, Load
  PROVE  IInv'
<1>1. /\ UNCHANGED <<declared, lookup, slots, globals, functions, v2, cache, replaced, version,
                    entered, text, frames>>
      /\ Running /\ Remember
  BY DEF Load, tables
<1>2. TablesOK'
  BY <1>1 DEF IInv, TablesOK, Total, Tables, Codes
<1> QED
  BY <1>1, <1>2, RememberInv DEF IInv

LEMMA StoreInv ==
  ASSUME IInv, Store
  PROVE  IInv'
<1>1. TextOK /\ TablesOK /\ FramesOK /\ SlotsRemembered
  BY DEF IInv
<1> DEFINE n == text[Top.code].global
<1>2. PICK v \in Value : SetGlobal(Here, n, v, SlotUsed)
  BY DEF Store
<1>3. /\ Running /\ Remember
      /\ UNCHANGED <<declared, lookup, functions, v2, cache, replaced, version, entered, text, frames>>
  BY DEF Store
<1>4. /\ Chosen(Here, n, SlotUsed) = Slot(Here, n) /\ Slot(Here, n) \in Int
      /\ Here \in Interp /\ n \in Global
  BY <1>1, <1>3, SlotOfName, TopFacts
<1>5. /\ Total(slots)' /\ Total(globals)'
      /\ slots'[Here] = Stored(slots[Here], Slot(Here, n), v)
      /\ globals'[Here] = Set(globals[Here], n, v)
      /\ \A j \in Interp \ {Here} : slots'[j] = slots[j] /\ globals'[j] = globals[j]
  BY <1>1, <1>2, <1>4 DEF SetGlobal, TablesOK, Total
<1>6. /\ Total(declared)' /\ Total(lookup)' /\ Total(functions)' /\ Total(v2)' /\ Total(cache)'
      /\ Total(version)' /\ Total(entered)' /\ Total(replaced)'
  BY <1>1, <1>3 DEF TablesOK, Total
<1>7. \A j : Codes(j)' = Codes(j)
  BY <1>3 DEF Codes
<1>8. ASSUME NEW j \in Interp
      PROVE  TableInv(Tables(j)', DOMAIN text', Codes(j)')
  <2> DEFINE t == Tables(j)
             u == Tables(j)'
  <2>1. /\ DOMAIN u = Fields /\ u.declared = t.declared /\ u.functions = t.functions
        /\ u.v2 = t.v2 /\ u.lookup = t.lookup /\ u.cache = t.cache /\ u.entered = t.entered
        /\ u.version = t.version /\ u.replaced = t.replaced
        /\ u.slots = slots'[j] /\ u.globals = globals'[j]
        /\ t.slots = slots[j] /\ t.globals = globals[j] /\ t.lookup = lookup[j]
    BY <1>3 DEF Tables, Fields
  <2>2. TableInv(t, DOMAIN text, Codes(j))
    BY <1>1 DEF TablesOK
  <2> HIDE DEF t, u
  <2>3. LookupOK(t) /\ GlobalsOK(t)
    BY <2>2 DEF TableInv
  <2>4. LookupOK(u) /\ GlobalsOK(u)
    <3>1. CASE j = Here
      <4> DEFINE s == Slot(Here, n)
      <4>1. s = At(t.lookup, n, -1) /\ s \in Int
        BY <1>4, <2>1, <3>1 DEF Slot
      <4>2. u.slots = Stored(t.slots, s, v) /\ u.globals = Set(t.globals, n, v)
        BY <1>5, <2>1, <3>1
      <4> HIDE DEF s, n
      <4> QED
        BY <1>4, <2>1, <2>3, <4>1, <4>2, StoreKeepsGlobals
    <3>2. CASE j # Here
      BY <1>5, <2>1, <2>3, <3>2 DEF LookupOK, GlobalsOK
    <3> QED
      BY <3>1, <3>2
  <2>5. DeclaredOK(u) /\ FunctionsOK(u, Codes(j))
    BY <2>1, <2>2 DEF TableInv, DeclaredOK, FunctionsOK
  <2>6. TableInv(u, DOMAIN text, Codes(j))
    BY <2>1, <2>2, <2>4, <2>5 DEF TableInv
  <2> QED
    BY <1>3, <1>7, <2>6 DEF u
<1>9. TablesOK'
  BY <1>5, <1>6, <1>8 DEF TablesOK
<1> QED
  BY <1>3, <1>9, RememberInv DEF IInv

----------------------------------------------------------------------------
\* A collection drops the caches; what running code has cached stays right.
LEMMA CollectInv ==
  ASSUME IInv, NEW i \in Interp, Collect(i)
  PROVE  IInv'
<1>1. TextOK /\ TablesOK /\ FramesOK /\ SlotsRemembered /\ CalleesCurrent /\ CalleesRunning
  BY DEF IInv
<1>2. UNCHANGED <<declared, lookup, slots, globals, functions, v2, text, hint, frames>>
  BY DEF Collect
<1>3. /\ Total(declared)' /\ Total(lookup)' /\ Total(slots)' /\ Total(globals)'
      /\ Total(functions)' /\ Total(v2)' /\ Total(cache)' /\ Total(version)'
      /\ Total(entered)' /\ Total(replaced)'
  BY <1>1 DEF TablesOK, Total, Collect
<1>4. /\ version[i] < MaxVersion /\ version'[i] = version[i] + 1
      /\ cache'[i] = Empty /\ entered'[i] = Empty
      /\ replaced'[i] = replaced[i] \/ (replaced'[i] = {} /\ Len(frames) <= 1)
      /\ \A j \in Interp \ {i} : /\ version'[j] = version[j] /\ cache'[j] = cache[j]
                                /\ entered'[j] = entered[j] /\ replaced'[j] = replaced[j]
  BY <1>1 DEF TablesOK, Total, Collect
<1>5. FrameType' = FrameType /\ \A j : Codes(j)' = Codes(j)
  BY <1>2 DEF FrameType, Codes
<1>6. TextOK'
  BY <1>1, <1>2, <1>5 DEF TextOK
<1>7. ASSUME NEW j \in Interp
      PROVE  TableInv(Tables(j)', DOMAIN text', Codes(j)')
  <2> DEFINE t == Tables(j)
             u == Tables(j)'
  <2>1. /\ DOMAIN u = Fields /\ u.declared = t.declared /\ u.functions = t.functions
        /\ u.slots = t.slots /\ u.globals = t.globals /\ u.v2 = t.v2 /\ u.lookup = t.lookup
        /\ u.cache = cache'[j] /\ u.entered = entered'[j] /\ u.version = version'[j]
        /\ u.replaced = replaced'[j]
        /\ t.cache = cache[j] /\ t.entered = entered[j] /\ t.version = version[j]
        /\ t.replaced = replaced[j]
    BY <1>2 DEF Tables, Fields
  <2>2. TableInv(t, DOMAIN text, Codes(j))
    BY <1>1 DEF TablesOK
  <2> HIDE DEF t, u
  <2>3. DeclaredOK(u) /\ LookupOK(u) /\ GlobalsOK(u)
    BY <2>1, <2>2 DEF TableInv, DeclaredOK, LookupOK, GlobalsOK
  <2>4. CASE j # i
    <3>1. FunctionsOK(u, Codes(j))
      BY <1>4, <2>1, <2>2, <2>4 DEF TableInv, FunctionsOK
    <3> QED
      BY <1>2, <1>4, <1>5, <2>1, <2>2, <2>3, <2>4, <3>1 DEF TableInv, u
  <2>5. CASE j = i
    <3>1. DOMAIN Empty = {}
      BY DEF Empty
    <3>2. FunctionsOK(u, Codes(j))
      BY <1>4, <2>1, <2>2, <2>5, <3>1 DEF TableInv, FunctionsOK, Maps
    <3>3. Maps(u.entered, DOMAIN text, 1..MaxVersion)
      BY <1>4, <2>1, <2>5, <3>1 DEF Maps
    <3>4. u.version \in 1..MaxVersion
      BY <1>1, <1>4, <2>1, <2>5, VersionRange, ChunkAssumption
    <3>5. TableInv(u, DOMAIN text, Codes(j))
      BY <2>1, <2>3, <3>2, <3>3, <3>4 DEF TableInv
    <3> QED
      BY <1>2, <1>5, <3>5 DEF u
  <2> QED
    BY <2>4, <2>5
<1>8. TablesOK'
  BY <1>3, <1>7 DEF TablesOK
<1>9. ASSUME NEW c \in DOMAIN text, Current(c)'
      PROVE  Current(c) /\ text[c].owner # i
  <2> DEFINE o == text[c].owner
  <2>1. o \in Interp
    BY <1>1 DEF TextOK
  <2>2. version[i] \in 1..MaxVersion
    BY <1>1, VersionRange
  <2>3. CASE o = i
    <3>1. At(entered'[o], c, 0) = 0
      BY <1>4, <2>3 DEF At, Empty
    <3> QED
      BY <1>2, <1>4, <1>9, <2>2, <2>3, <3>1, ChunkAssumption DEF Current
  <2>4. CASE o # i
    BY <1>2, <1>4, <1>9, <2>1, <2>4 DEF Current, At
  <2> QED
    BY <2>3, <2>4
<1>10. FramesOK'
  <2>1. ASSUME NEW k \in 1..Len(frames)
        PROVE  /\ replaced'[frames[k].interp] \subseteq frames[k].stale
               /\ frames[k].how = "named" =>
                    NamedBy(frames[k].interp, text[frames[k - 1].code].callee, frames[k].code)'
    <3>1. /\ replaced[frames[k].interp] \subseteq frames[k].stale /\ frames[k] \in FrameType
          /\ frames[k].how = "named" =>
               NamedBy(frames[k].interp, text[frames[k - 1].code].callee, frames[k].code)
          /\ frames[k].how # "closure" => k >= 2
      BY <1>1 DEF FramesOK
    <3>2. frames[k].interp \in Interp
      BY <3>1 DEF FrameType
    <3>3. replaced'[frames[k].interp] \subseteq replaced[frames[k].interp]
      BY <1>4, <3>2
    <3>4. ASSUME frames[k].how = "named"
          PROVE  replaced'[frames[k].interp] = replaced[frames[k].interp]
      <4>1. k >= 2 /\ Len(frames) >= 2
        <5>1. frames[k].how # "closure"
          BY <3>4
        <5> QED
          BY <1>1, <3>1, <5>1 DEF FramesOK
      <4>2. ~(Len(frames) <= 1)
        BY <1>1, <4>1 DEF FramesOK
      <4> QED
        BY <1>4, <3>2, <4>2
    <3> QED
      BY <1>2, <3>1, <3>3, <3>4 DEF NamedBy
  <2> QED
    BY <1>1, <1>2, <1>5, <2>1 DEF FramesOK, NamedBy
<1>11. SlotsRemembered'
  BY <1>1, <1>2, <1>9 DEF SlotsRemembered, OnStack
<1>12. CalleesCurrent'
  <2> SUFFICES ASSUME NEW c \in DOMAIN text, Current(c)', hint[c].callee # NoCode
               PROVE  NamedBy(text[c].owner, text[c].callee, hint[c].callee)'
    BY <1>2 DEF CalleesCurrent, NamedBy
  <2>1. NamedBy(text[c].owner, text[c].callee, hint[c].callee) /\ text[c].owner \in Interp \ {i}
    BY <1>1, <1>9 DEF CalleesCurrent, TextOK
  <2> QED
    BY <1>2, <1>4, <2>1 DEF NamedBy
<1>13. CalleesRunning'
  BY <1>1, <1>2 DEF CalleesRunning
<1> QED
  BY <1>6, <1>8, <1>10, <1>11, <1>12, <1>13 DEF IInv
----------------------------------------------------------------------------
LEMMA InitInv ==
  ASSUME Init
  PROVE  IInv
<1>1. DOMAIN text = {} /\ DOMAIN hint = {} /\ frames = <<>>
  BY DEF Init, Empty
<1>2. TextOK
  BY <1>1 DEF TextOK
<1>3. Len(frames) = 0 /\ frames \in Seq(FrameType) /\ 1..0 = {}
  BY <1>1
<1>4. FramesOK /\ CalleesRunning
  BY <1>3, ChunkAssumption DEF FramesOK, CalleesRunning
<1>5. SlotsRemembered /\ CalleesCurrent
  BY <1>1 DEF SlotsRemembered, CalleesCurrent
<1>6. ASSUME NEW i \in Interp
      PROVE  TableInv(Tables(i), DOMAIN text, Codes(i))
  <2>1. SameTables(Fresh, Tables(i))
    BY DEF Init, SameTables, Tables, Fresh, Fields
  <2> QED
    BY <2>1, FreshInv, SameTablesInv
<1>7. TablesOK
  BY <1>6 DEF Init, TablesOK, Total
<1> QED
  BY <1>2, <1>4, <1>5, <1>7 DEF IInv

LEMMA StepInv ==
  ASSUME ~Crossing, IInv, [Next]_vars
  PROVE  IInv'
<1>1. ASSUME NEW i \in Interp, Compile(i) PROVE IInv'
  BY <1>1, CompileInv
<1>2. ASSUME NEW i \in Interp, CompileAppend(i) PROVE IInv'
  BY <1>2, CompileAppendInv
<1>3. ASSUME NEW i \in Interp, Collect(i) PROVE IInv'
  BY <1>3, CollectInv
<1>4. ASSUME NEW i \in Interp, NEW c \in DOMAIN text, Closure(i, c) PROVE IInv'
  BY <1>4, ClosureInv
<1>5. CASE Load
  BY <1>5, LoadInv
<1>6. CASE Store
  BY <1>6, StoreInv
<1>7. CASE Call
  BY <1>7, CallInv
<1>8. CASE Return
  BY <1>8, ReturnInv
<1>9. CASE Fail
  BY <1>9, FailInv
<1>10. CASE UNCHANGED vars
  <2>1. Prefix(frames')
    BY <1>10 DEF vars, IInv, FramesOK, Prefix
  <2> QED
    BY <1>10, <2>1, PopInv DEF vars, tables
<1> QED
  BY <1>1, <1>2, <1>3, <1>4, <1>5, <1>6, <1>7, <1>8, <1>9, <1>10 DEF Next

LEMMA ChunkInvariant == ~Crossing => (Spec => []IInv)
<1> SUFFICES ASSUME ~Crossing PROVE Spec => []IInv
  OBVIOUS
<1>1. Init => IInv
  BY InitInv
<1>2. IInv /\ [Next]_vars => IInv'
  BY StepInv
<1> QED
  BY <1>1, <1>2, PTL DEF Spec

\* While closures stay at home: every cache, and every hint in compiled code,
\* is of a slot, a function or a version that exists.
THEOREM ChunkTypeCorrect == ~Crossing => (Spec => []ChunkTypeOK)
<1>1. ASSUME IInv PROVE ChunkTypeOK
  <2>1. TextOK /\ TablesOK /\ FramesOK
    BY <1>1 DEF IInv
  <2>2. ASSUME NEW i \in Interp
        PROVE  /\ declared[i] \in Seq(Global) /\ declared[i][1] = Context
               /\ \A j, k \in DOMAIN declared[i] : declared[i][j] = declared[i][k] => j = k
               /\ Maps(lookup[i], Names(declared[i]), 0 .. Len(slots[i]) - 1)
               /\ Maps(globals[i], Global, Value) /\ Names(slots[i]) \subseteq Value
               /\ Maps(functions[i], Function, DOMAIN text)
               /\ Maps(v2[i], DOMAIN functions[i], DOMAIN text)
               /\ Maps(cache[i], DOMAIN functions[i], DOMAIN text)
               /\ version[i] \in 1..MaxVersion
               /\ Maps(entered[i], DOMAIN text, 1 .. MaxVersion)
               /\ replaced[i] \subseteq DOMAIN functions[i]
    <3> DEFINE t == Tables(i)
    <3>1. TableInv(t, DOMAIN text, Codes(i)) /\ Codes(i) \subseteq DOMAIN text
      BY <2>1 DEF TablesOK, Codes
    <3>2. /\ t.declared = declared[i] /\ t.lookup = lookup[i] /\ t.slots = slots[i]
          /\ t.globals = globals[i] /\ t.functions = functions[i] /\ t.v2 = v2[i]
          /\ t.cache = cache[i] /\ t.version = version[i] /\ t.entered = entered[i]
          /\ t.replaced = replaced[i]
      BY DEF Tables
    <3> HIDE DEF t
    <3>3. /\ declared[i] \in Seq(Global) /\ declared[i][1] = Context
          /\ \A j, k \in DOMAIN declared[i] : declared[i][j] = declared[i][k] => j = k
      BY <3>1, <3>2 DEF TableInv, DeclaredOK
    <3>4. slots[i] \in Seq(Value)
      BY <3>1, <3>2 DEF TableInv, GlobalsOK
    <3>5. ASSUME NEW n \in DOMAIN lookup[i]
          PROVE  n \in Names(declared[i]) /\ lookup[i][n] \in 0 .. Len(slots[i]) - 1
      <4>1. /\ lookup[i][n] \in Nat /\ lookup[i][n] < Len(slots[i])
            /\ lookup[i][n] < Len(declared[i]) /\ declared[i][lookup[i][n] + 1] = n
        BY <3>1, <3>2 DEF TableInv, LookupOK
      <4>2. lookup[i][n] + 1 \in DOMAIN declared[i]
        BY <3>3, <4>1
      <4> QED
        BY <3>4, <4>1, <4>2 DEF Names
    <3>6. Maps(globals[i], Global, Value) /\ Names(slots[i]) \subseteq Value
      BY <3>1, <3>2, <3>4 DEF TableInv, GlobalsOK, Names
    <3>7. /\ Maps(functions[i], Function, DOMAIN text)
          /\ Maps(v2[i], DOMAIN functions[i], DOMAIN text)
          /\ Maps(cache[i], DOMAIN functions[i], DOMAIN text)
          /\ replaced[i] \subseteq DOMAIN functions[i]
      BY <3>1, <3>2 DEF TableInv, FunctionsOK, Maps
    <3>8. version[i] \in 1..MaxVersion /\ Maps(entered[i], DOMAIN text, 1 .. MaxVersion)
      BY <3>1, <3>2 DEF TableInv
    <3> QED
      BY <3>3, <3>5, <3>6, <3>7, <3>8 DEF Maps
  <2>3. ASSUME NEW c \in DOMAIN text
        PROVE  /\ hint[c].version \in 0..MaxVersion
               /\ hint[c].global >= MISS /\ hint[c].callee \in {NoCode} \cup DOMAIN text
    BY <2>1 DEF TextOK, Codes
  <2> QED
    BY <2>1, <2>2, <2>3 DEF ChunkTypeOK, FramesOK
<1> QED
  BY <1>1, ChunkInvariant, PTL

\* While closures stay at home: an access to a global in running code reaches
\* what its name stands for, whatever was compiled since the access cached a
\* slot, because that slot is the name's own.
THEOREM LoadsTheNamedGlobal == ~Crossing => (Spec => []LoadsNamedGlobal)
<1>1. ASSUME IInv PROVE LoadsNamedGlobal
  <2> SUFFICES ASSUME Running
               PROVE  GetGlobal(Here, text[Top.code].global, SlotUsed)
                        = GetGlobal(Here, text[Top.code].global, -1)
    BY DEF LoadsNamedGlobal
  <2>1. Chosen(Here, text[Top.code].global, SlotUsed) = Slot(Here, text[Top.code].global)
    BY <1>1, SlotOfName DEF IInv
  <2>2. Chosen(Here, text[Top.code].global, -1) = Slot(Here, text[Top.code].global)
    BY DEF Chosen
  <2> QED
    BY <2>1, <2>2 DEF GetGlobal
<1> QED
  BY <1>1, ChunkInvariant, PTL

\* While closures stay at home: a variable that has both a slot and an entry
\* among the globals has one value.
THEOREM OneValuePerVariable == ~Crossing => (Spec => []SlotsMirrorGlobals)
<1>1. ASSUME IInv PROVE SlotsMirrorGlobals
  <2>1. ASSUME NEW i \in Interp PROVE GlobalsOK(Tables(i))
    BY <1>1 DEF IInv, TablesOK, TableInv
  <2> QED
    BY <2>1 DEF GlobalsOK, Tables, SlotsMirrorGlobals
<1> QED
  BY <1>1, ChunkInvariant, PTL

\* While closures stay at home: a call in a closure reaches the function that
\* its name stands for in every compiled function, with the exceptions that
\* SameCallee names.
THEOREM CallsTheSameFunction == ~Crossing => (Spec => []SameCallee)
<1>1. ASSUME IInv PROVE SameCallee
  <2> DEFINE h == text[Top.code].callee
  <2> SUFFICES ASSUME Running, h \in DOMAIN v2[Here], v2[Here][h] = functions[Here][h],
                      h \notin Top.stale
               PROVE  Callee = functions[Here][h]
    BY DEF SameCallee
  <2>1. /\ Here \in Interp /\ Top.code \in DOMAIN text /\ text[Top.code].owner = Here
        /\ Len(frames) \in 1..Len(frames) /\ Top = frames[Len(frames)] /\ Here = Top.interp
    BY <1>1, TopFacts DEF IInv, Top, Here
  <2>2. CASE Now.callee # NoCode
    <3>1. Callee = hint[Top.code].callee
      BY <2>2 DEF Callee, Now
    <3>2. \/ hint[Top.code].callee = functions[Here][h]
          \/ h \in Top.stale
      BY <1>1, <2>1, <2>2 DEF IInv, CalleesRunning, Now
    <3> QED
      BY <3>1, <3>2
  <2>3. CASE Now.callee = NoCode
    <3>1. Callee = Resolved(Here, h)
      BY <2>3 DEF Callee
    <3>2. FunctionsOK(Tables(Here), Codes(Here))
      BY <1>1, <2>1 DEF IInv, TablesOK, TableInv
    <3>3. /\ h \in DOMAIN functions[Here]
          /\ h \in DOMAIN cache[Here] => cache[Here][h] = functions[Here][h] \/ h \in replaced[Here]
      BY <3>2 DEF FunctionsOK, Tables, Maps
    <3>4. replaced[Here] \subseteq Top.stale
      BY <1>1, <2>1 DEF IInv, FramesOK
    <3> QED
      BY <3>1, <3>3, <3>4 DEF Resolved, At
  <2> QED
    BY <2>2, <2>3
<1> QED
  BY <1>1, ChunkInvariant, PTL
=============================================================================
