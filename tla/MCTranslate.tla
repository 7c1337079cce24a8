---------------------------- MODULE MCTranslate ----------------------------
(* Translate on the functions of the sample programs.                      *)
EXTENDS Translate

P == INSTANCE Programs

C == INSTANCE Certificates

Certified(f) == [code |-> f.code, size |-> f.size, depth |-> C!Depths(f.code, f.size)]

\* A store to a slot with no definition of the operand to redirect, since it
\* has been redirected before.  The code generator writes nothing like it.
StoredTwice ==
  [code |-> <<Push(MakeInt(1)), Push(MakeBool(TRUE)), JumpIfFalse(4),
              StoreLocal(0, 0), StoreLocal(0, 0), Push(None), Plain("RETURN")>>,
   size |-> 1]

MCSources ==
  LET programs == {P!Counting, P!Loops, P!Arrays, P!Switching, P!Calling, P!Closures,
                   P!Conditions, P!Objects, P!Operate("LT", <<P!I(1), P!I(2)>>)}
      compiled == {P!Compile(p).fns : p \in programs}
  IN  {Certified(f) : f \in UNION {P!Range(fns) : fns \in compiled} \cup {StoredTwice}}
=============================================================================
