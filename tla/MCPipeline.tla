---------------------------- MODULE MCPipeline -----------------------------
(* Sample programs through the pipeline.  A program with an error that the *)
(* parser finds is not run.                                                *)
EXTENDS Pipeline

P == INSTANCE Programs
C == INSTANCE Certificates
M(tree) == INSTANCE Meaning

Prepared(tree) ==
  LET g == P!Compile(tree)
  IN  [tree |-> tree, ok |-> g.ok, fns |-> C!Certified(g.fns),
       meant |-> IF g.ok THEN M(tree)!Meant ELSE Outcome(FALSE, <<>>, None)]

MCSources ==
  {s \in UNION {{SourceOf(p.fns[n]) : n \in DOMAIN p.fns} : p \in Accepted} : Verified(s)}

\* Programs whose meaning both machines agree on, and others that do not run as
\* they mean to, each for a reason of its own.
Samples ==
  LET agreeing == {P!Counting, P!Loops, P!Arrays, P!Switching, P!Calling, P!Closures,
                   P!Conditions, P!FailingTwice, P!Objects}
                  \cup P!Failures \cup P!Rejected \cup P!Nested \cup P!Operating
      diverted == {P!ElementAsValue, P!ElementAsOperand, P!MergedValue, P!StoredCapture,
                   P!JumpInIncrement, P!StringBelow, P!CalledAgain, P!ErrorIgnored}
                  \cup P!FailingOnce
  IN  {Prepared(t) : t \in agreeing \cup diverted}

LostStores == LET t == P!LostStores IN {Prepared(t)}
=============================================================================
