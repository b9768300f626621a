----------------------------- MODULE MCEventFlow -----------------------------
(* Values of the constants of EventFlow for model checking.                 *)
EXTENDS EventFlow, TLC

CONSTANTS a, b

Op(d) == [doc |-> d, ok |-> TRUE]
Bad(d) == [doc |-> d, ok |-> FALSE]

\* Single changes, a change that fails the key's validation, and a
\* transaction over two documents.
PlainShapes == {<< Op(a) >>, << Bad(a) >>, << Op(a), Op(b) >>}

\* One change at a time.
SingleShapes == {<< Op(a) >>}

\* Failures that doBatch reports, and crashes.
ReportedFaults == {"read", "sequence", "redis", "begin", "commit", "crash"}

\* Two instances: a failure of the insert or of the token update is swallowed, a commit
\* has an unknown outcome, a stream loses its resume token, an instance crashes.
HandoverFaults == {"rewind", "insert", "token", "commit", "crash"}

Symmetry == Permutations(Nodes)
=============================================================================
