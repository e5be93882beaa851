---------------------------- MODULE MCDagSession ----------------------------
(* DagSession on two roots, both of which a third node waits for.           *)
EXTENDS DagSession

CONSTANTS a, b, c

RootsAndDependant == [n \in Nodes |-> IF n = c THEN {a, b} ELSE {}]
=============================================================================
