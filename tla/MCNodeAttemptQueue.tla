------------------------- MODULE MCNodeAttemptQueue -------------------------
(* NodeAttemptQueue with more calls than slots, each of its own node.       *)
EXTENDS NodeAttemptQueue

OwnNode == [r \in Requests |-> r]
=============================================================================
