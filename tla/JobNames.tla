------------------------------ MODULE JobNames ------------------------------
(***************************************************************************)
(* The name of the Kubernetes Job of a pipeline node: nodeRunID,           *)
(* stressNodeID and ingressNodeID are one function with three prefixes.    *)
(* The name is all that keeps two Jobs apart, and Kubernetes limits its    *)
(* length: a run ID that does not fit is cut, the node's name is kept.     *)
(*                                                                         *)
(* A name is a sequence of symbols.  The code's symbols are characters and *)
(* its limit is 63; a model may take longer symbols and a lower limit.     *)
(***************************************************************************)
EXTENDS Naturals, Sequences

CONSTANT NameLimit

ASSUME NameLimitAssumption == NameLimit \in Nat \ {0}

Suffix(node) == <<"-">> \o node

\* How much of a run ID a name has room for, at least one symbol.
Room(prefix, node) ==
    IF Len(prefix) + Len(Suffix(node)) < NameLimit
    THEN NameLimit - Len(prefix) - Len(Suffix(node))
    ELSE 1

Fits(prefix, runID, node) == Len(prefix) + Len(runID) + Len(Suffix(node)) <= NameLimit

\* Mutant: the end of the name is cut, whatever it is.
JobNameCutAtEnd(prefix, runID, node) ==
    LET id == prefix \o runID \o Suffix(node)
    IN IF Fits(prefix, runID, node) THEN id ELSE SubSeq(id, 1, NameLimit)

JobName(prefix, runID, node) ==
    IF Fits(prefix, runID, node)
    THEN prefix \o runID \o Suffix(node)
    ELSE prefix \o SubSeq(runID, 1, Room(prefix, node)) \o Suffix(node)

\* One node's name ends with "-" and the other's, so that a run ID ending in
\* the rest would make the two names equal: worker-1 and 1, for instance.
Confusable(long, short) ==
    \E k \in 1..Len(long) :
        /\ long[k] = "-"
        /\ SubSeq(long, k + 1, Len(long)) = short

\* The nodes of a pipeline must not be mistaken for one another.
Distinguishable(nodes) == \A m, n \in nodes : ~Confusable(m, n)

-----------------------------------------------------------------------------
\* What distinguishes the runs of one command that starts several of them.

\* multi-run-burst: the run's number comes last, where a long ID is cut.
BurstRun(base, i) == base \o <<"-r", i>>

\* The dummy producer: the second its session began in, then a sequence number.
DummyRun(second, i) == <<"dummy-", second, i>>
=============================================================================
