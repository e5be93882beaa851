------------------------------ MODULE MCRunGate ------------------------------
(* RunGate with concurrent admissions of one run.                            *)
EXTENDS RunGate, TLC

Symmetry == Permutations(Admissions)

\* One call's effect on a record, Delete aside.
Edge(s, t) == ValidateTransition(s, t) \/ (s = Absent /\ t = "queued")

Closed(S) == \A s \in S, t \in Status : Edge(s, t) => t \in S

\* Downstream(s), written out in RunStates, is the least closed set around s.
ASSUME DownstreamIsClosure ==
    \A s \in Status :
        Downstream(s) = {t \in Status : \A S \in SUBSET Status : s \in S /\ Closed(S) => t \in S}
=============================================================================
