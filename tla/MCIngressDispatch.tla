-------------------------- MODULE MCIngressDispatch --------------------------
(* The ingress process on two entries, started with any of these flags.    *)
EXTENDS IngressDispatch

Flag(n, max, once) == [concurrentRuns |-> n, maxRuns |-> max, once |-> once]

MCFlags == {Flag(1, 0, FALSE), Flag(2, 0, FALSE), Flag(1, 1, FALSE), Flag(1, 0, TRUE)}

MCEntries == 1..2
=============================================================================
