---------------------------- MODULE RunLifecycle ----------------------------
(***************************************************************************)
(* What a store promises about the runs it records: a run appears, moves   *)
(* forward through its lifecycle and never back, and never disappears.     *)
(* One step may move several runs, each by several edges, because one      *)
(* write of the store's file makes everything in memory durable at once.   *)
(***************************************************************************)
EXTENDS RunStates

CONSTANT Runs

VARIABLE status

Init == status = [r \in Runs |-> Absent]

Advance ==
    /\ status' \in [Runs -> Status]
    /\ \A r \in Runs : status'[r] \in Downstream(status[r])

Spec == Init /\ [][Advance]_status
=============================================================================
