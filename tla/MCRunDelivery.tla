---------------------------- MODULE MCRunDelivery ----------------------------
(* Two consumers, two entries, two faults; one pending entry may be poison. *)
EXTENDS RunDelivery
=============================================================================
