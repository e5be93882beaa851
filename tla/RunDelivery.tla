----------------------------- MODULE RunDelivery -----------------------------
(***************************************************************************)
(* Several consumers of one RedisRunQueue, each following the protocol its *)
(* comments ask for: take entries with Consume and with ReclaimStale,      *)
(* process them, Ack what was processed.  Consumers crash, processing      *)
(* fails, replies are lost, and an entry may go idle while a consumer that *)
(* is alive still works on it.  (cmd/ingress is one consumer that never    *)
(* calls ReclaimStale: IngressDispatch.tla.)                               *)
(***************************************************************************)
EXTENDS RedisRunQueue

CONSTANT MaxFaults      \* bound: crashes, failed attempts and lost replies

ASSUME FaultAssumption == MaxFaults \in Nat

VARIABLES
    holds,              \* holds[c]: the attempts consumer c is in, <<entry, phase>>
    scan,               \* scan[c]: the IDs ReclaimStale has found and not yet claimed
    handed,             \* history: entry -> who it was handed to since it was last idle
    processed,          \* history: entries some consumer has processed
    faults

vars == <<queueVars, holds, scan, handed, processed, faults>>

TypeOK ==
    /\ QueueTypeOK
    /\ holds \in [Consumers -> SUBSET (EntryIDs \X {"processing", "acking"})]
    /\ scan \in [Consumers -> SUBSET EntryIDs]
    /\ handed \in [EntryIDs -> SUBSET Consumers]
    /\ processed \in SUBSET EntryIDs
    /\ faults \in 0..MaxFaults

Init ==
    /\ QueueInit
    /\ holds = [c \in Consumers |-> {}]
    /\ scan = [c \in Consumers |-> {}]
    /\ handed = [e \in EntryIDs |-> {}]
    /\ processed = {}
    /\ faults = 0

Fault == faults < MaxFaults /\ faults' = faults + 1

\* What reaches a consumer that can be parsed is processed.
Take(c, ids) ==
    holds' = [holds EXCEPT ![c] =
        @ \cup {<<e, "processing">> : e \in {i \in ids : stream[i] \in Runs}}]

Hand(c, ids) ==
    handed' = [e \in EntryIDs |-> IF e \in ids THEN handed[e] \cup {c} ELSE handed[e]]

-----------------------------------------------------------------------------
Submit ==
    /\ Produce
    /\ UNCHANGED <<holds, scan, handed, processed, faults>>

Read(c) ==
    /\ \E e \in EntryIDs : ConsumeReturns(c, e) /\ Take(c, {e}) /\ Hand(c, {e})
    /\ UNCHANGED <<scan, processed, faults>>

\* The malformed entry costs no fault: it fails whatever happens.
ReadFails(c) ==
    /\ ConsumeFails(c)
    /\ cursor' # cursor
    /\ Hand(c, {cursor'})
    /\ IF stream[cursor'] = Malformed THEN UNCHANGED faults ELSE Fault
    /\ UNCHANGED <<holds, scan, processed>>

\* ReclaimStale: XPENDING, and what is idle by its answer.
Scan(c) ==
    /\ scan[c] = {}
    /\ StaleIDs # {}
    /\ scan' = [scan EXCEPT ![c] = StaleIDs]
    /\ UNCHANGED <<queueVars, holds, handed, processed, faults>>

\* ReclaimStale: XCLAIM, some time later; its reply may get lost.
Claim(c) ==
    /\ scan[c] # {}
    /\ XClaim(c, scan[c])
    /\ Hand(c, Claimable(scan[c]))
    /\ \/ Take(c, Claimable(scan[c])) /\ UNCHANGED faults
       \/ Fault /\ UNCHANGED holds
    /\ scan' = [scan EXCEPT ![c] = {}]
    /\ UNCHANGED processed

Finish(c, e) ==
    /\ <<e, "processing">> \in holds[c]
    /\ holds' = [holds EXCEPT ![c] = (@ \ {<<e, "processing">>}) \cup {<<e, "acking">>}]
    /\ processed' = processed \cup {e}
    /\ UNCHANGED <<queueVars, scan, handed, faults>>

\* Mutant: a failed attempt is acked too.
FailAcking(c, e) ==
    /\ <<e, "processing">> \in holds[c]
    /\ Fault
    /\ holds' = [holds EXCEPT ![c] = (@ \ {<<e, "processing">>}) \cup {<<e, "acking">>}]
    /\ UNCHANGED <<queueVars, scan, handed, processed>>

\* Processing fails: "NOT acking (PEL retains)".
Fail(c, e) ==
    /\ <<e, "processing">> \in holds[c]
    /\ Fault
    /\ holds' = [holds EXCEPT ![c] = @ \ {<<e, "processing">>}]
    /\ UNCHANGED <<queueVars, scan, handed, processed>>

\* An Ack that fails is logged and forgotten.
AckProcessed(c, e) ==
    /\ <<e, "acking">> \in holds[c]
    /\ \/ Ack(e, TRUE) /\ UNCHANGED faults
       \/ Ack(e, FALSE) /\ Fault
    /\ holds' = [holds EXCEPT ![c] = @ \ {<<e, "acking">>}]
    /\ handed' = [handed EXCEPT ![e] = IF owner'[e] = Nobody THEN {} ELSE @]
    /\ UNCHANGED <<scan, processed>>

CrashConsumer(c) ==
    /\ Fault
    /\ holds' = [holds EXCEPT ![c] = {}]
    /\ scan' = [scan EXCEPT ![c] = {}]
    /\ UNCHANGED <<queueVars, handed, processed>>

Timeout(e) ==
    /\ GoIdle(e)
    /\ handed' = [handed EXCEPT ![e] = {}]
    /\ UNCHANGED <<holds, scan, processed, faults>>

ConsumerStep(c) ==
    \/ Read(c)
    \/ ReadFails(c)
    \/ Scan(c)
    \/ Claim(c)
    \/ \E e \in EntryIDs : Finish(c, e) \/ Fail(c, e) \/ AckProcessed(c, e)
    \/ CrashConsumer(c)

Next ==
    \/ Submit
    \/ \E c \in Consumers : ConsumerStep(c)
    \/ \E e \in EntryIDs : Timeout(e)

Spec == Init /\ [][Next]_vars

(***************************************************************************)
(* Time passes, and every consumer goes on calling Consume and             *)
(* ReclaimStale and finishes what it started.                              *)
(***************************************************************************)
Fairness ==
    /\ \A c \in Consumers :
        /\ WF_vars(Read(c) \/ ReadFails(c))
        /\ WF_vars(Scan(c))
        /\ WF_vars(Claim(c))
        /\ \A e \in EntryIDs : WF_vars(Finish(c, e)) /\ WF_vars(AckProcessed(c, e))
    /\ \A e \in EntryIDs : WF_vars(Timeout(e))

FairSpec == Spec /\ Fairness

-----------------------------------------------------------------------------
(***************************************************************************)
(* "XACK removes from pending": only an entry somebody has processed ever  *)
(* leaves the pending list, whoever else holds, claims or acks it at the   *)
(* time.                                                                   *)
(***************************************************************************)
AckedWereProcessed == Acknowledged \subseteq processed

(***************************************************************************)
(* Each visibility timeout hands an entry to one consumer: two of them     *)
(* that saw the same stale entry in XPENDING do not both claim it.         *)
(***************************************************************************)
OneConsumerPerTimeout == \A e \in EntryIDs : Cardinality(handed[e]) <= 1

(***************************************************************************)
(* What was acked is over: it does not come back to the pending list, and  *)
(* nobody is handed it any more, a consumer whose XPENDING listed it       *)
(* before the ack and whose XCLAIM comes after it included.                *)
(***************************************************************************)
NoDeliveryAfterAck ==
    [][\A e \in Acknowledged :
          /\ e \in Acknowledged'
          /\ \A c \in Consumers : <<e, "processing">> \notin holds'[c] \ holds[c]]_vars

(***************************************************************************)
(* At-least-once: every well-formed entry is processed and acked in the    *)
(* end, through crashes, lost replies and claims that overtake each other. *)
(***************************************************************************)
AtLeastOnce ==
    \A e \in EntryIDs :
        (e <= Len(stream) /\ stream[e] \in Runs) ~> e \in Acknowledged
=============================================================================
