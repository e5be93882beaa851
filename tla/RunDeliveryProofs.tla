-------------------------- MODULE RunDeliveryProofs --------------------------
(* The queue client's safety, for any consumers, entries and faults: what  *)
(* leaves the pending list was processed, and each visibility timeout      *)
(* hands an entry to one consumer.                                         *)
EXTENDS RunDelivery, FiniteSetTheorems, TLAPS

\* An attempt that is about to ack has processed its entry.
AckingWasProcessed ==
    \A c \in Consumers, e \in EntryIDs : <<e, "acking">> \in holds[c] => e \in processed

\* Nobody has an entry that was not delivered.
DeliveredInOrder == \A e \in EntryIDs : owner[e] # Nobody => e <= cursor

\* An entry was handed to nobody else than the consumer the server names, and
\* since it went idle to no one at all.
HandedToOwner ==
    \A e \in EntryIDs : handed[e] \subseteq {owner[e]} /\ (e \in idle => handed[e] = {})

DeliveryInv ==
    /\ TypeOK
    /\ AckedWereProcessed
    /\ AckingWasProcessed
    /\ DeliveredInOrder
    /\ HandedToOwner

LEMMA InitDelivery == Init => DeliveryInv
  BY QueueAssumption, FaultAssumption
  DEF Init, QueueInit, DeliveryInv, TypeOK, QueueTypeOK, AckedWereProcessed, Acknowledged,
      AckingWasProcessed, DeliveredInOrder, HandedToOwner, EntryIDs

\* What the proofs below read off the invariant.
LEMMA Typed ==
    ASSUME DeliveryInv
    PROVE  /\ stream \in Seq(Runs \cup {Malformed}) /\ Len(stream) \in 0..MaxEntries
           /\ cursor \in 0..Len(stream)
           /\ owner \in [EntryIDs -> Consumers \cup {Nobody}]
           /\ idle \in SUBSET EntryIDs
           /\ holds \in [Consumers -> SUBSET (EntryIDs \X {"processing", "acking"})]
           /\ scan \in [Consumers -> SUBSET EntryIDs]
           /\ handed \in [EntryIDs -> SUBSET Consumers]
           /\ processed \in SUBSET EntryIDs
           /\ faults \in 0..MaxFaults
           /\ MaxEntries \in Nat /\ MaxFaults \in Nat /\ Nobody \notin Consumers
  BY QueueAssumption, FaultAssumption DEF DeliveryInv, TypeOK, QueueTypeOK

LEMMA FaultCounts == ASSUME DeliveryInv, Fault PROVE faults' \in 0..MaxFaults
  BY Typed DEF Fault

LEMMA SubmitKeeps == ASSUME DeliveryInv, Submit PROVE DeliveryInv'
  <1>1. PICK payload \in Runs \cup {Malformed} : XAdd(payload)
    BY DEF Submit, Produce
  <1>2. /\ stream' \in Seq(Runs \cup {Malformed}) /\ Len(stream') = Len(stream) + 1
        /\ Len(stream) < MaxEntries
    BY <1>1, Typed DEF XAdd
  <1>3. UNCHANGED <<cursor, owner, idle, holds, scan, handed, processed, faults>>
    BY <1>1 DEF XAdd, Submit
  <1>4. TypeOK'
    BY <1>2, <1>3, Typed DEF TypeOK, QueueTypeOK
  <1> QED
    BY <1>3, <1>4
    DEF DeliveryInv, AckedWereProcessed, Acknowledged, AckingWasProcessed, DeliveredInOrder,
        HandedToOwner

\* XREADGROUP gives the next entry to a consumer, who was the first to get it.
LEMMA ReadGroupKeeps ==
    ASSUME DeliveryInv, NEW c \in Consumers, NEW e, XReadGroup(c, e), Hand(c, {e}),
           holds' \in [Consumers -> SUBSET (EntryIDs \X {"processing", "acking"})],
           \A d \in Consumers, i \in EntryIDs :
               <<i, "acking">> \in holds'[d] => <<i, "acking">> \in holds[d],
           faults' \in 0..MaxFaults, UNCHANGED <<scan, processed>>
    PROVE  DeliveryInv'
  <1>1. e \in EntryIDs /\ cursor' = e /\ e = cursor + 1 /\ e <= Len(stream) /\ stream' = stream
    BY Typed DEF XReadGroup, EntryIDs
  <1>2. /\ owner' = [owner EXCEPT ![e] = c] /\ idle' = idle \ {e}
        /\ handed' = [i \in EntryIDs |-> IF i \in {e} THEN handed[i] \cup {c} ELSE handed[i]]
    BY DEF XReadGroup, Hand
  <1>3. owner[e] = Nobody
    BY <1>1, Typed DEF DeliveryInv, DeliveredInOrder
  <1>4. handed[e] = {}
    BY <1>1, <1>3, Typed DEF DeliveryInv, HandedToOwner
  <1>5. TypeOK'
    BY <1>1, <1>2, Typed DEF TypeOK, QueueTypeOK
  <1>6. AckedWereProcessed'
    <2> SUFFICES ASSUME NEW i \in Acknowledged' PROVE i \in processed
      BY DEF AckedWereProcessed
    <2>1. i \in 1..cursor /\ i # e /\ owner[i] = Nobody
      BY <1>1, <1>2, Typed DEF Acknowledged, EntryIDs
    <2> QED BY <2>1 DEF DeliveryInv, AckedWereProcessed, Acknowledged
  <1>7. AckingWasProcessed'
    BY DEF DeliveryInv, AckingWasProcessed
  <1>8. DeliveredInOrder'
    BY <1>1, <1>2, Typed DEF DeliveryInv, DeliveredInOrder, EntryIDs
  <1>9. HandedToOwner'
    BY <1>1, <1>2, <1>4, Typed DEF DeliveryInv, HandedToOwner
  <1> QED BY <1>5, <1>6, <1>7, <1>8, <1>9 DEF DeliveryInv

\* Taking entries starts attempts, none of which is past its processing.
LEMMA TakeStarts ==
    ASSUME DeliveryInv, NEW c \in Consumers, NEW ids \in SUBSET EntryIDs, Take(c, ids)
    PROVE  /\ holds' \in [Consumers -> SUBSET (EntryIDs \X {"processing", "acking"})]
           /\ \A d \in Consumers, i \in EntryIDs :
                  <<i, "acking">> \in holds'[d] => <<i, "acking">> \in holds[d]
  <1> DEFINE new == {<<e, "processing">> : e \in {i \in ids : stream[i] \in Runs}}
  <1>1. new \in SUBSET (EntryIDs \X {"processing", "acking"})
    OBVIOUS
  <1>2. holds' = [holds EXCEPT ![c] = @ \cup new]
    BY DEF Take
  <1>3. \A i \in EntryIDs : <<i, "acking">> \notin new
    OBVIOUS
  <1> HIDE DEF new
  <1> QED BY <1>1, <1>2, <1>3, Typed

LEMMA ReadKeeps == ASSUME DeliveryInv, NEW c \in Consumers, Read(c) PROVE DeliveryInv'
  <1>1. PICK e \in EntryIDs : ConsumeReturns(c, e) /\ Take(c, {e}) /\ Hand(c, {e})
    BY DEF Read
  <1>2. XReadGroup(c, e) /\ {e} \in SUBSET EntryIDs
    BY <1>1 DEF ConsumeReturns
  <1>3. faults' \in 0..MaxFaults /\ UNCHANGED <<scan, processed>>
    BY Typed DEF Read
  <1> QED BY <1>1, <1>2, <1>3, TakeStarts, ReadGroupKeeps

LEMMA ReadFailsKeeps == ASSUME DeliveryInv, NEW c \in Consumers, ReadFails(c) PROVE DeliveryInv'
  <1>1. XReadGroup(c, cursor + 1)
    BY DEF ReadFails, ConsumeFails, queueVars
  <1>2. Hand(c, {cursor + 1})
    BY <1>1 DEF ReadFails, XReadGroup
  <1>3. faults' \in 0..MaxFaults /\ UNCHANGED <<scan, processed, holds>>
    BY Typed, FaultCounts DEF ReadFails
  <1> QED BY <1>1, <1>2, <1>3, Typed, ReadGroupKeeps

LEMMA ScanKeeps == ASSUME DeliveryInv, NEW c \in Consumers, Scan(c) PROVE DeliveryInv'
  <1>1. StaleIDs \in SUBSET EntryIDs
    BY Typed DEF StaleIDs
  <1>2. scan' = [scan EXCEPT ![c] = StaleIDs]
        /\ UNCHANGED <<stream, cursor, owner, idle, holds, handed, processed, faults>>
    BY DEF Scan, queueVars
  <1>3. TypeOK'
    BY <1>1, <1>2, Typed DEF TypeOK, QueueTypeOK
  <1> QED
    BY <1>2, <1>3
    DEF DeliveryInv, AckedWereProcessed, Acknowledged, AckingWasProcessed, DeliveredInOrder,
        HandedToOwner

LEMMA ClaimKeeps == ASSUME DeliveryInv, NEW c \in Consumers, Claim(c) PROVE DeliveryInv'
  <1> DEFINE ids == Claimable(scan[c])
  <1>1. ids \in SUBSET EntryIDs /\ \A e \in ids : owner[e] # Nobody /\ e \in idle
    BY Typed DEF Claimable, PendingIDs
  <1>2. /\ owner' = [e \in EntryIDs |-> IF e \in ids THEN c ELSE owner[e]]
        /\ idle' = idle \ ids
        /\ handed' = [e \in EntryIDs |-> IF e \in ids THEN handed[e] \cup {c} ELSE handed[e]]
        /\ scan' = [scan EXCEPT ![c] = {}]
        /\ UNCHANGED <<stream, cursor, processed>>
    BY DEF Claim, XClaim, Hand
  <1>3. /\ holds' \in [Consumers -> SUBSET (EntryIDs \X {"processing", "acking"})]
        /\ \A d \in Consumers, i \in EntryIDs :
               <<i, "acking">> \in holds'[d] => <<i, "acking">> \in holds[d]
        /\ faults' \in 0..MaxFaults
    <2>1. CASE Take(c, ids) /\ UNCHANGED faults
      BY <1>1, <2>1, TakeStarts, Typed
    <2>2. CASE Fault /\ UNCHANGED holds
      BY <2>2, FaultCounts, Typed
    <2> QED BY <2>1, <2>2 DEF Claim
  <1> HIDE DEF ids
  <1>4. TypeOK'
    BY <1>1, <1>2, <1>3, Typed DEF TypeOK, QueueTypeOK
  <1>5. AckedWereProcessed'
    BY <1>1, <1>2, Typed DEF DeliveryInv, AckedWereProcessed, Acknowledged, EntryIDs
  <1>6. AckingWasProcessed'
    BY <1>2, <1>3 DEF DeliveryInv, AckingWasProcessed
  <1>7. DeliveredInOrder'
    BY <1>1, <1>2, Typed DEF DeliveryInv, DeliveredInOrder
  <1>8. HandedToOwner'
    BY <1>1, <1>2, Typed DEF DeliveryInv, HandedToOwner
  <1> QED BY <1>4, <1>5, <1>6, <1>7, <1>8 DEF DeliveryInv

\* The end of an attempt's processing, either way, or of the consumer.
LEMMA AttemptEndKeeps ==
    ASSUME DeliveryInv, UNCHANGED <<queueVars, handed>>,
           holds' \in [Consumers -> SUBSET (EntryIDs \X {"processing", "acking"})],
           scan' \in [Consumers -> SUBSET EntryIDs],
           processed' \in SUBSET EntryIDs, processed \subseteq processed',
           \A d \in Consumers, i \in EntryIDs :
               <<i, "acking">> \in holds'[d] => <<i, "acking">> \in holds[d] \/ i \in processed',
           faults' \in 0..MaxFaults
    PROVE  DeliveryInv'
  <1>1. UNCHANGED <<stream, cursor, owner, idle, handed>>
    BY DEF queueVars
  <1>2. TypeOK'
    BY <1>1, Typed DEF TypeOK, QueueTypeOK
  <1>3. AckedWereProcessed' /\ AckingWasProcessed'
    BY <1>1 DEF DeliveryInv, AckedWereProcessed, Acknowledged, AckingWasProcessed
  <1> QED
    BY <1>1, <1>2, <1>3 DEF DeliveryInv, DeliveredInOrder, HandedToOwner

LEMMA FinishKeeps ==
    ASSUME DeliveryInv, NEW c \in Consumers, NEW e \in EntryIDs, Finish(c, e) PROVE DeliveryInv'
  <1>1. holds' = [holds EXCEPT ![c] = (holds[c] \ {<<e, "processing">>}) \cup {<<e, "acking">>}]
        /\ processed' = processed \cup {e}
    BY DEF Finish
  <1>2. \A d \in Consumers, i \in EntryIDs :
            <<i, "acking">> \in holds'[d] => <<i, "acking">> \in holds[d] \/ i \in processed'
    BY <1>1, Typed
  <1>3. holds' \in [Consumers -> SUBSET (EntryIDs \X {"processing", "acking"})]
    BY <1>1, Typed
  <1> QED BY <1>1, <1>2, <1>3, Typed, AttemptEndKeeps DEF Finish

LEMMA FailKeeps ==
    ASSUME DeliveryInv, NEW c \in Consumers, NEW e \in EntryIDs, Fail(c, e) PROVE DeliveryInv'
  <1>1. holds' = [holds EXCEPT ![c] = holds[c] \ {<<e, "processing">>}]
    BY DEF Fail
  <1>2. /\ holds' \in [Consumers -> SUBSET (EntryIDs \X {"processing", "acking"})]
        /\ \A d \in Consumers, i \in EntryIDs :
               <<i, "acking">> \in holds'[d] => <<i, "acking">> \in holds[d]
    BY <1>1, Typed
  <1> QED BY <1>2, Typed, FaultCounts, AttemptEndKeeps DEF Fail

LEMMA CrashKeeps == ASSUME DeliveryInv, NEW c \in Consumers, CrashConsumer(c) PROVE DeliveryInv'
  <1>1. holds' = [holds EXCEPT ![c] = {}] /\ scan' = [scan EXCEPT ![c] = {}]
    BY DEF CrashConsumer
  <1>2. /\ holds' \in [Consumers -> SUBSET (EntryIDs \X {"processing", "acking"})]
        /\ scan' \in [Consumers -> SUBSET EntryIDs]
        /\ \A d \in Consumers, i \in EntryIDs :
               <<i, "acking">> \in holds'[d] => <<i, "acking">> \in holds[d]
    BY <1>1, Typed
  <1> QED BY <1>2, Typed, FaultCounts, AttemptEndKeeps DEF CrashConsumer

LEMMA AckKeeps ==
    ASSUME DeliveryInv, NEW c \in Consumers, NEW e \in EntryIDs, AckProcessed(c, e)
    PROVE  DeliveryInv'
  <1>1. /\ <<e, "acking">> \in holds[c] /\ e \in processed
        /\ holds' = [holds EXCEPT ![c] = holds[c] \ {<<e, "acking">>}]
        /\ handed' = [handed EXCEPT ![e] = IF owner'[e] = Nobody THEN {} ELSE handed[e]]
        /\ UNCHANGED <<stream, cursor, scan, processed>>
    BY DEF AckProcessed, DeliveryInv, AckingWasProcessed, Ack, XAck, queueVars
  <1>2. \/ owner' = [owner EXCEPT ![e] = Nobody] /\ idle' = idle \ {e}
        \/ UNCHANGED <<owner, idle>>
    BY DEF AckProcessed, Ack, XAck, queueVars
  <1>3. faults' \in 0..MaxFaults
    BY Typed, FaultCounts DEF AckProcessed
  <1>4. holds' \in [Consumers -> SUBSET (EntryIDs \X {"processing", "acking"})]
    BY <1>1, Typed
  <1>5. TypeOK'
    <2>1. handed' \in [EntryIDs -> SUBSET Consumers]
      BY <1>1, Typed
    <2>2. owner' \in [EntryIDs -> Consumers \cup {Nobody}] /\ idle' \in SUBSET EntryIDs
      BY <1>2, Typed
    <2> QED BY <1>1, <1>3, <1>4, <2>1, <2>2, Typed DEF TypeOK, QueueTypeOK
  <1>6. AckedWereProcessed'
    BY <1>1, <1>2, Typed DEF DeliveryInv, AckedWereProcessed, Acknowledged, EntryIDs
  <1>7. AckingWasProcessed'
    BY <1>1, Typed DEF DeliveryInv, AckingWasProcessed
  <1>8. DeliveredInOrder'
    BY <1>1, <1>2, Typed DEF DeliveryInv, DeliveredInOrder
  <1>9. HandedToOwner'
    <2> SUFFICES ASSUME NEW i \in EntryIDs
                 PROVE  handed'[i] \subseteq {owner'[i]} /\ (i \in idle' => handed'[i] = {})
      BY DEF HandedToOwner
    <2>1. CASE i = e
      BY <1>1, <1>2, <2>1, Typed DEF DeliveryInv, HandedToOwner
    <2>2. CASE i # e
      BY <1>1, <1>2, <2>2, Typed DEF DeliveryInv, HandedToOwner
    <2> QED BY <2>1, <2>2
  <1> QED BY <1>5, <1>6, <1>7, <1>8, <1>9 DEF DeliveryInv

LEMMA TimeoutKeeps == ASSUME DeliveryInv, NEW e \in EntryIDs, Timeout(e) PROVE DeliveryInv'
  <1>1. /\ handed' = [handed EXCEPT ![e] = {}] /\ idle' = idle \cup {e}
        /\ UNCHANGED <<stream, cursor, owner, holds, scan, processed, faults>>
    BY DEF Timeout, GoIdle
  <1>2. TypeOK'
    BY <1>1, Typed DEF TypeOK, QueueTypeOK
  <1>3. HandedToOwner'
    BY <1>1, Typed DEF DeliveryInv, HandedToOwner
  <1> QED
    BY <1>1, <1>2, <1>3
    DEF DeliveryInv, AckedWereProcessed, Acknowledged, AckingWasProcessed, DeliveredInOrder

LEMMA StutterKeeps == ASSUME DeliveryInv, UNCHANGED vars PROVE DeliveryInv'
  BY DEF vars, queueVars, DeliveryInv, TypeOK, QueueTypeOK, AckedWereProcessed, Acknowledged,
         AckingWasProcessed, DeliveredInOrder, HandedToOwner

LEMMA DeliveryStep == DeliveryInv /\ [Next]_vars => DeliveryInv'
  <1> SUFFICES ASSUME DeliveryInv, [Next]_vars PROVE DeliveryInv'
    OBVIOUS
  <1>1. ASSUME NEW c \in Consumers, ConsumerStep(c) PROVE DeliveryInv'
    BY <1>1, ReadKeeps, ReadFailsKeeps, ScanKeeps, ClaimKeeps, FinishKeeps, FailKeeps, AckKeeps,
       CrashKeeps
    DEF ConsumerStep
  <1> QED BY <1>1, SubmitKeeps, TimeoutKeeps, StutterKeeps DEF Next

LEMMA DeliveryInvariant == Spec => []DeliveryInv
  BY InitDelivery, DeliveryStep, PTL DEF Spec

-----------------------------------------------------------------------------
\* The server's and the consumers' state keep their types.
THEOREM DeliveryTyped == Spec => []TypeOK
  <1>1. DeliveryInv => TypeOK
    BY DEF DeliveryInv
  <1> QED BY <1>1, DeliveryInvariant, PTL

\* "XACK removes from pending": what is gone from the list was processed,
\* however claims, crashes, lost replies and late acks interleave.
THEOREM AckedWereAlwaysProcessed == Spec => []AckedWereProcessed
  <1>1. DeliveryInv => AckedWereProcessed
    BY DEF DeliveryInv
  <1> QED BY <1>1, DeliveryInvariant, PTL

\* One visibility timeout hands an entry to one consumer at most.
THEOREM OneConsumerEachTimeout == Spec => []OneConsumerPerTimeout
  <1>1. ASSUME DeliveryInv PROVE OneConsumerPerTimeout
    <2> SUFFICES ASSUME NEW e \in EntryIDs PROVE Cardinality(handed[e]) <= 1
      BY DEF OneConsumerPerTimeout
    <2>1. handed[e] = {} \/ handed[e] = {owner[e]}
      BY <1>1 DEF DeliveryInv, HandedToOwner
    <2>2. Cardinality({}) = 0 /\ Cardinality({owner[e]}) = 1
      BY FS_EmptySet, FS_Singleton
    <2> QED BY <2>1, <2>2
  <1> QED BY <1>1, DeliveryInvariant, PTL

-----------------------------------------------------------------------------
(* A late claim, like any other step, leaves what was acked alone.          *)
THEOREM NoDeliveryOfTheAcked == Spec => NoDeliveryAfterAck
  <1> DEFINE Over(e) ==
        /\ e \in Acknowledged'
        /\ \A c \in Consumers : <<e, "processing">> \notin holds'[c] \ holds[c]
  <1>1. ASSUME DeliveryInv, Next, NEW e \in Acknowledged PROVE Over(e)
    <2>0. /\ e \in EntryIDs /\ e \in 1..cursor /\ owner[e] = Nobody /\ e \notin PendingIDs
          /\ cursor \in Nat
      <3>1. /\ Len(stream) \in 0..MaxEntries /\ cursor \in 0..Len(stream) /\ MaxEntries \in Nat
        BY <1>1, Typed
      <3>2. e \in 1..cursor /\ owner[e] = Nobody
        BY DEF Acknowledged
      <3> QED BY <3>1, <3>2 DEF PendingIDs, EntryIDs
    <2> HIDE DEF Over
    <2>1. ASSUME cursor' \in Nat, cursor <= cursor', owner'[e] = Nobody, holds' = holds
          PROVE  Over(e)
      BY <2>0, <2>1 DEF Over, Acknowledged
    <2>2. ASSUME NEW c \in Consumers, NEW ids \in SUBSET EntryIDs, Take(c, ids), e \notin ids,
                 cursor' \in Nat, cursor <= cursor', owner'[e] = Nobody
          PROVE  Over(e)
      <3>1. ASSUME NEW d \in Consumers PROVE <<e, "processing">> \notin holds'[d] \ holds[d]
        BY <1>1, <2>2, Typed DEF Take
      <3> QED BY <2>0, <2>2, <3>1 DEF Over, Acknowledged
    <2>3. ASSUME NEW c \in Consumers, NEW S, holds' = [holds EXCEPT ![c] = S],
                 <<e, "processing">> \in S => <<e, "processing">> \in holds[c],
                 cursor' = cursor, owner'[e] = Nobody
          PROVE  Over(e)
      <3>1. ASSUME NEW d \in Consumers PROVE <<e, "processing">> \notin holds'[d] \ holds[d]
        BY <1>1, <2>3, Typed
      <3> QED BY <2>0, <2>3, <3>1 DEF Over, Acknowledged
    <2>4. CASE Submit
      BY <2>0, <2>1, <2>4 DEF Submit, Produce, XAdd
    <2>5. ASSUME NEW c \in Consumers, Read(c) PROVE Over(e)
      <3>1. PICK i \in EntryIDs : XReadGroup(c, i) /\ Take(c, {i})
        BY <2>5 DEF Read, ConsumeReturns
      <3>2. i = cursor + 1 /\ cursor' = i /\ i # e /\ owner'[e] = owner[e]
        BY <1>1, <2>0, <3>1, Typed DEF XReadGroup
      <3> QED BY <2>0, <2>2, <3>1, <3>2
    <2>6. ASSUME NEW c \in Consumers, ReadFails(c) PROVE Over(e)
      <3>1. XReadGroup(c, cursor + 1) /\ holds' = holds
        BY <2>6 DEF ReadFails, ConsumeFails, queueVars
      <3>2. cursor' = cursor + 1 /\ owner'[e] = owner[e]
        BY <1>1, <2>0, <3>1, Typed DEF XReadGroup
      <3> QED BY <2>0, <2>1, <3>1, <3>2
    <2>7. ASSUME NEW c \in Consumers, Claim(c) PROVE Over(e)
      <3>1. /\ XClaim(c, scan[c]) /\ scan[c] \in SUBSET EntryIDs
            /\ Take(c, Claimable(scan[c])) \/ holds' = holds
        BY <1>1, <2>7, Typed DEF Claim
      <3>2. e \notin Claimable(scan[c]) /\ Claimable(scan[c]) \in SUBSET EntryIDs
        BY <2>0, <3>1 DEF Claimable
      <3>3. cursor' = cursor /\ owner'[e] = Nobody
        BY <2>0, <3>1, <3>2 DEF XClaim
      <3> QED BY <2>0, <2>1, <2>2, <3>1, <3>2, <3>3
    <2>8. ASSUME NEW c \in Consumers, Scan(c) PROVE Over(e)
      BY <2>0, <2>1, <2>8 DEF Scan, queueVars
    <2>9. ASSUME NEW c \in Consumers, NEW i \in EntryIDs,
                 Finish(c, i) \/ Fail(c, i) \/ AckProcessed(c, i) \/ CrashConsumer(c)
          PROVE  Over(e)
      <3>1. cursor' = cursor /\ owner'[e] = Nobody
        BY <1>1, <2>0, <2>9, Typed
        DEF Finish, Fail, AckProcessed, CrashConsumer, Ack, XAck, queueVars
      <3>2. PICK S : /\ holds' = [holds EXCEPT ![c] = S]
                     /\ <<e, "processing">> \in S => <<e, "processing">> \in holds[c]
        BY <2>9 DEF Finish, Fail, AckProcessed, CrashConsumer
      <3> QED BY <2>3, <3>1, <3>2
    <2>10. ASSUME NEW i \in EntryIDs, Timeout(i) PROVE Over(e)
      BY <2>0, <2>1, <2>10 DEF Timeout, GoIdle
    <2>11. ASSUME NEW c \in Consumers, ConsumerStep(c) PROVE Over(e)
      BY <2>0, <2>5, <2>6, <2>7, <2>8, <2>9, <2>11 DEF ConsumerStep
    <2> QED BY <1>1, <2>4, <2>10, <2>11 DEF Next
  <1>2. DeliveryInv /\ [Next]_vars => [\A e \in Acknowledged : Over(e)]_vars
    BY <1>1
  <1> QED BY <1>2, DeliveryInvariant, PTL DEF Spec, NoDeliveryAfterAck
=============================================================================
