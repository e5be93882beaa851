------------------------ MODULE IngressDispatchProofs ------------------------
(* The dispatcher's safety, for any number of entries, slots and flags: the *)
(* slots are never more nor fewer than the goroutines that will give them   *)
(* back, and what is acked has succeeded.                                   *)
EXTENDS IngressDispatch, RunGateProofs, FiniteSetTheorems

\* Between two runs of the process nothing of it is left.
ProcessState ==
    /\ up <=> at # "exited"
    /\ ~up => ~ctxDone /\ sem = 0 /\ dispatched = 0 /\ worker = NoGoroutines

\* How many slots are taken at each place of the loop.  With ctxDone the select
\* may pass without taking one, and the receive after it takes a goroutine's.
SlotsCounted ==
    LET n == Cardinality(Active)
    IN  /\ at \in {"check", "slot"} => sem = n
        /\ at = "recheck" => sem = n + 1 \/ (ctxDone /\ sem = n)
        /\ at = "consume" => sem = n + 1
        /\ at = "wait" => sem = n \/ (ctxDone /\ sem + 1 = n)

\* What a goroutine knows of its entry, and its Admit.
Goroutine(e) ==
    /\ worker[e] # "none" => e <= cursor
    /\ worker[e] = "admitting" => run[e] = stream[e]
    /\ worker[e] = "acking" => stream[e] \in succeeded
    /\ pc[e] \in {"enqueue", "admit", "start", "run", "finish"} <=> worker[e] = "admitting"

\* A Consume is only called while another goroutine may be started.
LimitsAhead ==
    /\ dispatched <= cursor
    /\ at = "consume" => ~LimitReached
    /\ flags.once /\ at \in {"check", "slot", "recheck", "consume"} => dispatched = 0

DispatchInv ==
    /\ GateInv /\ StoreInv /\ hasStore
    /\ DispatchTypeOK
    /\ ProcessState
    /\ SlotsCounted
    /\ InFlightBounded
    /\ \A e \in Entries : Goroutine(e)
    /\ AckedRunsSucceeded
    /\ LimitsAhead
    /\ LimitsKept

-----------------------------------------------------------------------------
LEMMA ActiveFinite == IsFiniteSet(Active)
  <1>1. MaxEntries \in Int /\ Entries = 1..MaxEntries
    BY DispatchAssumption DEF Entries
  <1>2. IsFiniteSet(Entries)
    BY <1>1, FS_Interval
  <1>3. Active \in SUBSET Entries
    BY DEF Active
  <1> QED BY <1>2, <1>3, FS_Subset

\* What the proofs below read off the invariant.
LEMMA DispatchFacts ==
    ASSUME DispatchInv
    PROVE  /\ MaxEntries \in Nat /\ Entries = 1..MaxEntries /\ Admissions = Entries
           /\ flags \in Flags /\ flags.concurrentRuns \in Nat \ {0} /\ flags.maxRuns \in Nat
           /\ flags.once \in BOOLEAN
           /\ ctxDone \in BOOLEAN /\ at \in LoopSteps /\ up \in BOOLEAN
           /\ sem \in 0..flags.concurrentRuns /\ dispatched \in 0..MaxEntries
           /\ worker \in [Entries -> {"none", "admitting", "acking", "releasing"}]
           /\ stream \in Seq(Runs \cup {Queue!Malformed}) /\ Len(stream) \in 0..MaxEntries
           /\ cursor \in 0..Len(stream)
           /\ owner \in [Entries -> {Consumer, Queue!Nobody}]
           /\ idle \in SUBSET Entries
           /\ Cardinality(Active) \in Nat /\ Cardinality(Active) <= flags.concurrentRuns
  <1>1. /\ MaxEntries \in Nat /\ Entries = 1..MaxEntries /\ Admissions = Entries
        /\ flags \in [concurrentRuns : Nat \ {0}, maxRuns : Nat, once : BOOLEAN]
    BY DispatchAssumption DEF Entries, DispatchInv, DispatchTypeOK
  <1>2. Cardinality(Active) \in Nat
    BY ActiveFinite, FS_CardinalityType
  <1>3. /\ stream \in Seq(Runs \cup {Queue!Malformed}) /\ Len(stream) <= MaxEntries
        /\ cursor \in 0..Len(stream)
        /\ owner \in [Entries -> {Consumer, Queue!Nobody}] /\ idle \in SUBSET Entries
    BY <1>1 DEF DispatchInv, DispatchTypeOK, Queue!QueueTypeOK, Queue!EntryIDs
  <1>4. up \in BOOLEAN
    BY DEF DispatchInv, DispatchTypeOK, StoreTypeOK
  <1> QED BY <1>1, <1>2, <1>3, <1>4 DEF DispatchInv, DispatchTypeOK, InFlightBounded

\* A goroutine that starts, and one that ends.
LEMMA ActiveGrows ==
    ASSUME DispatchInv, NEW e \in Entries, worker[e] = "none",
           worker' = [worker EXCEPT ![e] = "admitting"]
    PROVE  Cardinality(Active') = Cardinality(Active) + 1
  <1>1. Active' = Active \cup {e} /\ e \notin Active
    BY DispatchFacts DEF Active
  <1> QED BY <1>1, ActiveFinite, FS_AddElement

LEMMA ActiveShrinks ==
    ASSUME DispatchInv, NEW e \in Entries, worker[e] # "none",
           worker' = [worker EXCEPT ![e] = "none"]
    PROVE  Cardinality(Active') = Cardinality(Active) - 1
  <1>1. Active' = Active \ {e} /\ e \in Active
    BY DispatchFacts DEF Active
  <1> QED BY <1>1, ActiveFinite, FS_RemoveElement

LEMMA NoneActive == ASSUME worker = NoGoroutines PROVE Cardinality(Active) = 0
  <1>1. Active = {}
    BY DEF Active, NoGoroutines
  <1> QED BY <1>1, FS_EmptySet

-----------------------------------------------------------------------------
\* A process has its store from the beginning.
LEMMA HasStoreStays == ASSUME [Next]_vars PROVE hasStore' = hasStore
  <1>1. ASSUME NEW a \in Admissions, AdmitStep(a) PROVE hasStore' = hasStore
    BY <1>1 DEF AdmitStep, EnqueueQueued, MarkAdmitted, MarkRunning, RunFn, MarkTerminal, Advance
  <1>2. ASSUME NEW a \in Admissions, NEW r \in Runs, Admit(a, r) PROVE hasStore' = hasStore
    BY <1>2 DEF Admit
  <1>3. ASSUME NEW r \in Supervised, Operator(r) PROVE hasStore' = hasStore
    BY <1>3 DEF Operator
  <1>4. CASE CrashAll \/ Restart \/ UNCHANGED vars
    BY <1>4 DEF CrashAll, Restart, gateVars, vars
  <1> QED BY <1>1, <1>2, <1>3, <1>4 DEF Next

\* Whatever the dispatcher does with the gate, the gate allows.
LEMMA DispatchStepIsGateStep == ASSUME DispatchInv, [DispatchNext]_allVars PROVE [Next]_vars
  <1>1. CASE UNCHANGED allVars
    BY <1>1 DEF allVars
  <1>2. CASE CheckLimits \/ TakeSlot \/ Recheck \/ ConsumeNothing \/ Submit \/ ContextDone
    BY <1>2 DEF CheckLimits, TakeSlot, Recheck, ConsumeNothing, Submit, ContextDone,
                LoopUnchanged
  <1>3. ASSUME NEW e \in Entries, Dispatch(e) PROVE Next
    <2>1. stream[e] \in Runs /\ e \in Admissions /\ Admit(e, stream[e])
      BY <1>3 DEF Dispatch, Queue!ConsumeReturns, Entries
    <2> QED BY <2>1 DEF Next
  <1>4. ASSUME NEW e \in Entries, Worker(e) PROVE [Next]_vars
    <2>1. CASE RunAdmission(e)
      BY <2>1 DEF RunAdmission, Next, Entries
    <2>2. CASE AckEntry(e) \/ Release(e)
      BY <2>2 DEF AckEntry, Release
    <2> QED BY <1>4, <2>1, <2>2 DEF Worker
  <1>5. CASE Exit \/ Die \/ StartAgain
    BY <1>5 DEF Exit, Die, ProcessEnds, StartAgain, Next
  <1> QED BY <1>1, <1>2, <1>3, <1>4, <1>5 DEF DispatchNext, Loop

LEMMA DispatchKeepsGate ==
    ASSUME DispatchInv, [DispatchNext]_allVars
    PROVE  GateInv' /\ StoreInv' /\ hasStore'
  <1>1. [Next]_vars
    BY DispatchStepIsGateStep
  <1>2. GateInv' /\ [StoreNext]_storeVars
    BY <1>1, GateStepInv, GateStepIsStoreStep DEF DispatchInv
  <1>3. StoreInv'
    BY <1>2, StoreStepInv DEF DispatchInv
  <1>4. hasStore' = hasStore
    BY <1>1, HasStoreStays
  <1> QED BY <1>2, <1>3, <1>4 DEF DispatchInv

-----------------------------------------------------------------------------
\* What the server's commands, other than XACK, leave as it was.
QueueExtended ==
    /\ Queue!QueueTypeOK'
    /\ cursor <= cursor'
    /\ \A e \in 1..cursor : stream'[e] = stream[e]
    /\ \A e \in 1..cursor' : owner'[e] = Queue!Nobody => e <= cursor /\ owner[e] = Queue!Nobody

LEMMA QueueStays == ASSUME DispatchInv, UNCHANGED queueVars PROVE QueueExtended
  <1>1. UNCHANGED <<stream, cursor, owner, idle>>
    BY DEF queueVars
  <1>2. Queue!QueueTypeOK'
    BY <1>1 DEF DispatchInv, DispatchTypeOK, Queue!QueueTypeOK
  <1> QED BY <1>1, <1>2, DispatchFacts DEF QueueExtended

LEMMA XAddExtends ==
    ASSUME DispatchInv, NEW payload \in Runs \cup {Queue!Malformed}, Queue!XAdd(payload)
    PROVE  QueueExtended
  <1>1. /\ Len(stream) < MaxEntries /\ stream' = Append(stream, payload)
        /\ UNCHANGED <<cursor, owner, idle>>
    BY DEF Queue!XAdd
  <1>2. /\ stream' \in Seq(Runs \cup {Queue!Malformed})
        /\ Len(stream') = Len(stream) + 1
        /\ \A e \in 1..Len(stream) : stream'[e] = stream[e]
    BY <1>1, DispatchFacts
  <1>3. Queue!QueueTypeOK'
    BY <1>1, <1>2, DispatchFacts DEF Queue!QueueTypeOK, Queue!EntryIDs
  <1> QED BY <1>1, <1>2, <1>3, DispatchFacts DEF QueueExtended

LEMMA XReadGroupExtends ==
    ASSUME DispatchInv, NEW e, Queue!XReadGroup(Consumer, e)
    PROVE  QueueExtended /\ e \in Entries /\ e = cursor + 1 /\ cursor' = e /\ stream' = stream
  <1>1. /\ cursor < Len(stream) /\ e = cursor + 1 /\ cursor' = e /\ stream' = stream
        /\ owner' = [owner EXCEPT ![e] = Consumer] /\ idle' = idle \ {e}
    BY DEF Queue!XReadGroup
  <1>2. e \in Entries
    BY <1>1, DispatchFacts
  <1>3. Queue!QueueTypeOK'
    BY <1>1, <1>2, DispatchFacts DEF Queue!QueueTypeOK, Queue!EntryIDs
  <1>4. Consumer # Queue!Nobody
    BY DEF Consumer, Queue!Nobody
  <1>5. \A d \in 1..cursor' : owner'[d] = Queue!Nobody => d <= cursor /\ owner[d] = Queue!Nobody
    BY <1>1, <1>2, <1>4, DispatchFacts
  <1> QED BY <1>1, <1>2, <1>3, <1>5, DispatchFacts DEF QueueExtended

\* Then what is acknowledged has succeeded, if it had.
LEMMA AckedStaysTrue ==
    ASSUME DispatchInv, QueueExtended, succeeded \subseteq succeeded'
    PROVE  AckedRunsSucceeded'
  <1> SUFFICES ASSUME NEW e \in 1..cursor', owner'[e] = Queue!Nobody
               PROVE  stream'[e] \in succeeded'
    BY DEF AckedRunsSucceeded, Queue!Acknowledged
  <1>1. e \in 1..cursor /\ owner[e] = Queue!Nobody /\ stream'[e] = stream[e]
    BY DispatchFacts DEF QueueExtended, Queue!QueueTypeOK
  <1> QED BY <1>1 DEF DispatchInv, AckedRunsSucceeded, Queue!Acknowledged

-----------------------------------------------------------------------------
\* A step that starts or ends no goroutine: the loop's, a submitter's, time's.
LEMMA NoGoroutineKeeps ==
    ASSUME DispatchInv, GateInv', StoreInv', hasStore',
           QueueExtended, UNCHANGED <<vars, flags, worker, dispatched>>,
           ctxDone' \in BOOLEAN, at' \in LoopSteps, sem' \in 0..flags.concurrentRuns,
           ProcessState', SlotsCounted',
           at' = "consume" => ~LimitReached,
           at' \in {"check", "slot", "recheck", "consume"} =>
               at \in {"check", "slot", "recheck", "consume"}
    PROVE  DispatchInv'
  <1>1. UNCHANGED <<pc, run, succeeded>>
    BY DEF vars, gateVars
  <1>2. DispatchTypeOK'
    BY DispatchFacts DEF DispatchTypeOK, DispatchInv, GateInv, QueueExtended
  <1>3. InFlightBounded'
    BY DEF DispatchInv, InFlightBounded, Active
  <1>4. ASSUME NEW e \in Entries PROVE Goroutine(e)'
    <2>1. worker[e] # "none" => e <= cursor' /\ stream'[e] = stream[e]
      BY <1>4, DispatchFacts DEF DispatchInv, Goroutine, QueueExtended, Queue!QueueTypeOK
    <2> QED BY <1>1, <2>1 DEF DispatchInv, Goroutine
  <1>5. AckedRunsSucceeded'
    BY <1>1, AckedStaysTrue
  <1>6. LimitsAhead'
    BY DispatchFacts
    DEF DispatchInv, LimitsAhead, LimitReached, QueueExtended, Queue!QueueTypeOK
  <1>7. LimitsKept'
    BY DEF DispatchInv, LimitsKept
  <1> QED BY <1>2, <1>3, <1>4, <1>5, <1>6, <1>7 DEF DispatchInv, Entries

LEMMA SameActive == ASSUME worker' = worker PROVE Cardinality(Active') = Cardinality(Active)
  BY DEF Active

LEMMA CheckLimitsKeeps ==
    ASSUME DispatchInv, GateInv', StoreInv', hasStore', CheckLimits
    PROVE  DispatchInv'
  <1>1. /\ up /\ up' /\ at = "check" /\ at' \in {"wait", "slot"}
        /\ UNCHANGED <<queueVars, vars, flags, ctxDone, worker, sem, dispatched>>
    BY DEF CheckLimits, LoopUnchanged, Go, vars, storeVars
  <1>2. ProcessState' /\ SlotsCounted'
    BY <1>1, SameActive DEF DispatchInv, ProcessState, SlotsCounted
  <1> QED
    BY <1>1, <1>2, DispatchFacts, QueueStays, NoGoroutineKeeps DEF LoopSteps

LEMMA TakeSlotKeeps ==
    ASSUME DispatchInv, GateInv', StoreInv', hasStore', TakeSlot
    PROVE  DispatchInv'
  <1>1. /\ up /\ up' /\ at = "slot" /\ at' = "recheck"
        /\ \/ sem < flags.concurrentRuns /\ sem' = sem + 1
           \/ ctxDone /\ sem' = sem
        /\ UNCHANGED <<queueVars, vars, flags, ctxDone, worker, dispatched>>
    BY DEF TakeSlot, LoopUnchanged, Go, vars, storeVars
  <1>2. ProcessState' /\ SlotsCounted'
    BY <1>1, SameActive, DispatchFacts DEF DispatchInv, ProcessState, SlotsCounted
  <1>3. sem' \in 0..flags.concurrentRuns
    BY <1>1, DispatchFacts
  <1> QED
    BY <1>1, <1>2, <1>3, DispatchFacts, QueueStays, NoGoroutineKeeps DEF LoopSteps

LEMMA RecheckKeeps ==
    ASSUME DispatchInv, GateInv', StoreInv', hasStore', Recheck
    PROVE  DispatchInv'
  <1>1. /\ up /\ up' /\ at = "recheck"
        /\ \/ (ctxDone \/ LimitReached) /\ sem > 0 /\ sem' = sem - 1 /\ at' = "wait"
           \/ ~ctxDone /\ ~LimitReached /\ sem' = sem /\ at' = "consume"
        /\ UNCHANGED <<queueVars, vars, flags, ctxDone, worker, dispatched>>
    BY DEF Recheck, Receive, LoopUnchanged, Go, vars, storeVars
  <1>2. ProcessState' /\ SlotsCounted'
    BY <1>1, SameActive, DispatchFacts DEF DispatchInv, ProcessState, SlotsCounted
  <1>3. sem' \in 0..flags.concurrentRuns
    BY <1>1, DispatchFacts
  <1> QED
    BY <1>1, <1>2, <1>3, DispatchFacts, QueueStays, NoGoroutineKeeps DEF LoopSteps

LEMMA ConsumeNothingKeeps ==
    ASSUME DispatchInv, GateInv', StoreInv', hasStore', ConsumeNothing
    PROVE  DispatchInv'
  <1>1. /\ up /\ up' /\ at = "consume" /\ at' = "check" /\ sem' = sem - 1 /\ sem > 0
        /\ UNCHANGED <<vars, flags, ctxDone, worker, dispatched>>
    BY DEF ConsumeNothing, Receive, LoopUnchanged, Go, vars, storeVars
  <1>2. ProcessState' /\ SlotsCounted'
    BY <1>1, SameActive, DispatchFacts DEF DispatchInv, ProcessState, SlotsCounted
  <1>3. sem' \in 0..flags.concurrentRuns
    BY <1>1, DispatchFacts
  <1>4. QueueExtended
    <2>1. CASE UNCHANGED queueVars
      BY <2>1, QueueStays
    <2>2. CASE Queue!XReadGroup(Consumer, cursor + 1)
      BY <2>2, XReadGroupExtends
    <2> QED
      BY <2>1, <2>2
      DEF ConsumeNothing, Queue!ConsumeEmpty, Queue!ConsumeFails, Queue!queueVars, queueVars
  <1> QED
    BY <1>1, <1>2, <1>3, <1>4, DispatchFacts, NoGoroutineKeeps DEF LoopSteps

LEMMA SubmitKeepsDispatch ==
    ASSUME DispatchInv, GateInv', StoreInv', hasStore', Submit
    PROVE  DispatchInv'
  <1>1. UNCHANGED <<vars, up, flags, ctxDone, at, sem, dispatched, worker>>
    BY DEF Submit, processVars, vars, storeVars
  <1>2. ProcessState' /\ SlotsCounted'
    BY <1>1, SameActive DEF DispatchInv, ProcessState, SlotsCounted, NoGoroutines
  <1>3. QueueExtended
    BY XAddExtends DEF Submit, Queue!Produce
  <1> QED BY <1>1, <1>2, <1>3, DispatchFacts, NoGoroutineKeeps DEF DispatchInv, LimitsAhead

LEMMA ContextDoneKeeps ==
    ASSUME DispatchInv, GateInv', StoreInv', hasStore', ContextDone
    PROVE  DispatchInv'
  <1>1. /\ up /\ up' /\ ctxDone' = TRUE
        /\ UNCHANGED <<vars, queueVars, flags, at, sem, dispatched, worker>>
    BY DEF ContextDone, vars, storeVars
  <1>2. ProcessState' /\ SlotsCounted'
    BY <1>1, SameActive DEF DispatchInv, ProcessState, SlotsCounted
  <1> QED
    BY <1>1, <1>2, DispatchFacts, QueueStays, NoGoroutineKeeps DEF DispatchInv, LimitsAhead

-----------------------------------------------------------------------------
\* The loop hands its slot to the goroutine it starts.
LEMMA DispatchKeeps ==
    ASSUME DispatchInv, GateInv', StoreInv', hasStore', NEW e \in Entries, Dispatch(e)
    PROVE  DispatchInv'
  <1>1. /\ at = "consume" /\ Queue!XReadGroup(Consumer, e) /\ Admit(e, stream[e])
        /\ dispatched' = dispatched + 1 /\ worker' = [worker EXCEPT ![e] = "admitting"]
        /\ at' = IF flags.once THEN "wait" ELSE "check"
        /\ UNCHANGED <<flags, ctxDone, sem>>
    BY DEF Dispatch, Queue!ConsumeReturns, Go
  <1>2. /\ QueueExtended /\ e = cursor + 1 /\ cursor' = e /\ stream' = stream
        /\ e \in 1..Len(stream)
    <2>1. QueueExtended /\ e = cursor + 1 /\ cursor' = e /\ stream' = stream
      BY <1>1, XReadGroupExtends
    <2>2. cursor < Len(stream)
      BY <1>1 DEF Queue!XReadGroup
    <2> QED BY <2>1, <2>2, DispatchFacts
  <1>3. /\ pc' = [pc EXCEPT ![e] = "enqueue"] /\ run' = [run EXCEPT ![e] = stream[e]]
        /\ up /\ up' /\ succeeded' = succeeded
    BY <1>1 DEF Admit, Goto, history, storeVars, DispatchInv
  <1>4. worker[e] = "none"
    BY <1>2, DispatchFacts DEF DispatchInv, Goroutine
  <1>5. Cardinality(Active') = Cardinality(Active) + 1 /\ sem = Cardinality(Active) + 1
    BY <1>1, <1>4, ActiveGrows DEF DispatchInv, SlotsCounted
  <1>6. dispatched <= cursor /\ ~LimitReached /\ (flags.once => dispatched = 0)
    BY <1>1 DEF DispatchInv, LimitsAhead
  <1>7. DispatchTypeOK'
    BY <1>1, <1>2, <1>6, DispatchFacts
    DEF DispatchTypeOK, DispatchInv, GateInv, QueueExtended, LoopSteps
  <1>8. ProcessState' /\ SlotsCounted' /\ InFlightBounded'
    BY <1>1, <1>3, <1>5, DispatchFacts DEF ProcessState, SlotsCounted, InFlightBounded
  <1>9. ASSUME NEW d \in Entries PROVE Goroutine(d)'
    <2>1. CASE d = e
      BY <1>1, <1>2, <1>3, <2>1, DispatchFacts DEF Goroutine, DispatchInv, GateInv, GateTypeOK
    <2>2. CASE d # e
      BY <1>1, <1>2, <1>3, <2>2, DispatchFacts DEF Goroutine, DispatchInv, GateInv, GateTypeOK
    <2> QED BY <2>1, <2>2
  <1>10. AckedRunsSucceeded'
    BY <1>2, <1>3, AckedStaysTrue
  <1>11. LimitsAhead' /\ LimitsKept'
    BY <1>1, <1>2, <1>6, DispatchFacts DEF LimitsAhead, LimitsKept, LimitReached
  <1> QED BY <1>7, <1>8, <1>9, <1>10, <1>11 DEF DispatchInv, Entries

-----------------------------------------------------------------------------
\* A step of a goroutine: the loop stays where it is.
LEMMA WorkerKeeps ==
    ASSUME DispatchInv, GateInv', StoreInv', hasStore',
           UNCHANGED <<up, flags, ctxDone, at, dispatched, cursor, stream>>,
           Queue!QueueTypeOK',
           NEW e \in Entries, worker[e] # "none",
           NEW w \in {"none", "admitting", "acking", "releasing"},
           worker' = [worker EXCEPT ![e] = w],
           IF w = "none" THEN sem > 0 /\ sem' = sem - 1 ELSE sem' = sem,
           succeeded \subseteq succeeded',
           \A d \in Entries \ {e} : pc'[d] = pc[d] /\ run'[d] = run[d],
           Goroutine(e)', AckedRunsSucceeded'
    PROVE  DispatchInv'
  <1>1. up /\ up'
    BY DEF DispatchInv, ProcessState, NoGoroutines
  <1>2. Cardinality(Active') = IF w = "none" THEN Cardinality(Active) - 1
                                             ELSE Cardinality(Active)
    <2>1. CASE w = "none"
      BY <2>1, ActiveShrinks
    <2>2. CASE w # "none"
      BY <2>2, DispatchFacts DEF Active
    <2> QED BY <2>1, <2>2
  <1>3. DispatchTypeOK'
    BY DispatchFacts DEF DispatchTypeOK, DispatchInv, GateInv
  <1>4. ProcessState'
    BY <1>1 DEF DispatchInv, ProcessState
  <1>5. SlotsCounted' /\ InFlightBounded'
    <2>1. SlotsCounted /\ Cardinality(Active) \in Nat /\ sem \in Nat
          /\ Cardinality(Active) <= flags.concurrentRuns /\ flags.concurrentRuns \in Nat
      BY DispatchFacts DEF DispatchInv
    <2>2. CASE w = "none"
      <3>1. Cardinality(Active') = Cardinality(Active) - 1 /\ sem' = sem - 1
        BY <1>2, <2>2
      <3> QED BY <2>1, <3>1 DEF SlotsCounted, InFlightBounded
    <2>3. CASE w # "none"
      <3>1. Cardinality(Active') = Cardinality(Active) /\ sem' = sem
        BY <1>2, <2>3
      <3> QED BY <2>1, <3>1 DEF SlotsCounted, InFlightBounded
    <2> QED BY <2>2, <2>3
  <1>6. ASSUME NEW d \in Entries \ {e} PROVE Goroutine(d)'
    BY DispatchFacts DEF DispatchInv, Goroutine
  <1>7. LimitsAhead' /\ LimitsKept'
    BY DEF DispatchInv, LimitsAhead, LimitsKept, LimitReached
  <1> QED BY <1>3, <1>4, <1>5, <1>6, <1>7 DEF DispatchInv, Entries

\* What a step of Admit tells the goroutine that called it.
LEMMA AdmitStepTells ==
    ASSUME GateInv, hasStore, NEW e \in Admissions, AdmitStep(e)
    PROVE  /\ UNCHANGED <<up, run>> /\ succeeded \subseteq succeeded'
           /\ pc[e] \in {"enqueue", "admit", "start", "run", "finish"}
           /\ pc'[e] \in {"admit", "start", "run", "finish", "returned"}
           /\ \A d \in Admissions \ {e} : pc'[d] = pc[d]
           /\ pc'[e] = "returned" /\ outcome'[e] = "ok" => run[e] \in succeeded
  <1> pc \in [Admissions -> PCs] /\ outcome \in [Admissions -> {"none", "ok", "error"}]
    BY DEF GateInv, GateTypeOK
  <1>1. CASE EnqueueQueued(e)
    BY <1>1 DEF EnqueueQueued, Enqueue, Goto, history
  <1>2. CASE MarkAdmitted(e)
    BY <1>2 DEF MarkAdmitted, Advance, UpdateState, Goto, history
  <1>3. CASE MarkRunning(e)
    BY <1>3 DEF MarkRunning, Advance, UpdateState, Goto, history
  <1>4. CASE \E result \in {"ok", "error"} : RunFn(e, result)
    BY <1>4 DEF RunFn, Goto, storeVars
  <1>5. CASE MarkTerminal(e)
    <2>1. /\ pc[e] = "finish" /\ pc' = [pc EXCEPT ![e] = "returned"]
          /\ UNCHANGED <<up, run, outcome, succeeded>>
      BY <1>5 DEF MarkTerminal, Advance, UpdateState, Goto
    <2>2. outcome[e] = "ok" => run[e] \in succeeded
      BY <2>1 DEF GateInv, Phase
    <2> QED BY <2>1, <2>2
  <1> QED BY <1>1, <1>2, <1>3, <1>4, <1>5 DEF AdmitStep

LEMMA RunAdmissionKeeps ==
    ASSUME DispatchInv, GateInv', StoreInv', hasStore', NEW e \in Entries, RunAdmission(e)
    PROVE  DispatchInv'
  <1>1. AdmitStep(e) /\ UNCHANGED <<queueVars, flags, ctxDone, at, sem, dispatched>>
    BY DEF RunAdmission
  <1>2. /\ UNCHANGED <<up, run>> /\ succeeded \subseteq succeeded'
        /\ pc[e] \in {"enqueue", "admit", "start", "run", "finish"}
        /\ pc'[e] \in {"admit", "start", "run", "finish", "returned"}
        /\ \A d \in Entries \ {e} : pc'[d] = pc[d]
        /\ pc'[e] = "returned" /\ outcome'[e] = "ok" => run[e] \in succeeded
    BY <1>1, AdmitStepTells DEF DispatchInv, Entries
  <1>3. worker[e] = "admitting" /\ e <= cursor /\ run[e] = stream[e]
    BY <1>2 DEF DispatchInv, Goroutine
  <1> DEFINE w == IF pc'[e] # "returned" THEN "admitting"
                  ELSE IF outcome'[e] = "ok" THEN "acking" ELSE "releasing"
  <1>4. worker' = [worker EXCEPT ![e] = w]
    BY <1>3, DispatchFacts DEF RunAdmission
  <1>5. UNCHANGED <<stream, cursor, owner, idle>> /\ QueueExtended
    BY <1>1, QueueStays DEF queueVars
  <1>6. AckedRunsSucceeded'
    BY <1>2, <1>5, AckedStaysTrue
  <1>7. Goroutine(e)'
    <2>1. worker'[e] = w
      BY <1>4, DispatchFacts
    <2> QED BY <1>2, <1>3, <1>5, <2>1 DEF Goroutine
  <1>8. w \in {"none", "admitting", "acking", "releasing"} /\ w # "none"
    OBVIOUS
  <1>9. Queue!QueueTypeOK'
    BY <1>5 DEF QueueExtended
  <1> HIDE DEF w
  <1> QED BY <1>1, <1>2, <1>3, <1>4, <1>5, <1>6, <1>7, <1>8, <1>9, WorkerKeeps

\* An entry that leaves the pending list here is one whose Admit returned nil.
LEMMA AckEntryKeeps ==
    ASSUME DispatchInv, GateInv', StoreInv', hasStore', NEW e \in Entries, AckEntry(e)
    PROVE  DispatchInv'
  <1>1. /\ worker[e] = "acking" /\ worker' = [worker EXCEPT ![e] = "releasing"]
        /\ UNCHANGED <<vars, flags, ctxDone, at, sem, dispatched>>
        /\ Queue!XAck(e) \/ UNCHANGED queueVars
    BY DEF AckEntry, Queue!Ack, Queue!queueVars, queueVars
  <1>2. UNCHANGED <<up, pc, run, succeeded>>
    BY <1>1 DEF vars, gateVars, storeVars
  <1>3. /\ UNCHANGED <<stream, cursor>>
        /\ \/ owner' = [owner EXCEPT ![e] = Queue!Nobody] /\ idle' = idle \ {e}
           \/ UNCHANGED <<owner, idle>>
    BY <1>1 DEF Queue!XAck, queueVars
  <1>4. Queue!QueueTypeOK'
    <2>1. owner' \in [Entries -> {Consumer, Queue!Nobody}] /\ idle' \in SUBSET Entries
      BY <1>3, DispatchFacts
    <2> QED BY <1>3, <2>1, DispatchFacts DEF Queue!QueueTypeOK, Queue!EntryIDs
  <1>5. e <= cursor /\ stream[e] \in succeeded
    BY <1>1 DEF DispatchInv, Goroutine
  <1>6. AckedRunsSucceeded'
    BY <1>2, <1>3, <1>5, DispatchFacts
    DEF DispatchInv, AckedRunsSucceeded, Queue!Acknowledged
  <1>7. Goroutine(e)'
    BY <1>1, <1>2, <1>3, <1>5, DispatchFacts DEF DispatchInv, Goroutine
  <1> QED BY <1>1, <1>2, <1>3, <1>4, <1>6, <1>7, WorkerKeeps

LEMMA ReleaseKeeps ==
    ASSUME DispatchInv, GateInv', StoreInv', hasStore', NEW e \in Entries, Release(e)
    PROVE  DispatchInv'
  <1>1. /\ worker[e] = "releasing" /\ worker' = [worker EXCEPT ![e] = "none"]
        /\ sem > 0 /\ sem' = sem - 1
        /\ UNCHANGED <<vars, queueVars, flags, ctxDone, at, dispatched>>
    BY DEF Release, Receive
  <1>2. UNCHANGED <<up, pc, run, succeeded, stream, cursor>>
    BY <1>1 DEF vars, gateVars, storeVars, queueVars
  <1>3. Queue!QueueTypeOK' /\ AckedRunsSucceeded'
    BY <1>1, <1>2, QueueStays, AckedStaysTrue DEF QueueExtended
  <1>4. Goroutine(e)'
    BY <1>1, <1>2, DispatchFacts DEF DispatchInv, Goroutine
  <1> QED BY <1>1, <1>2, <1>3, <1>4, WorkerKeeps

-----------------------------------------------------------------------------
\* The process ends with no goroutine left, and starts again without one.
LEMMA ProcessEndsKeeps ==
    ASSUME DispatchInv, GateInv', StoreInv', hasStore', ProcessEnds
    PROVE  DispatchInv'
  <1>1. /\ ~up' /\ at' = "exited" /\ ctxDone' = FALSE /\ sem' = 0 /\ dispatched' = 0
        /\ worker' = NoGoroutines
        /\ UNCHANGED <<queueVars, flags, run, succeeded>>
        /\ pc' = [a \in Admissions |-> "idle"]
    BY DEF ProcessEnds, CrashAll, Crash, Go
  <1>2. QueueExtended /\ UNCHANGED <<stream, cursor>>
    BY <1>1, QueueStays DEF queueVars
  <1>3. DispatchTypeOK'
    <2>1. worker' \in [Entries -> {"none", "admitting", "acking", "releasing"}]
      BY <1>1 DEF NoGoroutines, Entries
    <2>2. sem' \in 0..flags'.concurrentRuns /\ dispatched' \in 0..MaxEntries /\ flags' \in Flags
      BY <1>1, DispatchFacts
    <2> QED
      BY <1>1, <1>2, <2>1, <2>2 DEF DispatchTypeOK, GateInv, QueueExtended, LoopSteps
  <1>4. Cardinality(Active') = 0
    <2>1. Active' = {}
      BY <1>1 DEF Active, NoGoroutines, Entries
    <2> QED BY <2>1, FS_EmptySet
  <1>5. ProcessState' /\ SlotsCounted' /\ InFlightBounded'
    BY <1>1, <1>4, DispatchFacts DEF ProcessState, SlotsCounted, InFlightBounded, NoGoroutines
  <1>6. ASSUME NEW e \in Entries PROVE Goroutine(e)'
    BY <1>1 DEF Goroutine, NoGoroutines, Entries
  <1>7. AckedRunsSucceeded'
    BY <1>1, <1>2, AckedStaysTrue
  <1>8. LimitsAhead' /\ LimitsKept'
    BY <1>1, <1>2, DispatchFacts DEF LimitsAhead, LimitsKept
  <1> QED BY <1>3, <1>5, <1>6, <1>7, <1>8 DEF DispatchInv, Entries

LEMMA StartAgainKeeps ==
    ASSUME DispatchInv, GateInv', StoreInv', hasStore', StartAgain
    PROVE  DispatchInv'
  <1>1. /\ ~up /\ up' /\ at' = "check" /\ flags' \in Flags
        /\ UNCHANGED <<queueVars, ctxDone, sem, dispatched, worker, pc, run, succeeded>>
    BY DEF StartAgain, Restart, Open, gateVars, Go
  <1>2. ~ctxDone /\ sem = 0 /\ dispatched = 0 /\ worker = NoGoroutines
    BY <1>1 DEF DispatchInv, ProcessState
  <1>3. QueueExtended /\ UNCHANGED <<stream, cursor>>
    BY <1>1, QueueStays DEF queueVars
  <1>4. flags'.concurrentRuns \in Nat \ {0} /\ flags'.maxRuns \in Nat
    BY <1>1, DispatchAssumption
  <1>5. DispatchTypeOK'
    BY <1>1, <1>2, <1>3, <1>4, DispatchFacts
    DEF DispatchTypeOK, DispatchInv, GateInv, QueueExtended, LoopSteps
  <1>6. Cardinality(Active') = 0
    BY <1>1, <1>2, NoneActive DEF Active
  <1>7. ProcessState' /\ SlotsCounted' /\ InFlightBounded'
    BY <1>1, <1>2, <1>4, <1>6 DEF ProcessState, SlotsCounted, InFlightBounded, NoGoroutines
  <1>8. ASSUME NEW e \in Entries PROVE Goroutine(e)'
    BY <1>1, <1>3 DEF DispatchInv, Goroutine
  <1>9. AckedRunsSucceeded'
    BY <1>1, <1>3, AckedStaysTrue
  <1>10. LimitsAhead' /\ LimitsKept'
    BY <1>1, <1>2, <1>3, <1>4, DispatchFacts DEF LimitsAhead, LimitsKept
  <1> QED BY <1>5, <1>7, <1>8, <1>9, <1>10 DEF DispatchInv, Entries

LEMMA StutterKeepsDispatch ==
    ASSUME DispatchInv, GateInv', StoreInv', hasStore', UNCHANGED allVars
    PROVE  DispatchInv'
  <1>1. UNCHANGED <<vars, up, queueVars, flags, ctxDone, at, sem, dispatched, worker>>
    BY DEF allVars, processVars, vars, storeVars
  <1>2. ProcessState' /\ SlotsCounted'
    BY <1>1, SameActive DEF DispatchInv, ProcessState, SlotsCounted, NoGoroutines
  <1> QED
    BY <1>1, <1>2, DispatchFacts, QueueStays, NoGoroutineKeeps DEF DispatchInv, LimitsAhead

LEMMA DispatchStep == DispatchInv /\ [DispatchNext]_allVars => DispatchInv'
  <1> SUFFICES ASSUME DispatchInv, [DispatchNext]_allVars PROVE DispatchInv'
    OBVIOUS
  <1>1. GateInv' /\ StoreInv' /\ hasStore'
    BY DispatchKeepsGate
  <1>2. CASE Loop
    BY <1>1, <1>2, CheckLimitsKeeps, TakeSlotKeeps, RecheckKeeps, DispatchKeeps,
       ConsumeNothingKeeps, ProcessEndsKeeps
    DEF Loop, Exit
  <1>3. ASSUME NEW e \in Entries, Worker(e) PROVE DispatchInv'
    BY <1>1, <1>3, RunAdmissionKeeps, AckEntryKeeps, ReleaseKeeps DEF Worker
  <1>4. CASE Die
    BY <1>1, <1>4, ProcessEndsKeeps DEF Die
  <1> QED
    BY <1>1, <1>2, <1>3, <1>4, SubmitKeepsDispatch, ContextDoneKeeps, StartAgainKeeps,
       StutterKeepsDispatch
    DEF DispatchNext

LEMMA DispatchInitially == DispatchInit => DispatchInv
  <1> SUFFICES ASSUME DispatchInit PROVE DispatchInv
    OBVIOUS
  <1>1. GateInv /\ StoreInv /\ hasStore /\ up
    BY GateInitInv, StoreInitInv DEF DispatchInit, Init, StoreInit
  <1>2. /\ stream = << >> /\ cursor = 0 /\ owner = [e \in 1..MaxEntries |-> Queue!Nobody]
        /\ idle = {} /\ flags \in Flags /\ ctxDone = FALSE /\ at = "check"
        /\ sem = 0 /\ dispatched = 0 /\ worker = NoGoroutines
        /\ pc = [a \in Admissions |-> "idle"]
    BY DEF DispatchInit, Queue!QueueInit, Queue!EntryIDs, Init, GateInit
  <1>3. /\ MaxEntries \in Nat /\ Entries = 1..MaxEntries /\ Admissions = Entries
        /\ flags.concurrentRuns \in Nat \ {0} /\ flags.maxRuns \in Nat
    BY <1>2, DispatchAssumption DEF Entries
  <1>4. Queue!QueueTypeOK
    BY <1>2, <1>3 DEF Queue!QueueTypeOK, Queue!EntryIDs
  <1>5. DispatchTypeOK
    <2>1. worker \in [Entries -> {"none", "admitting", "acking", "releasing"}]
      BY <1>2 DEF NoGoroutines
    <2>2. sem \in 0..flags.concurrentRuns /\ dispatched \in 0..MaxEntries
      BY <1>2, <1>3
    <2> QED
      BY <1>1, <1>2, <1>4, <2>1, <2>2 DEF DispatchTypeOK, GateInv, LoopSteps
  <1>6. Cardinality(Active) = 0
    BY <1>2, NoneActive
  <1>7. ProcessState /\ SlotsCounted /\ InFlightBounded
    BY <1>1, <1>2, <1>3, <1>6 DEF ProcessState, SlotsCounted, InFlightBounded
  <1>8. ASSUME NEW e \in Entries PROVE Goroutine(e)
    BY <1>2, <1>3 DEF Goroutine, NoGoroutines
  <1>9. AckedRunsSucceeded
    BY <1>2 DEF AckedRunsSucceeded, Queue!Acknowledged
  <1>10. LimitsAhead /\ LimitsKept
    BY <1>2, <1>3 DEF LimitsAhead, LimitsKept, LimitReached
  <1> QED BY <1>1, <1>5, <1>7, <1>8, <1>9, <1>10 DEF DispatchInv

LEMMA DispatchInvariant == DispatchSpec => []DispatchInv
  BY DispatchInitially, DispatchStep, PTL DEF DispatchSpec

-----------------------------------------------------------------------------
\* The process, the gate, the store and the queue keep their types.
THEOREM DispatchTyped == DispatchSpec => []DispatchTypeOK
  <1>1. DispatchInv => DispatchTypeOK
    BY DEF DispatchInv
  <1> QED BY <1>1, DispatchInvariant, PTL

\* Never more than concurrentRuns entries are taken and not yet done with.
THEOREM InFlightAlwaysBounded == DispatchSpec => []InFlightBounded
  <1>1. DispatchInv => InFlightBounded
    BY DEF DispatchInv
  <1> QED BY <1>1, DispatchInvariant, PTL

\* No slot of the channel leaks, and none is given back twice.
THEOREM SlotsAlwaysOwned == DispatchSpec => []SlotsOwned
  <1>1. ASSUME DispatchInv PROVE SlotsOwned
    <2>1. SlotsCounted /\ (up <=> at # "exited") /\ at \in LoopSteps
      BY <1>1, DispatchFacts DEF DispatchInv, ProcessState
    <2>2. Cardinality(Active) \in Nat /\ sem \in Nat
      BY <1>1, DispatchFacts
    <2> QED BY <2>1, <2>2 DEF SlotsOwned, SlotsCounted, LoopSteps
  <1> QED BY <1>1, DispatchInvariant, PTL

\* An entry that left the pending list is one whose run succeeded.
THEOREM AckedRunsAlwaysSucceeded == DispatchSpec => []AckedRunsSucceeded
  <1>1. DispatchInv => AckedRunsSucceeded
    BY DEF DispatchInv
  <1> QED BY <1>1, DispatchInvariant, PTL

\* --max-runs and --once bound what every process starts.
THEOREM LimitsAlwaysKept == DispatchSpec => []LimitsKept
  <1>1. DispatchInv => LimitsKept
    BY DEF DispatchInv
  <1> QED BY <1>1, DispatchInvariant, PTL

\* The dispatcher composes the gate and the store as they are specified, so the
\* states the store acknowledged survive its crashes and restarts too.
THEOREM DispatcherKeepsAcknowledgedStates == DispatchSpec => []AckedSurvives
  <1>1. DispatchInv => AckedSurvives
    BY DEF DispatchInv, StoreInv
  <1> QED BY <1>1, DispatchInvariant, PTL

-----------------------------------------------------------------------------
\* The process implements the gate: however the loop, the queue, its signals
\* and its restarts drive Admit, they drive it as RunGate allows.
THEOREM DispatcherImplementsGate == DispatchSpec => Spec
  <1>1. DispatchInit => Init
    BY DEF DispatchInit
  <1> QED BY <1>1, DispatchInvariant, DispatchStepIsGateStep, PTL DEF DispatchSpec, Spec

\* So no entry's runFn executes before its run has a record.
THEOREM DispatcherRecordsFirst == DispatchSpec => []RecordBeforeRun
  <1> QED BY DispatcherImplementsGate, RecordAlwaysBeforeRun, PTL

\* An executed entry's run never stays queued, admitted or running, although
\* several entries may name it and their goroutines interleave.
THEOREM DispatcherLeavesRunsAtRest == DispatchSpec => []ExecutedRunsAtRest
  <1> QED BY DispatcherImplementsGate, ExecutedRunsAlwaysAtRest, PTL

\* A terminal record tells how some execution of its run ended.
THEOREM DispatcherRecordsTruth == DispatchSpec => []TerminalRecordsAreTrue
  <1> QED BY DispatcherImplementsGate, TerminalRecordsAlwaysTrue, PTL

\* And the file moves runs forward only, over every process that opens it.
THEOREM DispatcherImplementsRunLifecycle == DispatchSpec => DurableLifecycle
  <1> QED BY DispatcherImplementsGate, FileImplementsRunLifecycle, PTL

-----------------------------------------------------------------------------
(***************************************************************************)
(* Until the context is done nobody blocks on the channel for nothing: the *)
(* deferred receive of a goroutine, and the loop's own, find the slot that *)
(* is theirs, and a loop that waits for a free slot has a goroutine to     *)
(* wait for.                                                               *)
(***************************************************************************)
NobodyBlocksForNothing ==
    up /\ ~ctxDone =>
        /\ \A e \in Entries : worker[e] = "releasing" => sem > 0
        /\ at \in {"recheck", "consume"} => sem > 0
        /\ at = "slot" /\ sem = flags.concurrentRuns => Active # {}

(***************************************************************************)
(* Every receive of "<-sem" has a send before it.  Once the context is     *)
(* done this fails, and run "dispatch_shutdown" finds what comes of it.     *)
(***************************************************************************)
THEOREM NobodyEverBlocksForNothing == DispatchSpec => []NobodyBlocksForNothing
  <1>1. ASSUME DispatchInv PROVE NobodyBlocksForNothing
    <2> SUFFICES ASSUME up, ~ctxDone
                 PROVE  /\ \A e \in Entries : worker[e] = "releasing" => sem > 0
                        /\ at \in {"recheck", "consume"} => sem > 0
                        /\ at = "slot" /\ sem = flags.concurrentRuns => Active # {}
      BY DEF NobodyBlocksForNothing
    <2>1. /\ at \in {"check", "slot", "recheck", "consume", "wait"}
          /\ sem \in Nat /\ Cardinality(Active) \in Nat /\ SlotsCounted
      BY <1>1, DispatchFacts DEF DispatchInv, ProcessState, LoopSteps
    <2>2. sem >= Cardinality(Active) /\ (at \in {"recheck", "consume"} => sem > 0)
      BY <2>1 DEF SlotsCounted
    <2>3. ASSUME NEW e \in Entries, worker[e] = "releasing" PROVE sem > 0
      <3>1. Active # {}
        BY <2>3 DEF Active
      <3>2. Cardinality(Active) # 0
        BY <3>1, ActiveFinite, FS_EmptySet
      <3> QED BY <2>1, <2>2, <3>2
    <2>4. ASSUME at = "slot", sem = flags.concurrentRuns PROVE Active # {}
      <3>1. Cardinality(Active) = sem /\ sem # 0
        BY <1>1, <2>1, <2>4, DispatchFacts DEF SlotsCounted
      <3> QED BY <3>1, FS_EmptySet
    <2> QED BY <2>2, <2>3, <2>4
  <1> QED BY <1>1, DispatchInvariant, PTL
=============================================================================
