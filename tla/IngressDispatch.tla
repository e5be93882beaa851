--------------------------- MODULE IngressDispatch ---------------------------
(***************************************************************************)
(* The ingress process (cmd/ingress/main.go): dispatch takes entries off   *)
(* the run queue and starts a goroutine for each, which admits the run     *)
(* through the gate and acks the entry when the run succeeded.  A channel  *)
(* with concurrentRuns slots bounds the goroutines; the main one takes the *)
(* slot, the goroutine gives it back.                                      *)
(*                                                                         *)
(* The gate, its JsonRunStore and the queue are those of RunGate and       *)
(* RedisRunQueue.  An admission is named after the entry it is for: within *)
(* one consumer group that never calls ReclaimStale, an entry is delivered *)
(* once.                                                                   *)
(***************************************************************************)
EXTENDS RunGate, Integers, Sequences, FiniteSets

CONSTANTS
    MaxEntries,          \* bound: entries ever added to the stream
    Flags                \* the flags the process can be started with

ASSUME DispatchAssumption ==
    /\ MaxEntries \in Nat
    /\ Admissions = 1..MaxEntries
    /\ Flags \subseteq [concurrentRuns : Nat \ {0}, maxRuns : Nat, once : BOOLEAN]

VARIABLES
    stream, cursor, owner, idle,     \* the server, as in RedisRunQueue
    flags,               \* --concurrent-runs, --max-runs (0 = no limit), --once
    ctxDone,             \* the 30 minutes of main's context are over
    at,                  \* where dispatch's loop is
    sem,                 \* slots taken: what the channel holds
    dispatched,          \* entries this process has started a goroutine for
    worker               \* worker[e]: where the goroutine of entry e is

Consumer == "dispatcher-1"

\* No other process reads the stream and nobody calls ReclaimStale, so neither
\* XPENDING's limit nor minIdle matters here.
Queue == INSTANCE RedisRunQueue WITH Consumers <- {Consumer}, PendingCount <- 100

queueVars == <<stream, cursor, owner, idle>>

processVars == <<flags, ctxDone, at, sem, dispatched, worker>>

allVars == <<vars, queueVars, processVars>>

Entries == Admissions

\* Each is a place where dispatch can be when something else happens.
LoopSteps == {"check", "slot", "recheck", "consume", "wait", "exited"}

DispatchTypeOK ==
    /\ StoreTypeOK /\ GateTypeOK /\ Queue!QueueTypeOK
    /\ flags \in Flags
    /\ ctxDone \in BOOLEAN
    /\ at \in LoopSteps
    /\ sem \in 0..flags.concurrentRuns
    /\ dispatched \in 0..MaxEntries
    /\ worker \in [Entries -> {"none", "admitting", "acking", "releasing"}]

NoGoroutines == [e \in Entries |-> "none"]

DispatchInit ==
    /\ Init /\ backend = "json" /\ hasStore
    /\ Queue!QueueInit
    /\ flags \in Flags
    /\ ctxDone = FALSE
    /\ at = "check"
    /\ sem = 0 /\ dispatched = 0 /\ worker = NoGoroutines

Active == {e \in Entries : worker[e] # "none"}

\* Mutant: one run too many.
LimitExceeded == flags.maxRuns > 0 /\ dispatched > flags.maxRuns

LimitReached == flags.maxRuns > 0 /\ dispatched >= flags.maxRuns

-----------------------------------------------------------------------------
\* The loop of dispatch.
Go(step) == at' = step

LoopUnchanged == UNCHANGED <<vars, flags, ctxDone, worker>>

CheckLimits ==
    /\ up /\ at = "check"
    /\ Go(IF ctxDone \/ LimitReached THEN "wait" ELSE "slot")
    /\ UNCHANGED <<queueVars, sem, dispatched>> /\ LoopUnchanged

\* Mutant: the channel has one slot more.
TakeExtraSlot ==
    /\ up /\ at = "slot"
    /\ \/ sem <= flags.concurrentRuns /\ sem' = sem + 1
       \/ ctxDone /\ UNCHANGED sem
    /\ Go("recheck")
    /\ UNCHANGED <<queueVars, dispatched>> /\ LoopUnchanged

\* The select: both of its branches go on with the statement after it.
TakeSlot ==
    /\ up /\ at = "slot"
    /\ \/ sem < flags.concurrentRuns /\ sem' = sem + 1
       \/ ctxDone /\ UNCHANGED sem
    /\ Go("recheck")
    /\ UNCHANGED <<queueVars, dispatched>> /\ LoopUnchanged

\* Mutant: a counter that does not block at zero.
ReceiveUnchecked == sem' = sem - 1

\* "<-sem": the channel does not know whose slot it is, and blocks when empty.
Receive == sem > 0 /\ sem' = sem - 1

Recheck ==
    /\ up /\ at = "recheck"
    /\ IF ctxDone \/ LimitReached
       THEN Receive /\ Go("wait")
       ELSE Go("consume") /\ UNCHANGED sem
    /\ UNCHANGED <<queueVars, dispatched>> /\ LoopUnchanged

\* Consume returns an entry: start its goroutine.
Dispatch(e) ==
    /\ at = "consume"
    /\ Queue!ConsumeReturns(Consumer, e)
    /\ Admit(e, stream[e])
    /\ dispatched' = dispatched + 1
    /\ worker' = [worker EXCEPT ![e] = "admitting"]
    /\ Go(IF flags.once THEN "wait" ELSE "check")
    /\ UNCHANGED <<flags, ctxDone, sem>>

\* Mutant: the slot is kept when there is no entry for it.
ConsumeNothingLeaking ==
    /\ up /\ at = "consume"
    /\ Queue!ConsumeEmpty \/ Queue!ConsumeFails(Consumer)
    /\ Go("check")
    /\ UNCHANGED <<sem, dispatched>> /\ LoopUnchanged

\* Consume returns ErrStreamEmpty or another error: the slot goes back.
ConsumeNothing ==
    /\ up /\ at = "consume"
    /\ Queue!ConsumeEmpty \/ Queue!ConsumeFails(Consumer)
    /\ Receive
    /\ Go("check")
    /\ UNCHANGED dispatched /\ LoopUnchanged

\* What is left of the process: the store's file, the stream.
ProcessEnds ==
    /\ CrashAll
    /\ Go("exited")
    /\ ctxDone' = FALSE
    /\ sem' = 0 /\ dispatched' = 0 /\ worker' = NoGoroutines
    /\ UNCHANGED <<queueVars, flags>>

\* wg.Wait() returns; main does, and the process ends.
Exit ==
    /\ at = "wait"
    /\ Active = {}
    /\ ProcessEnds

-----------------------------------------------------------------------------

\* Mutant: the entry is acked whatever Admit returned.
RunAdmissionAckingAll(e) ==
    /\ AdmitStep(e)
    /\ worker' = IF pc'[e] # "returned" THEN worker ELSE [worker EXCEPT ![e] = "acking"]
    /\ UNCHANGED <<queueVars, flags, ctxDone, at, sem, dispatched>>

\* The goroutine of an entry.
RunAdmission(e) ==
    /\ AdmitStep(e)
    /\ worker' = IF pc'[e] # "returned" THEN worker
                 ELSE [worker EXCEPT ![e] = IF outcome'[e] = "ok" THEN "acking" ELSE "releasing"]
    /\ UNCHANGED <<queueVars, flags, ctxDone, at, sem, dispatched>>

AckEntry(e) ==
    /\ worker[e] = "acking"
    /\ \E ok \in BOOLEAN : Queue!Ack(e, ok)
    /\ worker' = [worker EXCEPT ![e] = "releasing"]
    /\ UNCHANGED <<vars, flags, ctxDone, at, sem, dispatched>>

\* Mutant: the slot is given back at the end of the body and by the deferred call.
ReleaseTwice(e) ==
    /\ worker[e] = "releasing"
    /\ sem > 1 /\ sem' = sem - 2
    /\ worker' = [worker EXCEPT ![e] = "none"]
    /\ UNCHANGED <<vars, queueVars, flags, ctxDone, at, dispatched>>

\* The two deferred calls: <-sem, and then wg.Done().
Release(e) ==
    /\ worker[e] = "releasing"
    /\ Receive
    /\ worker' = [worker EXCEPT ![e] = "none"]
    /\ UNCHANGED <<vars, queueVars, flags, ctxDone, at, dispatched>>

-----------------------------------------------------------------------------
\* --produce, another ingress' --produce, redis-cli.
Submit == Queue!Produce /\ UNCHANGED <<vars, processVars>>

ContextDone ==
    /\ up /\ ~ctxDone
    /\ ctxDone' = TRUE
    /\ UNCHANGED <<vars, queueVars, flags, at, sem, dispatched, worker>>

Die == at # "exited" /\ ProcessEnds

StartAgain ==
    /\ Restart
    /\ flags' \in Flags
    /\ Go("check")
    /\ UNCHANGED <<queueVars, ctxDone, sem, dispatched, worker>>

Loop ==
    \/ CheckLimits
    \/ TakeSlot
    \/ Recheck
    \/ \E e \in Entries : Dispatch(e)
    \/ ConsumeNothing
    \/ Exit

Worker(e) == RunAdmission(e) \/ AckEntry(e) \/ Release(e)

DispatchNext ==
    \/ Loop
    \/ \E e \in Entries : Worker(e)
    \/ Submit
    \/ ContextDone
    \/ Die
    \/ StartAgain

DispatchSpec == DispatchInit /\ [][DispatchNext]_allVars

\* A Consume the server answers: it hands out an entry, readable or not.
ServerAnswers == (\E e \in Entries : Dispatch(e)) \/ (ConsumeNothing /\ cursor' # cursor)

(***************************************************************************)
(* Goroutines that can go on do; a runFn returns; Redis, if asked again    *)
(* and again, answers in the end.                                          *)
(***************************************************************************)
DispatchFairness ==
    /\ WF_allVars(Loop)
    /\ SF_allVars(ServerAnswers)
    /\ \A e \in Entries : WF_allVars(Worker(e))

FairDispatchSpec == DispatchSpec /\ DispatchFairness

-----------------------------------------------------------------------------
(***************************************************************************)
(* "semaphore(chan struct{}, N)로 동시 실행 run 수를 N으로 제한": however  *)
(* the slots travel between the loop and the goroutines, no more than      *)
(* concurrentRuns entries are taken off the stream and not yet done with,  *)
(* which is what a crash can leave in the pending list.                    *)
(***************************************************************************)
InFlightBounded == Cardinality(Active) <= flags.concurrentRuns

(***************************************************************************)
(* Until the context is done every slot taken has one owner who will give  *)
(* it back: a goroutine, or the loop between its select and the next       *)
(* receive or go statement.                                                *)
(***************************************************************************)
SlotsOwned ==
    LET loop == IF at \in {"recheck", "consume"} THEN 1 ELSE 0
    IN  up /\ ~ctxDone => sem = Cardinality(Active) + loop

(***************************************************************************)
(* "XACK는 Admit() 성공 후에만 호출한다": an entry the group is done with  *)
(* is one whose run some execution completed, over all crashes, restarts,  *)
(* lost replies and entries that name the same run; every other delivered  *)
(* entry is still pending.                                                 *)
(***************************************************************************)
AckedRunsSucceeded == \A e \in Queue!Acknowledged : stream[e] \in succeeded

(***************************************************************************)
(* --max-runs and --once: a process never starts more goroutines.          *)
(***************************************************************************)
LimitsKept ==
    /\ flags.maxRuns > 0 => dispatched <= flags.maxRuns
    /\ flags.once => dispatched <= 1

(***************************************************************************)
(* A process without limits takes every entry off the stream, unless its   *)
(* context is done or it dies: slots come back whatever becomes of a run.  *)
(***************************************************************************)
Unlimited == flags.maxRuns = 0 /\ ~flags.once

EntriesAreTaken ==
    \A e \in Entries :
        (e <= Len(stream) /\ up /\ Unlimited) ~> (e <= cursor \/ ctxDone \/ ~up)

(***************************************************************************)
(* A process that has reached its limit, or has done its one run, waits    *)
(* for the goroutines it started, every one of which gets to its wg.Done,  *)
(* and exits.                                                              *)
(***************************************************************************)
DrainsAndExits == (up /\ (LimitReached \/ at = "wait")) ~> (~up \/ ctxDone)

(***************************************************************************)
(* "슬롯을 즉시 반환하고 종료한다": when the context is done the process   *)
(* gives the slot back and exits, once its goroutines are done.            *)
(***************************************************************************)
ContextDoneExits == ctxDone ~> ~up
=============================================================================
