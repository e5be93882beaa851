-------------------------- MODULE NodeAttemptQueue --------------------------
(***************************************************************************)
(* The release queue (pkg/session/attempt_queue.go).  Submit takes one of  *)
(* Concurrency slots, waiting for it if it has to, calls the NodeSubmitter *)
(* it wraps, and gives the slot back.  Every use of the channel and of a   *)
(* counter is a step of its own, except the loads of Stats.                *)
(*                                                                         *)
(* The channel hands a slot that is given back to the sender that has      *)
(* waited longest, so it stays full while somebody waits.                  *)
(***************************************************************************)
EXTENDS Integers, Sequences, FiniteSets, SequencesExt

CONSTANTS
    Requests, NodeOf,    \* see NodeSubmitter: the calls of Submit, once each
    Concurrency          \* cap(q.sem); at 0 the channel would take nothing

ASSUME ConcurrencyAssumption == Concurrency \in Nat \ {0}

VARIABLES
    phase,               \* phase[r]: where call r is in Submit
    request, jobs,       \* the wrapped NodeSubmitter
    sem,                 \* slots taken
    waiters,             \* senders blocked on the channel, longest first
    totalSubmits, blockedSubmits, maxConcurrent, currentInflight,
    cur, prev,           \* the local variables of Submit
    peak                 \* history: the greatest value of currentInflight

Inner == INSTANCE NodeSubmitter

counters == <<totalSubmits, blockedSubmits, maxConcurrent, currentInflight>>

locals == <<cur, prev>>

vars == <<phase, request, jobs, sem, waiters, counters, locals, peak>>

Phases == {"none", "full", "waiting", "count", "load", "swap", "submit", "release", "done"}

\* Those who have a slot, and those currentInflight counts.
Holding == {"count", "load", "swap", "submit", "release"}

Counted == {"load", "swap", "submit"}

In(phases) == {r \in Requests : phase[r] \in phases}

TypeOK ==
    /\ phase \in [Requests -> Phases]
    /\ request \in [Requests -> Inner!RequestStates]
    /\ sem \in 0..Concurrency
    /\ waiters \in Seq(Requests)
    /\ {totalSubmits, blockedSubmits, maxConcurrent, currentInflight, peak} \subseteq Nat
    /\ cur \in [Requests -> Nat]
    /\ prev \in [Requests -> Nat]

Init ==
    /\ Inner!SubmitterInit
    /\ phase = [r \in Requests |-> "none"]
    /\ sem = 0
    /\ waiters = << >>
    /\ totalSubmits = 0 /\ blockedSubmits = 0
    /\ maxConcurrent = 0 /\ currentInflight = 0
    /\ cur = [r \in Requests |-> 0]
    /\ prev = [r \in Requests |-> 0]
    /\ peak = 0

-----------------------------------------------------------------------------
Move(r, from, to) == phase[r] = from /\ phase' = [phase EXCEPT ![r] = to]

\* Mutant: the send does not wait for room in the channel.
SendAnyway(r, from) == sem' = sem + 1 /\ Move(r, from, "count")

\* The send of a select: a slot, if one is free.
Send(r, from) == sem < Concurrency /\ sem' = sem + 1 /\ Move(r, from, "count")

\* Count the call and try the channel.
Arrive(r) ==
    /\ totalSubmits' = totalSubmits + 1
    /\ \/ Send(r, "none")
       \/ sem = Concurrency /\ UNCHANGED sem /\ Move(r, "none", "full")
    /\ UNCHANGED <<request, jobs, waiters, blockedSubmits, maxConcurrent, currentInflight, locals, peak>>

\* It was full: count that, and select again.  Meanwhile a slot may have been
\* given back, and the context may be done.
Block(r) ==
    /\ blockedSubmits' = blockedSubmits + 1
    /\ \/ Send(r, "full") /\ UNCHANGED waiters
       \/ /\ sem = Concurrency /\ UNCHANGED sem
          /\ Move(r, "full", "waiting")
          /\ waiters' = Append(waiters, r)
       \/ Move(r, "full", "done") /\ UNCHANGED <<sem, waiters>>
    /\ UNCHANGED <<request, jobs, totalSubmits, maxConcurrent, currentInflight, locals, peak>>

LeaveQueue(r) == \E k \in DOMAIN waiters : waiters[k] = r /\ waiters' = RemoveAt(waiters, k)

\* Mutant: the deferred function is set up before the slot is taken.
GiveUpReleasing(r) ==
    /\ Move(r, "waiting", "done")
    /\ LeaveQueue(r)
    /\ sem' = sem - 1
    /\ UNCHANGED <<request, jobs, counters, locals, peak>>

\* Mutant: nil instead of ctx.Err().
GiveUpSilently(r) ==
    /\ Move(r, "waiting", "done")
    /\ LeaveQueue(r)
    /\ request' = [request EXCEPT ![r] = "accepted"]
    /\ UNCHANGED <<jobs, sem, counters, locals, peak>>

\* The context is done while r waits.
GiveUp(r) ==
    /\ Move(r, "waiting", "done")
    /\ LeaveQueue(r)
    /\ UNCHANGED <<request, jobs, sem, counters, locals, peak>>

CountIn(r) ==
    /\ Move(r, "count", "load")
    /\ currentInflight' = currentInflight + 1
    /\ cur' = [cur EXCEPT ![r] = currentInflight']
    /\ peak' = IF currentInflight' > peak THEN currentInflight' ELSE peak
    /\ UNCHANGED <<request, jobs, sem, waiters, totalSubmits, blockedSubmits, maxConcurrent, prev>>

LoadMax(r) ==
    /\ prev' = [prev EXCEPT ![r] = maxConcurrent]
    /\ Move(r, "load", IF cur[r] <= maxConcurrent THEN "submit" ELSE "swap")
    /\ UNCHANGED <<request, jobs, sem, waiters, counters, cur, peak>>

\* Mutant: the greater value is stored, whatever maxConcurrent has become.
SwapMaxBlindly(r) ==
    /\ Move(r, "swap", "submit")
    /\ maxConcurrent' = cur[r]
    /\ UNCHANGED <<request, jobs, sem, waiters, totalSubmits, blockedSubmits, currentInflight, locals, peak>>

\* CompareAndSwap; if it fails, round the loop again.
SwapMax(r) ==
    /\ \/ /\ maxConcurrent = prev[r]
          /\ maxConcurrent' = cur[r]
          /\ Move(r, "swap", "submit")
       \/ /\ maxConcurrent # prev[r]
          /\ UNCHANGED maxConcurrent
          /\ Move(r, "swap", "load")
    /\ UNCHANGED <<request, jobs, sem, waiters, totalSubmits, blockedSubmits, currentInflight, locals, peak>>

\* q.inner.Submit: it is called, once, and does what it does.
Forward(r) ==
    /\ phase[r] = "submit"
    /\ \/ request[r] = "none" /\ Inner!Begin({r})
       \/ Inner!Progress(r)
    /\ UNCHANGED <<phase, sem, waiters, counters, locals, peak>>

\* The deferred function, once the inner Submit has returned: first the counter ...
CountOut(r) ==
    /\ Move(r, "submit", "release")
    /\ request[r] \in {"accepted"} \cup Inner!Errors
    /\ currentInflight' = currentInflight - 1
    /\ UNCHANGED <<request, jobs, sem, waiters, totalSubmits, blockedSubmits, maxConcurrent, locals, peak>>

\* Mutant: an error of the inner Submit returns before the slot is given back.
ReleaseOnSuccess(r) ==
    /\ phase[r] = "release"
    /\ phase' = [phase EXCEPT ![r] = "done"]
    /\ sem' = IF request[r] = "accepted" THEN sem - 1 ELSE sem
    /\ UNCHANGED <<request, jobs, waiters, counters, locals, peak>>

\* ... and then the slot, which goes to the one that has waited longest.
Release(r) ==
    /\ phase[r] = "release"
    /\ IF waiters = << >>
       THEN /\ sem' = sem - 1
            /\ phase' = [phase EXCEPT ![r] = "done"]
            /\ UNCHANGED waiters
       ELSE /\ phase' = [phase EXCEPT ![r] = "done", ![Head(waiters)] = "count"]
            /\ waiters' = Tail(waiters)
            /\ UNCHANGED sem
    /\ UNCHANGED <<request, jobs, counters, locals, peak>>

\* The steps of a Submit that has begun, but for the end of its context.
Step(r) ==
    \/ Block(r) \/ CountIn(r) \/ LoadMax(r) \/ SwapMax(r) \/ Forward(r)
    \/ CountOut(r) \/ Release(r)

Next == \E r \in Requests : Arrive(r) \/ Step(r) \/ GiveUp(r)

Spec == Init /\ [][Next]_vars

\* The inner Submit returns, and goroutines that can go on do.
FairSpec == Spec /\ \A r \in Requests : WF_vars(Step(r))

\* What ReleaseQueueBlocked of pkg/observe returns: Stats's second counter.
ReleaseQueueBlocked == blockedSubmits

-----------------------------------------------------------------------------
(***************************************************************************)
(* Each slot that is taken has one call between the send and the receive:  *)
(* slots are neither lost nor doubled when they pass to a waiter or a      *)
(* waiter gives up, and nobody waits while one is free.                    *)
(***************************************************************************)
SlotsAccounted ==
    /\ sem = Cardinality(In(Holding))
    /\ currentInflight = Cardinality(In(Counted))
    /\ In({"waiting"}) = ToSet(waiters)
    /\ waiters # << >> => sem = Concurrency

\* The calls of the wrapped submitter that have not returned.
WithInner == {r \in Requests : request[r] \in Inner!Pending}

(***************************************************************************)
(* No more than Concurrency calls are between the send and the receive, so *)
(* the wrapped submitter never has more of them at once, and the slots are *)
(* accounted for.                                                          *)
(***************************************************************************)
ConcurrencyBounded ==
    /\ Cardinality(In(Holding)) <= Concurrency
    /\ Cardinality(WithInner) <= Concurrency
    /\ SlotsAccounted

(***************************************************************************)
(* The race for the maximum loses none: once no call is in its loop,       *)
(* maxConcurrent is the greatest number that ever was in flight, and it    *)
(* never exceeds what the slots allow.                                     *)
(***************************************************************************)
PeakRecorded ==
    /\ maxConcurrent <= Concurrency
    /\ In({"load", "swap"}) = {} => maxConcurrent = peak

(***************************************************************************)
(* Why.  A call waits at one place of the queue; the wrapped submitter is  *)
(* called and answers between the taking of the slot and its return; and   *)
(* while the maximum is behind the peak, the call that made the peak is in *)
(* the loop that will raise it.                                            *)
(***************************************************************************)
WaitsOnce ==
    \A i, j \in DOMAIN waiters : waiters[i] = waiters[j] => i = j

InnerCalledInside ==
    \A r \in Requests :
        /\ phase[r] \notin {"submit", "release", "done"} => request[r] = "none"
        /\ phase[r] \in {"release", "done"} => request[r] \notin Inner!Pending
        /\ phase[r] = "release" => request[r] # "none"

PeakPursued ==
    /\ maxConcurrent <= peak
    /\ peak <= Concurrency
    /\ \A r \in In({"load", "swap"}) : cur[r] <= peak
    /\ \A r \in In({"swap"}) : prev[r] < cur[r]
    /\ maxConcurrent < peak => \E r \in In({"load", "swap"}) : cur[r] = peak

QueueInv ==
    /\ TypeOK
    /\ IsFiniteSet(In(Holding))
    /\ SlotsAccounted
    /\ WaitsOnce
    /\ InnerCalledInside
    /\ PeakPursued

(***************************************************************************)
(* The queue is a NodeSubmitter too: a call creates its job once at most,  *)
(* returns what the inner call returned, and nothing is dropped: one that  *)
(* never reached the inner submitter ends in an error.                     *)
(***************************************************************************)
OutcomeOf(p, q) ==
    CASE p = "none" -> "none"
      [] p = "done" -> IF q = "none" THEN "refused" ELSE q
      [] OTHER -> IF q \in {"none", "begun", "refused"} THEN "begun" ELSE "created"

outcome == [r \in Requests |-> OutcomeOf(phase[r], request[r])]

Outer == INSTANCE NodeSubmitter WITH request <- outcome

ImplementsNodeSubmitter == Outer!SubmitterSpec

(***************************************************************************)
(* Every call of Submit returns, however many wait: slots come round.      *)
(***************************************************************************)
SubmitsReturn == \A r \in Requests : phase[r] # "none" ~> phase[r] = "done"

(***************************************************************************)
(* "CauseReleaseQueue: a node is waiting for a NodeAttemptQueue semaphore  *)
(* slot.  Observable: NodeAttemptQueue.Stats().blocked > 0"                *)
(* (pipeline_status.go:42-43).                                             *)
(***************************************************************************)
BlockedMeansWaiting == ReleaseQueueBlocked > 0 => In({"full", "waiting"}) # {}
=============================================================================
