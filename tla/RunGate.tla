------------------------------- MODULE RunGate -------------------------------
(***************************************************************************)
(* RunGate.Admit (pkg/ingress/run_gate.go): record a run, execute it,      *)
(* record how it ended.  Each of its calls to the store is one step, and   *)
(* between two of them anything may happen: another Admit of the same run, *)
(* someone moving the record through the store's interface, a crash.       *)
(* Only Enqueue's error stops an Admit; those of UpdateState are logged.   *)
(***************************************************************************)
EXTENDS RunStore

CONSTANTS
    Admissions,          \* the goroutines that may be inside Admit
    Supervised           \* the runs someone may hold, resume or cancel meanwhile

ASSUME SupervisedAssumption == Supervised \subseteq Runs

VARIABLES
    hasStore,            \* g.Store # nil
    pc,                  \* pc[a]: the next step of admission a
    run,                 \* run[a]: its runID
    outcome,             \* outcome[a]: what its runFn, or Admit itself, returned
    succeeded, failed,   \* history: runs some runFn returned nil, an error for
    stopped,             \* history: runs canceled through the store's interface
    settled              \* history: runs an Admit of this process has executed

gateVars == <<hasStore, pc, run, outcome, succeeded, failed, stopped, settled>>

vars == <<storeVars, gateVars>>

PCs == {"idle", "enqueue", "admit", "start", "run", "finish", "returned"}

GateTypeOK ==
    /\ hasStore \in BOOLEAN
    /\ pc \in [Admissions -> PCs]
    /\ run \in [Admissions -> Runs]
    /\ outcome \in [Admissions -> {"none", "ok", "error"}]
    /\ succeeded \in SUBSET Runs
    /\ failed \in SUBSET Runs
    /\ stopped \in SUBSET Runs
    /\ settled \in SUBSET Runs

GateInit ==
    /\ hasStore \in BOOLEAN
    /\ pc = [a \in Admissions |-> "idle"]
    /\ \E r \in Runs : run = [a \in Admissions |-> r]
    /\ outcome = [a \in Admissions |-> "none"]
    /\ succeeded = {} /\ failed = {} /\ stopped = {} /\ settled = {}

Init == StoreInit /\ GateInit

-----------------------------------------------------------------------------
Goto(a, step) == pc' = [pc EXCEPT ![a] = step]

history == <<succeeded, failed, stopped, settled>>

\* Mutant: the run is not enqueued.
AdmitUnrecorded(a, r) ==
    /\ up
    /\ pc[a] \in {"idle", "returned"}
    /\ run' = [run EXCEPT ![a] = r]
    /\ outcome' = [outcome EXCEPT ![a] = "none"]
    /\ Goto(a, IF hasStore THEN "admit" ELSE "run")
    /\ UNCHANGED <<storeVars, hasStore, history>>

\* Admit is called.  Without a store it goes straight to runFn.
Admit(a, r) ==
    /\ up
    /\ pc[a] \in {"idle", "returned"}
    /\ run' = [run EXCEPT ![a] = r]
    /\ outcome' = [outcome EXCEPT ![a] = "none"]
    /\ Goto(a, IF hasStore THEN "enqueue" ELSE "run")
    /\ UNCHANGED <<storeVars, hasStore, history>>

\* 1. Enqueue as queued.  A record that is there already is no obstacle, an
\*    error of persist is, even though the record is in memory by then.
EnqueueQueued(a) ==
    /\ pc[a] = "enqueue"
    /\ \E res \in Results :
        /\ Enqueue(run[a], res)
        /\ \/ res \in {"ok", "exists"} /\ Goto(a, "admit") /\ UNCHANGED outcome
           \/ /\ res \notin {"ok", "exists"}
              /\ Goto(a, "returned")
              /\ outcome' = [outcome EXCEPT ![a] = "error"]
    /\ UNCHANGED <<hasStore, run, history>>

\* 2. and 3. Whatever UpdateState returns, Admit goes on.
Advance(a, here, from, to, next) ==
    /\ pc[a] = here
    /\ \E res \in Results : UpdateState(run[a], from, to, res)
    /\ Goto(a, next)
    /\ UNCHANGED <<hasStore, run, outcome>>

MarkAdmitted(a) == Advance(a, "admit", "queued", "admitted", "start") /\ UNCHANGED history

\* Mutant: the second UpdateState is left out.
MarkRunningSkipped(a) ==
    /\ pc[a] = "start"
    /\ Goto(a, "run")
    /\ UNCHANGED <<storeVars, hasStore, run, outcome, history>>

MarkRunning(a) == Advance(a, "start", "admitted", "running", "run") /\ UNCHANGED history

\* 4. runFn returns.
RunFn(a, result) ==
    /\ pc[a] = "run"
    /\ outcome' = [outcome EXCEPT ![a] = result]
    /\ succeeded' = IF result = "ok" THEN succeeded \cup {run[a]} ELSE succeeded
    /\ failed' = IF result = "error" THEN failed \cup {run[a]} ELSE failed
    /\ Goto(a, IF hasStore THEN "finish" ELSE "returned")
    /\ UNCHANGED <<storeVars, hasStore, run, stopped, settled>>

\* Mutant: a failed run returns before its terminal transition.
MarkTerminalOnSuccess(a) ==
    /\ IF outcome[a] = "ok"
       THEN Advance(a, "finish", "running", "finished", "returned")
       ELSE /\ pc[a] = "finish"
            /\ Goto(a, "returned")
            /\ UNCHANGED <<storeVars, hasStore, run, outcome>>
    /\ settled' = settled \cup {run[a]}
    /\ UNCHANGED <<succeeded, failed, stopped>>

\* Mutant: the two terminal states are swapped.
MarkTerminalSwapped(a) ==
    /\ Advance(a, "finish", "running",
               IF outcome[a] = "ok" THEN "canceled" ELSE "finished", "returned")
    /\ settled' = settled \cup {run[a]}
    /\ UNCHANGED <<succeeded, failed, stopped>>

\* 5. The terminal transition; then Admit returns what runFn did.
MarkTerminal(a) ==
    /\ Advance(a, "finish", "running",
               IF outcome[a] = "ok" THEN "finished" ELSE "canceled", "returned")
    /\ settled' = settled \cup {run[a]}
    /\ UNCHANGED <<succeeded, failed, stopped>>

\* The states ARCH_BOUNDARY.md gives to someone outside the gate.
OperatorMoves == {<<"queued", "held">>, <<"held", "resumed">>} \cup
                 ((RunState \ TerminalStates) \X {"canceled"})

Operator(r) ==
    /\ \E move \in OperatorMoves, res \in {"ok", "ioerr"} :
        /\ UpdateState(r, move[1], move[2], res)
        /\ stopped' = IF move[2] = "canceled" THEN stopped \cup {r} ELSE stopped
    /\ UNCHANGED <<hasStore, pc, run, outcome, succeeded, failed, settled>>

\* The process dies: no Admit survives it.
CrashAll ==
    /\ Crash
    /\ pc' = [a \in Admissions |-> "idle"]
    /\ outcome' = [a \in Admissions |-> "none"]
    /\ settled' = {}
    /\ UNCHANGED <<hasStore, run, succeeded, failed, stopped>>

Restart == Open /\ UNCHANGED gateVars

AdmitStep(a) ==
    \/ EnqueueQueued(a)
    \/ MarkAdmitted(a)
    \/ MarkRunning(a)
    \/ \E result \in {"ok", "error"} : RunFn(a, result)
    \/ MarkTerminal(a)

Next ==
    \/ \E a \in Admissions : AdmitStep(a) \/ \E r \in Runs : Admit(a, r)
    \/ \E r \in Supervised : Operator(r)
    \/ CrashAll
    \/ Restart

Spec == Init /\ [][Next]_vars

-----------------------------------------------------------------------------
(***************************************************************************)
(* "RunStore.Enqueue(queued) is called BEFORE runFn is invoked": while an  *)
(* admission is past its first step its run has a record, whoever made it. *)
(***************************************************************************)
RecordBeforeRun ==
    hasStore =>
        \A a \in Admissions : pc[a] \in {"admit", "start", "run", "finish"} =>
            records[run[a]] # Absent

(***************************************************************************)
(* However the admissions of a run interleave, and although every error of *)
(* UpdateState is only logged, an executed run is at rest: its record is   *)
(* terminal, or where an operator put it, and never waits in a state some  *)
(* admission should still move it out of.                                  *)
(***************************************************************************)
ExecutedRunsAtRest ==
    \A r \in settled : records[r] \in {"held", "resumed"} \cup TerminalStates

(***************************************************************************)
(* A terminal record tells the truth, in memory and in the file, across    *)
(* crashes and re-executions: a run recorded finished has an execution     *)
(* that returned nil, one recorded canceled has one that failed or was     *)
(* canceled by hand.                                                       *)
(***************************************************************************)
TerminalRecordsAreTrue ==
    \A r \in Runs : \A state \in {records[r], disk[r]} :
        /\ state = "finished" => r \in succeeded
        /\ state = "canceled" => r \in failed \cup stopped

(***************************************************************************)
(* The file promises what RunLifecycle does: runs only move forward in it, *)
(* through failed writes, crashes, restarts and re-admissions, although a  *)
(* restart takes the map in memory back to what the file holds.            *)
(***************************************************************************)
Durable == INSTANCE RunLifecycle WITH status <- disk

DurableLifecycle == Durable!Spec

(***************************************************************************)
(* The strengthening that makes the three invariants inductive: what each  *)
(* step of Admit knows of its run's record, and that the file never gets   *)
(* ahead of the map it is written from.                                    *)
(***************************************************************************)
Phase(a) ==
    LET state == records[run[a]]
    IN  /\ pc[a] = "start" => state # "queued"
        /\ hasStore /\ pc[a] = "run" => state \notin {"queued", "admitted"}
        /\ pc[a] = "finish" => state \notin {"queued", "admitted"}
        /\ pc[a] = "finish" /\ outcome[a] = "ok" => run[a] \in succeeded
        /\ pc[a] = "finish" /\ outcome[a] # "ok" => run[a] \in failed
        /\ ~hasStore => pc[a] \in {"idle", "run", "returned"}
        /\ ~up => pc[a] = "idle"

MemoryLeadsDisk ==
    IF up THEN \A r \in Runs : records[r] \in Downstream(disk[r]) ELSE settled = {}

GateInv ==
    /\ StoreTypeOK
    /\ GateTypeOK
    /\ RecordBeforeRun
    /\ ExecutedRunsAtRest
    /\ TerminalRecordsAreTrue
    /\ \A a \in Admissions : Phase(a)
    /\ MemoryLeadsDisk

-----------------------------------------------------------------------------
(***************************************************************************)
(* What the comments of run_gate.go and run_store.go say, and Admit does   *)
(* not do.                                                                 *)
(***************************************************************************)
\* The run is in the store, whose records are "persisted", before any K8s call.
DurableBeforeRun ==
    hasStore /\ backend = "json" =>
        \A a \in Admissions : pc[a] = "run" => disk[run[a]] # Absent

\* "queued -> admitted-to-dag -> running": a run whose runFn executes is running.
ExecutingMeansRunning ==
    hasStore => \A a \in Admissions : pc[a] = "run" => records[run[a]] = "running"
=============================================================================
