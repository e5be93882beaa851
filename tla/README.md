# Verification of pipeline-lite-poc

TLA+ models of the run path of this repository, from a run's entry in the
durable queue to its record in the run store, with TLC configurations that
check them on small instances and TLAPS proofs for instances of any size.

## 1. The system

A user's run is an entry in a Redis stream. The ingress process takes entries
off it, admits each run through the gate, which records it in the run store and
executes its DAG, and acks the entries of runs that completed.

    producers --XADD--> run queue --Consume--> dispatcher --Admit--> gate --runFn--> dag-go -> SpawnerNode -> BoundedDriver -> K8s
                           ^                       |                   |
                           +---------XACK----------+                   +--Enqueue/UpdateState--> run store (JSON file)

| component | source | state | operations | what makes it correct |
|---|---|---|---|---|
| run lifecycle | `pkg/store/run_store.go` | a run's state | `ValidateTransition` | runs only move forward |
| run stores | `json_run_store.go`, `memory_run_store.go` | map under a mutex, JSON file | `Enqueue`, `UpdateState`, `Delete`, `Get`, `ListByState`, load, persist | what a call acknowledged survives failed writes and restarts; the file is never partial |
| gate | `pkg/ingress/run_gate.go` | none of its own: the steps of each `Admit` | `Admit` | the record comes before the execution and ends up saying how it went, whoever interleaves |
| run queue | `pkg/queue/redis_streams.go` | stream, group cursor, pending list (on the server) | `Enqueue`, `Consume`, `Ack`, `ReclaimStale`, `Pending` | an entry is processed at least once and leaves the pending list only then |
| dispatcher | `cmd/ingress/main.go`, `main` and `dispatch` | slot channel, counters, wait group, context | the loop, one goroutine per entry | bounded concurrency, ack after success only, clean exit |
| DAG session | `pkg/session/dag_session.go` | node states under a mutex | `AddNode`, `Start`, `NodeDone`, `submitBatch` | a node is submitted only after its dependencies succeeded, none is forgotten, and one that ended stays as it ended |
| attempt queue | `pkg/session/attempt_queue.go` | slot channel, atomic counters | `Submit`, `Stats` | slots conserved, nothing dropped, the maximum not lost in its race |
| pipeline status | `pkg/observe/pipeline_status.go` | none | stop causes, `ReleaseQueueBlocked` | the cause named is the one that stopped the run |
| spawner adapter | `pkg/adapter` | none; the Jobs on the cluster | `SpawnerNode.RunE`, queue labels | a node ends as its Job did |
| pipelines | `cmd/*/main.go`, `cmd/stress/patterns.go` | DAG shapes, Jobs, shard files on a shared volume | build, run, clean up | a collector reads its own run's shards, all of them; a failure stops what depends on it; executions of one run do not mix |
| dummy producer, stress metrics, deploy | `cmd/dummy`, `cmd/stress`, `deploy`, `hack` | metrics | test entries, measurement | run IDs differ |
| dag-go, spawner, Kueue, Kubernetes, Redis | other repositories | | | external |

What is hard here: calls of several goroutines on one store; a map that is
changed before the file is written and stays changed when that fails; errors
that are only logged; crashes between any two steps followed by an execution of
the same run again; replies of Redis that are lost; claims on stale information;
a channel used as a counter by goroutines that do not know whose slot they
return; a context that expires in the middle of it; Jobs and files that outlive
the process that asked for them, and are found by their names only. `PROJECT.json` lists each
of these hazards at its line.

## 2. Modules

    RunStates          lifecycle: states, transitions, Downstream
      RunLifecycle     abstract: what any store promises about its runs
      RunStore         both stores, one step per call
        RunGate        Admit, step by step, over RunStore
          IngressDispatch   main and dispatch, over RunGate and RedisRunQueue
      JsonRunStore     the JSON store, one step per system call; implements RunStore
    RedisRunQueue      the stream, its group, the client's calls
      RunDelivery      several consumers of one queue
    NodeSubmitter      abstract: the interface toward Kueue and Kubernetes
      DagSession       one session, over a NodeSubmitter
      NodeAttemptQueue the release queue, over a NodeSubmitter; implements NodeSubmitter
    JobNames           the names of Jobs, and how they are cut
      Commands         the pipelines of all commands: DAG, scripts, names
      Pipelines        executions of any pipelines, their Jobs and files
    *Proofs            theorems: RunGateProofs begins with those on RunStore,
                       PipelinesProofs with those on JobNames, the others hold
                       those on the module they are named after
    MC*                instances for TLC

**RunStates.** `validTransitions` is the source's map as a relation.
`Downstream(s)` is the order it generates. It is written out, because the proofs
unfold it; `MCRunGate` assumes (and TLC evaluates) that it equals the least set
closed under the transitions, and `DownstreamUnfolds` proves its recursion
equation.

**RunStore.** `records` is the map, `disk` the file's content, `up` whether the
process lives. A call holds the mutex throughout, so it is one step. `persist`
has three outcomes: the memory store's, success, and an I/O error that leaves
the file as it was and, as in the code, the map changed. `acked` is a history
variable: the last state a call that returned `nil` gave the run. `Crash` and
`Open` are the process's end and `NewJsonRunStore`.

**JsonRunStore.** Here a call changes the map (`Change`), then goes through
`CreateTemp`, `WriteTemp` (in pieces), `CloseTemp` and `Rename`, any of which
may fail (`PersistFails`) or be cut short by `Crash`. The refinement mapping
takes `disk` to the file's content and RunStore's `records` to `seen`, the map
as the last call to unlock the mutex left it: no reader can have seen a later
one. The abstract call happens at the rename, or when `persist` gives up.

**RunGate.** `pc[a]` is where admission `a` is in `Admit`; each call of the store
is a step. Only an error of `Enqueue` other than "exists" ends an `Admit`.
Several admissions may be of one run: the queue can hold several entries that
name it, and after a crash it is admitted again. `Operator` is external: the
store's interface lets its holder hold, resume and cancel runs, and
`docs/poc/ARCH_BOUNDARY.md` describes these states, though no command does so today.
`Supervised` says on which runs it acts. `Admit` without a store
(`hasStore = FALSE`) only executes.

**RedisRunQueue.** An entry's ID is its index in `stream`. `cursor` is the
group's last delivered ID, `owner` the pending list. The commands are external,
modelled from how the client uses them: `XREADGROUP ">"` moves the cursor and
makes the entry pending, `XACK` removes it, whoever it is with, `XCLAIM` moves
the ones that are still pending and idle. A reply can be lost after the command
was executed, so `Enqueue`, `Consume` and `Ack` may return an error in either
case. Time is abstracted to `idle`, the pending entries not delivered for `minIdle`.

**RunDelivery.** Consumers that do what the comments of the queue ask for. An
attempt is `<<entry, "processing">>` and then `<<entry, "acking">>` in `holds`.
`Scan` and `Claim` are the two halves of `ReclaimStale`.

**IngressDispatch.** `at` is where the loop is: `check` (lines 194-200), `slot`
(the select), `recheck` (217-224), `consume`, `wait` (`wg.Wait`). `sem` is how
many values the channel holds. A goroutine is named after its entry:
`worker[e]`, with the steps of its `Admit` in RunGate's `pc[e]`. `Exit` and `Die`
end the process, `StartAgain` starts another, with any of `Flags`; stream and
file are what they share. The pipeline a run executes is `RunFn`'s
nondeterministic result.

**NodeSubmitter.** The interface of `dag_session.go:40-47` and what may happen
behind it, which is external: a request's job is created, or is there already,
or is not, and then the call returns. It may return an error although the job
was created. `DagSession` is built over it and knows no more of it;
`NodeAttemptQueue` is built over it, and shown to implement it. So what is shown
of a session holds whether it submits directly, as in the tests, or through the
queue, as `attempt_queue.go:17-22` has it.

**DagSession.** A call is named after the node whose end it reports, or
`Start`. The part under the mutex is one step (`StartCall`, `NodeDone`): it
changes a status and chooses the batch. Then each node of the batch has a
goroutine `<<call, node>>` whose submission takes the inner steps of
NodeSubmitter, and which ends with `MarkSubmitted`, under the mutex again, or
`KeepError`; `Return` is `wg.Wait`. Any number of calls may be under way. What is
assumed of the caller: every `AddNode` comes before `Start`; the end of a node is
reported only once its job exists, and the same way each time; a call that
returned an error may be made again. `erred` is a history variable: the code
keeps the first of these errors only.

**NodeAttemptQueue.** `phase[r]` is where call `r` is in `Submit`; every
operation on the channel and on a counter is a step, since they race. `sem` is
how many values the channel holds and `waiters` the senders blocked on it: Go
hands a value that is received to the sender that has waited longest, so the
channel stays full while there is one. `peak` is a history variable, the
greatest number that ever was in flight. `ReleaseQueueBlocked` is
`pipeline_status.go`'s. Nothing connects the queue to the ingress process: no
command uses the session or the queue, only tests do.

**JobNames.** `nodeRunID`, `stressNodeID` and `ingressNodeID` are one function
with three prefixes. A name is a sequence of symbols and its length their
number, so that a small model can have a run ID that does not fit; the proofs
are for any limit, the code's 63 characters included. `Confusable` is the
condition the comment "so all nodes remain distinguishable" rests on: no node's
name is the end of another's after a dash.

**Commands.** One record per pipeline: `dag` (node to parents), `script` (which
directories a node's container needs, which files it reads and writes, whether
it exits with 1 or verifies what it read), `prefix`, `root` (where on the
volume), `nodeTimeout` (whether dag-go's own limit is in force: `InitDag`, or
off: `WithDefaultTimeout(0)`). `LongPipelines` are the commands whose authors say
that the caller's deadline is the only one; `FailuresHaveACause` holds them to it. How long scripts sleep, and what text they write,
is left out: the patterns of the stress command that differ in that only are one
pipeline.

**Pipelines.** An execution is one call of a run function. `phase` is the call,
`deadline` whether its context is done, `node` how far dag-go and `RunE` are with
a node, `job` the Job this execution created for it. `RunE` is `Start`,
`NameTaken` or `ApiError`, and then `Wait`: `ApiError` stands for an error of
Prepare, Start or Wait, also one whose Job exists all the same. dag-go skips the
nodes behind a broken one; here they stay `waiting`, which no step can tell from
it. `Return` is `dag.Wait`; after an error the process may still be running, with
its goroutines, until `Exit`, which wipes what it knew (`node`, `deadline`) and
leaves Jobs and files. `Remove` deletes all Jobs of a run nobody executes, as
`testRerun` and an operator do; a Job that is deleted is taken to have stopped.
`file[p]` says whose data a file holds and whether all of it was written, `from`
(a history variable) whose data a script has read: a file two scripts write at
once has both. dag-go, the drivers, Kueue and the volume are external. A
`runner` job, which has no DAG, is a pipeline of one node; the rerun test of the
operational command is one execution per pass.

## 3. Runs

| run | instance | shows |
|---|---|---|
| `json_store` | 2 runs | `FileAlwaysWhole`; `ImplementsRunStore` (refinement); `CallInProgress` is why |
| `gate` | 1 run, 3 admissions, an operator, both stores | `RecordBeforeRun`, `ExecutedRunsAtRest`, `TerminalRecordsAreTrue`, `DurableLifecycle` (refinement of RunLifecycle), and the inductive `GateInv` |
| `gate_durable` (violation) | 1 run, 2 admissions | finding 1 below |
| `queue` | 2 consumers, 2 entries, 1 fault | `AckedWereProcessed`, `OneConsumerPerTimeout`, `NoDeliveryAfterAck` (about steps), and the liveness property `AtLeastOnce` |
| `queue_backlog` (violation) | XPENDING returns 1 entry | finding 2 |
| `dispatch` | 2 runs, 2 entries, four settings of the flags | `DispatchTypeOK`, `InFlightBounded`, `SlotsOwned`, `AckedSurvives` (an acknowledged state is in the file, or one ahead of it, whatever failed or crashed since) and its inductive form `StoreInv`, `AckedRunsSucceeded`, `LimitsKept`, and, under fairness, `EntriesAreTaken` and `DrainsAndExits` |
| `dispatch_shutdown` (violation) | 1 run, 2 entries | finding 3 |
| `session` | 2 roots and a node that waits for both | `JobsFollowDeps`, `NothingDropped`, `StatusMovesForward`, and the inductive `SessionInv` |
| `session_held` (violation) | same | finding 4 |
| `attempt_queue` | 3 calls, 2 slots | `ConcurrencyBounded`, `PeakRecorded`, `ImplementsNodeSubmitter` (refinement), the inductive `QueueInv` and, under fairness, `SubmitsReturn` |
| `attempt_blocked` (violation) | 2 calls, 1 slot | finding 5 |
| `pipelines` | 13 pairs of executions of the commands' pipelines | `FailureStopsDependants`, `RunsAreExclusive`, `ReportsAreOwn`, `InputsAreThere`, `FailuresHaveACause`, `FinishedMeansDone`, the inductive `PipelinesInv` and, under fairness, `ExecutionsEnd` |

**Bounds.** Two runs, as in `json_store` and `dispatch`, are enough for one run's
failed write to be flushed by another's call. Three admissions of one run give
every pairwise interleaving of `Admit` and one that overtakes two; admissions of
different runs meet in `dispatch`. The gate needs no bound on crashes or
re-admissions: its state space is finite. `MaxEntries` bounds what is added to
the stream: two entries can name one run or two, one can be malformed and head
the other, and both slots can be in use. `MaxFaults` bounds the crashes, failed
attempts and lost replies of RunDelivery, because at-least-once can be promised
only to a system that does not fail for ever; safety there does not depend on
it. `PendingCount` is the code's 100, scaled to 2 where the list fits and to 1
where it does not. `Flags` holds a dispatcher with one slot and one with two,
and two with one slot that stop after a run, by `--max-runs 1` and by `--once`. A session of two roots and a node that
waits for both has everything that takes several nodes: a batch of two, batches
of calls that overlap, the NodeDones of both dependencies at once, a node
collected twice, a dependant released while the goroutines that submitted its
dependencies have not returned. Three calls over two slots have one that waits, one
that gives its slot to it, and two in the loop for the maximum at once; the
proofs cover every other number.

`pipelines` has two executions, since what is at stake is between two: a retry
beside or after the first attempt, two commands that share a directory or a
prefix, two runs whose names are cut to the same. `MCWorkloads` names the pairs:
each pipeline with itself as one run, except that the two patterns of stress are
there as a retry of the one with two stages and as two runs of a burst whose IDs
do not fit (`NameLimit` is 7 symbols); `fanout` with `pipeline-abc`, which write
the same `/data/a.txt`; the two modes of `runner` and of `dag-runner`; and two
sessions of the dummy producer that begin in one second and so give two entries
one run ID. The fan-outs have 2 workers and, where nothing joins them, 1.
`MaxFaults` is 1 in five of the workloads (`Faulty`: one lost call, died Job,
expired wait of a node, or crash) and 0 in the others, where the state space
would not fit; contexts expire and Jobs fail or lack inputs in all of them. The
proofs are for any number of executions, workers, faults and workloads. `fanout`
and `specimen` of the ingress, which have one prefix and one directory, are not
run together (too many states); `PlanAssumption`, evaluated by TLC, has it that
their nodes have different names.

**Symmetry** is used in runs that check safety and refinement only. Runs and
admissions are interchangeable in their specifications.

**Fairness.** RunDelivery: time passes (`Timeout`), and every consumer keeps
calling `Consume` and `ReclaimStale` and finishes what it started, which is what
the queue's comments ask of its callers. It is an assumption on them: the
dispatcher never calls `ReclaimStale`, as the sprint reports say, so in this
system an entry that stays pending waits for a person; IngressDispatch claims
nothing about its retry. IngressDispatch: goroutines that can go on do (Go's
scheduler), `runFn` returns (it gets the context, and dag-go's `Wait` honours it),
and Redis, if asked again and again, answers (strong fairness of a `Consume` the
server executes; the loop retries for ever). Nothing makes the process die or
its context end. NodeAttemptQueue: goroutines that can go on do, which includes
that the wrapped `Submit` returns; a context that expires (`GiveUp`) is not
counted on. Pipelines: an execution that runs does, in the end, see its context
done or returns (`WF` of `Deadline \/ Return`): every command gives its context a
timeout, and dag-go's `Wait` honours it. Nothing is asked of the cluster, whose
Jobs may stay pending for ever. `CHECK_DEADLOCK FALSE` appears where the system may stop: when
the bounded stream is drained and acked, in `dispatch_shutdown`, whose
subject is a process that hangs, and in the runs of the session and the attempt
queue, where every call has returned in the end, and in `pipelines`, where every
execution has ended and its Jobs are removed or done.

## 4. Findings

1. *A run executes without a durable record* (`gate_durable`). `Enqueue` leaves
   the record in the map when `persist` fails; the next `Admit` of the run takes
   `ErrAlreadyExists` for success. `run_gate.go:62-64` calls the opposite the
   structural invariant. It holds of the map: `RecordBeforeRun` is proved.
2. *Reclaiming can starve* (`queue_backlog`): `XPENDING` is asked for 100
   entries, and malformed ones, whose IDs `Consume` does not even return, stay
   at the head of the list.
3. *The dispatcher hangs when its context expires while it waits for a slot*
   (`dispatch_shutdown`): `break` leaves the `select` only, and the receive after
   it takes a slot the loop never had. `SlotsOwned` holds until then.
4. *A held node may have a job* (`session_held`): a node is marked only after
   `Submit` returned, outside the mutex, and not at all if it returned an error.
   `ARCH_VALIDATION_REPORT.md:134-136` states the opposite as the core invariant.
   What holds instead is `SubmittedHasJob`, the converse, and a node may be
   submitted twice; that this creates one job is up to the names of the jobs.
5. *"Blocked" is not a state* (`attempt_blocked`): the counter that
   `pipeline_status.go:42-43` reads as "a node is waiting" only ever grows.

Delivery is at least once, as `redis_streams.go:46-47` says and `AtLeastOnce`
checks; lines 13 and 168 of the same file speak of exactly-once, which a lost Ack
refutes: the entry is claimed and processed again. `cmd/dummy/main.go:78` calls
collisions of run IDs impossible, which holds within one session; two sessions of
one second collide, and what then happens is a workload of `pipelines`: the
second execution's first Job is refused, or it runs after the first one's Jobs
were removed. Other things met on the way, outside any property: `cmd/stress`
panics on a run ID of fewer than ten characters (`main.go:159`); `cmd/fastfail`
prints PASS for any error of the gate, not only for B2's.

Two more consequences are modelled and not disputed by any document: a run whose
first execution failed stays `canceled` although a later one completes and its
entry is acked (`TerminalRecordsAreTrue` says no more than it does for this
reason), and an operator's hold or cancel does not stop an `Admit` under way.

## 5. Proofs

All theorems are for any values of the constants: runs, admissions and
supervised runs, nodes and their dependencies, calls and slots.

* **RunStates**: `Downstream` is reflexive, transitive, contains every
  transition, and satisfies its recursion equation.
* **RunStore**: `StoreInvariant`. `AckedSurvives` alone is not inductive: a write
  for one run puts the whole map into the file, so the map too must be ahead of
  what was acknowledged for every other run (`AckedInMemory`).
* **JsonRunStore**: `StoreTyped`, `FileNeverPartial`, `CallAlwaysInProgress`,
  and `JsonRunStoreImplementsRunStore`. The latter rests on two facts about a call
  that holds the mutex: the map differs from what readers saw by one legal
  change of that call's run, and the temporary file about to be renamed holds all
  of it (both `CallInProgress`).
* **RunGate**: `GateInvariant`, from which `RecordAlwaysBeforeRun`,
  `ExecutedRunsAlwaysAtRest` and `TerminalRecordsAlwaysTrue` follow;
  `GateKeepsAcknowledgedStates`, because every gate step is a step of RunStore;
  `FileImplementsRunLifecycle`. `GateImplementsStore` is the refinement itself:
  the gate's behaviours, operators and crashes included, are behaviours of
  RunStore. `GateInv` adds to the three properties what each
  step of `Admit` knows of its run's record, whoever moved it last (`Phase`: past
  the first transition it is no longer queued, past the second neither queued
  nor admitted), and that the map is never behind the file it is written to
  (`MemoryLeadsDisk`). The proof has one lemma per kind of move a record can
  make, and one step per action.
* **RunDelivery**: `DeliveryTyped`, `AckedWereAlwaysProcessed`,
  `OneConsumerEachTimeout`. What leaves the pending list was processed because an
  attempt that is about to ack has processed its entry (`AckingWasProcessed`) and
  everything else that is delivered stays pending. That a timeout hands an entry
  to one consumer comes from `HandedToOwner`: whoever was handed an entry is the
  one the server names, and since it went idle nobody was; with it goes
  `DeliveredInOrder`, by which an entry that is read for the first time was with
  nobody before. `NoDeliveryOfTheAcked` is about steps: what was acked stays so, and
  no consumer is handed it, not even one whose XPENDING listed it before the ack and
  whose XCLAIM comes after.
* **IngressDispatch**: `InFlightAlwaysBounded`, `SlotsAlwaysOwned`,
  `AckedRunsAlwaysSucceeded`, `LimitsAlwaysKept`, `DispatcherKeepsAcknowledgedStates`,
  `DispatchTyped`, from one `DispatchInv`. It contains `GateInv` and `StoreInv`, and
  keeps them because every step of the dispatcher is a step of the gate or leaves
  it alone (`DispatchStepIsGateStep`). So the process implements the gate
  (`DispatcherImplementsGate`, a theorem of whole behaviours), and what is proved of
  the gate is proved of the process: `DispatcherRecordsFirst`,
  `DispatcherLeavesRunsAtRest`, `DispatcherRecordsTruth` and
  `DispatcherImplementsRunLifecycle`. `SlotsCounted` says how many slots are taken
  at each place of the loop, also once the context is done: there the
  select passes without a slot, the receive after it takes a goroutine's, and one
  slot less than goroutines is taken. `NobodyEverBlocksForNothing` is what it means
  for the receives while the context lasts: each finds a slot, and a loop that waits
  for a free one has a goroutine to wait for; finding 3 is what happens after.
  `Goroutine` says what the goroutine of an
  entry knows: the run its `Admit` is for is the entry's, and by the time
  it acks, that run has succeeded. `LimitsAhead` has it that `Consume` is called only
  while the limits leave room.
* **DagSession**: `SessionInvariant`, `JobsAlwaysFollowDeps`,
  `NothingEverDropped`, `StatusAlwaysForward`. `JobsFollowDeps` needs no more than
  that a node that succeeded stays so (it is about every request under way, not
  only about the moment of choosing). `NothingDropped` says that a ready node is
  submitted, or with a goroutine, or in the error of the call that tried; it
  is inductive only with `AnsweredHasJob` and `SubmittedHasJob` (a mark on an
  answer is a mark on a job), `CallsWaitForBatch` (a call that starts afresh has
  no goroutines left) and `BatchFollowsSuccess` (the retry of a call that failed
  makes the same choice again, since its node's success stands).
  `JobsAlwaysFollowAncestors` takes `JobsFollowDeps` to everything upstream of a
  node. `Ancestors` is the least set closed under dependencies, given as an
  intersection, so that no induction is needed: the nodes that succeeded are one of
  the sets intersected.
* **JobNames**: `NamesFit`, `NodesRemainDistinguishable`, `UncutNamesTellRuns`.
  They reduce to two facts about sequences: what equal concatenations have in
  common, and that cutting keeps prefix and suffix.
* **Pipelines**: `PipelinesCorrect` (`PipelinesInv` is inductive together with two
  typing facts: `cmd` is one of `Workloads`, `file` is a function on `Paths`), and
  from it `DependantsWait`, `OneExecutionOfARun`, `SuccessIsDone`,
  `FailuresAreExplained`. That two executions of a run exclude each other comes
  from three parts: whoever has a Job has the first node's (`FirstNodeFirst`), which
  holds because Jobs are removed together and every node waits for its parents
  (`FailureStopsDependants`); and no name is used twice (`NamesUnique`).
  `MemoryIsTrue` ties what a process believes to its own Jobs, so that a retry
  cannot go on from its predecessor's. `NothingRunsBehindAFailure` is the
  transitive form of `DependantsWait`, as for the session, and
  `RunsAreAlwaysHandedOver` the one about steps: between the Jobs of one execution
  and those of the next there is a state in which the run has none.
  `FailuresAreExplained` (for commands that are among `CallerDeadlineOnly` only if
  their DAG has no limit of its own, `LimitTurnedOff`) uses JobNames: the
  holder of a name that is taken is another execution, and shares prefix and run
  or one of the names was cut. `InputsAreReady` is about pipelines for which every
  file a script needs is written by a node it waits for (`Fed`).
  `ReportsAlwaysOwn` also asks that no two nodes write the same file
  (`SoleWriters`). `ReportsAreOwn` speaks of calls that succeeded and is far from
  inductive; `OutputsAreOwn` is the induction, for every execution that is alone in
  its directory: what its scripts have read is its own, what they are writing or
  have written is its own, and whole once the script ended. A reader relies on the
  second part for its parents' files, whose Jobs have succeeded, a writer on the
  first part for the data it passes on; and two executions of one run in that
  directory are kept apart by `ExclusiveRuns`. TLC found `OutputsAreOwn` to hold on the
  instance of `pipelines` before it was proved.
* **Commands**: `CatalogueSound` proves `Fed` and `SoleWriters` of every pipeline of
  the commands, for any number of workers, from how their DAGs and scripts are
  built: workers of different names have different shards, and none is named like
  the nodes at the ends. `CommandsFindTheirInputs`, `CommandsReportTheirOwn` and
  `CommandsFailForACause` (which needs no more than how `initDag` is called) are what
  follows for the commands themselves. That
  the catalogue satisfies `PlanAssumption` is evaluated by TLC, at the widths of the
  run (the provers know nothing of `ToString`).
* **NodeAttemptQueue**: `QueueInvariant`, `ConcurrencyAlwaysBounded`,
  `PeakAlwaysRecorded`, `QueueImplementsNodeSubmitter`. The slots are counted with
  the library's facts on `Cardinality`, one element at a time (`SlotsAccounted`),
  and the wrapped submitter's calls are among those that hold one; the queue of
  waiters needs `WaitsOnce` for a call to leave it entirely. For the maximum,
  `PeakPursued` is the induction: while `maxConcurrent` is behind the peak, a call
  whose value is the peak is in the loop, and its failed compare-and-swap sends
  it round again. In the refinement a call that never reached the wrapped
  submitter is "refused", and everything before the wrapped call is a stutter.
  `SomebodyAlwaysGoesOn` says that not everyone waits for everyone: who waits does
  so because all slots are held, and whoever holds one waits for nothing of the
  queue's.

Every safety property of the passing runs is stated by a theorem. Liveness is
checked by TLC only: the provers have no `ENABLED`. `NothingDropped`,
`SomebodyGoesOn`, `NobodyBlocksForNothing` and `SlotsOwned` are the safety halves of
what is live in the session, the queue and the dispatcher. The properties that
theorems state and no run lists (`JobsFollowAncestors`, `SomebodyGoesOn`,
`NobodyBlocksForNothing`, `NoDeliveryAfterAck`, `FailureStopsAllBehind`,
`RunsAreHandedOver`, defined in the modules of proofs) were checked by TLC as well, on
the instances of section 3, the first on a chain of three nodes. The assumptions are
`SupervisedAssumption`, `QueueAssumption` (no consumer has the name the model uses
for nobody), `DispatchAssumption` (an admission is named after its entry), `SessionAssumption`, `ConcurrencyAssumption`,
`PlanAssumption` (a pipeline begins with one node, names of nodes that share a
prefix are not confusable), `WorkloadAssumption` (names without a run ID fit), and
those on the bounds.

## 6. Plan

1. *Done*: lifecycle, stores, gate, queue, dispatcher; with proofs.
2. *Done*: `DagSession` and `NodeAttemptQueue` over `NodeSubmitter`, with proofs.
   That a session ends is not checked: with calls that may be retried for ever it
   needs fairness nobody promises. `NothingDropped` is its safety half.
3. *Done*: `JobNames`, `Commands` and `Pipelines`, with proofs.
4. *Done*: the data of the pipelines (`ReportsAlwaysOwn`, `CatalogueSound`), and the
   refinements of the store by the gate and of the gate by the dispatcher.
5. Left: a session over an attempt queue as one specification (a session submits a
   node again in the call that repeats an earlier one, so the queue's calls, which
   are made once each, would need a generation); `PlanAssumption` for the catalogue
   at any width.

## 7. Not modelled, and why

Payloads, timestamps and wording of errors (no property tells them apart); `Get`,
`Path`, `Pending`, `Close` (no state changes); two ingress processes sharing
`/tmp/ingress-runstore.json` (the store's comment excludes it); renames that are
not atomic (excluded by the same comment on POSIX); power loss without `fsync`;
dag-go, the spawner, Kueue and Kubernetes (external: what the code calls and
handles of them only); the semaphore of the BoundedDriver (it delays Jobs, which
may be delayed anyway); Kueue's quotas and `testPending`, which waits for one; `testTimeout`, one Job
without a DAG whose `Wait` is meant to expire and which is then deleted, inside an
`Admit` that RunGate has with any other failing `runFn`; flags
and wiring of the commands' `main`; the driver used without a cluster, for which
every node is `refused`; `bootstrapRecovery`, which logs; `Describe` and the other causes of
`pipeline_status.go` (lookup tables, and questions to Kubernetes); the stress harness's metrics and `deploy`
and `hack` (measurement, configuration).
