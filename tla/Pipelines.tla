------------------------------ MODULE Pipelines ------------------------------
(***************************************************************************)
(* Executions of pipelines on a cluster.  An execution is one call of a    *)
(* command's run function: dag-go starts SpawnerNode.RunE for a node once  *)
(* the node's parents have succeeded, RunE creates the node's Kubernetes   *)
(* Job and waits for it, and the scripts in the Jobs hand files to each    *)
(* other on one shared volume.  Jobs and files outlive the process that    *)
(* asked for them, and nothing but the name of a Job tells the executions  *)
(* of a run apart.                                                         *)
(*                                                                         *)
(* dag-go, the drivers and the cluster are not in this repository: what    *)
(* they may do is what the code here calls, handles and says of them.      *)
(***************************************************************************)
EXTENDS JobNames, FiniteSets

CONSTANTS
    Executions,          \* calls of a run function, each made at most once
    Plan,                \* Plan[p]: the pipeline of command p
    CallerDeadlineOnly,  \* the commands whose authors leave all deadlines to the caller
    Workloads,           \* which command, for which run, each execution is of
    MaxFaults            \* MaxFaults[w]: bound on lost API calls, nodes that wait too
                         \* long, Jobs that die and crashes, in workload w

Programs == DOMAIN Plan

\* A pipeline begins with one node, and every other node waits for some node.
WellFormed(plan) ==
    LET nodes == DOMAIN plan.dag
    IN /\ plan.dag \in [nodes -> SUBSET nodes]
       /\ \E first \in nodes : \A n \in nodes : plan.dag[n] = {} <=> n = first
       /\ plan.prefix \in Seq(STRING) /\ Len(plan.prefix) = 1
       /\ nodes \subseteq Seq(STRING)
       /\ plan.nodeTimeout \in BOOLEAN

\* Programs whose names begin alike tell their nodes apart all the same.
ASSUME PlanAssumption ==
    /\ \A p \in Programs : WellFormed(Plan[p])
    /\ \A p, q \in Programs :
          Plan[p].prefix = Plan[q].prefix => Distinguishable(DOMAIN Plan[p].dag \cup DOMAIN Plan[q].dag)

\* The names of a command without run IDs are short.
ASSUME WorkloadAssumption ==
    \A w \in Workloads :
        /\ w \in [Executions -> [program : Programs, run : Seq(STRING)]]
        /\ \A e \in Executions :
              w[e].run = <<>> =>
                  LET plan == Plan[w[e].program]
                  IN \A n \in DOMAIN plan.dag : Fits(plan.prefix, <<>>, n)

VARIABLES
    cmd,                 \* cmd[e]: the command of an execution and its run's ID
    phase,               \* phase[e]: what became of the call
    deadline,            \* deadline[e]: its context is done
    node,                \* node[e][n]: how far dag-go and RunE are with a node
    job,                 \* job[e][n]: the Job this execution created for a node
    file,                \* file[path]: whose data it holds, and whether all of it
    from                 \* from[e][n]: history: whose data a node's script has read

vars == <<cmd, phase, deadline, node, job, file, from>>

The(e) == Plan[cmd[e].program]

Nodes(e) == DOMAIN The(e).dag

Parents(e, n) == The(e).dag[n]

\* Mutant: a name for each attempt, so that a retry is not refused.
JobOfAttempt(e, n) == JobName(The(e).prefix, cmd[e].run \o <<e>>, n)

JobOf(e, n) == JobName(The(e).prefix, cmd[e].run, n)

SameRun(e, f) == cmd[e] = cmd[f]

\* The file or directory f of an execution's run.
Path(e, f) == <<The(e).root, cmd[e].run, f>>

Files(e) ==
    {Path(e, f) : f \in UNION {LET s == The(e).script[n] IN s.needs \cup s.reads \cup s.writes :
                                   n \in Nodes(e)}}

Paths == UNION {Files(e) : e \in Executions}

Phases == {"idle", "running", "ok", "error", "gone"}

NodeStates == {"waiting", "started", "succeeded", "failed", "refused", "taken", "skipped"}

Broken == {"failed", "refused", "taken", "skipped"}

JobStates == {"none", "pending", "active", "succeeded", "failed", "died", "missing"}

Torn == "torn"           \* data of a file that its writer had not finished

\* The nodes' goroutines run until the process ends, after an error too.
Alive(e) == phase[e] \in {"running", "error"}

Succeeded(e, n) == node[e][n] = "succeeded"

\* Mutant: a node runs once its parents have ended, as they may.
ParentsEnded(e, n) == \A p \in Parents(e, n) : node[e][p] \notin {"waiting", "started"}

ParentsSucceeded(e, n) == \A p \in Parents(e, n) : Succeeded(e, p)

Ready(e, n) == node[e][n] = "waiting" /\ ParentsSucceeded(e, n)

NameFree(name) ==
    \A f \in Executions : \A m \in Nodes(f) : job[f][m] # "none" => JobOf(f, m) # name

Faults(e) == {n \in Nodes(e) : node[e][n] \in {"refused", "skipped"} \/ job[e][n] = "died"}

MoreFaults == Cardinality(UNION {{<<e, n>> : n \in Faults(e)} : e \in Executions}) < MaxFaults[cmd]

-----------------------------------------------------------------------------
Init ==
    /\ cmd \in Workloads
    /\ phase = [e \in Executions |-> "idle"]
    /\ deadline = [e \in Executions |-> FALSE]
    /\ node = [e \in Executions |-> [n \in Nodes(e) |-> "waiting"]]
    /\ job = [e \in Executions |-> [n \in Nodes(e) |-> "none"]]
    /\ file = [p \in Paths |-> [by |-> {}, whole |-> FALSE]]
    /\ from = [e \in Executions |-> [n \in Nodes(e) |-> {}]]

SetNode(e, n, state) == node' = [node EXCEPT ![e][n] = state]

SetJob(e, n, state) == job' = [job EXCEPT ![e][n] = state]

\* The run function builds its DAG and starts it.
Begin(e) ==
    /\ phase[e] = "idle"
    /\ phase' = [phase EXCEPT ![e] = "running"]
    /\ UNCHANGED <<cmd, deadline, node, job, file, from>>

\* The context ends: its time is over, or the process was told to stop.
Deadline(e) ==
    /\ phase[e] = "running"
    /\ ~deadline[e]
    /\ deadline' = [deadline EXCEPT ![e] = TRUE]
    /\ UNCHANGED <<cmd, phase, node, job, file, from>>

\* The steps of a node's goroutine, up to Wait, are those of a process that is
\* alive.  dag-go skips a node one of whose parents is broken; here the node
\* stays waiting for ever, which nobody can tell from it.

\* dag-go's own limit on a node's wait for its parents ends it, however well
\* the parents do.
TooSlow(e, n) ==
    /\ The(e).nodeTimeout
    /\ node[e][n] = "waiting"
    /\ ~ParentsSucceeded(e, n)
    /\ MoreFaults
    /\ SetNode(e, n, "skipped")
    /\ UNCHANGED <<cmd, phase, deadline, job, file, from>>

\* dag-go calls RunE, whose Prepare and Start go well: the Job exists.
Start(e, n) ==
    /\ Ready(e, n)
    /\ ~deadline[e]
    /\ NameFree(JobOf(e, n))
    /\ SetNode(e, n, "started")
    /\ SetJob(e, n, "pending")
    /\ UNCHANGED <<cmd, phase, deadline, file, from>>

\* Start fails: there is a Job of that name, which nobody has deleted.
NameTaken(e, n) ==
    /\ Ready(e, n)
    /\ ~deadline[e]
    /\ ~NameFree(JobOf(e, n))
    /\ SetNode(e, n, "taken")
    /\ UNCHANGED <<cmd, phase, deadline, job, file, from>>

\* Prepare, Start or Wait returns an error of the API: the Job was not
\* created, or it was and the answer is lost, or it can no longer be seen.
ApiError(e, n) ==
    /\ Ready(e, n) \/ node[e][n] = "started"
    /\ MoreFaults
    /\ SetNode(e, n, "refused")
    /\ \/ UNCHANGED job
       \/ /\ Ready(e, n)
          /\ ~deadline[e]
          /\ NameFree(JobOf(e, n))
          /\ SetJob(e, n, "pending")
    /\ UNCHANGED <<cmd, phase, deadline, file, from>>

\* Mutant: the state of the event Wait returned is not looked at.
AnyEvent(state) == state \in {"succeeded", "failed", "died", "missing"}

\* RunE returns nil for a Job that succeeded, and for no other.
GoodEvent(state) == state = "succeeded"

BadEvent(state) == state \in {"failed", "died", "missing"}

Wait(e, n) ==
    /\ node[e][n] = "started"
    /\ \/ /\ GoodEvent(job[e][n])
          /\ SetNode(e, n, "succeeded")
       \/ /\ BadEvent(job[e][n]) \/ deadline[e]
          /\ SetNode(e, n, "failed")
    /\ UNCHANGED <<cmd, phase, deadline, job, file, from>>

\* Mutant: dag.Wait is not given the context.
GivesUpForNodesOnly(e) == \E n \in Nodes(e) : node[e][n] \in Broken

GivesUp(e) == deadline[e] \/ \E n \in Nodes(e) : node[e][n] \in Broken

\* Mutant: nobody has failed yet.
NoneBroken(e) == \A n \in Nodes(e) : node[e][n] \notin Broken

AllSucceeded(e) == \A n \in Nodes(e) : Succeeded(e, n)

\* dag.Wait: true once every node has succeeded, false if one is broken or
\* the context is done.  Nothing cancels the Jobs that are left.
Return(e) ==
    /\ phase[e] = "running"
    /\ \/ /\ AllSucceeded(e)
          /\ phase' = [phase EXCEPT ![e] = "ok"]
       \/ /\ GivesUp(e)
          /\ phase' = [phase EXCEPT ![e] = "error"]
    /\ UNCHANGED <<cmd, deadline, node, job, file, from>>

\* The process ends, after an error or by a crash, and what it knew with it;
\* the Jobs go on.
Exit(e) ==
    /\ \/ phase[e] = "error"
       \/ phase[e] = "running" /\ MoreFaults
    /\ phase' = [phase EXCEPT ![e] = "gone"]
    /\ deadline' = [deadline EXCEPT ![e] = FALSE]
    /\ node' = [node EXCEPT ![e] = [n \in Nodes(e) |-> "waiting"]]
    /\ UNCHANGED <<cmd, job, file, from>>

-----------------------------------------------------------------------------
\* The cluster and the volume.

ScriptOf(e, n) == The(e).script[n]

InputsThere(e, n) ==
    \A f \in ScriptOf(e, n).needs \cup ScriptOf(e, n).reads : file[Path(e, f)].by # {}

\* Whose data a script reads.
Lineage(e, n) ==
    UNION {LET in == file[Path(e, f)]
           IN in.by \cup IF in.whole THEN {} ELSE {Torn} : f \in ScriptOf(e, n).reads}

\* Whose data it writes: what it read, or its own if it reads nothing.
Data(e, n, read) == IF ScriptOf(e, n).reads = {} THEN {e} ELSE read

Outputs(e, n) == {Path(e, f) : f \in ScriptOf(e, n).writes}

\* Kueue admits the Job and its script begins: it reads its inputs, and what
\* its outputs held is gone.  Without its inputs, set -e ends it.
JobBegins(e, n) ==
    /\ job[e][n] = "pending"
    /\ IF InputsThere(e, n)
       THEN /\ SetJob(e, n, "active")
            /\ from' = [from EXCEPT ![e][n] = Lineage(e, n)]
            /\ file' = [p \in DOMAIN file |->
                            IF p \in Outputs(e, n)
                            THEN [by |-> Data(e, n, Lineage(e, n)), whole |-> FALSE]
                            ELSE file[p]]
       ELSE SetJob(e, n, "missing") /\ UNCHANGED <<from, file>>
    /\ UNCHANGED <<cmd, phase, deadline, node>>

\* pipeline-abc's verification: is what it read the text its own node A
\* writes?  In a file with more than that, either may be found.
Verified(e, n) == \E f \in Executions : f \in from[e][n] /\ cmd[f].program = cmd[e].program

Refuted(e, n) ==
    \/ Torn \in from[e][n]
    \/ \E f \in Executions : f \in from[e][n] /\ cmd[f].program # cmd[e].program

Verdicts(e, n) ==
    CASE ScriptOf(e, n).verdict = "exit 0" -> {"succeeded"}
      [] ScriptOf(e, n).verdict = "exit 1" -> {"failed"}
      [] OTHER -> {v \in {"succeeded", "failed"} :
                      IF v = "succeeded" THEN Verified(e, n) ELSE Refuted(e, n)}

\* The script ends; a file another script has meanwhile begun to write is a
\* mixture of both.
JobEnds(e, n) ==
    /\ job[e][n] = "active"
    /\ \E verdict \in Verdicts(e, n) : SetJob(e, n, verdict)
    /\ LET mine == Data(e, n, from[e][n])
       IN file' = [p \in DOMAIN file |->
                      IF p \in Outputs(e, n)
                      THEN [by |-> file[p].by \cup mine, whole |-> file[p].by = mine]
                      ELSE file[p]]
    /\ UNCHANGED <<cmd, phase, deadline, node, from>>

\* The Job fails for a reason of the cluster's.
JobDies(e, n) ==
    /\ job[e][n] \in {"pending", "active"}
    /\ MoreFaults
    /\ SetJob(e, n, "died")
    /\ UNCHANGED <<cmd, phase, deadline, node, file, from>>

\* The operator, or testRerun, deletes the Jobs of a run nobody executes (and
\* the history of what their scripts read goes with them).
Remove(e) ==
    /\ ~Alive(e)
    /\ \E n \in Nodes(e) : job[e][n] # "none"
    /\ \A f \in Executions : SameRun(e, f) => ~Alive(f)
    /\ job' = [f \in Executions |->
                  IF SameRun(e, f) THEN [n \in Nodes(f) |-> "none"] ELSE job[f]]
    /\ from' = [f \in Executions |->
                  IF SameRun(e, f) THEN [n \in Nodes(f) |-> {}] ELSE from[f]]
    /\ UNCHANGED <<cmd, phase, deadline, node, file>>

-----------------------------------------------------------------------------
Caller(e) == Begin(e) \/ Deadline(e) \/ Return(e) \/ Exit(e) \/ Remove(e)

NodeStep(e, n) ==
    \/ TooSlow(e, n) \/ Start(e, n) \/ NameTaken(e, n) \/ ApiError(e, n) \/ Wait(e, n)

ClusterStep(e, n) == JobBegins(e, n) \/ JobEnds(e, n) \/ JobDies(e, n)

Next ==
    \E e \in Executions :
        \/ Caller(e)
        \/ Alive(e) /\ \E n \in Nodes(e) : NodeStep(e, n)
        \/ \E n \in Nodes(e) : ClusterStep(e, n)

Spec == Init /\ [][Next]_vars

\* Every command's context has a timeout, and dag.Wait returns when it ends.
\* Nothing is asked of the cluster.
FairSpec == Spec /\ \A e \in Executions : WF_vars(Deadline(e) \/ Return(e))

-----------------------------------------------------------------------------
Data0 == Executions \cup {Torn}

\* Types of the variables.
PipelinesTypeOK ==
    /\ cmd \in [Executions -> [program : Programs, run : Seq(STRING)]]
    /\ phase \in [Executions -> Phases]
    /\ deadline \in [Executions -> BOOLEAN]
    /\ DOMAIN node = Executions /\ \A e \in Executions : node[e] \in [Nodes(e) -> NodeStates]
    /\ DOMAIN job = Executions /\ \A e \in Executions : job[e] \in [Nodes(e) -> JobStates]
    /\ DOMAIN from = Executions /\ \A e \in Executions : from[e] \in [Nodes(e) -> SUBSET Data0]
    /\ file \in [DOMAIN file -> [by : SUBSET Data0, whole : BOOLEAN]]

\* No Job of a node is there before the Jobs this execution created for the
\* node's parents have succeeded, however the call itself has ended: what
\* fail-fast and the joins of the pipelines rely on (SpawnerNode.RunE's
\* error for a Job that did not succeed is all that dag-go sees).
FailureStopsDependants ==
    \A e \in Executions : \A n \in Nodes(e) :
        job[e][n] # "none" => \A p \in Parents(e, n) : job[e][p] = "succeeded"

\* What the process believes of a node's Job is so.
MemoryIsTrue ==
    \A e \in Executions : Alive(e) =>
        \A n \in Nodes(e) :
            /\ node[e][n] = "waiting" => job[e][n] = "none"
            /\ node[e][n] = "succeeded" => job[e][n] = "succeeded"

\* Nothing is there of a call that was not made.
IdleHasNothing ==
    \A e \in Executions : phase[e] = "idle" =>
        \A n \in Nodes(e) : node[e][n] = "waiting" /\ job[e][n] = "none"

\* Whoever has a Job has the first node's, which is what RunsAreExclusive
\* comes from.
FirstNodeFirst ==
    \A e \in Executions : \A m \in Nodes(e) :
        Parents(e, m) = {} /\ job[e][m] = "none" => \A n \in Nodes(e) : job[e][n] = "none"

\* The Jobs of two executions have two names.
NamesUnique ==
    \A e, f \in Executions : e # f =>
        \A m \in Nodes(e) : job[e][m] # "none" =>
            \A n \in Nodes(f) : job[f][n] # "none" => JobOf(e, m) # JobOf(f, n)

\* A run function returns nil only when this very execution has created a
\* Job for every node of its DAG and all of them have succeeded.
FinishedMeansDone ==
    [][\A e \in Executions :
          phase[e] # "ok" /\ phase'[e] = "ok" => \A n \in Nodes(e) : job[e][n] = "succeeded"]_vars

\* Two executions of a run, a retry of an entry for instance, never have Jobs
\* on the cluster at the same time, though nothing but the names of the Jobs
\* keeps them apart and each Job is created on its own.
RunsAreExclusive ==
    \A e, f \in Executions :
        e # f /\ SameRun(e, f) =>
            \/ \A n \in Nodes(e) : job[e][n] = "none"
            \/ \A n \in Nodes(f) : job[f][n] = "none"

\* Nobody else works in the execution's directory, another attempt at the
\* same run excepted.
AloneInDirectory(e) ==
    \A f \in Executions :
        \/ f = e
        \/ phase[f] = "idle"
        \/ SameRun(e, f)
        \/ <<The(f).root, cmd[f].run>> # <<The(e).root, cmd[e].run>>

\* A successful execution's scripts have read what its own scripts wrote, to
\* the end: not a file an earlier attempt left on the volume, nor one that
\* was still being written.
ReportsAreOwn ==
    \A e \in Executions :
        phase[e] = "ok" /\ AloneInDirectory(e) => \A n \in Nodes(e) : from[e][n] \subseteq {e}

\* No script ever lacks a file or a directory it needs: the first node of
\* each pipeline makes every directory, and the edges bring the files.
InputsAreThere ==
    \A e \in Executions : \A n \in Nodes(e) : job[e][n] # "missing"

\* Another execution can hold the name of this one's node: another attempt at
\* the run, another command with that prefix on it, or a run one of whose
\* names, or this one, did not fit and was cut.
SharesName(e, f, n) ==
    /\ f # e
    /\ phase[f] # "idle"
    /\ The(f).prefix = The(e).prefix
    /\ \/ cmd[f].run = cmd[e].run
       \/ ~Fits(The(e).prefix, cmd[e].run, n)
       \/ \E m \in Nodes(f) : ~Fits(The(f).prefix, cmd[f].run, m)

\* A node that is broken is so for a reason the process could give.
BreakdownsExplained ==
    \A e \in Executions : Alive(e) =>
        \A n \in Nodes(e) :
            /\ node[e][n] = "failed" => BadEvent(job[e][n]) \/ deadline[e]
            /\ node[e][n] = "taken" => \E f \in Executions : SharesName(e, f, n)
            /\ node[e][n] = "skipped" => The(e).nodeTimeout

\* All that a step relies on.
PipelinesInv ==
    /\ PipelinesTypeOK
    /\ FailureStopsDependants
    /\ MemoryIsTrue
    /\ IdleHasNothing
    /\ FirstNodeFirst
    /\ NamesUnique
    /\ BreakdownsExplained

Cause(e) ==
    \/ deadline[e]
    \/ \E n \in Nodes(e) :
          \/ node[e][n] = "refused"
          \/ node[e][n] = "failed" /\ BadEvent(job[e][n])
          \/ node[e][n] = "taken" /\ \E f \in Executions : SharesName(e, f, n)
          \/ node[e][n] = "skipped" /\ cmd[e].program \notin CallerDeadlineOnly

\* A pipeline fails for a reason: the caller's deadline, an API error, a Job
\* that failed, a Job's name held by another execution, or dag-go's limit on
\* a node's wait, but never the last in the commands that rely "solely on the
\* caller's ctx deadline".  Its own nodes never get each other's names.
FailuresHaveACause == \A e \in Executions : phase[e] = "error" => Cause(e)

\* What those commands have to do for it.
LimitTurnedOff == \A p \in CallerDeadlineOnly : ~Plan[p].nodeTimeout

\* Every call of a run function returns or dies with its process, whatever
\* the cluster does or fails to do with the Jobs.
ExecutionsEnd == \A e \in Executions : phase[e] = "running" ~> phase[e] # "running"
=============================================================================
