----------------------------- MODULE DagSession -----------------------------
(***************************************************************************)
(* One DAG run's session (pkg/session/dag_session.go) over a NodeSubmitter.*)
(* Start and NodeDone choose the ready nodes under the mutex and submit    *)
(* them outside of it, each in a goroutine; several calls may be under     *)
(* way, each submitting its own batch.                                     *)
(*                                                                         *)
(* A call is named after the node whose end it reports, or Start.  A call  *)
(* that returned an error may be made again.                               *)
(***************************************************************************)
EXTENDS FiniteSets

CONSTANTS
    Nodes, Start,
    Deps                 \* Deps[n]: the nodes n is added with

ASSUME SessionAssumption ==
    /\ Start \notin Nodes
    /\ Deps \in [Nodes -> SUBSET Nodes]

VARIABLES
    nodes,               \* the keys of the map s.nodes
    status,              \* status[n] of those
    request, jobs,       \* the NodeSubmitter
    call,                \* call[c]: "idle", "open", or how it returned
    erred                \* erred[c]: the nodes that c failed to submit

vars == <<nodes, status, request, jobs, call, erred>>

Calls == Nodes \cup {Start}

\* Goroutine <<c, n>> submits n for call c.
Goroutines == Calls \X Nodes

Submitter == INSTANCE NodeSubmitter
    WITH Requests <- Goroutines, NodeOf <- [g \in Goroutines |-> g[2]]

NodeStatus == {"held", "submitted", "succeeded", "failed"}

TypeOK ==
    /\ nodes \subseteq Nodes
    /\ status \in [Nodes -> NodeStatus]
    /\ request \in [Goroutines -> Submitter!RequestStates]
    /\ jobs \subseteq Nodes
    /\ call \in [Calls -> {"idle", "open", "ok", "error"}]
    /\ erred \in [Calls -> SUBSET Nodes]

\* NewDagSession.  A node that is not in the map counts as held.
Init ==
    /\ nodes = {}
    /\ status = [n \in Nodes |-> "held"]
    /\ Submitter!SubmitterInit
    /\ call = [c \in Calls |-> "idle"]
    /\ erred = [c \in Calls |-> {}]

-----------------------------------------------------------------------------
\* Mutant: a dependency that is done is enough.
AllDepsDone(n, st) == \A d \in Deps[n] : d \in nodes /\ st[d] \in {"succeeded", "failed"}

AllDepsSucceeded(n, st) == \A d \in Deps[n] : d \in nodes /\ st[d] = "succeeded"

CollectReady(st) == {n \in nodes : st[n] = "held" /\ AllDepsSucceeded(n, st)}

AddNode(n) ==
    /\ call[Start] = "idle"
    /\ n \notin nodes
    /\ nodes' = nodes \cup {n}
    /\ UNCHANGED <<status, request, jobs, call, erred>>

\* The goroutines of call c start; without any, c returns at once.
SubmitBatch(c, batch) ==
    /\ call' = [call EXCEPT ![c] = IF batch = {} THEN "ok" ELSE "open"]
    /\ erred' = [erred EXCEPT ![c] = {}]
    /\ Submitter!Begin({c} \X batch)

MayCall(c) == call[c] \in {"idle", "error"}

StartCall ==
    /\ MayCall(Start)
    /\ SubmitBatch(Start, CollectReady(status))
    /\ UNCHANGED <<nodes, status>>

\* A node's job has ended, and this is how; a repeated call says the same.
NodeDone(n, success) ==
    LET end == IF success THEN "succeeded" ELSE "failed"
        st == [status EXCEPT ![n] = end]
    IN  /\ MayCall(n)
        /\ n \in nodes \cap jobs
        /\ status[n] \in {"held", "submitted", end}
        /\ status' = st
        /\ SubmitBatch(n, IF success THEN CollectReady(st) ELSE {})
        /\ UNCHANGED nodes

\* An unknown node is an error, and nothing else.
NodeDoneUnknown(n) ==
    /\ MayCall(n)
    /\ n \notin nodes
    /\ call' = [call EXCEPT ![n] = "error"]
    /\ UNCHANGED <<nodes, status, request, jobs, erred>>

Submitting(g) ==
    /\ Submitter!Progress(g)
    /\ UNCHANGED <<nodes, status, call, erred>>

\* Mutant: the mark does not look at the node's status.
MarkAlways(c, n) ==
    /\ request[<<c, n>>] = "accepted"
    /\ status' = [status EXCEPT ![n] = "submitted"]
    /\ Submitter!Forget(<<c, n>>)
    /\ UNCHANGED <<nodes, call, erred>>

\* Submit returned nil: take the mutex, mark the node, unless it is past that.
MarkSubmitted(c, n) ==
    /\ request[<<c, n>>] = "accepted"
    /\ status' = IF status[n] = "held" THEN [status EXCEPT ![n] = "submitted"] ELSE status
    /\ Submitter!Forget(<<c, n>>)
    /\ UNCHANGED <<nodes, call, erred>>

\* Mutant: the goroutine does not store its error.
KeepNoError(c, n) ==
    /\ request[<<c, n>>] \in Submitter!Errors
    /\ Submitter!Forget(<<c, n>>)
    /\ UNCHANGED <<nodes, status, call, erred>>

\* Submit returned an error: firstErr is set, if it was not, and the node stays
\* as it is.
KeepError(c, n) ==
    /\ request[<<c, n>>] \in Submitter!Errors
    /\ erred' = [erred EXCEPT ![c] = @ \cup {n}]
    /\ Submitter!Forget(<<c, n>>)
    /\ UNCHANGED <<nodes, status, call>>

\* Mutant: nobody waits for the goroutines.
ReturnAtOnce(c) ==
    /\ call[c] = "open"
    /\ call' = [call EXCEPT ![c] = IF erred[c] = {} THEN "ok" ELSE "error"]
    /\ UNCHANGED <<nodes, status, request, jobs, erred>>

\* wg.Wait returns when the last of the call's goroutines has ended.
Return(c) ==
    /\ call[c] = "open"
    /\ \A n \in Nodes : request[<<c, n>>] = "none"
    /\ call' = [call EXCEPT ![c] = IF erred[c] = {} THEN "ok" ELSE "error"]
    /\ UNCHANGED <<nodes, status, request, jobs, erred>>

GoroutineStep(c, n) == Submitting(<<c, n>>) \/ MarkSubmitted(c, n) \/ KeepError(c, n)

Next ==
    \/ StartCall
    \/ \E n \in Nodes : AddNode(n) \/ NodeDoneUnknown(n)
    \/ \E n \in Nodes, success \in BOOLEAN : NodeDone(n, success)
    \/ \E c \in Calls, n \in Nodes : GoroutineStep(c, n)
    \/ \E c \in Calls : Return(c)

Spec == Init /\ [][Next]_vars

-----------------------------------------------------------------------------
(***************************************************************************)
(* A job is created, and asked for, only when every dependency of its node *)
(* has succeeded and stays so: no interleaving of calls lets a node out    *)
(* behind a dependency that failed.                                        *)
(***************************************************************************)
Asked == jobs \cup {n \in Nodes : \E c \in Calls : request[<<c, n>>] # "none"}

JobsFollowDeps ==
    \A n \in Asked :
        n \in nodes /\ \A d \in Deps[n] : d \in nodes /\ status[d] = "succeeded"

(***************************************************************************)
(* Nothing is dropped: once Start was called, a node that is ready, if it  *)
(* is not submitted, is in the batch of a call under way or of one that    *)
(* returned, or will return, an error.                                     *)
(***************************************************************************)
NothingDropped ==
    call[Start] # "idle" =>
        \A n \in CollectReady(status) : \E c \in Calls :
            \/ request[<<c, n>>] # "none"
            \/ n \in erred[c] /\ call[c] \in {"open", "error"}

(***************************************************************************)
(* The inductive form of both.  A node past held has a job, for it is      *)
(* marked on an answer only, by whichever goroutine; a call returns after  *)
(* the last of its goroutines, with an error if one of them had one; and   *)
(* a NodeDone that submits, or failed to, is of a node that succeeded.     *)
(***************************************************************************)
SubmittedHasJob == \A n \in Nodes : status[n] # "held" => n \in jobs

AnsweredHasJob ==
    \A c \in Calls, n \in Nodes :
        request[<<c, n>>] \in {"created", "accepted", "failed"} => n \in jobs

CallsWaitForBatch ==
    \A c \in Calls :
        /\ call[c] # "open" => \A n \in Nodes : request[<<c, n>>] = "none"
        /\ call[c] = "ok" => erred[c] = {}

BatchFollowsSuccess ==
    \A n \in Nodes : call[n] = "open" \/ erred[n] # {} => status[n] = "succeeded"

SessionInv ==
    /\ TypeOK
    /\ JobsFollowDeps
    /\ NothingDropped
    /\ SubmittedHasJob
    /\ AnsweredHasJob
    /\ CallsWaitForBatch
    /\ BatchFollowsSuccess

(***************************************************************************)
(* A node moves forward only, and a node that ended stays as it ended,     *)
(* also when its job ends before its Submit has returned.                  *)
(***************************************************************************)
StatusMovesForward ==
    [][\A n \in Nodes :
          \/ status'[n] = status[n]
          \/ status[n] = "held"
          \/ status[n] = "submitted" /\ status'[n] # "held"]_status

(***************************************************************************)
(* "A node in state nodeHeld has no call of NodeSubmitter.Submit, so its   *)
(* job is not created": the core invariant of ARCH_VALIDATION_REPORT.md,   *)
(* lines 134-136.                                                          *)
(***************************************************************************)
HeldHasNoJob == \A n \in nodes : status[n] = "held" => n \notin jobs
=============================================================================
