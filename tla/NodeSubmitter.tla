--------------------------- MODULE NodeSubmitter ---------------------------
(***************************************************************************)
(* The boundary toward Kueue and Kubernetes (dag_session.go:40-47), as its *)
(* callers see it.  A request is one call of Submit.  The job of its node  *)
(* is created, or exists already, or is not; and then the call returns, in *)
(* error also when the job was created and only the answer was lost.       *)
(*                                                                         *)
(* DagSession calls it, NodeAttemptQueue calls it and implements it.       *)
(***************************************************************************)

CONSTANTS
    Requests,            \* the calls of Submit
    NodeOf               \* NodeOf[r]: the node that r submits

VARIABLES
    request,             \* request[r]: how far r is
    jobs                 \* the nodes that have a job

Pending == {"begun", "created"}

Errors == {"refused", "failed"}

RequestStates == {"none", "accepted"} \cup Pending \cup Errors

SubmitterInit ==
    /\ request = [r \in Requests |-> "none"]
    /\ jobs = {}

-----------------------------------------------------------------------------
\* Submit is called, for each request of R in a goroutine of its own.
Begin(R) ==
    /\ \A r \in R : request[r] = "none"
    /\ request' = [r \in Requests |-> IF r \in R THEN "begun" ELSE request[r]]
    /\ UNCHANGED jobs

Advance(r, from, to) ==
    request[r] = from /\ request' = [request EXCEPT ![r] = to]

\* The job is created; one that exists already stays as it is.
Create(r) ==
    /\ Advance(r, "begun", "created")
    /\ jobs' = jobs \cup {NodeOf[r]}

Accept(r) == Advance(r, "created", "accepted") /\ UNCHANGED jobs

\* An error, or the end of the context: with nothing created, or in spite of it.
Refuse(r) == Advance(r, "begun", "refused") /\ UNCHANGED jobs

FailCreated(r) == Advance(r, "created", "failed") /\ UNCHANGED jobs

\* The caller has taken note of how its call returned.
Forget(r) ==
    /\ request[r] \in {"accepted"} \cup Errors
    /\ request' = [request EXCEPT ![r] = "none"]
    /\ UNCHANGED jobs

Progress(r) == Create(r) \/ Accept(r) \/ Refuse(r) \/ FailCreated(r)

SubmitterNext ==
    \/ \E r \in Requests : Begin({r})
    \/ \E r \in Requests : Progress(r) \/ Forget(r)

SubmitterSpec == SubmitterInit /\ [][SubmitterNext]_<<request, jobs>>
=============================================================================
