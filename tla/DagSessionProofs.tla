-------------------------- MODULE DagSessionProofs --------------------------
(***************************************************************************)
(* The invariants of DagSession, for any graph of any set of nodes.        *)
(***************************************************************************)
EXTENDS DagSession, TLAPS

USE DEF Calls, Goroutines, NodeStatus

-----------------------------------------------------------------------------
(* Every dependency is a node. *)
LEMMA DepsAreNodes == ASSUME NEW n \in Nodes PROVE Deps[n] \subseteq Nodes
  BY SessionAssumption

(* Whoever chooses a batch finds its call without goroutines, and starts    *)
(* those of the batch and no others.                                        *)
LEMMA BatchStarted ==
    ASSUME TypeOK, CallsWaitForBatch,
           NEW c \in Calls, NEW batch \in SUBSET Nodes,
           MayCall(c), SubmitBatch(c, batch)
    PROVE  /\ jobs' = jobs
           /\ request' \in [Goroutines -> Submitter!RequestStates]
           /\ call' \in [Calls -> {"idle", "open", "ok", "error"}]
           /\ erred' \in [Calls -> SUBSET Nodes]
           /\ \A n \in Nodes : request'[<<c, n>>] = IF n \in batch THEN "begun" ELSE "none"
           /\ \A d \in Calls \ {c}, n \in Nodes : request'[<<d, n>>] = request[<<d, n>>]
           /\ call'[c] = IF batch = {} THEN "ok" ELSE "open"
           /\ erred'[c] = {}
           /\ \A d \in Calls \ {c} : call'[d] = call[d] /\ erred'[d] = erred[d]
  <1>1. \A n \in Nodes : request[<<c, n>>] = "none"
    BY DEF CallsWaitForBatch, MayCall
  <1>2. request' = [r \in Goroutines |-> IF r \in {c} \X batch THEN "begun" ELSE request[r]]
    BY DEF SubmitBatch, Submitter!Begin
  <1>3. request' \in [Goroutines -> Submitter!RequestStates]
    BY <1>2 DEF TypeOK, Submitter!RequestStates, Submitter!Pending
  <1>4. \A d \in Calls, n \in Nodes :
            request'[<<d, n>>] = IF d = c /\ n \in batch THEN "begun" ELSE request[<<d, n>>]
    BY <1>2
  <1>5. jobs' = jobs
    BY DEF SubmitBatch, Submitter!Begin
  <1>6. /\ call' = [call EXCEPT ![c] = IF batch = {} THEN "ok" ELSE "open"]
        /\ erred' = [erred EXCEPT ![c] = {}]
    BY DEF SubmitBatch
  <1> QED BY <1>1, <1>3, <1>4, <1>5, <1>6 DEF TypeOK

(* A goroutine's step is of its own request, whose job it may create.       *)
LEMMA OneRequest ==
    ASSUME TypeOK, NEW c \in Calls, NEW n \in Nodes,
           Submitter!Progress(<<c, n>>) \/ Submitter!Forget(<<c, n>>)
    PROVE  /\ request' \in [Goroutines -> Submitter!RequestStates]
           /\ \A g \in Goroutines \ {<<c, n>>} : request'[g] = request[g]
           /\ request[<<c, n>>] # "none"
           /\ jobs \subseteq jobs' /\ jobs' \subseteq jobs \cup {n}
           /\ request'[<<c, n>>] = "created" => n \in jobs'
  BY DEF TypeOK, Submitter!Progress, Submitter!Forget, Submitter!Create, Submitter!Accept,
         Submitter!Refuse, Submitter!FailCreated, Submitter!Advance, Submitter!RequestStates,
         Submitter!Pending, Submitter!Errors

-----------------------------------------------------------------------------
LEMMA InitStep == ASSUME Init PROVE SessionInv
  <1>1. TypeOK
    BY DEF Init, TypeOK, Submitter!SubmitterInit, Submitter!RequestStates
  <1>2. \A c \in Calls :
            call[c] = "idle" /\ erred[c] = {} /\ \A n \in Nodes : request[<<c, n>>] = "none"
    BY DEF Init, Submitter!SubmitterInit
  <1>3. jobs = {} /\ \A n \in Nodes : status[n] = "held"
    BY DEF Init, Submitter!SubmitterInit
  <1> QED
    BY <1>1, <1>2, <1>3 DEF SessionInv, JobsFollowDeps, Asked, NothingDropped, SubmittedHasJob,
       AnsweredHasJob, CallsWaitForBatch, BatchFollowsSuccess

(* A node is added before Start, so none is asked for or forgotten.         *)
LEMMA AddNodeStep ==
    ASSUME SessionInv, NEW n \in Nodes, AddNode(n) PROVE SessionInv'
  <1> USE DEF SessionInv, AddNode
  <1>1. TypeOK' BY DEF TypeOK
  <1>2. JobsFollowDeps' BY DEF JobsFollowDeps, Asked
  <1>3. NothingDropped' BY DEF NothingDropped
  <1>4. SubmittedHasJob' /\ AnsweredHasJob' /\ CallsWaitForBatch' /\ BatchFollowsSuccess'
    BY DEF SubmittedHasJob, AnsweredHasJob, CallsWaitForBatch, BatchFollowsSuccess
  <1> QED BY <1>1, <1>2, <1>3, <1>4

(* An unknown node changes no more than how its call returned.              *)
LEMMA UnknownStep ==
    ASSUME SessionInv, NEW n \in Nodes, NodeDoneUnknown(n) PROVE SessionInv'
  <1> USE DEF SessionInv, NodeDoneUnknown
  <1>1. TypeOK' BY DEF TypeOK
  <1>2. n # Start /\ \A c \in Calls \ {n} : call'[c] = call[c]
    BY SessionAssumption DEF TypeOK
  <1>3. call'[n] = "error"
    BY DEF TypeOK
  <1>4. JobsFollowDeps' BY DEF JobsFollowDeps, Asked
  <1>5. NothingDropped'
    BY <1>2, <1>3 DEF NothingDropped, CollectReady, AllDepsSucceeded
  <1>6. CallsWaitForBatch'
    BY <1>2, <1>3 DEF CallsWaitForBatch, MayCall
  <1>7. SubmittedHasJob' /\ AnsweredHasJob' /\ BatchFollowsSuccess'
    BY DEF SubmittedHasJob, AnsweredHasJob, BatchFollowsSuccess
  <1> QED BY <1>1, <1>4, <1>5, <1>6, <1>7

(* What is true of a call and the batch of nodes it chose, ready for the    *)
(* statuses it leaves: nothing that was asked for loses a dependency, and   *)
(* no node is ready that was not before or is not in the batch.             *)
LEMMA BatchStep ==
    ASSUME SessionInv, NEW c \in Calls, NEW batch \in SUBSET Nodes,
           MayCall(c), SubmitBatch(c, batch), nodes' = nodes,
           status' \in [Nodes -> NodeStatus],
           \A n \in Nodes : status[n] = "succeeded" => status'[n] = "succeeded",
           \A n \in Nodes : status'[n] # "held" => n \in jobs,
           batch \subseteq CollectReady(status'),
           CollectReady(status') \subseteq batch \/ (c # Start /\ CollectReady(status') \subseteq CollectReady(status) /\ erred[c] = {}),
           c # Start /\ batch # {} => status'[c] = "succeeded"
    PROVE  SessionInv'
  <1>0. /\ jobs' = jobs
        /\ \A n \in Nodes : request'[<<c, n>>] = IF n \in batch THEN "begun" ELSE "none"
        /\ \A d \in Calls \ {c}, n \in Nodes : request'[<<d, n>>] = request[<<d, n>>]
        /\ call'[c] = IF batch = {} THEN "ok" ELSE "open"
        /\ erred'[c] = {}
        /\ \A d \in Calls \ {c} : call'[d] = call[d] /\ erred'[d] = erred[d]
    BY BatchStarted DEF SessionInv
  <1>1. TypeOK' BY BatchStarted DEF SessionInv, TypeOK
  <1>2. JobsFollowDeps'
    <2> SUFFICES ASSUME NEW n \in Asked' PROVE n \in nodes /\ AllDepsSucceeded(n, status)'
      BY DEF JobsFollowDeps, AllDepsSucceeded
    <2>1. n \in Asked \/ n \in batch
      <3>1. CASE n \in jobs'
        BY <1>0, <3>1 DEF Asked
      <3>2. ASSUME NEW d \in Calls, n \in Nodes, request'[<<d, n>>] # "none"
            PROVE  n \in Asked \/ n \in batch
        <4>1. CASE d = c
          BY <1>0, <3>2, <4>1
        <4>2. CASE d # c
          <5>1. request[<<d, n>>] # "none"
            BY <1>0, <3>2, <4>2
          <5> QED BY <3>2, <5>1 DEF Asked
        <4> QED BY <4>1, <4>2
      <3> QED BY <3>1, <3>2 DEF Asked
    <2>2. CASE n \in batch
      BY <2>2 DEF CollectReady, AllDepsSucceeded
    <2>3. CASE n \in Asked
      BY <2>3, DepsAreNodes DEF SessionInv, JobsFollowDeps, AllDepsSucceeded, TypeOK
    <2> QED BY <2>1, <2>2, <2>3
  <1>3. NothingDropped'
    <2> SUFFICES ASSUME call'[Start] # "idle", NEW n \in CollectReady(status)'
                 PROVE  \E d \in Calls : \/ request'[<<d, n>>] # "none"
                                         \/ n \in erred'[d] /\ call'[d] \in {"open", "error"}
      BY DEF NothingDropped
    <2>0. n \in Nodes /\ n \in CollectReady(status')
      BY DEF CollectReady, AllDepsSucceeded, SessionInv, TypeOK
    <2>1. CASE n \in batch
      BY <2>0, <2>1, <1>0 DEF SessionInv
    <2>2. CASE n \notin batch
      <3>1. c # Start /\ n \in CollectReady(status) /\ erred[c] = {}
        BY <2>0, <2>2
      <3>2. call[Start] # "idle"
        BY <3>1, <1>0 DEF SessionInv
      <3>3. PICK d \in Calls : \/ request[<<d, n>>] # "none"
                               \/ n \in erred[d] /\ call[d] \in {"open", "error"}
        BY <3>1, <3>2 DEF SessionInv, NothingDropped
      <3>4. d # c
        BY <2>0, <3>1, <3>3 DEF SessionInv, CallsWaitForBatch, MayCall
      <3> QED BY <2>0, <3>3, <3>4, <1>0 DEF SessionInv
    <2> QED BY <2>1, <2>2
  <1>4. SubmittedHasJob' BY <1>0 DEF SessionInv, SubmittedHasJob
  <1>5. AnsweredHasJob' BY <1>0 DEF SessionInv, AnsweredHasJob
  <1>6. CallsWaitForBatch' BY <1>0 DEF SessionInv, CallsWaitForBatch
  <1>7. BatchFollowsSuccess' BY <1>0, SessionAssumption DEF SessionInv, BatchFollowsSuccess
  <1> QED BY <1>1, <1>2, <1>3, <1>4, <1>5, <1>6, <1>7 DEF SessionInv

LEMMA StartStep == ASSUME SessionInv, StartCall PROVE SessionInv'
  <1>1. CollectReady(status) \subseteq Nodes
    BY DEF CollectReady, SessionInv, TypeOK
  <1>2. /\ MayCall(Start)
        /\ SubmitBatch(Start, CollectReady(status))
        /\ nodes' = nodes /\ status' = status
    BY DEF StartCall
  <1>3. status \in [Nodes -> NodeStatus] /\ (\A n \in Nodes : status[n] # "held" => n \in jobs)
    BY DEF SessionInv, TypeOK, SubmittedHasJob
  <1>4. CollectReady(status') = CollectReady(status)
    BY <1>2
  <1> QED BY <1>1, <1>2, <1>3, <1>4, BatchStep

LEMMA NodeDoneStep ==
    ASSUME SessionInv, NEW n \in Nodes, NEW success \in BOOLEAN, NodeDone(n, success)
    PROVE  SessionInv'
  <1> DEFINE batch == IF success THEN CollectReady(status') ELSE {}
             end == IF success THEN "succeeded" ELSE "failed"
  <1>1. /\ MayCall(n) /\ n \in jobs /\ n \in nodes
        /\ status[n] \in {"held", "submitted", end}
        /\ status' = [status EXCEPT ![n] = end]
        /\ SubmitBatch(n, batch)
        /\ nodes' = nodes
    BY DEF NodeDone
  <1>2. batch \in SUBSET Nodes
    BY DEF CollectReady, SessionInv, TypeOK
  <1>3. /\ status' \in [Nodes -> NodeStatus]
        /\ status'[n] = end
        /\ \A m \in Nodes \ {n} : status'[m] = status[m]
    BY <1>1 DEF SessionInv, TypeOK
  <1>4. \A m \in Nodes : status'[m] # "held" => m \in jobs
    BY <1>1, <1>3 DEF SessionInv, SubmittedHasJob
  <1>5. \A m \in Nodes : status[m] = "succeeded" => status'[m] = "succeeded"
    BY <1>1, <1>3
  <1>6. n # Start
    BY SessionAssumption
  <1>7. CASE success
    <2>1. batch = CollectReady(status') /\ status'[n] = "succeeded"
      BY <1>3, <1>7
    <2> QED BY <1>1, <1>2, <1>3, <1>4, <1>5, <1>6, <2>1, BatchStep
  <1>8. CASE ~success
    <2>1. batch = {} /\ status'[n] = "failed"
      BY <1>3, <1>8
    <2>2. CollectReady(status') \subseteq CollectReady(status)
      <3> SUFFICES ASSUME NEW m \in CollectReady(status') PROVE m \in CollectReady(status)
        OBVIOUS
      <3>1. m \in Nodes /\ m # n /\ status[m] = "held" /\ m \in nodes
        BY <1>3, <2>1 DEF CollectReady, SessionInv, TypeOK
      <3>2. \A d \in Deps[m] : d \in nodes /\ status'[d] = "succeeded"
        BY DEF CollectReady, AllDepsSucceeded
      <3>3. \A d \in Deps[m] : d \in nodes /\ status[d] = "succeeded"
        BY <3>1, <3>2, <1>3, <2>1, DepsAreNodes
      <3> QED BY <3>1, <3>3 DEF CollectReady, AllDepsSucceeded
    <2>3. erred[n] = {}
      BY <1>1, <1>8 DEF SessionInv, BatchFollowsSuccess
    <2> QED BY <1>1, <1>2, <1>3, <1>4, <1>5, <1>6, <2>1, <2>2, <2>3, BatchStep
  <1> QED BY <1>7, <1>8

(* A goroutine with Submit: its own request moves, and is not over yet.     *)
LEMMA SubmittingStep ==
    ASSUME SessionInv, NEW c \in Calls, NEW n \in Nodes, Submitting(<<c, n>>)
    PROVE  SessionInv'
  <1>1. /\ request' \in [Goroutines -> Submitter!RequestStates]
        /\ \A d \in Calls, m \in Nodes : <<d, m>> # <<c, n>> => request'[<<d, m>>] = request[<<d, m>>]
        /\ request[<<c, n>>] # "none"
        /\ jobs \subseteq jobs' /\ jobs' \subseteq jobs \cup {n}
        /\ request'[<<c, n>>] = "created" => n \in jobs'
    BY OneRequest DEF Submitting, SessionInv
  <1>2. /\ nodes' = nodes /\ status' = status /\ call' = call /\ erred' = erred
        /\ request'[<<c, n>>] # "none"
        /\ request'[<<c, n>>] \in {"accepted", "failed"} => request[<<c, n>>] = "created"
    BY DEF Submitting, SessionInv, TypeOK, Submitter!Progress, Submitter!Create, Submitter!Accept,
           Submitter!Refuse, Submitter!FailCreated, Submitter!Advance
  <1>3. TypeOK' BY <1>1, <1>2 DEF SessionInv, TypeOK
  <1>4. JobsFollowDeps'
    <2>1. Asked' \subseteq Asked BY <1>1 DEF Asked
    <2> QED BY <1>2, <2>1 DEF SessionInv, JobsFollowDeps
  <1>5. NothingDropped'
    <2>1. CollectReady(status)' = CollectReady(status)
      BY <1>2 DEF CollectReady, AllDepsSucceeded
    <2>2. \A d \in Calls, m \in Nodes : request[<<d, m>>] # "none" => request'[<<d, m>>] # "none"
      BY <1>1, <1>2
    <2>3. CollectReady(status) \subseteq Nodes
      BY DEF CollectReady, SessionInv, TypeOK
    <2> QED BY <1>2, <2>1, <2>2, <2>3 DEF SessionInv, NothingDropped
  <1>6. AnsweredHasJob'
    <2>1. n \in jobs' \/ request'[<<c, n>>] \notin {"created", "accepted", "failed"}
      BY <1>1, <1>2 DEF SessionInv, AnsweredHasJob
    <2> QED BY <1>1, <2>1 DEF SessionInv, AnsweredHasJob
  <1>7. CallsWaitForBatch' BY <1>1, <1>2 DEF SessionInv, CallsWaitForBatch
  <1>8. SubmittedHasJob' /\ BatchFollowsSuccess'
    BY <1>1, <1>2 DEF SessionInv, SubmittedHasJob, BatchFollowsSuccess
  <1> QED BY <1>3, <1>4, <1>5, <1>6, <1>7, <1>8 DEF SessionInv

(* A goroutine that ends: its request is over, it marked its node or left   *)
(* its error, and nobody else noticed.                                      *)
LEMMA GoroutineEnds ==
    ASSUME SessionInv, NEW c \in Calls, NEW n \in Nodes,
           MarkSubmitted(c, n) \/ KeepError(c, n)
    PROVE  SessionInv'
  <1>1. /\ request' \in [Goroutines -> Submitter!RequestStates]
        /\ \A d \in Calls, m \in Nodes : <<d, m>> # <<c, n>> => request'[<<d, m>>] = request[<<d, m>>]
        /\ request[<<c, n>>] # "none" /\ request'[<<c, n>>] = "none"
        /\ jobs' = jobs /\ nodes' = nodes /\ call' = call
    <2>1. /\ Submitter!Forget(<<c, n>>) /\ nodes' = nodes /\ call' = call
          /\ TypeOK /\ <<c, n>> \in Goroutines
      BY DEF MarkSubmitted, KeepError, SessionInv, Goroutines
    <2>2. /\ request' = [request EXCEPT ![<<c, n>>] = "none"] /\ jobs' = jobs
          /\ request \in [Goroutines -> Submitter!RequestStates]
      BY <2>1 DEF Submitter!Forget, TypeOK
    <2>3. /\ request' \in [Goroutines -> Submitter!RequestStates]
          /\ request[<<c, n>>] # "none"
      BY <2>1, OneRequest
    <2>4. \A g \in Goroutines \ {<<c, n>>} : request'[g] = request[g]
      BY <2>1, OneRequest
    <2>5. request'[<<c, n>>] = "none"
      BY <2>1, <2>2
    <2>6. \A d \in Calls, m \in Nodes : <<d, m>> \in Goroutines
      BY DEF Goroutines
    <2> QED BY <2>1, <2>2, <2>3, <2>4, <2>5, <2>6
  <1>2. call[c] = "open"
    BY <1>1 DEF SessionInv, CallsWaitForBatch
  <1>3. JobsFollowDeps /\ TypeOK /\ NothingDropped /\ SubmittedHasJob /\ AnsweredHasJob
        /\ CallsWaitForBatch /\ BatchFollowsSuccess
    BY DEF SessionInv
  <1>4. Asked' \subseteq Asked
    BY <1>1 DEF Asked
  <1>5. AnsweredHasJob'
    BY <1>1, <1>3 DEF AnsweredHasJob
  <1>6. CASE MarkSubmitted(c, n)
    <2>1. /\ erred' = erred
          /\ status' = IF status[n] = "held" THEN [status EXCEPT ![n] = "submitted"] ELSE status
          /\ n \in jobs
      BY <1>3, <1>6 DEF MarkSubmitted, AnsweredHasJob
    <2>2. /\ status' \in [Nodes -> NodeStatus]
          /\ status'[n] # "held"
          /\ \A m \in Nodes : status[m] \in {"succeeded", "failed"} => status'[m] = status[m]
          /\ \A m \in Nodes : status'[m] = "succeeded" => status[m] = "succeeded"
          /\ \A m \in Nodes \ {n} : status'[m] = status[m]
      BY <1>3, <2>1 DEF TypeOK
    <2>3. TypeOK' BY <1>1, <1>3, <2>1, <2>2 DEF TypeOK
    <2>4. JobsFollowDeps'
      <3> SUFFICES ASSUME NEW m \in Asked' PROVE m \in nodes' /\ AllDepsSucceeded(m, status)'
        BY DEF JobsFollowDeps, AllDepsSucceeded
      <3>1. m \in nodes /\ AllDepsSucceeded(m, status)
        BY <1>3, <1>4 DEF JobsFollowDeps, AllDepsSucceeded
      <3>2. Deps[m] \subseteq Nodes
        BY <1>3, <3>1, DepsAreNodes DEF TypeOK
      <3> QED BY <1>1, <2>2, <3>1, <3>2 DEF AllDepsSucceeded
    <2>5. NothingDropped'
      <3> SUFFICES ASSUME call'[Start] # "idle", NEW m \in CollectReady(status)'
                   PROVE  \E d \in Calls : \/ request'[<<d, m>>] # "none"
                                           \/ m \in erred'[d] /\ call'[d] \in {"open", "error"}
        BY DEF NothingDropped
      <3>1. m \in nodes /\ m \in Nodes /\ m # n /\ status[m] = "held"
        BY <1>1, <1>3, <2>2 DEF CollectReady, TypeOK
      <3>2. AllDepsSucceeded(m, status)
        BY <1>1, <2>2, <3>1, DepsAreNodes DEF CollectReady, AllDepsSucceeded
      <3>3. m \in CollectReady(status)
        BY <3>1, <3>2 DEF CollectReady
      <3>4. PICK d \in Calls : \/ request[<<d, m>>] # "none"
                               \/ m \in erred[d] /\ call[d] \in {"open", "error"}
        BY <1>1, <1>3, <3>3 DEF NothingDropped
      <3> QED BY <1>1, <2>1, <3>1, <3>4
    <2>6. SubmittedHasJob' BY <1>1, <1>3, <2>1, <2>2 DEF SubmittedHasJob
    <2>7. CallsWaitForBatch' BY <1>1, <1>2, <1>3, <2>1 DEF CallsWaitForBatch
    <2>8. BatchFollowsSuccess' BY <1>1, <1>3, <2>1, <2>2 DEF BatchFollowsSuccess
    <2> QED BY <1>5, <2>3, <2>4, <2>5, <2>6, <2>7, <2>8 DEF SessionInv
  <1>7. CASE KeepError(c, n)
    <2>1. /\ status' = status
          /\ erred' = [erred EXCEPT ![c] = @ \cup {n}]
      BY <1>7 DEF KeepError
    <2>2. /\ erred' \in [Calls -> SUBSET Nodes]
          /\ n \in erred'[c]
          /\ \A d \in Calls : erred[d] \subseteq erred'[d]
          /\ \A d \in Calls \ {c} : erred'[d] = erred[d]
      BY <1>3, <2>1 DEF TypeOK
    <2>3. TypeOK' BY <1>1, <1>3, <2>1, <2>2 DEF TypeOK
    <2>4. JobsFollowDeps' BY <1>1, <1>3, <1>4, <2>1 DEF JobsFollowDeps
    <2>5. NothingDropped'
      <3>1. CollectReady(status)' = CollectReady(status) /\ CollectReady(status) \subseteq Nodes
        BY <1>1, <1>3, <2>1 DEF CollectReady, AllDepsSucceeded, TypeOK
      <3> SUFFICES ASSUME call'[Start] # "idle", NEW m \in CollectReady(status)
                   PROVE  \E d \in Calls : \/ request'[<<d, m>>] # "none"
                                           \/ m \in erred'[d] /\ call'[d] \in {"open", "error"}
        BY <3>1 DEF NothingDropped
      <3>2. PICK d \in Calls : \/ request[<<d, m>>] # "none"
                               \/ m \in erred[d] /\ call[d] \in {"open", "error"}
        BY <1>1, <1>3 DEF NothingDropped
      <3>3. CASE <<d, m>> = <<c, n>>
        BY <1>1, <1>2, <2>2, <3>3
      <3>4. CASE <<d, m>> # <<c, n>>
        BY <1>1, <2>2, <3>1, <3>2, <3>4
      <3> QED BY <3>3, <3>4
    <2>6. SubmittedHasJob' BY <1>1, <1>3, <2>1 DEF SubmittedHasJob
    <2>7. CallsWaitForBatch'
      <3>1. ASSUME NEW d \in Calls, NEW m \in Nodes, call[d] # "open"
            PROVE  request'[<<d, m>>] = "none"
        <4>1. d # c
          BY <1>2, <3>1
        <4>2. request[<<d, m>>] = "none"
          BY <1>3, <3>1 DEF CallsWaitForBatch
        <4> QED BY <1>1, <4>1, <4>2
      <3>2. ASSUME NEW d \in Calls, call[d] = "ok" PROVE erred'[d] = {}
        BY <1>1, <1>3, <2>2, <3>2 DEF CallsWaitForBatch
      <3>3. call' = call
        BY <1>1
      <3> QED BY <3>1, <3>2, <3>3 DEF CallsWaitForBatch
    <2>8. BatchFollowsSuccess'
      BY <1>1, <1>2, <1>3, <2>1, <2>2 DEF BatchFollowsSuccess
    <2> QED BY <1>5, <2>3, <2>4, <2>5, <2>6, <2>7, <2>8 DEF SessionInv
  <1> QED BY <1>6, <1>7

LEMMA ReturnStep == ASSUME SessionInv, NEW c \in Calls, Return(c) PROVE SessionInv'
  <1>1. /\ \A d \in Calls \ {c} : call'[d] = call[d]
        /\ call[c] = "open" /\ \A n \in Nodes : request[<<c, n>>] = "none"
        /\ call'[c] = IF erred[c] = {} THEN "ok" ELSE "error"
        /\ UNCHANGED <<nodes, status, request, jobs, erred>>
    BY DEF Return, SessionInv, TypeOK
  <1>2. TypeOK' BY DEF Return, SessionInv, TypeOK
  <1>3. JobsFollowDeps' /\ SubmittedHasJob' /\ AnsweredHasJob'
    BY <1>1 DEF SessionInv, JobsFollowDeps, Asked, SubmittedHasJob, AnsweredHasJob
  <1>4. NothingDropped'
    BY <1>1 DEF SessionInv, NothingDropped, CollectReady, AllDepsSucceeded
  <1>5. CallsWaitForBatch' /\ BatchFollowsSuccess'
    BY <1>1 DEF SessionInv, CallsWaitForBatch, BatchFollowsSuccess
  <1> QED BY <1>2, <1>3, <1>4, <1>5 DEF SessionInv

LEMMA StutterStep == ASSUME SessionInv, UNCHANGED vars PROVE SessionInv'
  <1>1. UNCHANGED <<nodes, status, request, jobs, call, erred>>
    BY DEF vars
  <1>2. TypeOK' /\ SubmittedHasJob' /\ AnsweredHasJob' /\ CallsWaitForBatch' /\ BatchFollowsSuccess'
    BY <1>1 DEF SessionInv, TypeOK, SubmittedHasJob, AnsweredHasJob, CallsWaitForBatch,
                BatchFollowsSuccess
  <1>3. JobsFollowDeps'
    <2>1. Asked' = Asked
      BY <1>1 DEF Asked
    <2> QED BY <1>1, <2>1 DEF SessionInv, JobsFollowDeps
  <1>4. NothingDropped'
    <2>1. CollectReady(status)' = CollectReady(status)
      BY <1>1 DEF CollectReady, AllDepsSucceeded
    <2> QED BY <1>1, <2>1 DEF SessionInv, NothingDropped
  <1> QED BY <1>2, <1>3, <1>4 DEF SessionInv

-----------------------------------------------------------------------------
(***************************************************************************)
(* The session's invariant, under any interleaving of its calls, their     *)
(* goroutines and the submitter, for any dependencies, cyclic ones or ones *)
(* on nodes that were never added included.                                *)
(***************************************************************************)
THEOREM SessionInvariant == Spec => []SessionInv
  <1>1. Init => SessionInv
    BY InitStep
  <1>2. SessionInv /\ [Next]_vars => SessionInv'
    <2> SUFFICES ASSUME SessionInv, [Next]_vars PROVE SessionInv'
      OBVIOUS
    <2>1. CASE StartCall BY <2>1, StartStep
    <2>2. CASE \E n \in Nodes : AddNode(n) BY <2>2, AddNodeStep
    <2>3. CASE \E n \in Nodes : NodeDoneUnknown(n) BY <2>3, UnknownStep
    <2>4. CASE \E n \in Nodes, success \in BOOLEAN : NodeDone(n, success) BY <2>4, NodeDoneStep
    <2>5. CASE \E c \in Calls, n \in Nodes : Submitting(<<c, n>>) BY <2>5, SubmittingStep
    <2>6. CASE \E c \in Calls, n \in Nodes : MarkSubmitted(c, n) \/ KeepError(c, n)
      BY <2>6, GoroutineEnds
    <2>7. CASE \E c \in Calls : Return(c) BY <2>7, ReturnStep
    <2>8. CASE UNCHANGED vars BY <2>8, StutterStep
    <2> QED BY <2>1, <2>2, <2>3, <2>4, <2>5, <2>6, <2>7, <2>8 DEF Next, GoroutineStep
  <1> QED BY <1>1, <1>2, PTL DEF Spec

(***************************************************************************)
(* No job, and no call for one, before the node's dependencies succeeded.  *)
(***************************************************************************)
THEOREM JobsAlwaysFollowDeps == Spec => []JobsFollowDeps
  <1>1. SessionInv => JobsFollowDeps BY DEF SessionInv
  <1> QED BY <1>1, SessionInvariant, PTL

(***************************************************************************)
(* A ready node is submitted, under way, or reported in an error.          *)
(***************************************************************************)
THEOREM NothingEverDropped == Spec => []NothingDropped
  <1>1. SessionInv => NothingDropped BY DEF SessionInv
  <1> QED BY <1>1, SessionInvariant, PTL

(***************************************************************************)
(* Nodes never move back, whichever goroutine marks them how late.         *)
(***************************************************************************)
THEOREM StatusAlwaysForward == Spec => StatusMovesForward
  <1> DEFINE Forward ==
        \A n \in Nodes :
           \/ status'[n] = status[n]
           \/ status[n] = "held"
           \/ status[n] = "submitted" /\ status'[n] # "held"
  <1>1. SessionInv /\ [Next]_vars => [Forward]_status
    <2> SUFFICES ASSUME TypeOK, Next, status' # status PROVE Forward
      BY DEF SessionInv, vars
    <2>1. CASE \E n \in Nodes, success \in BOOLEAN : NodeDone(n, success)
      BY <2>1 DEF NodeDone, TypeOK
    <2>2. CASE \E c \in Calls, n \in Nodes : MarkSubmitted(c, n)
      BY <2>2 DEF MarkSubmitted, TypeOK
    <2> QED
      BY <2>1, <2>2 DEF Next, GoroutineStep, StartCall, AddNode, NodeDoneUnknown, Submitting,
         KeepError, Return
  <1> QED BY <1>1, SessionInvariant, PTL DEF Spec, StatusMovesForward

-----------------------------------------------------------------------------
(***************************************************************************)
(* Not only a node's own dependencies: everything upstream of it, the      *)
(* least set that holds its dependencies and those of its members.         *)
(***************************************************************************)
Ancestors(n) ==
    {m \in Nodes : \A S \in SUBSET Nodes :
        Deps[n] \subseteq S /\ (\A k \in S : Deps[k] \subseteq S) => m \in S}

(***************************************************************************)
(* A node is submitted only when everything upstream of it has succeeded,  *)
(* so one that failed, or was never added, keeps back all that is behind   *)
(* it, at any distance and over any interleaving of calls.                 *)
(***************************************************************************)
JobsFollowAncestors ==
    \A n \in Asked : \A m \in Ancestors(n) : m \in nodes /\ status[m] = "succeeded"

(***************************************************************************)
(* The nodes that succeeded have jobs, so their dependencies succeeded as  *)
(* well: they are one of the sets Ancestors intersects.                    *)
(***************************************************************************)
THEOREM JobsAlwaysFollowAncestors == Spec => []JobsFollowAncestors
  <1>1. ASSUME SessionInv PROVE JobsFollowAncestors
    <2> DEFINE Good == {m \in nodes : status[m] = "succeeded"}
    <2>1. Good \in SUBSET Nodes
      BY <1>1 DEF SessionInv, TypeOK
    <2>2. ASSUME NEW n \in Asked PROVE Deps[n] \subseteq Good
      <3>1. n \in Nodes
        BY <1>1 DEF Asked, SessionInv, TypeOK
      <3>2. \A d \in Deps[n] : d \in nodes /\ status[d] = "succeeded"
        BY <1>1 DEF SessionInv, JobsFollowDeps
      <3> QED BY <3>2
    <2>3. ASSUME NEW k \in Good PROVE Deps[k] \subseteq Good
      <3>1. k \in Nodes /\ status[k] # "held"
        BY <2>1
      <3>2. k \in Asked
        BY <1>1, <3>1 DEF SessionInv, SubmittedHasJob, Asked
      <3> QED BY <2>2, <3>2
    <2>4. ASSUME NEW n \in Asked, NEW m \in Ancestors(n) PROVE m \in Good
      <3>1. Deps[n] \subseteq Good /\ \A k \in Good : Deps[k] \subseteq Good
        BY <2>2, <2>3
      <3> QED BY <2>1, <3>1 DEF Ancestors
    <2> QED BY <2>4 DEF JobsFollowAncestors
  <1> QED BY <1>1, SessionInvariant, PTL
=============================================================================
