-------------------------- MODULE RunStatesProofs --------------------------
(* Facts about the lifecycle order, used by the proofs about the stores.   *)
EXTENDS RunStates, TLAPS

\* What still lies ahead of a state is the state itself and what lies ahead of
\* its successors.  The lifecycle has no cycle, so this defines Downstream: it
\* is the reflexive transitive closure of the edges UpdateState accepts.
THEOREM DownstreamUnfolds ==
    ASSUME NEW s \in RunState
    PROVE  Downstream(s) =
               {s} \cup UNION {Downstream(t) : t \in {u \in RunState : ValidateTransition(s, u)}}
  <1> DEFINE next == {u \in RunState : ValidateTransition(s, u)}
  <1>1. CASE s \in TerminalStates
    <2>1. next = {}  BY <1>1 DEF RunState, TerminalStates, ValidateTransition, validTransitions
    <2>2. UNION {Downstream(t) : t \in next} = {}  BY <2>1
    <2>3. Downstream(s) = {s}  BY <1>1 DEF TerminalStates, Downstream, Absent
    <2> QED  BY <2>2, <2>3
  <1>2. CASE s = "running"
    <2>1. next = {"finished", "canceled"}
      BY <1>2 DEF RunState, ValidateTransition, validTransitions
    <2> QED  BY <1>2, <2>1 DEF Downstream, TerminalStates, Absent
  <1>3. CASE s = "admitted"
    <2>1. next = {"running", "canceled"}
      BY <1>3 DEF RunState, ValidateTransition, validTransitions
    <2> QED  BY <1>3, <2>1 DEF Downstream, TerminalStates, Absent
  <1>4. CASE s = "resumed"
    <2>1. next = {"admitted", "canceled"}
      BY <1>4 DEF RunState, ValidateTransition, validTransitions
    <2> QED  BY <1>4, <2>1 DEF Downstream, TerminalStates, Absent
  <1>5. CASE s = "held"
    <2>1. next = {"resumed", "canceled"}
      BY <1>5 DEF RunState, ValidateTransition, validTransitions
    <2> QED  BY <1>5, <2>1 DEF Downstream, TerminalStates, Absent
  <1>6. CASE s = "queued"
    <2>1. next = {"held", "admitted", "canceled"}
      BY <1>6 DEF RunState, ValidateTransition, validTransitions
    <2> QED  BY <1>6, <2>1 DEF Downstream, TerminalStates, Absent, RunState
  <1> QED  BY <1>1, <1>2, <1>3, <1>4, <1>5, <1>6 DEF RunState, TerminalStates

\* A legal transition moves forward.
LEMMA EdgeIsDownstream ==
    ASSUME NEW s, NEW t, ValidateTransition(s, t)
    PROVE  s \in RunState /\ t \in RunState /\ t \in Downstream(s)
  BY DEF ValidateTransition, validTransitions, Downstream, RunState, TerminalStates, Absent

\* Downstream is reflexive.
LEMMA DownstreamReflexive ==
    ASSUME NEW s \in Status
    PROVE  s \in Downstream(s)
  BY DEF Downstream, Status, RunState, TerminalStates, Absent

\* Downstream is transitive, and stays within the statuses.
LEMMA DownstreamTransitive ==
    ASSUME NEW s \in Status, NEW t \in Downstream(s), NEW u \in Downstream(t)
    PROVE  u \in Status /\ u \in Downstream(s)
  BY DEF Downstream, Status, RunState, TerminalStates, Absent

\* Nothing but an absent run can still be absent.
LEMMA DownstreamIsPresent ==
    ASSUME NEW s \in RunState
    PROVE  Absent \notin Downstream(s)
  BY DEF Downstream, RunState, TerminalStates, Absent
=============================================================================
