----------------------------- MODULE RunStates -----------------------------
(***************************************************************************)
(* The lifecycle of a DAG run (pkg/store/run_store.go): its states, the    *)
(* edges UpdateState accepts, and the order those edges generate.          *)
(***************************************************************************)

RunState ==
    {"queued", "held", "resumed", "admitted", "running", "finished", "canceled"}

\* What the store holds for a run ID it has no record of.
Absent == "absent"

Status == RunState \cup {Absent}

\* The map from a state to its successors, as a relation.
validTransitions ==
    { <<"queued",   "held">>,     <<"queued",   "admitted">>, <<"queued",   "canceled">>,
      <<"held",     "resumed">>,  <<"held",     "canceled">>,
      <<"resumed",  "admitted">>, <<"resumed",  "canceled">>,
      <<"admitted", "running">>,  <<"admitted", "canceled">>,
      <<"running",  "finished">>, <<"running",  "canceled">> }

ValidateTransition(from, to) == <<from, to>> \in validTransitions

TerminalStates == {"finished", "canceled"}

IsTerminal(s) == s \in TerminalStates

(***************************************************************************)
(* The order of the lifecycle: the states a run in state s can still be    *)
(* in, itself included.  It is written out, so that the proofs need no     *)
(* closure operator; MCRunGate compares it with the closure of             *)
(* validTransitions, which an absent run enters as queued.                 *)
(***************************************************************************)
Downstream(s) ==
    {s} \cup
    (IF s = Absent THEN RunState ELSE {}) \cup
    (IF s = "queued" THEN {"held", "resumed"} ELSE {}) \cup
    (IF s = "held" THEN {"resumed"} ELSE {}) \cup
    (IF s \in {"queued", "held", "resumed"} THEN {"admitted"} ELSE {}) \cup
    (IF s \in {"queued", "held", "resumed", "admitted"} THEN {"running"} ELSE {}) \cup
    (IF s \in RunState \ TerminalStates THEN TerminalStates ELSE {})
=============================================================================
