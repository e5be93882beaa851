---------------------------- MODULE RunGateProofs ----------------------------
(* The store's promise to its callers, then what Admit makes of it, for    *)
(* any number of runs and of admissions.                                   *)
EXTENDS RunGate, RunStatesProofs

LEMMA StoreInitInv == StoreInit => StoreInv
  BY DEF StoreInit, StoreInv, StoreTypeOK, AckedSurvives, AckedInMemory, NoRecords, Status

\* The write at the heart of each call: what it leaves in the map and in the file.
LEMMA WriteTyped ==
    ASSUME StoreTypeOK, NEW r \in Runs, NEW s \in Status, NEW res, Write(r, s, res)
    PROVE  /\ records' \in [Runs -> Status]
           /\ disk' \in [Runs -> Status]
           /\ records'[r] = s
           /\ \A q \in Runs \ {r} : records'[q] = records[q]
           /\ disk' = records' \/ disk' = disk
           /\ backend = "json" /\ res = "ok" => disk' = records'
  BY DEF StoreTypeOK, Write, persist

\* A write of a state that lies ahead of what was acknowledged for the run.
LEMMA WriteForward ==
    ASSUME StoreInv, up, UNCHANGED <<backend, up>>,
           NEW r \in Runs, NEW s \in RunState, NEW res, Write(r, s, res),
           acked[r] # Absent => s \in Downstream(acked[r]),
           acked' = IF res = "ok" THEN [acked EXCEPT ![r] = s] ELSE acked
    PROVE  StoreInv'
  <1> USE DEF StoreInv
  <1>1. s \in Status /\ s # Absent /\ s \in Downstream(s)
    BY DownstreamReflexive DEF Status, RunState, Absent
  <1>2. /\ records' \in [Runs -> Status]
        /\ disk' \in [Runs -> Status]
        /\ records'[r] = s
        /\ \A q \in Runs \ {r} : records'[q] = records[q]
        /\ disk' = records' \/ disk' = disk
        /\ backend = "json" /\ res = "ok" => disk' = records'
    BY <1>1, WriteTyped
  <1>3. StoreTypeOK'
    BY <1>1, <1>2 DEF StoreTypeOK
  <1>4. ASSUME backend = "json", NEW q \in Runs, acked'[q] # Absent
        PROVE  records'[q] # Absent /\ records'[q] \in Downstream(acked'[q])
    <2>1. CASE q = r  BY <1>1, <1>2, <1>4, <2>1 DEF StoreTypeOK
    <2>2. CASE q # r  BY <1>2, <1>4, <2>2 DEF StoreTypeOK, AckedInMemory
    <2> QED  BY <2>1, <2>2
  <1>5. ASSUME backend = "json", NEW q \in Runs, acked'[q] # Absent
        PROVE  disk'[q] # Absent /\ disk'[q] \in Downstream(acked'[q])
    <2>1. CASE disk' = records'  BY <1>4, <1>5, <2>1
    <2>2. CASE disk' # records'
      <3>1. disk' = disk /\ acked' = acked  BY <1>2, <1>5, <2>2
      <3> QED  BY <1>5, <3>1 DEF AckedSurvives
    <2> QED  BY <2>1, <2>2
  <1> QED  BY <1>3, <1>4, <1>5 DEF AckedSurvives, AckedInMemory

LEMMA EnqueueInv ==
    ASSUME StoreInv, NEW r \in Runs, NEW res, Enqueue(r, res)
    PROVE  StoreInv'
  <1>1. CASE UNCHANGED storeVars
    BY <1>1 DEF StoreInv, StoreTypeOK, AckedSurvives, AckedInMemory, storeVars
  <1>2. CASE records[r] = Absent /\ Write(r, "queued", res)
             /\ acked' = IF res = "ok" THEN [acked EXCEPT ![r] = "queued"] ELSE acked
    <2>1. up /\ UNCHANGED <<backend, up>>  BY DEF Enqueue
    <2>2. CASE backend = "json"
      <3>1. acked[r] = Absent
        BY <1>2, <2>1, <2>2 DEF StoreInv, AckedInMemory
      <3> QED  BY <1>2, <2>1, <3>1, WriteForward DEF RunState
    <2>3. CASE backend # "json"
      <3>1. StoreTypeOK'
        BY <1>2, <2>1, WriteTyped DEF StoreInv, StoreTypeOK, Status, RunState
      <3> QED  BY <2>1, <2>3, <3>1 DEF StoreInv, AckedSurvives, AckedInMemory
    <2> QED  BY <2>2, <2>3
  <1> QED  BY <1>1, <1>2 DEF Enqueue, Reject, storeVars

LEMMA UpdateStateInv ==
    ASSUME StoreInv, NEW r \in Runs, NEW from, NEW to, NEW res,
           UpdateState(r, from, to, res)
    PROVE  StoreInv'
  <1>1. CASE UNCHANGED storeVars
    BY <1>1 DEF StoreInv, StoreTypeOK, AckedSurvives, AckedInMemory, storeVars
  <1>2. CASE /\ records[r] = from /\ ValidateTransition(from, to)
             /\ Write(r, to, res)
             /\ acked' = IF res = "ok" THEN [acked EXCEPT ![r] = to] ELSE acked
    <2>1. up /\ UNCHANGED <<backend, up>>  BY DEF UpdateState
    <2>2. to \in RunState /\ to \in Downstream(records[r])
      BY <1>2, EdgeIsDownstream
    <2>3. CASE backend = "json"
      <3>1. acked[r] # Absent => to \in Downstream(acked[r])
        <4>1. acked[r] \in Status  BY DEF StoreInv, StoreTypeOK
        <4> QED  BY <2>1, <2>2, <2>3, <4>1, DownstreamTransitive DEF StoreInv, AckedInMemory
      <3> QED  BY <1>2, <2>1, <2>2, <3>1, WriteForward
    <2>4. CASE backend # "json"
      <3>1. StoreTypeOK'
        BY <1>2, <2>1, <2>2, WriteTyped DEF StoreInv, StoreTypeOK, Status
      <3> QED  BY <2>1, <2>4, <3>1 DEF StoreInv, AckedSurvives, AckedInMemory
    <2> QED  BY <2>3, <2>4
  <1> QED  BY <1>1, <1>2 DEF UpdateState, Reject, storeVars

LEMMA DeleteInv ==
    ASSUME StoreInv, NEW r \in Runs, NEW res, Delete(r, res)
    PROVE  StoreInv'
  <1>1. CASE UNCHANGED storeVars
    BY <1>1 DEF StoreInv, StoreTypeOK, AckedSurvives, AckedInMemory, storeVars
  <1>2. CASE Write(r, Absent, res) /\ acked' = [acked EXCEPT ![r] = Absent]
    <2>1. up /\ UNCHANGED <<backend, up>>  BY DEF Delete
    <2>2. /\ records' \in [Runs -> Status]
          /\ disk' \in [Runs -> Status]
          /\ \A q \in Runs \ {r} : records'[q] = records[q]
          /\ disk' = records' \/ disk' = disk
      BY <1>2, WriteTyped DEF StoreInv, Status
    <2>3. StoreTypeOK'
      BY <1>2, <2>1, <2>2 DEF StoreInv, StoreTypeOK, Status
    <2>4. \A q \in Runs : acked'[q] # Absent => q # r /\ acked'[q] = acked[q]
      BY <1>2 DEF StoreInv, StoreTypeOK
    <2> QED  BY <2>1, <2>2, <2>3, <2>4 DEF StoreInv, AckedSurvives, AckedInMemory
  <1> QED  BY <1>1, <1>2 DEF Delete, Reject, storeVars

LEMMA CrashOpenInv ==
    ASSUME StoreInv, Crash \/ Open
    PROVE  StoreInv'
  BY DEF StoreInv, StoreTypeOK, AckedSurvives, AckedInMemory, Crash, Open, NoRecords, Status

LEMMA StoreStepInv == StoreInv /\ [StoreNext]_storeVars => StoreInv'
  <1> SUFFICES ASSUME StoreInv, [StoreNext]_storeVars  PROVE StoreInv'
    OBVIOUS
  <1>1. CASE UNCHANGED storeVars
    BY <1>1 DEF StoreInv, StoreTypeOK, AckedSurvives, AckedInMemory, storeVars
  <1>2. CASE Crash \/ Open
    BY <1>2, CrashOpenInv
  <1>3. ASSUME NEW r \in Runs, Call(r)  PROVE StoreInv'
    BY <1>3, EnqueueInv, UpdateStateInv, DeleteInv DEF Call
  <1> QED  BY <1>1, <1>2, <1>3 DEF StoreNext

\* The store is well typed and keeps its promise, over any number of runs and
\* whatever the writes, failures, crashes and restarts.
THEOREM StoreInvariant == StoreSpec => []StoreInv
  <1> QED  BY StoreInitInv, StoreStepInv, PTL DEF StoreSpec

\* An acknowledged state is never lost.
THEOREM AcknowledgedStatesSurvive == StoreSpec => [](StoreTypeOK /\ AckedSurvives)
  <1>1. StoreInv => StoreTypeOK /\ AckedSurvives  BY DEF StoreInv
  <1> QED  BY <1>1, StoreInvariant, PTL

-----------------------------------------------------------------------------
\* What a call of the gate or of an operator does to the store: it leaves s in
\* r's record, a forward move or none, and the file old or equal to the map.
Moved(r, s) ==
    /\ up /\ UNCHANGED <<backend, up>>
    /\ StoreTypeOK'
    /\ records'[r] = s
    /\ s \in Downstream(records[r])
    /\ \A q \in Runs \ {r} : records'[q] = records[q]
    /\ disk' = disk \/ disk' = records'

LEMMA EnqueueMoves ==
    ASSUME StoreTypeOK, NEW r \in Runs, NEW res, Enqueue(r, res)
    PROVE  /\ Moved(r, IF records[r] = Absent THEN "queued" ELSE records[r])
           /\ res \in {"ok", "exists", "ioerr"}
           /\ UNCHANGED <<backend, up>>
  <1>1. "queued" \in Status /\ "queued" \in Downstream(Absent)
    BY DEF Status, RunState, Downstream
  <1>2. CASE records[r] # Absent /\ Reject(res, "exists")
    BY <1>2, DownstreamReflexive DEF Enqueue, Moved, Reject, StoreTypeOK
  <1>3. CASE records[r] = Absent /\ Write(r, "queued", res)
             /\ acked' = IF res = "ok" THEN [acked EXCEPT ![r] = "queued"] ELSE acked
    <2>1. StoreTypeOK'
      BY <1>1, <1>3, WriteTyped DEF Enqueue, StoreTypeOK
    <2>2. res \in {"ok", "ioerr"}
      BY <1>3 DEF Write, persist
    <2> QED  BY <1>1, <1>3, <2>1, <2>2, WriteTyped DEF Enqueue, Moved
  <1> QED  BY <1>2, <1>3 DEF Enqueue

LEMMA UpdateMoves ==
    ASSUME StoreTypeOK, NEW r \in Runs, NEW from, NEW to, NEW res,
           UpdateState(r, from, to, res)
    PROVE  Moved(r, IF records[r] = from /\ ValidateTransition(from, to)
                       THEN to ELSE records[r])
  <1>1. records[r] \in Status  BY DEF StoreTypeOK
  <1>2. CASE UNCHANGED <<records, disk, acked>>
             /\ ~(records[r] = from /\ ValidateTransition(from, to))
    BY <1>1, <1>2, DownstreamReflexive DEF UpdateState, Moved, StoreTypeOK
  <1>3. CASE /\ records[r] = from /\ ValidateTransition(from, to)
             /\ Write(r, to, res)
             /\ acked' = IF res = "ok" THEN [acked EXCEPT ![r] = to] ELSE acked
    <2>1. to \in Status /\ to \in Downstream(records[r])
      BY <1>3, EdgeIsDownstream DEF Status
    <2>2. StoreTypeOK'
      BY <1>3, <2>1, WriteTyped DEF UpdateState, StoreTypeOK
    <2> QED  BY <1>3, <2>1, <2>2, WriteTyped DEF UpdateState, Moved
  <1>4. Absent # from \/ ~ValidateTransition(from, to)
    BY EdgeIsDownstream DEF RunState, Absent
  <1> QED  BY <1>2, <1>3, <1>4 DEF UpdateState, Reject

\* A move keeps the file behind the map.
LEMMA MoveForward ==
    ASSUME GateInv, NEW r \in Runs, NEW s, Moved(r, s)
    PROVE  /\ MemoryLeadsDisk'
           /\ \A q \in Runs : records'[q] \in Downstream(records[q])
           /\ \A q \in Runs : disk'[q] \in Downstream(disk[q])
  <1>1. /\ StoreTypeOK /\ StoreTypeOK' /\ up /\ up'
        /\ \A q \in Runs : records[q] \in Downstream(disk[q])
        /\ disk' = disk \/ disk' = records'
    BY DEF GateInv, Moved, MemoryLeadsDisk
  <1>2. ASSUME NEW q \in Runs  PROVE records'[q] \in Downstream(records[q])
    BY <1>1, <1>2, DownstreamReflexive DEF Moved, StoreTypeOK
  <1>3. ASSUME NEW q \in Runs
        PROVE  /\ records'[q] \in Downstream(disk[q])
               /\ records'[q] \in Downstream(disk'[q])
               /\ disk'[q] \in Downstream(disk[q])
    BY <1>1, <1>2, <1>3, DownstreamReflexive, DownstreamTransitive DEF StoreTypeOK
  <1> QED  BY <1>1, <1>2, <1>3 DEF MemoryLeadsDisk

\* What an admission knows of its run, another's move of the same run or of
\* another does not take away.
LEMMA MoveKeepsPhase ==
    ASSUME GateInv, NEW r \in Runs, NEW s, Moved(r, s), UNCHANGED hasStore,
           NEW b \in Admissions,
           pc'[b] = pc[b], run'[b] = run[b], outcome'[b] = outcome[b],
           UNCHANGED <<succeeded, failed>>,
           s = "admitted" => records[r] \in {"queued", "admitted"},
           hasStore /\ pc[b] \in {"admit", "start", "run", "finish"} => records[run[b]] # Absent
    PROVE  Phase(b)'
  <1>1. records'[run[b]] \in Downstream(records[run[b]]) /\ records[run[b]] \in Status
    BY MoveForward DEF GateInv, GateTypeOK, StoreTypeOK
  <1>2. up' = up /\ up  BY DEF Moved
  <1>3. Phase(b) /\ pc[b] \in PCs  BY DEF GateInv, GateTypeOK
  <1>4. records[run[b]] \notin {Absent, "queued"} => records'[run[b]] # "queued"
    BY <1>1 DEF Downstream, Status, RunState, TerminalStates, Absent
  <1>5. records[run[b]] \notin {Absent, "queued", "admitted"} =>
            records'[run[b]] \notin {"queued", "admitted"}
    <2>1. records[run[b]] \notin {Absent, "queued"} => records'[run[b]] # "queued"
      BY <1>4
    <2>2. records[run[b]] \notin {"queued", "admitted"} => records'[run[b]] # "admitted"
      BY DEF Moved, GateInv, GateTypeOK
    <2> QED  BY <2>1, <2>2
  <1> QED  BY <1>2, <1>3, <1>4, <1>5 DEF Phase

\* A run at rest stays where it is, or goes to where an operator may put it.
LEMMA MoveKeepsRest ==
    ASSUME GateInv, NEW r \in Runs, NEW s, Moved(r, s), NEW q \in settled,
           s \in {records[r], "held", "resumed"} \cup TerminalStates
    PROVE  records'[q] \in {"held", "resumed"} \cup TerminalStates
  BY DEF GateInv, GateTypeOK, ExecutedRunsAtRest, Moved

\* A terminal record stays true if the state written is.
LEMMA MoveKeepsTruth ==
    ASSUME GateInv, NEW r \in Runs, NEW s, Moved(r, s),
           succeeded \subseteq succeeded', failed \subseteq failed', stopped \subseteq stopped',
           s = records[r] \/ (/\ s = "finished" => r \in succeeded'
                              /\ s = "canceled" => r \in failed' \cup stopped')
    PROVE  TerminalRecordsAreTrue'
  <1>1. ASSUME NEW q \in Runs
        PROVE  /\ records'[q] = "finished" => q \in succeeded'
               /\ records'[q] = "canceled" => q \in failed' \cup stopped'
               /\ disk[q] = "finished" => q \in succeeded'
               /\ disk[q] = "canceled" => q \in failed' \cup stopped'
    BY <1>1 DEF GateInv, TerminalRecordsAreTrue, Moved
  <1>2. disk' = disk \/ disk' = records'  BY DEF Moved
  <1> QED  BY <1>1, <1>2 DEF TerminalRecordsAreTrue

-----------------------------------------------------------------------------
LEMMA GateInitInv == Init => GateInv
  <1>1. Absent \in Status /\ Absent \notin RunState
    BY DEF Status, RunState, Absent
  <1>2. Init => StoreTypeOK /\ GateTypeOK
    BY <1>1 DEF Init, StoreInit, GateInit, StoreTypeOK, GateTypeOK, NoRecords, PCs
  <1>3. Init => RecordBeforeRun /\ ExecutedRunsAtRest /\ \A a \in Admissions : Phase(a)
    BY DEF Init, StoreInit, GateInit, RecordBeforeRun, ExecutedRunsAtRest, Phase
  <1>4. Init => TerminalRecordsAreTrue
    BY DEF Init, StoreInit, NoRecords, TerminalRecordsAreTrue, Absent
  <1>5. Init => MemoryLeadsDisk
    BY <1>1, DownstreamReflexive DEF Init, StoreInit, NoRecords, MemoryLeadsDisk
  <1> QED  BY <1>2, <1>3, <1>4, <1>5 DEF GateInv

LEMMA AdmitInv ==
    ASSUME GateInv, NEW a \in Admissions, NEW r \in Runs, Admit(a, r)
    PROVE  GateInv'
  <1>1. StoreTypeOK' /\ GateTypeOK'
    BY DEF Admit, Goto, GateInv, StoreTypeOK, GateTypeOK, PCs, storeVars, history
  <1>2. ExecutedRunsAtRest' /\ TerminalRecordsAreTrue' /\ MemoryLeadsDisk'
    BY DEF Admit, GateInv, ExecutedRunsAtRest, TerminalRecordsAreTrue, MemoryLeadsDisk,
           storeVars, history
  <1>3. RecordBeforeRun'
    BY DEF Admit, Goto, GateInv, GateTypeOK, RecordBeforeRun, storeVars
  <1>4. ASSUME NEW b \in Admissions  PROVE Phase(b)'
    BY <1>4 DEF Admit, Goto, GateInv, GateTypeOK, Phase, storeVars, history
  <1> QED  BY <1>1, <1>2, <1>3, <1>4 DEF GateInv

LEMMA EnqueueQueuedInv ==
    ASSUME GateInv, NEW a \in Admissions, EnqueueQueued(a)
    PROVE  GateInv'
  <1> DEFINE r == run[a]
             s == IF records[r] = Absent THEN "queued" ELSE records[r]
  <1>1. PICK res \in Results :
            /\ Enqueue(r, res)
            /\ \/ res \in {"ok", "exists"} /\ Goto(a, "admit") /\ UNCHANGED outcome
               \/ /\ res \notin {"ok", "exists"}
                  /\ Goto(a, "returned")
                  /\ outcome' = [outcome EXCEPT ![a] = "error"]
    BY DEF EnqueueQueued
  <1>2. r \in Runs /\ pc[a] = "enqueue" /\ StoreTypeOK /\ GateTypeOK
    BY DEF GateInv, GateTypeOK, EnqueueQueued
  <1>3. Moved(r, s)
    BY <1>1, <1>2, EnqueueMoves
  <1>4. UNCHANGED <<hasStore, run, succeeded, failed, stopped, settled>>
    BY DEF EnqueueQueued, history
  <1>5. hasStore /\ s \in RunState
    BY <1>2 DEF GateInv, Phase, StoreTypeOK, Status, RunState
  <1>6. StoreTypeOK' /\ GateTypeOK'
    BY <1>1, <1>2, <1>3, <1>4 DEF Moved, GateTypeOK, Goto, PCs
  <1>7. ASSUME NEW b \in Admissions
        PROVE  Phase(b)' /\ (pc'[b] \in {"admit", "start", "run", "finish"} =>
                                records'[run'[b]] # Absent)
    <2>1. CASE b = a
      BY <1>1, <1>2, <1>3, <1>4, <1>5, <2>1 DEF Goto, GateTypeOK, Phase, Moved, RunState, Absent
    <2>2. CASE b # a
      <3>1. pc'[b] = pc[b] /\ run'[b] = run[b] /\ outcome'[b] = outcome[b]
        BY <1>1, <1>2, <1>4, <2>2 DEF Goto, GateTypeOK
      <3>2. pc[b] \in {"admit", "start", "run", "finish"} => records[run[b]] # Absent
        BY <1>5 DEF GateInv, RecordBeforeRun
      <3>3. Phase(b)'
        BY <1>2, <1>3, <1>4, <3>1, <3>2, MoveKeepsPhase
      <3>4. pc[b] \in {"admit", "start", "run", "finish"} => records'[run[b]] # Absent
        BY <1>2, <1>3, <1>5, <3>2 DEF Moved, GateTypeOK, RunState, Absent
      <3> QED  BY <3>1, <3>3, <3>4
    <2> QED  BY <2>1, <2>2
  <1>8. ExecutedRunsAtRest'
    <2>1. \A q \in settled : records[q] \in {"held", "resumed"} \cup TerminalStates /\ q \in Runs
      BY DEF GateInv, GateTypeOK, ExecutedRunsAtRest
    <2>2. \A q \in settled : records'[q] = records[q]
      BY <1>3, <2>1 DEF Moved, Absent, TerminalStates
    <2> QED  BY <1>4, <2>1, <2>2 DEF ExecutedRunsAtRest
  <1>9. TerminalRecordsAreTrue'
    BY <1>2, <1>3, <1>4, MoveKeepsTruth
  <1>10. MemoryLeadsDisk'
    BY <1>2, <1>3, MoveForward
  <1> QED  BY <1>6, <1>7, <1>8, <1>9, <1>10 DEF GateInv, RecordBeforeRun

\* Steps 2, 3 and 5 of Admit share this: one UpdateState, whatever it returns.
LEMMA AdvanceInv ==
    ASSUME GateInv, NEW a \in Admissions, NEW here, NEW from, NEW to, NEW next,
           Advance(a, here, from, to, next),
           here \in {"admit", "start", "finish"},
           next \in {"start", "run", "returned"},
           next = "start" => here = "admit" /\ from = "queued" /\ to = "admitted",
           next = "run" => here = "start" /\ from = "admitted" /\ to = "running",
           next = "returned" => here = "finish" /\ from = "running" /\
               to = IF outcome[a] = "ok" THEN "finished" ELSE "canceled",
           UNCHANGED <<succeeded, failed, stopped>>,
           settled' = IF next = "returned" THEN settled \cup {run[a]} ELSE settled
    PROVE  GateInv'
  <1> DEFINE r == run[a]
             moves == records[r] = from /\ ValidateTransition(from, to)
             s == IF moves THEN to ELSE records[r]
  <1>1. /\ r \in Runs /\ pc[a] = here /\ StoreTypeOK /\ GateTypeOK
        /\ UNCHANGED <<hasStore, run, outcome>> /\ Goto(a, next)
    BY DEF GateInv, GateTypeOK, Advance
  <1>2. Moved(r, s)
    BY <1>1, UpdateMoves DEF Advance
  <1>3. hasStore /\ records[r] # Absent /\ Phase(a)
    BY <1>1 DEF GateInv, Phase, RecordBeforeRun
  <1>4. ValidateTransition(from, to) /\ records[r] \in RunState
    <2>1. records[r] \in RunState
      BY <1>1, <1>3 DEF StoreTypeOK, Status
    <2>2. ValidateTransition(from, to)
      <3>1. CASE next = "start"  BY <3>1 DEF ValidateTransition, validTransitions
      <3>2. CASE next = "run"  BY <3>2 DEF ValidateTransition, validTransitions
      <3>3. CASE next = "returned"  BY <3>3 DEF ValidateTransition, validTransitions
      <3> QED  BY <3>1, <3>2, <3>3
    <2> QED  BY <2>1, <2>2
  <1>5. s \in RunState /\ s # Absent /\ records'[r] = s
    BY <1>2, <1>4, EdgeIsDownstream DEF Moved, RunState, Absent
  <1>6. StoreTypeOK' /\ GateTypeOK'
    <2>1. settled' \in SUBSET Runs  BY <1>1 DEF GateTypeOK
    <2> QED  BY <1>1, <1>2, <2>1 DEF Moved, GateTypeOK, Goto, PCs
  <1>7. ASSUME NEW b \in Admissions
        PROVE  Phase(b)' /\ (pc'[b] \in {"admit", "start", "run", "finish"} =>
                                records'[run'[b]] # Absent)
    <2>1. CASE b = a
      <3>1. pc'[a] = next /\ run'[a] = r
        BY <1>1 DEF Goto, GateTypeOK
      <3>2. next = "start" => s # "queued"
        BY <1>4
      <3>3. next = "run" => s \notin {"queued", "admitted"}
        BY <1>1, <1>3, <1>4 DEF Phase
      <3>4. up'  BY <1>2 DEF Moved
      <3> QED  BY <1>1, <1>3, <1>5, <2>1, <3>1, <3>2, <3>3, <3>4 DEF Phase
    <2>2. CASE b # a
      <3>1. pc'[b] = pc[b] /\ run'[b] = run[b] /\ outcome'[b] = outcome[b]
        BY <1>1, <2>2 DEF Goto, GateTypeOK
      <3>2. pc[b] \in {"admit", "start", "run", "finish"} => records[run[b]] # Absent
        BY <1>3 DEF GateInv, RecordBeforeRun
      <3>3. Phase(b)'
        BY <1>1, <1>2, <3>1, <3>2, MoveKeepsPhase
      <3>4. pc[b] \in {"admit", "start", "run", "finish"} => records'[run[b]] # Absent
        BY <1>1, <1>2, <1>5, <3>2 DEF Moved, GateTypeOK
      <3> QED  BY <3>1, <3>3, <3>4
    <2> QED  BY <2>1, <2>2
  <1>8. ExecutedRunsAtRest'
    <2>1. ASSUME NEW q \in settled  PROVE records'[q] \in {"held", "resumed"} \cup TerminalStates
      <3>1. q \in Runs /\ records[q] \in {"held", "resumed"} \cup TerminalStates
        BY <2>1 DEF GateInv, GateTypeOK, ExecutedRunsAtRest
      <3>2. records'[q] = records[q]
        BY <1>2, <3>1 DEF Moved, TerminalStates
      <3> QED  BY <3>1, <3>2
    <2>2. next = "returned" => records'[r] \in {"held", "resumed"} \cup TerminalStates
      <3>1. CASE next = "returned" /\ records[r] = "running"
        BY <1>4, <1>5, <3>1 DEF TerminalStates
      <3>2. CASE next = "returned" /\ records[r] # "running"
        BY <1>1, <1>3, <1>4, <1>5, <3>2 DEF Phase, RunState, TerminalStates
      <3> QED  BY <3>1, <3>2
    <2> QED  BY <2>1, <2>2 DEF ExecutedRunsAtRest
  <1>9. TerminalRecordsAreTrue'
    <2>1. s = records[r] \/ (/\ s = "finished" => r \in succeeded'
                             /\ s = "canceled" => r \in failed' \cup stopped')
      BY <1>1, <1>3 DEF Phase
    <2> QED  BY <1>1, <1>2, <2>1, MoveKeepsTruth
  <1>10. MemoryLeadsDisk'
    BY <1>1, <1>2, MoveForward
  <1> QED  BY <1>6, <1>7, <1>8, <1>9, <1>10 DEF GateInv, RecordBeforeRun

LEMMA RunFnInv ==
    ASSUME GateInv, NEW a \in Admissions, NEW result \in {"ok", "error"}, RunFn(a, result)
    PROVE  GateInv'
  <1>1. StoreTypeOK' /\ GateTypeOK'
    BY DEF RunFn, Goto, GateInv, StoreTypeOK, GateTypeOK, PCs, storeVars
  <1>2. ExecutedRunsAtRest' /\ TerminalRecordsAreTrue' /\ MemoryLeadsDisk'
    BY DEF RunFn, GateInv, ExecutedRunsAtRest, TerminalRecordsAreTrue, MemoryLeadsDisk,
           storeVars
  <1>3. RecordBeforeRun'
    BY DEF RunFn, Goto, GateInv, GateTypeOK, RecordBeforeRun, storeVars
  <1>4. ASSUME NEW b \in Admissions  PROVE Phase(b)'
    BY <1>4 DEF RunFn, Goto, GateInv, GateTypeOK, Phase, storeVars
  <1> QED  BY <1>1, <1>2, <1>3, <1>4 DEF GateInv

LEMMA OperatorInv ==
    ASSUME GateInv, NEW r \in Supervised, Operator(r)
    PROVE  GateInv'
  <1> r \in Runs  BY SupervisedAssumption
  <1>1. PICK move \in OperatorMoves, res \in {"ok", "ioerr"} :
            /\ UpdateState(r, move[1], move[2], res)
            /\ stopped' = IF move[2] = "canceled" THEN stopped \cup {r} ELSE stopped
    BY DEF Operator
  <1>2. /\ UNCHANGED <<hasStore, pc, run, outcome, succeeded, failed, settled>>
        /\ StoreTypeOK /\ GateTypeOK
    BY DEF Operator, GateInv
  <1>3. PICK s : Moved(r, s) /\ s \in {records[r], move[2]}
    BY <1>1, <1>2, UpdateMoves
  <1>4. move[2] \in {"held", "resumed", "canceled"}
    BY DEF OperatorMoves
  <1>5. StoreTypeOK' /\ GateTypeOK'
    BY <1>1, <1>2, <1>3 DEF Moved, GateTypeOK
  <1>6. \A q \in Runs : records[q] # Absent => records'[q] # Absent
    BY <1>3, <1>4 DEF Moved, Absent
  <1>7. RecordBeforeRun'
    BY <1>2, <1>6 DEF GateInv, GateTypeOK, RecordBeforeRun
  <1>8. ASSUME NEW b \in Admissions  PROVE Phase(b)'
    BY <1>2, <1>3, <1>4, MoveKeepsPhase DEF GateInv, RecordBeforeRun
  <1>9. ExecutedRunsAtRest'
    BY <1>2, <1>3, <1>4, MoveKeepsRest DEF ExecutedRunsAtRest, TerminalStates
  <1>10. TerminalRecordsAreTrue'
    BY <1>1, <1>2, <1>3, <1>4, MoveKeepsTruth
  <1>11. MemoryLeadsDisk'
    BY <1>3, MoveForward
  <1> QED  BY <1>5, <1>7, <1>8, <1>9, <1>10, <1>11 DEF GateInv

LEMMA CrashInv ==
    ASSUME GateInv, CrashAll
    PROVE  GateInv'
  <1>1. StoreTypeOK' /\ GateTypeOK'
    BY DEF CrashAll, Crash, GateInv, StoreTypeOK, GateTypeOK, PCs, NoRecords, Status
  <1>2. TerminalRecordsAreTrue'
    BY DEF CrashAll, Crash, GateInv, TerminalRecordsAreTrue, NoRecords, Absent
  <1> QED
    BY <1>1, <1>2 DEF CrashAll, Crash, GateInv, RecordBeforeRun, ExecutedRunsAtRest,
                      Phase, MemoryLeadsDisk

LEMMA RestartInv ==
    ASSUME GateInv, Restart
    PROVE  GateInv'
  <1>1. StoreTypeOK' /\ GateTypeOK'
    BY DEF Restart, Open, gateVars, GateInv, StoreTypeOK, GateTypeOK
  <1>2. \A a \in Admissions : pc[a] = "idle" /\ pc'[a] = "idle"
    BY DEF Restart, Open, gateVars, GateInv, Phase
  <1>3. settled = {} /\ settled' = {}
    BY DEF Restart, Open, gateVars, GateInv, MemoryLeadsDisk
  <1>4. TerminalRecordsAreTrue'
    BY DEF Restart, Open, gateVars, GateInv, TerminalRecordsAreTrue
  <1>5. MemoryLeadsDisk'
    BY <1>1, DownstreamReflexive DEF Restart, Open, MemoryLeadsDisk, StoreTypeOK
  <1> QED
    BY <1>1, <1>2, <1>3, <1>4, <1>5 DEF GateInv, RecordBeforeRun, ExecutedRunsAtRest, Phase

LEMMA GateStepInv == GateInv /\ [Next]_vars => GateInv'
  <1> SUFFICES ASSUME GateInv, [Next]_vars  PROVE GateInv'
    OBVIOUS
  <1>1. CASE UNCHANGED vars
    BY <1>1 DEF vars, storeVars, gateVars, GateInv, StoreTypeOK, GateTypeOK, RecordBeforeRun,
               ExecutedRunsAtRest, TerminalRecordsAreTrue, Phase, MemoryLeadsDisk
  <1>2. ASSUME NEW a \in Admissions, AdmitStep(a)  PROVE GateInv'
    <2>1. CASE EnqueueQueued(a)  BY <2>1, EnqueueQueuedInv
    <2>2. CASE MarkAdmitted(a)
      BY <2>2, AdvanceInv DEF MarkAdmitted, history
    <2>3. CASE MarkRunning(a)
      BY <2>3, AdvanceInv DEF MarkRunning, history
    <2>4. ASSUME NEW result \in {"ok", "error"}, RunFn(a, result)  PROVE GateInv'
      BY <2>4, RunFnInv
    <2>5. CASE MarkTerminal(a)
      BY <2>5, AdvanceInv DEF MarkTerminal
    <2> QED  BY <1>2, <2>1, <2>2, <2>3, <2>4, <2>5 DEF AdmitStep
  <1>3. ASSUME NEW a \in Admissions, NEW r \in Runs, Admit(a, r)  PROVE GateInv'
    BY <1>3, AdmitInv
  <1>4. ASSUME NEW r \in Supervised, Operator(r)  PROVE GateInv'
    BY <1>4, OperatorInv
  <1> QED  BY <1>1, <1>2, <1>3, <1>4, CrashInv, RestartInv DEF Next

\* The inductive invariant, and with it the three safety invariants that run
\* "gate" checks on one run and three admissions.
THEOREM GateInvariant == Spec => []GateInv
  <1> QED  BY GateInitInv, GateStepInv, PTL DEF Spec

\* runFn is never invoked for a run the store has no record of.
THEOREM RecordAlwaysBeforeRun == Spec => []RecordBeforeRun
  <1>1. GateInv => RecordBeforeRun  BY DEF GateInv
  <1> QED  BY <1>1, GateInvariant, PTL

\* No executed run is left waiting in a state some admission should move it from.
THEOREM ExecutedRunsAlwaysAtRest == Spec => []ExecutedRunsAtRest
  <1>1. GateInv => ExecutedRunsAtRest  BY DEF GateInv
  <1> QED  BY <1>1, GateInvariant, PTL

\* A terminal record tells what really happened to its run.
THEOREM TerminalRecordsAlwaysTrue == Spec => []TerminalRecordsAreTrue
  <1>1. GateInv => TerminalRecordsAreTrue  BY DEF GateInv
  <1> QED  BY <1>1, GateInvariant, PTL

-----------------------------------------------------------------------------
\* The gate uses the store as the store is specified, without ever deleting.
LEMMA GateStepIsStoreStep == GateInv /\ [Next]_vars => [StoreNext]_storeVars
  <1> SUFFICES ASSUME GateInv, [Next]_vars  PROVE StoreNext \/ UNCHANGED storeVars
    OBVIOUS
  <1>1. CASE UNCHANGED vars  BY <1>1 DEF vars
  <1>2. ASSUME NEW a \in Admissions, AdmitStep(a)  PROVE StoreNext \/ UNCHANGED storeVars
    <2>1. run[a] \in Runs  BY DEF GateInv, GateTypeOK
    <2>2. CASE EnqueueQueued(a)
      BY <2>1, <2>2 DEF EnqueueQueued, Call, StoreNext
    <2>3. CASE MarkAdmitted(a)
      BY <2>1, <2>3 DEF MarkAdmitted, Advance, Call, StoreNext, RunState
    <2>4. CASE MarkRunning(a)
      BY <2>1, <2>4 DEF MarkRunning, Advance, Call, StoreNext, RunState
    <2>5. ASSUME NEW result \in {"ok", "error"}, RunFn(a, result)  PROVE UNCHANGED storeVars
      BY <2>5 DEF RunFn
    <2>6. CASE MarkTerminal(a)
      BY <2>1, <2>6 DEF MarkTerminal, Advance, Call, StoreNext, RunState
    <2> QED  BY <1>2, <2>2, <2>3, <2>4, <2>5, <2>6 DEF AdmitStep
  <1>3. ASSUME NEW a \in Admissions, NEW r \in Runs, Admit(a, r)  PROVE UNCHANGED storeVars
    BY <1>3 DEF Admit
  <1>4. ASSUME NEW r \in Supervised, Operator(r)  PROVE StoreNext
    <2>1. PICK move \in OperatorMoves, res \in {"ok", "ioerr"} :
              UpdateState(r, move[1], move[2], res)
      BY <1>4 DEF Operator
    <2>2. move[1] \in RunState /\ move[2] \in RunState /\ res \in Results
      BY DEF OperatorMoves, RunState, Results
    <2> QED  BY <2>1, <2>2, SupervisedAssumption DEF Call, StoreNext
  <1>5. CASE CrashAll  BY <1>5 DEF CrashAll, StoreNext
  <1>6. CASE Restart  BY <1>6 DEF Restart, StoreNext
  <1> QED  BY <1>1, <1>2, <1>3, <1>4, <1>5, <1>6 DEF Next

\* Seen from the store, the gate, its operators and its crashes are callers as
\* any other: the gate implements RunStore, with the gate's variables hidden.
THEOREM GateImplementsStore == Spec => StoreSpec
  <1>1. Init => StoreInit  BY DEF Init
  <1> QED  BY <1>1, GateInvariant, GateStepIsStoreStep, PTL DEF Spec, StoreSpec

\* So what the store promises its callers, it promises the gate.
THEOREM GateKeepsAcknowledgedStates == Spec => []AckedSurvives
  <1>1. Init => StoreInit  BY DEF Init
  <1>2. StoreInv => AckedSurvives  BY DEF StoreInv
  <1> QED
    BY <1>1, <1>2, StoreInitInv, StoreStepInv, GateInvariant, GateStepIsStoreStep, PTL DEF Spec

-----------------------------------------------------------------------------
LEMMA FileMovesForward ==
    ASSUME GateInv, [Next]_vars, NEW q \in Runs
    PROVE  disk'[q] \in Downstream(disk[q])
  <1>1. CASE UNCHANGED disk
    BY <1>1, DownstreamReflexive DEF GateInv, StoreTypeOK
  <1>2. ASSUME NEW r \in Runs, NEW s, Moved(r, s)  PROVE disk'[q] \in Downstream(disk[q])
    BY <1>2, MoveForward
  <1>3. ASSUME NEW a \in Admissions, AdmitStep(a)  PROVE disk'[q] \in Downstream(disk[q])
    <2>1. run[a] \in Runs /\ StoreTypeOK  BY DEF GateInv, GateTypeOK
    <2>2. CASE EnqueueQueued(a)
      BY <1>2, <2>1, <2>2, EnqueueMoves DEF EnqueueQueued
    <2>3. CASE MarkAdmitted(a) \/ MarkRunning(a) \/ MarkTerminal(a)
      BY <1>2, <2>1, <2>3, UpdateMoves DEF MarkAdmitted, MarkRunning, MarkTerminal, Advance
    <2>4. ASSUME NEW result \in {"ok", "error"}, RunFn(a, result)  PROVE UNCHANGED disk
      BY <2>4 DEF RunFn, storeVars
    <2> QED  BY <1>1, <1>3, <2>2, <2>3, <2>4 DEF AdmitStep
  <1>4. ASSUME NEW a \in Admissions, NEW r \in Runs, Admit(a, r)  PROVE UNCHANGED disk
    BY <1>4 DEF Admit, storeVars
  <1>5. ASSUME NEW r \in Supervised, Operator(r)  PROVE disk'[q] \in Downstream(disk[q])
    BY <1>2, <1>5, UpdateMoves, SupervisedAssumption DEF Operator, GateInv
  <1>6. CASE CrashAll \/ Restart
    BY <1>1, <1>6 DEF CrashAll, Crash, Restart, Open
  <1>7. CASE UNCHANGED vars
    BY <1>1, <1>7 DEF vars, storeVars
  <1> QED  BY <1>1, <1>3, <1>4, <1>5, <1>6, <1>7 DEF Next

LEMMA SameLifecycle ==
    /\ Durable!Status = Status
    /\ Durable!Absent = Absent
    /\ \A s : Durable!Downstream(s) = Downstream(s)
  BY DEF Durable!Status, Status, Durable!RunState, RunState, Durable!Absent, Absent,
         Durable!Downstream, Downstream, Durable!TerminalStates, TerminalStates

\* The file implements the abstract lifecycle: no crash, failed write, restart
\* or concurrent re-admission ever takes a durable record back.
THEOREM FileImplementsRunLifecycle == Spec => DurableLifecycle
  <1>1. Init => Durable!Init
    BY SameLifecycle DEF Init, StoreInit, NoRecords, Durable!Init
  <1>2. GateInv /\ GateInv' /\ [Next]_vars => [Durable!Advance]_disk
    <2> SUFFICES ASSUME GateInv, GateInv', [Next]_vars  PROVE Durable!Advance
      OBVIOUS
    <2>1. disk' \in [Runs -> Status]  BY DEF GateInv, StoreTypeOK
    <2> QED  BY <2>1, FileMovesForward, SameLifecycle DEF Durable!Advance
  <1> QED
    BY <1>1, <1>2, GateInvariant, PTL DEF Spec, DurableLifecycle, Durable!Spec
=============================================================================
