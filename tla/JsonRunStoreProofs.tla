------------------------- MODULE JsonRunStoreProofs -------------------------
(* The file is whole at every crash point, and JsonRunStore, system call   *)
(* by system call, implements the atomic calls of RunStore.                *)
EXTENDS JsonRunStore, RunStatesProofs

LEMMA InitInv == Init => Inv
  BY DEF Init, Inv, TypeOK, FileAlwaysWhole, CallInProgress,
         NoRecords, Empty, Content, Steps, Status

LEMMA BeginInv ==
    ASSUME Inv, Begin
    PROVE  Inv'
  <1>1. PICK r \in Runs, s \in Status : Change(r, s) /\ LegalChange(records[r], s)
    <2>1. "queued" \in Status /\ Absent \in Status  BY DEF Status, RunState
    <2>2. \A from, to \in RunState : to \in Status  BY DEF Status
    <2> QED  BY <2>1, <2>2 DEF Begin, Enqueue, UpdateState, Delete, LegalChange
  <1>2. records'[r] = s /\ seen' = records /\ step' = "create" /\ run' = r
    BY <1>1 DEF Inv, TypeOK, Change, CallInProgress
  <1>3. TypeOK'
    BY <1>1 DEF Inv, TypeOK, Change, Steps
  <1>4. records' = [seen' EXCEPT ![run'] = records'[run']]
    BY <1>1, <1>2 DEF Change
  <1>5. CallInProgress'
    BY <1>1, <1>2, <1>4 DEF CallInProgress, Change
  <1> QED
    BY <1>1, <1>2, <1>3, <1>5 DEF Inv, FileAlwaysWhole, Change

LEMMA PersistInv ==
    ASSUME Inv, Persist
    PROVE  Inv'
  <1> USE DEF Inv, TypeOK, FileAlwaysWhole, CallInProgress,
              Content, Steps, Empty, NoRecords, Status
  <1>1. CASE CreateTemp  BY <1>1 DEF CreateTemp
  <1>2. ASSUME NEW whole \in BOOLEAN, WriteTemp(whole)  PROVE Inv'
    BY <1>2 DEF WriteTemp
  <1>3. CASE CloseTemp  BY <1>3 DEF CloseTemp
  <1>4. CASE Rename  BY <1>4 DEF Rename, Return
  <1>5. CASE PersistFails  BY <1>5 DEF PersistFails, Return
  <1> QED  BY <1>1, <1>2, <1>3, <1>4, <1>5 DEF Persist

LEMMA CrashOpenInv ==
    ASSUME Inv, Crash \/ Open
    PROVE  Inv'
  <1> USE DEF Inv, TypeOK, FileAlwaysWhole, CallInProgress
  <1>1. CASE Crash
    BY <1>1 DEF Crash, Content, Steps, Empty, NoRecords, Status
  <1>2. CASE Open
    <2>1. step = "unlocked" /\ step' = "unlocked"  BY <1>2 DEF Open
    <2>2. file.data \in [Runs -> Status]  BY DEF Content
    <2> QED  BY <1>2, <2>1, <2>2 DEF Open
  <1> QED  BY <1>1, <1>2

LEMMA StepInv == Inv /\ [Next]_vars => Inv'
  <1> SUFFICES ASSUME Inv, [Next]_vars  PROVE Inv'
    OBVIOUS
  <1>1. CASE UNCHANGED vars
    BY <1>1 DEF vars, Inv, TypeOK, FileAlwaysWhole, CallInProgress
  <1> QED  BY <1>1, BeginInv, PersistInv, CrashOpenInv DEF Next

\* "A crash during write never leaves a partial/corrupt file".
THEOREM FileNeverPartial == Spec => [](TypeOK /\ FileAlwaysWhole)
  <1>1. Inv => TypeOK /\ FileAlwaysWhole  BY DEF Inv
  <1> QED  BY <1>1, InitInv, StepInv, PTL DEF Spec

\* The map, the two files and the call in progress keep their types.
THEOREM StoreTyped == Spec => []TypeOK
  <1>1. Inv => TypeOK  BY DEF Inv
  <1> QED  BY <1>1, InitInv, StepInv, PTL DEF Spec

\* While persist writes, the map is what the last call left and that one call's
\* legal change, nobody gets between the two, and what rename is about to put in
\* place of the file is that whole map.
THEOREM CallAlwaysInProgress == Spec => []CallInProgress
  <1>1. Inv => CallInProgress  BY DEF Inv
  <1> QED  BY <1>1, InitInv, StepInv, PTL DEF Spec

-----------------------------------------------------------------------------
\* Both modules read the lifecycle from RunStates.
LEMMA SameLifecycle ==
    /\ Store!Absent = Absent
    /\ Store!RunState = RunState
    /\ Store!NoRecords = NoRecords
    /\ \A s, t : Store!ValidateTransition(s, t) <=> ValidateTransition(s, t)
  BY DEF Store!Absent, Absent, Store!RunState, RunState, Store!NoRecords, NoRecords,
         Store!ValidateTransition, ValidateTransition,
         Store!validTransitions, validTransitions

\* The end of a call is that call of RunStore: its change of the map becomes
\* visible, and the file holds the whole map unless persist failed.
LEMMA ReturnIsACall ==
    ASSUME Inv, NEW nil \in BOOLEAN, step # "unlocked", Return(nil),
           file'.data = IF nil THEN records ELSE file.data
    PROVE  Store!Call(run)
  <1> DEFINE res == IF nil THEN "ok" ELSE "ioerr"
  <1>1. /\ up /\ up' = up /\ seen' = records
        /\ records = [seen EXCEPT ![run] = records[run]]
        /\ LegalChange(seen[run], records[run])
        /\ run \in Runs /\ seen \in [Runs -> Status] /\ acked \in [Runs -> Status]
    BY DEF Inv, TypeOK, CallInProgress, Return
  <1>2. res \in Store!Results  BY DEF Store!Results
  <1>3. Store!Write(run, records[run], res)
    BY <1>1 DEF Store!Write, Store!persist
  <1>4. CASE seen[run] = Absent /\ records[run] = "queued"
    <2>1. Store!Enqueue(run, res)
      BY <1>1, <1>3, <1>4, SameLifecycle DEF Store!Enqueue, Return, Absent
    <2> QED  BY <1>2, <2>1 DEF Store!Call
  <1>5. CASE ValidateTransition(seen[run], records[run])
    <2>1. seen[run] \in RunState /\ records[run] \in RunState
      BY <1>5, EdgeIsDownstream
    <2>2. Store!UpdateState(run, seen[run], records[run], res)
      BY <1>1, <1>3, <1>5, <2>1, SameLifecycle
      DEF Store!UpdateState, Return, RunState, Absent
    <2> QED  BY <1>2, <2>1, <2>2, SameLifecycle DEF Store!Call
  <1>6. CASE seen[run] # Absent /\ records[run] = Absent
    <2>1. Store!Delete(run, res)
      BY <1>1, <1>3, <1>6, SameLifecycle DEF Store!Delete, Return
    <2> QED  BY <1>2, <2>1 DEF Store!Call
  <1> QED  BY <1>1, <1>4, <1>5, <1>6 DEF LegalChange

LEMMA StepRefines == Inv /\ [Next]_vars => [Store!StoreNext]_(Store!storeVars)
  <1> SUFFICES ASSUME Inv, [Next]_vars
               PROVE  Store!StoreNext \/ UNCHANGED Store!storeVars
    OBVIOUS
  <1>1. CASE UNCHANGED vars
    BY <1>1 DEF vars, Store!storeVars
  <1>2. CASE Begin
    BY <1>2 DEF Begin, Enqueue, UpdateState, Delete, Change, Store!storeVars
  <1>3. CASE CreateTemp \/ (\E whole \in BOOLEAN : WriteTemp(whole)) \/ CloseTemp
    BY <1>3 DEF CreateTemp, WriteTemp, CloseTemp, Store!storeVars
  <1>4. CASE Rename
    <2>1. file'.data = records  BY <1>4 DEF Rename, Inv, CallInProgress
    <2>2. Store!Call(run)  BY <1>4, <2>1, ReturnIsACall DEF Rename
    <2> QED  BY <2>2 DEF Store!StoreNext, Inv, TypeOK
  <1>5. CASE PersistFails
    <2>1. Store!Call(run)  BY <1>5, ReturnIsACall DEF PersistFails
    <2> QED  BY <2>1 DEF Store!StoreNext, Inv, TypeOK
  <1>6. CASE Crash
    BY <1>6, SameLifecycle DEF Crash, Store!StoreNext, Store!Crash
  <1>7. CASE Open
    BY <1>7 DEF Open, Store!StoreNext, Store!Open
  <1> QED  BY <1>1, <1>2, <1>3, <1>4, <1>5, <1>6, <1>7 DEF Next, Persist

\* The detailed store implements the atomic one, so what is proved of RunStore
\* holds of it at every crash point: run "json_store" checks it on two runs.
THEOREM JsonRunStoreImplementsRunStore == Spec => ImplementsRunStore
  <1>1. Init => Store!StoreInit
    BY SameLifecycle DEF Init, Store!StoreInit
  <1> QED
    BY <1>1, InitInv, StepInv, StepRefines, PTL
    DEF Spec, ImplementsRunStore, Store!StoreSpec
=============================================================================
