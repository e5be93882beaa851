------------------------------ MODULE RunStore ------------------------------
(***************************************************************************)
(* The two run stores of pkg/store, at the grain of one call: a call holds *)
(* the store's mutex from its first line to its last, so calls are atomic. *)
(*                                                                         *)
(*   "json"    JsonRunStore: a map in memory, and a file the whole map is  *)
(*             written to after each change.  A write that fails returns   *)
(*             an error and leaves the map changed and the file as it was. *)
(*   "memory"  InMemoryRunStore: the map alone, gone when the process is.  *)
(*                                                                         *)
(* JsonRunStore.tla opens up the write of the file.                        *)
(***************************************************************************)
EXTENDS RunStates

CONSTANT Runs        \* run IDs

VARIABLES
    backend,         \* which of the two stores this is
    records,         \* the map in memory: run -> Status
    disk,            \* the map the file holds, all Absent while there is none
    up,              \* is the process running
    acked            \* history: the last state a call that returned nil gave the
                     \* run, Absent when the caller was promised nothing

storeVars == <<backend, records, disk, up, acked>>

NoRecords == [r \in Runs |-> Absent]

\* What a call returns: nil, one of the errors of run_store.go, or persist's error.
Results == {"ok", "exists", "notfound", "mismatch", "invalid", "ioerr"}

StoreTypeOK ==
    /\ backend \in {"json", "memory"}
    /\ records \in [Runs -> Status]
    /\ disk \in [Runs -> Status]
    /\ up \in BOOLEAN
    /\ acked \in [Runs -> Status]

StoreInit ==
    /\ backend \in {"json", "memory"}
    /\ records = NoRecords
    /\ disk = NoRecords
    /\ up = TRUE
    /\ acked = NoRecords

-----------------------------------------------------------------------------

\* Mutant: an error of the file system is swallowed.
persistSwallowingErrors(res) ==
    \/ backend = "memory" /\ res = "ok" /\ UNCHANGED disk
    \/ backend = "json"   /\ res = "ok" /\ (disk' = records' \/ UNCHANGED disk)

\* persist(): the file becomes the whole map, or stays as it was and the call fails.
persist(res) ==
    \/ backend = "memory" /\ res = "ok" /\ UNCHANGED disk
    \/ backend = "json"   /\ res = "ok" /\ disk' = records'
    \/ backend = "json"   /\ res = "ioerr" /\ UNCHANGED disk

\* Mutant: the file first, and the map only if that call succeeded.
WriteFileFirst(r, s, res) ==
    \/ /\ res = "ok"
       /\ records' = [records EXCEPT ![r] = s]
       /\ disk' = IF backend = "json" THEN records' ELSE disk
    \/ /\ res = "ioerr" /\ backend = "json"
       /\ disk' = [records EXCEPT ![r] = s]
       /\ UNCHANGED records

\* A call that writes s for r: the map first, then the file.
Write(r, s, res) ==
    /\ records' = [records EXCEPT ![r] = s]
    /\ persist(res)

Reject(res, error) == res = error /\ UNCHANGED <<records, disk, acked>>

\* Mutant: a record that is there already is written over.
EnqueueOverwriting(r, res) ==
    /\ up
    /\ Write(r, "queued", res)
    /\ acked' = IF res = "ok" THEN [acked EXCEPT ![r] = "queued"] ELSE acked
    /\ UNCHANGED <<backend, up>>

\* Enqueue stores the state it is given; its one caller outside tests passes queued.
Enqueue(r, res) ==
    /\ up
    /\ \/ records[r] # Absent /\ Reject(res, "exists")
       \/ /\ records[r] = Absent
          /\ Write(r, "queued", res)
          /\ acked' = IF res = "ok" THEN [acked EXCEPT ![r] = "queued"] ELSE acked
    /\ UNCHANGED <<backend, up>>

\* Mutant: whether the record is in state from is not looked at.
UpdateStateBlindly(r, from, to, res) ==
    /\ up
    /\ \/ records[r] = Absent /\ Reject(res, "notfound")
       \/ records[r] # Absent /\ ~ValidateTransition(from, to) /\ Reject(res, "invalid")
       \/ /\ records[r] # Absent
          /\ ValidateTransition(from, to)
          /\ Write(r, to, res)
          /\ acked' = IF res = "ok" THEN [acked EXCEPT ![r] = to] ELSE acked
    /\ UNCHANGED <<backend, up>>

UpdateState(r, from, to, res) ==
    /\ up
    /\ \/ records[r] = Absent /\ Reject(res, "notfound")
       \/ records[r] \notin {Absent, from} /\ Reject(res, "mismatch")
       \/ records[r] = from /\ ~ValidateTransition(from, to) /\ Reject(res, "invalid")
       \/ /\ records[r] = from
          /\ ValidateTransition(from, to)
          /\ Write(r, to, res)
          /\ acked' = IF res = "ok" THEN [acked EXCEPT ![r] = to] ELSE acked
    /\ UNCHANGED <<backend, up>>

\* After a Delete, failed or not, the caller can no longer count on the record.
Delete(r, res) ==
    /\ up
    /\ \/ records[r] = Absent /\ Reject(res, "notfound")
       \/ /\ records[r] # Absent
          /\ Write(r, Absent, res)
          /\ acked' = [acked EXCEPT ![r] = Absent]
    /\ UNCHANGED <<backend, up>>

\* ListByState: what bootstrapRecovery reads after a restart.
ListByState(s) == {r \in Runs : records[r] = s}

\* The process dies between two calls: its memory goes, the file stays.
Crash ==
    /\ up
    /\ up' = FALSE
    /\ records' = NoRecords
    /\ UNCHANGED <<backend, disk, acked>>

\* NewJsonRunStore loads the file; a new InMemoryRunStore is empty, as disk is for it.
Open ==
    /\ ~up
    /\ up' = TRUE
    /\ records' = disk
    /\ UNCHANGED <<backend, disk, acked>>

Call(r) ==
    \E res \in Results :
        \/ Enqueue(r, res)
        \/ \E from, to \in RunState : UpdateState(r, from, to, res)
        \/ Delete(r, res)

StoreNext == Crash \/ Open \/ \E r \in Runs : Call(r)

StoreSpec == StoreInit /\ [][StoreNext]_storeVars

-----------------------------------------------------------------------------
(***************************************************************************)
(* A state the caller was told is stored survives everything: failed       *)
(* writes of this or of other runs, which leave the map ahead of the file, *)
(* later writes that flush them, crashes and restarts.  The file always    *)
(* holds the acknowledged state or one that lies ahead of it.              *)
(***************************************************************************)
AckedSurvives ==
    backend = "json" =>
        \A r \in Runs : acked[r] # Absent =>
            disk[r] # Absent /\ disk[r] \in Downstream(acked[r])

(***************************************************************************)
(* What makes AckedSurvives inductive: the map, when there is one, is      *)
(* ahead of what was acknowledged too, or else a later write of another    *)
(* run would put an older state into the file.                             *)
(***************************************************************************)
AckedInMemory ==
    (backend = "json" /\ up) =>
        \A r \in Runs : acked[r] # Absent =>
            records[r] # Absent /\ records[r] \in Downstream(acked[r])

StoreInv == StoreTypeOK /\ AckedSurvives /\ AckedInMemory
=============================================================================
