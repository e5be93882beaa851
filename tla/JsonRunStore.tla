---------------------------- MODULE JsonRunStore ----------------------------
(***************************************************************************)
(* JsonRunStore at the grain of its system calls.  RunStore takes a call   *)
(* as one step; here persist writes a temporary file in several steps and  *)
(* renames it over the store's file, any of those steps can fail, and the  *)
(* process can die between any two.  The mutex admits one call at a time.  *)
(***************************************************************************)
EXTENDS RunStates

CONSTANT Runs

VARIABLES
    records,    \* s.records
    file,       \* the file at s.path; a missing or empty one loads as no records
    tmp,        \* what persist has written to its temporary file
    step,       \* where the call holding the mutex is; "unlocked" when none is
    run,        \* the run that call, or the last one, is about
    seen,       \* the map as the last call to unlock the mutex left it
    up,
    acked       \* history, as in RunStore

vars == <<records, file, tmp, step, run, seen, up, acked>>

NoRecords == [r \in Runs |-> Absent]

\* A file's content: the map it was to hold, and whether all of it was written.
Content == [whole : BOOLEAN, data : [Runs -> Status]]

Steps == {"unlocked", "create", "write", "close", "rename"}

TypeOK ==
    /\ records \in [Runs -> Status]
    /\ file \in Content
    /\ tmp \in Content
    /\ step \in Steps
    /\ run \in Runs
    /\ seen \in [Runs -> Status]
    /\ up \in BOOLEAN
    /\ acked \in [Runs -> Status]

Empty == [whole |-> FALSE, data |-> NoRecords]

Init ==
    /\ records = NoRecords
    /\ file = [whole |-> TRUE, data |-> NoRecords]
    /\ tmp = Empty
    /\ step = "unlocked"
    /\ run \in Runs
    /\ seen = NoRecords
    /\ up = TRUE
    /\ acked = NoRecords

-----------------------------------------------------------------------------

\* Mutant: the mutex is not taken.
ChangeUnlocked(r, s) ==
    /\ up
    /\ records' = [records EXCEPT ![r] = s]
    /\ run' = r
    /\ step' = "create"
    /\ UNCHANGED <<file, tmp, seen, up, acked>>

\* Lock the mutex, change the map, enter persist.
Change(r, s) ==
    /\ up /\ step = "unlocked"
    /\ records' = [records EXCEPT ![r] = s]
    /\ run' = r
    /\ step' = "create"
    /\ UNCHANGED <<file, tmp, seen, up, acked>>

\* The three calls, where they do not return an error before any change.
Enqueue(r) == records[r] = Absent /\ Change(r, "queued")

UpdateState(r, from, to) ==
    records[r] = from /\ ValidateTransition(from, to) /\ Change(r, to)

Delete(r) == records[r] # Absent /\ Change(r, Absent)

\* The call returns: nil promises the state, a Delete takes the promise back.
Return(nil) ==
    /\ step' = "unlocked"
    /\ seen' = records
    /\ acked' = IF nil \/ records[run] = Absent
                   THEN [acked EXCEPT ![run] = records[run]]
                   ELSE acked
    /\ UNCHANGED <<records, run, up>>

CreateTemp ==
    /\ step = "create"
    /\ tmp' = Empty
    /\ step' = "write"
    /\ UNCHANGED <<records, file, run, seen, up, acked>>

\* Mutant: os.WriteFile on the store's own file.
WriteInPlace(whole) ==
    /\ step = "write"
    /\ tmp' = [whole |-> whole, data |-> records]
    /\ file' = tmp'
    /\ step' = IF whole THEN "close" ELSE "write"
    /\ UNCHANGED <<records, run, seen, up, acked>>

\* tmp.Write: the bytes reach the file in pieces; the last one makes it whole.
WriteTemp(whole) ==
    /\ step = "write"
    /\ tmp' = [whole |-> whole, data |-> records]
    /\ step' = IF whole THEN "close" ELSE "write"
    /\ UNCHANGED <<records, file, run, seen, up, acked>>

CloseTemp ==
    /\ step = "close"
    /\ step' = "rename"
    /\ UNCHANGED <<records, file, tmp, run, seen, up, acked>>

Rename ==
    /\ step = "rename"
    /\ file' = tmp
    /\ tmp' = Empty
    /\ Return(TRUE)

\* Mutant: the error of a system call is not returned.
PersistFailsSilently ==
    /\ step # "unlocked"
    /\ tmp' = Empty
    /\ UNCHANGED file
    /\ Return(TRUE)

\* Each system call of persist can fail: the temporary file is removed, the
\* error returned, the map stays changed.
PersistFails ==
    /\ step # "unlocked"
    /\ tmp' = Empty
    /\ UNCHANGED file
    /\ Return(FALSE)

\* A temporary file left by the crash keeps its random name: nobody opens it.
Crash ==
    /\ up
    /\ up' = FALSE
    /\ records' = NoRecords
    /\ tmp' = Empty
    /\ step' = "unlocked"
    /\ seen' = NoRecords
    /\ UNCHANGED <<file, run, acked>>

\* Mutant: a failed load leaves the store without a map.
OpenWithoutMap ==
    /\ ~up
    /\ up' = TRUE
    /\ records' = << >>
    /\ seen' = file.data
    /\ UNCHANGED <<file, tmp, step, run, acked>>

\* NewJsonRunStore: json.Unmarshal refuses a file that is not whole.
Open ==
    /\ ~up
    /\ file.whole
    /\ up' = TRUE
    /\ records' = file.data
    /\ seen' = file.data
    /\ UNCHANGED <<file, tmp, step, run, acked>>

Begin ==
    \E r \in Runs :
        \/ Enqueue(r)
        \/ \E from, to \in RunState : UpdateState(r, from, to)
        \/ Delete(r)

Persist ==
    \/ CreateTemp
    \/ \E whole \in BOOLEAN : WriteTemp(whole)
    \/ CloseTemp
    \/ Rename
    \/ PersistFails

Next == Begin \/ Persist \/ Crash \/ Open

Spec == Init /\ [][Next]_vars

-----------------------------------------------------------------------------
(***************************************************************************)
(* "a crash during write never leaves a partial/corrupt file": whenever    *)
(* the process may die the file is a whole map, so a restart can load it.  *)
(***************************************************************************)
FileAlwaysWhole == file.whole

(***************************************************************************)
(* Every execution is one of RunStore's, where a call is a single step: it *)
(* happens when the rename does, or when persist gives up.  Until then a   *)
(* reader, who needs the mutex, cannot have seen the changed map.          *)
(***************************************************************************)
Store == INSTANCE RunStore WITH
            backend <- "json",
            records <- seen,
            disk <- file.data

ImplementsRunStore == Store!StoreSpec

(***************************************************************************)
(* Why: while a call holds the mutex the map differs from what readers saw *)
(* by that call's own change, which was legal, and the temporary file that *)
(* is about to be renamed holds all of it.                                 *)
(***************************************************************************)
LegalChange(from, to) ==
    \/ from = Absent /\ to = "queued"
    \/ ValidateTransition(from, to)
    \/ from # Absent /\ to = Absent

CallInProgress ==
    IF step = "unlocked"
    THEN seen = records
    ELSE /\ up
         /\ records = [seen EXCEPT ![run] = records[run]]
         /\ LegalChange(seen[run], records[run])
         /\ step \in {"close", "rename"} => tmp = [whole |-> TRUE, data |-> records]

Inv == TypeOK /\ FileAlwaysWhole /\ CallInProgress
=============================================================================
