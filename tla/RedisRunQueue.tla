--------------------------- MODULE RedisRunQueue ---------------------------
(***************************************************************************)
(* The durable run queue (pkg/queue/redis_streams.go): a Redis stream and  *)
(* one consumer group.  A call is one or two commands to the server; each  *)
(* command is atomic there, and its reply may be lost, in which case the   *)
(* caller gets an error whether or not the command was executed.           *)
(***************************************************************************)
EXTENDS Integers, Sequences, FiniteSets

CONSTANTS
    Runs,           \* run IDs a payload can carry
    Consumers,      \* consumer names of the group
    MaxEntries,     \* bound: entries ever added to the stream
    PendingCount    \* how many pending entries XPENDING returns at most (100)

Nobody == "nobody"

ASSUME QueueAssumption == /\ MaxEntries \in Nat
                          /\ PendingCount \in Nat \ {0}
                          /\ Nobody \notin Consumers

VARIABLES
    stream,         \* the payloads added, in order: an entry's ID is its index
    cursor,         \* the group's last delivered ID
    owner,          \* the pending entry list: entry -> the consumer it is with
    idle            \* the pending entries that were not delivered for minIdle

queueVars == <<stream, cursor, owner, idle>>

\* A payload json.Unmarshal refuses, or an entry without one.
Malformed == "malformed"

EntryIDs == 1..MaxEntries

QueueTypeOK ==
    /\ stream \in Seq(Runs \cup {Malformed})
    /\ Len(stream) <= MaxEntries
    /\ cursor \in 0..Len(stream)
    /\ owner \in [EntryIDs -> Consumers \cup {Nobody}]
    /\ idle \in SUBSET EntryIDs

\* XGROUP CREATE ... "0" MKSTREAM: the group starts before the first entry.
QueueInit ==
    /\ stream = << >>
    /\ cursor = 0
    /\ owner = [e \in EntryIDs |-> Nobody]
    /\ idle = {}

-----------------------------------------------------------------------------
\* Server side.
PendingIDs == {e \in EntryIDs : owner[e] # Nobody}

\* Delivered, and gone from the pending list.
Acknowledged == {e \in 1..cursor : owner[e] = Nobody}

\* XADD
XAdd(payload) ==
    /\ Len(stream) < MaxEntries
    /\ stream' = Append(stream, payload)
    /\ UNCHANGED <<cursor, owner, idle>>

\* Mutant: an entry is skipped.
XReadGroupSkipping(c, e) ==
    /\ cursor < Len(stream)
    /\ e = cursor + 1
    /\ cursor' = e + 1
    /\ owner' = [owner EXCEPT ![e] = c]
    /\ idle' = idle \ {e}
    /\ UNCHANGED stream

\* XREADGROUP ... COUNT 1 ... ">": the next entry nobody of the group was given.
XReadGroup(c, e) ==
    /\ cursor < Len(stream)
    /\ e = cursor + 1
    /\ cursor' = e
    /\ owner' = [owner EXCEPT ![e] = c]
    /\ idle' = idle \ {e}
    /\ UNCHANGED stream

\* XACK: whoever it is with.
XAck(e) ==
    /\ owner' = [owner EXCEPT ![e] = Nobody]
    /\ idle' = idle \ {e}
    /\ UNCHANGED <<stream, cursor>>

\* XPENDING - + COUNT: the first of the pending entries, in the order of their IDs.
XPending == {e \in PendingIDs : Cardinality({d \in PendingIDs : d <= e}) <= PendingCount}

\* Mutant: XCLAIM without its minimal idle time.
ClaimableAnyTime(ids) == ids \cap PendingIDs

\* Mutant: XCLAIM FORCE, which creates the pending entry where there is none.
ClaimableForced(ids) == ids

\* XCLAIM MINIDLE: of the entries named, those that still are pending and idle.
Claimable(ids) == ids \cap PendingIDs \cap idle

XClaim(c, ids) ==
    /\ owner' = [e \in EntryIDs |-> IF e \in Claimable(ids) THEN c ELSE owner[e]]
    /\ idle' = idle \ Claimable(ids)
    /\ UNCHANGED <<stream, cursor>>

\* minIdle passes for an entry.
GoIdle(e) ==
    /\ e \in PendingIDs \ idle
    /\ idle' = idle \cup {e}
    /\ UNCHANGED <<stream, cursor, owner>>

-----------------------------------------------------------------------------
\* Client side.  Somebody else's XADD (redis-cli) can carry any payload.
Enqueue(r, ok) ==
    \/ XAdd(r)
    \/ ~ok /\ UNCHANGED queueVars

Produce == \E payload \in Runs \cup {Malformed} : XAdd(payload)

\* Consume returns entry e and its message.
ConsumeReturns(c, e) == XReadGroup(c, e) /\ stream[e] \in Runs

\* Consume returns ErrStreamEmpty.
ConsumeEmpty == cursor = Len(stream) /\ UNCHANGED queueVars

\* Consume returns another error: the command was not executed, or its reply
\* was lost, or the payload is malformed; then the entry is pending already.
ConsumeFails(c) ==
    \/ UNCHANGED queueVars
    \/ XReadGroup(c, cursor + 1)

Ack(e, ok) ==
    \/ XAck(e)
    \/ ~ok /\ UNCHANGED queueVars

\* Mutant: only entries that nobody has are looked for.
StaleIDsOfNobody == XPending \cap (idle \ PendingIDs)

\* ReclaimStale, first half: the idle ones among those XPENDING lists.
StaleIDs == XPending \cap idle
=============================================================================
