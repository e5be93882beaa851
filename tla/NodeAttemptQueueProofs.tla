----------------------- MODULE NodeAttemptQueueProofs -----------------------
(***************************************************************************)
(* NodeAttemptQueue's invariants, and that it implements NodeSubmitter,    *)
(* for any calls and any number of slots.                                  *)
(***************************************************************************)
EXTENDS NodeAttemptQueue, FiniteSetTheorems, SequenceTheorems, TLAPS

USE ConcurrencyAssumption

NoRepeat(s) == \A i, j \in DOMAIN s : s[i] = s[j] => i = j

-----------------------------------------------------------------------------
(* Sequences without repetition: who is in them after each operation.       *)
LEMMA EnterQueue ==
    ASSUME NEW S, NEW s \in Seq(S), NEW e \in S \ ToSet(s), NoRepeat(s)
    PROVE  /\ Append(s, e) \in Seq(S)
           /\ ToSet(Append(s, e)) = ToSet(s) \cup {e}
           /\ NoRepeat(Append(s, e))
  <1>1. /\ Append(s, e) \in Seq(S)
        /\ Len(Append(s, e)) = Len(s) + 1
        /\ \A i \in 1..Len(s) : Append(s, e)[i] = s[i]
        /\ Append(s, e)[Len(s) + 1] = e
    BY AppendProperties
  <1>2. Len(s) \in Nat /\ DOMAIN s = 1..Len(s) /\ DOMAIN Append(s, e) = 1..(Len(s) + 1)
    BY <1>1
  <1>3. \A i \in 1..(Len(s) + 1) : Append(s, e)[i] = IF i = Len(s) + 1 THEN e ELSE s[i]
    BY <1>1, <1>2
  <1>4. \A i \in 1..Len(s) : s[i] # e
    BY <1>2 DEF ToSet
  <1>5. NoRepeat(Append(s, e))
    BY <1>2, <1>3, <1>4 DEF NoRepeat
  <1>6. ToSet(Append(s, e)) = ToSet(s) \cup {e}
    BY <1>1, <1>2, <1>3 DEF ToSet
  <1> QED BY <1>1, <1>5, <1>6

LEMMA LeaveHead ==
    ASSUME NEW S, NEW s \in Seq(S), s # << >>, NoRepeat(s)
    PROVE  /\ Head(s) \in ToSet(s) /\ Head(s) \in S
           /\ Tail(s) \in Seq(S)
           /\ ToSet(Tail(s)) = ToSet(s) \ {Head(s)}
           /\ NoRepeat(Tail(s))
  <1>1. /\ Head(s) \in S /\ Tail(s) \in Seq(S)
        /\ Len(Tail(s)) = Len(s) - 1
        /\ \A i \in 1..(Len(s) - 1) : Tail(s)[i] = s[i + 1]
    BY HeadTailProperties
  <1>2. Len(s) \in Nat \ {0} /\ DOMAIN s = 1..Len(s) /\ DOMAIN Tail(s) = 1..(Len(s) - 1)
        /\ Head(s) = s[1]
    BY <1>1, EmptySeq
  <1>3. NoRepeat(Tail(s))
    BY <1>1, <1>2 DEF NoRepeat
  <1>4. ToSet(Tail(s)) \subseteq ToSet(s) \ {Head(s)}
    BY <1>1, <1>2 DEF ToSet, NoRepeat
  <1>5. ASSUME NEW e \in ToSet(s) \ {Head(s)} PROVE e \in ToSet(Tail(s))
    <2>1. PICK i \in 1..Len(s) : s[i] = e /\ i # 1
      BY <1>2, <1>5 DEF ToSet
    <2>2. i - 1 \in 1..(Len(s) - 1) /\ Tail(s)[i - 1] = e
      BY <1>1, <1>2, <2>1
    <2> QED BY <1>2, <2>2 DEF ToSet
  <1>6. Head(s) \in ToSet(s)
    BY <1>2 DEF ToSet
  <1>7. ToSet(Tail(s)) = ToSet(s) \ {Head(s)}
    BY <1>4, <1>5
  <1> QED BY <1>1, <1>3, <1>6, <1>7

LEMMA LeaveAt ==
    ASSUME NEW S, NEW s \in Seq(S), NEW k \in DOMAIN s, NoRepeat(s)
    PROVE  /\ RemoveAt(s, k) \in Seq(S)
           /\ ToSet(RemoveAt(s, k)) = ToSet(s) \ {s[k]}
           /\ NoRepeat(RemoveAt(s, k))
  <1> DEFINE t == RemoveAt(s, k)
             f == SubSeq(s, 1, k - 1)
             g == SubSeq(s, k + 1, Len(s))
  <1>1. Len(s) \in Nat /\ k \in 1..Len(s) /\ \A i \in 1..Len(s) : s[i] \in S
    OBVIOUS
  <1>2. f \in Seq(S) /\ Len(f) = k - 1 /\ \A i \in 1..(k - 1) : f[i] = s[i]
    BY <1>1, SubSeqProperties
  <1>3. g \in Seq(S) /\ Len(g) = Len(s) - k /\ \A i \in 1..(Len(s) - k) : g[i] = s[k + i]
    BY <1>1, SubSeqProperties
  <1>4. t = f \o g
    BY DEF RemoveAt
  <1>5. /\ t \in Seq(S)
        /\ DOMAIN t = 1..(Len(s) - 1)
        /\ \A i \in 1..(Len(s) - 1) : t[i] = IF i < k THEN s[i] ELSE s[i + 1]
    <2> HIDE DEF f, g, t
    <2>1. /\ f \o g \in Seq(S) /\ Len(f \o g) = Len(s) - 1
          /\ \A i \in 1..(Len(s) - 1) : (f \o g)[i] = IF i <= k - 1 THEN f[i] ELSE g[i - (k - 1)]
      <3>1. /\ f \o g \in Seq(S) /\ Len(f \o g) = Len(f) + Len(g)
            /\ \A i \in 1..(Len(f) + Len(g)) :
                  (f \o g)[i] = IF i <= Len(f) THEN f[i] ELSE g[i - Len(f)]
        BY <1>2, <1>3, ConcatProperties
      <3>2. Len(f) = k - 1 /\ Len(f) + Len(g) = Len(s) - 1
        BY <1>1, <1>2, <1>3
      <3> QED BY <3>1, <3>2
    <2>2. /\ t \in Seq(S) /\ Len(t) = Len(s) - 1
          /\ \A i \in 1..(Len(s) - 1) : t[i] = IF i <= k - 1 THEN f[i] ELSE g[i - (k - 1)]
      BY <1>4, <2>1
    <2>3. DOMAIN t = 1..(Len(s) - 1)
      BY <2>2
    <2>4. ASSUME NEW i \in 1..(Len(s) - 1) PROVE t[i] = IF i < k THEN s[i] ELSE s[i + 1]
      <3>1. CASE i < k
        <4>1. i \in 1..(k - 1) /\ i <= k - 1
          BY <1>1, <3>1
        <4> QED BY <1>2, <2>2, <3>1, <4>1
      <3>2. CASE i >= k
        <4>1. i - (k - 1) \in 1..(Len(s) - k) /\ k + (i - (k - 1)) = i + 1
          BY <1>1, <3>2
        <4>2. ~(i <= k - 1) /\ ~(i < k)
          BY <1>1, <3>2
        <4> QED BY <1>3, <2>2, <4>1, <4>2
      <3> QED BY <1>1, <3>1, <3>2
    <2> QED BY <2>2, <2>3, <2>4
  <1> HIDE DEF t
  <1>6. NoRepeat(t)
    <2> SUFFICES ASSUME NEW i \in 1..(Len(s) - 1), NEW j \in 1..(Len(s) - 1), t[i] = t[j]
                 PROVE  i = j
      BY <1>5 DEF NoRepeat
    <2> DEFINE at(x) == IF x < k THEN x ELSE x + 1
    <2>1. t[i] = s[at(i)] /\ t[j] = s[at(j)]
      BY <1>5
    <2>2. at(i) \in DOMAIN s /\ at(j) \in DOMAIN s
      BY <1>1
    <2>3. at(i) = at(j)
      <3> HIDE DEF at
      <3> QED BY <2>1, <2>2 DEF NoRepeat
    <2> QED BY <1>1, <2>3
  <1>7. ToSet(t) \subseteq ToSet(s) \ {s[k]}
    BY <1>1, <1>5 DEF ToSet, NoRepeat
  <1>8. ASSUME NEW e \in ToSet(s) \ {s[k]} PROVE e \in ToSet(t)
    <2>1. PICK i \in 1..Len(s) : s[i] = e /\ i # k
      BY <1>1 DEF ToSet
    <2>2. CASE i < k
      BY <1>1, <1>5, <2>1, <2>2 DEF ToSet
    <2>3. CASE i > k
      <3>1. i - 1 \in 1..(Len(s) - 1) /\ t[i - 1] = e
        BY <1>1, <1>5, <2>1, <2>3
      <3> QED BY <1>5, <3>1 DEF ToSet
    <2> QED BY <1>1, <2>1, <2>2, <2>3
  <1> QED BY <1>5, <1>6, <1>7, <1>8 DEF t

-----------------------------------------------------------------------------
One(b) == IF b THEN 1 ELSE 0

(* One call moves: the slots in use and the calls counted change with it.   *)
Moves(r, from, to) ==
    /\ phase' \in [Requests -> Phases]
    /\ phase[r] = from /\ phase'[r] = to
    /\ \A q \in Requests \ {r} : phase'[q] = phase[q]
    /\ IsFiniteSet(In(Holding))'
    /\ Cardinality(In(Holding))' = sem + One(to \in Holding) - One(from \in Holding)
    /\ Cardinality(In(Counted))' = currentInflight + One(to \in Counted) - One(from \in Counted)

LEMMA Moved ==
    ASSUME QueueInv, NEW r \in Requests, NEW from, NEW to \in Phases, Move(r, from, to)
    PROVE  Moves(r, from, to)
  <1>1. /\ phase' \in [Requests -> Phases]
        /\ phase[r] = from /\ phase'[r] = to
        /\ \A q \in Requests \ {r} : phase'[q] = phase[q]
    BY DEF Move, QueueInv, TypeOK
  <1>2. /\ IsFiniteSet(In(Holding)) /\ IsFiniteSet(In(Counted))
        /\ sem = Cardinality(In(Holding)) /\ currentInflight = Cardinality(In(Counted))
        /\ sem \in Nat /\ currentInflight \in Nat
    <2>1. In(Counted) \subseteq In(Holding)
      BY DEF In, Counted, Holding
    <2> QED BY <2>1, FS_Subset DEF QueueInv, SlotsAccounted, TypeOK
  <1>3. ASSUME NEW P, IsFiniteSet(In(P))
        PROVE  /\ IsFiniteSet({q \in Requests : phase'[q] \in P})
               /\ Cardinality({q \in Requests : phase'[q] \in P})
                    = Cardinality(In(P)) + One(to \in P) - One(from \in P)
    <2> DEFINE new == {q \in Requests : phase'[q] \in P}
    <2>0. Cardinality(In(P)) \in Nat
      BY <1>3, FS_CardinalityType
    <2>1. CASE to \in P
      <3>1. new = In(P) \cup {r} /\ (r \in In(P) <=> from \in P)
        BY <1>1, <2>1 DEF In
      <3>2. One(to \in P) = 1
        BY <2>1 DEF One
      <3>3. CASE from \in P
        <4>1. new = In(P) /\ One(from \in P) = 1
          BY <3>1, <3>3 DEF One
        <4>2. IsFiniteSet(new) /\ Cardinality(new) = Cardinality(In(P))
          BY ONLY <1>3, <4>1
        <4> HIDE DEF new
        <4>3. /\ IsFiniteSet(new)
              /\ Cardinality(new) = Cardinality(In(P)) + One(to \in P) - One(from \in P)
          BY ONLY <2>0, <3>2, <4>1, <4>2
        <4> QED BY <4>3 DEF new
      <3>4. CASE from \notin P
        <4>1. One(from \in P) = 0
          BY <3>4 DEF One
        <4>2. IsFiniteSet(new) /\ Cardinality(new) = Cardinality(In(P)) + 1
          BY <1>3, <3>1, <3>4, FS_AddElement
        <4> QED BY <2>0, <3>2, <4>1, <4>2
      <3> QED BY <3>3, <3>4
    <2>2. CASE to \notin P
      <3>1. new = In(P) \ {r} /\ (r \in In(P) <=> from \in P)
        BY <1>1, <2>2 DEF In
      <3>2. One(to \in P) = 0
        BY <2>2 DEF One
      <3>3. CASE from \in P
        <4>1. One(from \in P) = 1
          BY <3>3 DEF One
        <4>2. IsFiniteSet(new) /\ Cardinality(new) = Cardinality(In(P)) - 1
          BY <1>3, <3>1, <3>3, FS_RemoveElement
        <4> QED BY <2>0, <3>2, <4>1, <4>2
      <3>4. CASE from \notin P
        <4>1. new = In(P) /\ One(from \in P) = 0
          BY <3>1, <3>4 DEF One
        <4>2. IsFiniteSet(new) /\ Cardinality(new) = Cardinality(In(P))
          BY ONLY <1>3, <4>1
        <4> HIDE DEF new
        <4>3. /\ IsFiniteSet(new)
              /\ Cardinality(new) = Cardinality(In(P)) + One(to \in P) - One(from \in P)
          BY ONLY <2>0, <3>2, <4>1, <4>2
        <4> QED BY <4>3 DEF new
      <3> QED BY <3>3, <3>4
    <2> QED BY <2>1, <2>2
  <1>4. /\ In(Holding)' = {q \in Requests : phase'[q] \in Holding}
        /\ In(Counted)' = {q \in Requests : phase'[q] \in Counted}
    BY DEF In
  <1> QED BY <1>1, <1>2, <1>3, <1>4 DEF Moves

(* Nobody in the loop, so nothing of the maximum, is touched.               *)
LEMMA LoopUntouched ==
    ASSUME QueueInv, NEW r \in Requests, \A q \in Requests \ {r} : phase'[q] = phase[q],
           phase[r] \notin {"load", "swap"}, phase'[r] \notin {"load", "swap"},
           UNCHANGED <<maxConcurrent, peak, cur, prev>>
    PROVE  PeakPursued'
  <1>1. In({"load", "swap"})' = In({"load", "swap"}) /\ In({"swap"})' = In({"swap"})
    BY DEF In
  <1> QED BY <1>1 DEF QueueInv, PeakPursued

(* What the arithmetic of slots and counters needs to know.                 *)
LEMMA Numbers ==
    ASSUME QueueInv
    PROVE  /\ sem \in 0..Concurrency /\ Concurrency \in Nat
           /\ {totalSubmits, blockedSubmits, maxConcurrent, currentInflight, peak} \subseteq Nat
           /\ cur \in [Requests -> Nat] /\ prev \in [Requests -> Nat]
           /\ phase \in [Requests -> Phases]
           /\ request \in [Requests -> Inner!RequestStates]
           /\ waiters \in Seq(Requests) /\ NoRepeat(waiters)
           /\ ToSet(waiters) = In({"waiting"})
           /\ waiters # << >> => sem = Concurrency
  BY DEF QueueInv, TypeOK, SlotsAccounted, WaitsOnce, NoRepeat

LEMMA InitStep == ASSUME Init PROVE QueueInv
  <1>1. TypeOK
    BY DEF Init, TypeOK, Phases, Inner!SubmitterInit, Inner!RequestStates
  <1>2. In(Holding) = {} /\ In(Counted) = {} /\ In({"waiting"}) = {}
        /\ In({"load", "swap"}) = {} /\ In({"swap"}) = {}
    BY DEF Init, In, Holding, Counted
  <1>3. ToSet(waiters) = {}
    BY DEF Init, ToSet
  <1>4. IsFiniteSet(In(Holding)) /\ SlotsAccounted
    BY <1>2, <1>3, FS_EmptySet DEF Init, SlotsAccounted
  <1>5. WaitsOnce /\ InnerCalledInside /\ PeakPursued
    BY <1>2 DEF Init, WaitsOnce, InnerCalledInside, PeakPursued, Inner!SubmitterInit, Inner!Pending
  <1> QED BY <1>1, <1>4, <1>5 DEF QueueInv

LEMMA ArriveStep == ASSUME QueueInv, NEW r \in Requests, Arrive(r) PROVE QueueInv'
  <1>0. UNCHANGED <<request, jobs, waiters, blockedSubmits, maxConcurrent, currentInflight, cur, prev, peak>>
        /\ totalSubmits' = totalSubmits + 1
    BY DEF Arrive, locals
  <1>1. PICK to \in {"count", "full"} :
            /\ Move(r, "none", to)
            /\ sem' = sem + One(to = "count")
            /\ to = "count" => sem < Concurrency
    <2>1. CASE Send(r, "none") BY <2>1 DEF Send, One
    <2>2. CASE sem' = sem /\ Move(r, "none", "full") BY <2>2, Numbers DEF One
    <2> QED BY <2>1, <2>2 DEF Arrive
  <1>2. Moves(r, "none", to)
    BY <1>1, Moved DEF Phases
  <1>3. sem' \in 0..Concurrency
    BY <1>1, Numbers DEF One
  <1>4. TypeOK'
    BY <1>0, <1>2, <1>3, Numbers DEF TypeOK, Moves
  <1>5. IsFiniteSet(In(Holding))' /\ SlotsAccounted'
    <2>1. In({"waiting"})' = In({"waiting"}) /\ ToSet(waiters)' = ToSet(waiters)
      BY <1>0, <1>2 DEF In, Moves, ToSet
    <2>2. sem' = Cardinality(In(Holding))' /\ currentInflight' = Cardinality(In(Counted))'
      BY <1>0, <1>1, <1>2, Numbers DEF One, Holding, Counted, Moves
    <2>3. waiters' # << >> => sem' = Concurrency
      BY <1>0, <1>1, Numbers DEF One
    <2> QED BY <1>2, <2>1, <2>2, <2>3, Numbers DEF SlotsAccounted, Moves
  <1>6. PeakPursued'
    BY <1>0, <1>2, LoopUntouched DEF Moves
  <1>7. WaitsOnce' /\ InnerCalledInside'
    BY <1>0, <1>2 DEF QueueInv, WaitsOnce, InnerCalledInside, Moves
  <1> QED BY <1>4, <1>5, <1>6, <1>7, <1>2 DEF QueueInv, Moves

LEMMA BlockStep == ASSUME QueueInv, NEW r \in Requests, Block(r) PROVE QueueInv'
  <1>0. UNCHANGED <<request, jobs, totalSubmits, maxConcurrent, currentInflight, cur, prev, peak>>
        /\ blockedSubmits' = blockedSubmits + 1
    BY DEF Block, locals
  <1>1. PICK to \in {"count", "waiting", "done"} :
            /\ Move(r, "full", to)
            /\ sem' = sem + One(to = "count")
            /\ to = "count" => sem < Concurrency
            /\ to = "waiting" => sem = Concurrency
            /\ waiters' = IF to = "waiting" THEN Append(waiters, r) ELSE waiters
    <2>1. CASE Send(r, "full") /\ UNCHANGED waiters BY <2>1 DEF Send, One
    <2>2. CASE /\ sem = Concurrency /\ UNCHANGED sem
               /\ Move(r, "full", "waiting")
               /\ waiters' = Append(waiters, r)
      BY <2>2, Numbers DEF One
    <2>3. CASE Move(r, "full", "done") /\ UNCHANGED <<sem, waiters>> BY <2>3, Numbers DEF One
    <2> QED BY <2>1, <2>2, <2>3 DEF Block
  <1>2. Moves(r, "full", to)
    BY <1>1, Moved DEF Phases
  <1>3. /\ waiters' \in Seq(Requests) /\ NoRepeat(waiters')
        /\ ToSet(waiters') = IF to = "waiting" THEN ToSet(waiters) \cup {r} ELSE ToSet(waiters)
    <2>1. r \notin ToSet(waiters)
      BY <1>1, Numbers DEF Move, In
    <2>2. /\ Append(waiters, r) \in Seq(Requests) /\ NoRepeat(Append(waiters, r))
          /\ ToSet(Append(waiters, r)) = ToSet(waiters) \cup {r}
      BY <2>1, Numbers, EnterQueue
    <2> QED BY <1>1, <2>2, Numbers
  <1>4. sem' \in 0..Concurrency
    BY <1>1, Numbers DEF One
  <1>5. TypeOK'
    <2>1. /\ phase' \in [Requests -> Phases]
          /\ request' \in [Requests -> Inner!RequestStates]
          /\ cur' \in [Requests -> Nat] /\ prev' \in [Requests -> Nat]
      BY <1>0, <1>2, Numbers DEF Moves
    <2>2. {totalSubmits, blockedSubmits, maxConcurrent, currentInflight, peak}' \subseteq Nat
      BY <1>0, Numbers
    <2> QED BY <1>3, <1>4, <2>1, <2>2 DEF TypeOK
  <1>6. IsFiniteSet(In(Holding))' /\ SlotsAccounted'
    <2>1. In({"waiting"})' = IF to = "waiting" THEN In({"waiting"}) \cup {r} ELSE In({"waiting"})
      BY <1>2 DEF In, Moves
    <2>2. sem' = Cardinality(In(Holding))' /\ currentInflight' = Cardinality(In(Counted))'
      <3>1. /\ "full" \notin Holding /\ "full" \notin Counted /\ to \notin Counted
            /\ to \in Holding <=> to = "count"
        BY DEF Holding, Counted
      <3>2. /\ One(to \in Holding) = One(to = "count") /\ One("full" \in Holding) = 0
            /\ One(to \in Counted) = 0 /\ One("full" \in Counted) = 0
            /\ One(to = "count") \in Nat
        BY <3>1 DEF One
      <3>3. /\ Cardinality(In(Holding))' = sem + One(to = "count") - 0
            /\ Cardinality(In(Counted))' = currentInflight + 0 - 0
        BY <1>2, <3>2 DEF Moves
      <3>4. sem \in Nat /\ currentInflight \in Nat
        BY Numbers
      <3> QED BY <1>0, <1>1, <3>2, <3>3, <3>4
    <2>3. waiters' # << >> => sem' = Concurrency
      BY <1>1, Numbers DEF One
    <2>4. ToSet(waiters)' = In({"waiting"})'
      BY <1>3, <2>1, Numbers DEF ToSet
    <2> QED BY <1>2, <2>2, <2>3, <2>4 DEF SlotsAccounted, Moves
  <1>7. PeakPursued'
    BY <1>0, <1>1, <1>2, LoopUntouched DEF Moves
  <1>8. WaitsOnce' /\ InnerCalledInside'
    BY <1>0, <1>1, <1>2, <1>3 DEF QueueInv, WaitsOnce, InnerCalledInside, NoRepeat, Moves, Inner!Pending
  <1> QED BY <1>2, <1>5, <1>6, <1>7, <1>8 DEF QueueInv, Moves

LEMMA GiveUpStep == ASSUME QueueInv, NEW r \in Requests, GiveUp(r) PROVE QueueInv'
  <1>0. UNCHANGED <<request, jobs, sem, totalSubmits, blockedSubmits, maxConcurrent, currentInflight, cur, prev, peak>>
    BY DEF GiveUp, counters, locals
  <1>1. PICK k \in DOMAIN waiters : waiters[k] = r /\ waiters' = RemoveAt(waiters, k)
    BY DEF GiveUp, LeaveQueue
  <1>2. Moves(r, "waiting", "done")
    BY Moved DEF GiveUp, Phases
  <1>3. /\ waiters' \in Seq(Requests) /\ NoRepeat(waiters')
        /\ ToSet(waiters') = ToSet(waiters) \ {r}
        /\ waiters # << >>
    BY <1>1, Numbers, LeaveAt
  <1>4. TypeOK'
    BY <1>0, <1>2, <1>3, Numbers DEF TypeOK, Moves
  <1>5. IsFiniteSet(In(Holding))' /\ SlotsAccounted'
    <2>1. In({"waiting"})' = In({"waiting"}) \ {r}
      BY <1>2 DEF In, Moves
    <2>2. sem' = Cardinality(In(Holding))' /\ currentInflight' = Cardinality(In(Counted))'
      BY <1>0, <1>2, Numbers DEF One, Holding, Counted, Moves
    <2>3. ToSet(waiters)' = In({"waiting"})'
      BY <1>3, <2>1, Numbers DEF ToSet
    <2> QED BY <1>0, <1>2, <1>3, <2>2, <2>3, Numbers DEF SlotsAccounted, Moves
  <1>6. PeakPursued'
    BY <1>0, <1>2, LoopUntouched DEF Moves
  <1>7. WaitsOnce' /\ InnerCalledInside'
    BY <1>0, <1>2, <1>3 DEF QueueInv, WaitsOnce, InnerCalledInside, NoRepeat, Moves, Inner!Pending
  <1> QED BY <1>2, <1>4, <1>5, <1>6, <1>7 DEF QueueInv, Moves

(* A step between two phases that both hold a slot, or both do not, leaves  *)
(* the channel and its waiters as they were.                                *)
LEMMA SlotsUntouched ==
    ASSUME QueueInv, NEW r \in Requests, NEW from, NEW to, Moves(r, from, to),
           UNCHANGED <<sem, waiters>>,
           from \in Holding, to \in Holding,
           currentInflight' = currentInflight + One(to \in Counted) - One(from \in Counted)
    PROVE  /\ IsFiniteSet(In(Holding))'
           /\ SlotsAccounted'
           /\ WaitsOnce'
  <1>1. In({"waiting"})' = In({"waiting"}) /\ ToSet(waiters)' = ToSet(waiters)
    BY DEF In, Moves, ToSet, Holding
  <1>2. sem' = Cardinality(In(Holding))' /\ currentInflight' = Cardinality(In(Counted))'
    BY Numbers DEF One, Moves
  <1> QED BY <1>1, <1>2 DEF QueueInv, SlotsAccounted, WaitsOnce, Moves

(* At most as many are counted as there are slots; one fewer while a call   *)
(* that has a slot is not.                                                  *)
LEMMA CountedFit ==
    ASSUME QueueInv, NEW r \in Requests, phase[r] = "count"
    PROVE  currentInflight + 1 <= Concurrency
  <1>1. /\ IsFiniteSet(In(Holding)) /\ Cardinality(In(Holding)) = sem
        /\ Cardinality(In(Counted)) = currentInflight
    BY DEF QueueInv, SlotsAccounted
  <1>2. r \in In(Holding) /\ r \notin In(Counted) /\ In(Counted) \subseteq In(Holding)
    BY DEF In, Holding, Counted
  <1>3. IsFiniteSet(In(Holding) \ {r}) /\ Cardinality(In(Holding) \ {r}) = sem - 1
    BY <1>1, <1>2, FS_RemoveElement
  <1>4. currentInflight <= sem - 1
    BY <1>1, <1>2, <1>3, FS_Subset
  <1> QED BY <1>4, Numbers

LEMMA CountInStep == ASSUME QueueInv, NEW r \in Requests, CountIn(r) PROVE QueueInv'
  <1>0. /\ UNCHANGED <<request, jobs, sem, waiters, totalSubmits, blockedSubmits, maxConcurrent, prev>>
        /\ currentInflight' = currentInflight + 1
        /\ cur' = [cur EXCEPT ![r] = currentInflight']
        /\ peak' = IF currentInflight' > peak THEN currentInflight' ELSE peak
    BY DEF CountIn
  <1>1. Moves(r, "count", "load")
    BY Moved DEF CountIn, Phases
  <1>2. TypeOK'
    BY <1>0, <1>1, Numbers DEF TypeOK, Moves
  <1>3. IsFiniteSet(In(Holding))' /\ SlotsAccounted' /\ WaitsOnce'
    <2>1. /\ "count" \in Holding /\ "load" \in Holding
          /\ One("load" \in Counted) = 1 /\ One("count" \in Counted) = 0
      BY DEF Holding, Counted, One
    <2>2. currentInflight' = currentInflight + One("load" \in Counted) - One("count" \in Counted)
      BY <1>0, <2>1, Numbers
    <2> QED BY <1>0, <1>1, <2>1, <2>2, SlotsUntouched
  <1>4. InnerCalledInside'
    BY <1>0, <1>1 DEF QueueInv, InnerCalledInside, Moves
  <1>5. PeakPursued'
    <2>1. currentInflight' <= Concurrency /\ currentInflight' \in Nat
      BY <1>0, <1>1, CountedFit, Numbers DEF Moves, QueueInv, TypeOK
    <2>2. /\ In({"load", "swap"})' = In({"load", "swap"}) \cup {r}
          /\ r \notin In({"load", "swap"})
          /\ In({"swap"})' = In({"swap"}) /\ r \notin In({"swap"})
      BY <1>1 DEF In, Moves
    <2>3. cur'[r] = currentInflight' /\ \A q \in Requests \ {r} : cur'[q] = cur[q]
      BY <1>0, Numbers
    <2>4. In({"load", "swap"}) \subseteq Requests /\ In({"swap"}) \subseteq Requests
      BY DEF In
    <2>5. maxConcurrent <= peak' /\ peak <= peak' /\ peak' <= Concurrency /\ cur'[r] <= peak'
      <3>1. peak \in Nat /\ maxConcurrent \in Nat /\ maxConcurrent <= peak /\ peak <= Concurrency
        BY Numbers DEF QueueInv, PeakPursued
      <3>2. /\ peak' \in {peak, currentInflight'}
            /\ peak <= peak' /\ currentInflight' <= peak'
        BY <1>0, <2>1, <3>1
      <3> QED BY <2>1, <2>3, <3>1, <3>2, Numbers
    <2>6. \A q \in In({"load", "swap"})' : cur'[q] <= peak'
      <3> SUFFICES ASSUME NEW q \in In({"load", "swap"}), q # r PROVE cur'[q] <= peak'
        BY <2>2, <2>5
      <3>1. cur[q] \in Nat /\ peak \in Nat /\ peak' \in Nat /\ cur'[q] = cur[q]
        BY <1>2, <2>3, <2>4, Numbers DEF TypeOK
      <3>2. cur[q] <= peak
        BY DEF QueueInv, PeakPursued
      <3> QED BY <2>5, <3>1, <3>2
    <2>7. \A q \in In({"swap"})' : prev'[q] < cur'[q]
      <3>1. In({"swap"}) \subseteq Requests \ {r}
        BY <2>2, <2>4
      <3> QED BY <1>0, <2>2, <2>3, <3>1 DEF QueueInv, PeakPursued
    <2>8. ASSUME maxConcurrent' < peak' PROVE \E q \in In({"load", "swap"})' : cur'[q] = peak'
      <3>1. CASE currentInflight' > peak
        BY <1>0, <2>2, <2>3, <3>1
      <3>2. CASE ~(currentInflight' > peak)
        BY <1>0, <2>2, <2>3, <2>4, <2>8, <3>2 DEF QueueInv, PeakPursued
      <3> QED BY <3>1, <3>2
    <2> QED BY <1>0, <2>5, <2>6, <2>7, <2>8 DEF PeakPursued
  <1> QED BY <1>2, <1>3, <1>4, <1>5 DEF QueueInv

LEMMA LoadMaxStep == ASSUME QueueInv, NEW r \in Requests, LoadMax(r) PROVE QueueInv'
  <1> DEFINE to == IF cur[r] <= maxConcurrent THEN "submit" ELSE "swap"
  <1>0. /\ UNCHANGED <<request, jobs, sem, waiters, totalSubmits, blockedSubmits, maxConcurrent, currentInflight, cur, peak>>
        /\ prev' = [prev EXCEPT ![r] = maxConcurrent]
    BY DEF LoadMax, counters
  <1>1. Moves(r, "load", to)
    BY Moved DEF LoadMax, Phases
  <1>2. TypeOK'
    BY <1>0, <1>1, Numbers DEF TypeOK, Moves
  <1>3. IsFiniteSet(In(Holding))' /\ SlotsAccounted' /\ WaitsOnce'
    BY <1>0, <1>1, SlotsUntouched, Numbers DEF One, Holding, Counted
  <1>4. InnerCalledInside'
    BY <1>0, <1>1 DEF QueueInv, InnerCalledInside, Moves
  <1>5. PeakPursued'
    <2>1. prev'[r] = maxConcurrent /\ \A q \in Requests \ {r} : prev'[q] = prev[q]
      BY <1>0, Numbers
    <2>2. r \in In({"load", "swap"}) /\ In({"load", "swap"}) \subseteq Requests
      BY <1>1 DEF In, Moves
    <2>3. CASE cur[r] <= maxConcurrent
      <3>1. /\ In({"load", "swap"})' = In({"load", "swap"}) \ {r}
            /\ In({"swap"})' = In({"swap"}) \ {r} /\ In({"swap"}) \subseteq Requests
        BY <1>1, <2>3 DEF In, Moves
      <3>2. maxConcurrent < peak => cur[r] # peak
        BY <2>2, <2>3, Numbers
      <3> QED BY <1>0, <2>1, <2>2, <3>1, <3>2, Numbers DEF QueueInv, PeakPursued
    <2>4. CASE ~(cur[r] <= maxConcurrent)
      <3>1. /\ In({"load", "swap"})' = In({"load", "swap"})
            /\ In({"swap"})' = In({"swap"}) \cup {r} /\ In({"swap"}) \subseteq Requests
        BY <1>1, <2>4 DEF In, Moves
      <3>2. prev'[r] < cur[r]
        BY <2>1, <2>4, Numbers
      <3> QED BY <1>0, <2>1, <3>1, <3>2, Numbers DEF QueueInv, PeakPursued
    <2> QED BY <2>3, <2>4
  <1> QED BY <1>2, <1>3, <1>4, <1>5 DEF QueueInv

LEMMA SwapMaxStep == ASSUME QueueInv, NEW r \in Requests, SwapMax(r) PROVE QueueInv'
  <1>0. UNCHANGED <<request, jobs, sem, waiters, totalSubmits, blockedSubmits, currentInflight, cur, prev, peak>>
    BY DEF SwapMax, locals
  <1>1. CASE maxConcurrent = prev[r] /\ maxConcurrent' = cur[r] /\ Move(r, "swap", "submit")
    <2>1. Moves(r, "swap", "submit")
      BY <1>1, Moved DEF Phases
    <2>2. TypeOK'
      BY <1>0, <1>1, <2>1, Numbers DEF TypeOK, Moves
    <2>3. IsFiniteSet(In(Holding))' /\ SlotsAccounted' /\ WaitsOnce'
      BY <1>0, <2>1, SlotsUntouched, Numbers DEF One, Holding, Counted
    <2>4. InnerCalledInside'
      BY <1>0, <2>1 DEF QueueInv, InnerCalledInside, Moves
    <2>5. PeakPursued'
      <3>1. /\ In({"load", "swap"})' = In({"load", "swap"}) \ {r} /\ r \in In({"load", "swap"})
            /\ In({"swap"})' \subseteq In({"swap"})
        BY <2>1 DEF In, Moves
      <3>2. prev[r] < cur[r] /\ cur[r] <= peak /\ maxConcurrent < peak
        BY <1>1, <2>1, <3>1, Numbers DEF QueueInv, PeakPursued, In, Moves
      <3>3. ASSUME maxConcurrent' < peak PROVE \E q \in In({"load", "swap"})' : cur'[q] = peak
        <4>1. PICK q \in In({"load", "swap"}) : cur[q] = peak
          BY <3>2 DEF QueueInv, PeakPursued
        <4>2. q # r
          BY <1>1, <3>3, <4>1, Numbers
        <4> QED BY <1>0, <3>1, <4>1, <4>2
      <3> QED BY <1>0, <1>1, <3>1, <3>2, <3>3 DEF QueueInv, PeakPursued
    <2> QED BY <2>2, <2>3, <2>4, <2>5 DEF QueueInv
  <1>2. CASE UNCHANGED maxConcurrent /\ Move(r, "swap", "load")
    <2>1. Moves(r, "swap", "load")
      BY <1>2, Moved DEF Phases
    <2>2. TypeOK'
      BY <1>0, <1>2, <2>1, Numbers DEF TypeOK, Moves
    <2>3. IsFiniteSet(In(Holding))' /\ SlotsAccounted' /\ WaitsOnce'
      BY <1>0, <2>1, SlotsUntouched, Numbers DEF One, Holding, Counted
    <2>4. InnerCalledInside'
      BY <1>0, <2>1 DEF QueueInv, InnerCalledInside, Moves
    <2>5. /\ In({"load", "swap"})' = In({"load", "swap"})
          /\ In({"swap"})' \subseteq In({"swap"})
      BY <2>1 DEF In, Moves
    <2>6. PeakPursued'
      BY <1>0, <1>2, <2>5 DEF QueueInv, PeakPursued
    <2> QED BY <2>2, <2>3, <2>4, <2>6 DEF QueueInv
  <1> QED BY <1>1, <1>2 DEF SwapMax

(* What the wrapped submitter does to one request.                          *)
LEMMA InnerMoves ==
    ASSUME QueueInv, NEW r \in Requests,
           (request[r] = "none" /\ Inner!Begin({r})) \/ Inner!Progress(r)
    PROVE  /\ request' \in [Requests -> Inner!RequestStates]
           /\ \A q \in Requests \ {r} : request'[q] = request[q]
           /\ \/ request[r] = "none" /\ request'[r] = "begun" /\ jobs' = jobs
              \/ request[r] = "begun" /\ request'[r] = "created" /\ jobs' = jobs \cup {NodeOf[r]}
              \/ request[r] = "begun" /\ request'[r] = "refused" /\ jobs' = jobs
              \/ request[r] = "created" /\ request'[r] \in {"accepted", "failed"} /\ jobs' = jobs
  <1>1. request \in [Requests -> Inner!RequestStates]
    BY Numbers
  <1>2. CASE request[r] = "none" /\ Inner!Begin({r})
    BY <1>1, <1>2 DEF Inner!Begin, Inner!RequestStates, Inner!Pending
  <1>3. CASE Inner!Progress(r)
    BY <1>1, <1>3 DEF Inner!Progress, Inner!Create, Inner!Accept, Inner!Refuse,
       Inner!FailCreated, Inner!Advance, Inner!RequestStates, Inner!Pending, Inner!Errors
  <1> QED BY <1>2, <1>3

LEMMA ForwardStep == ASSUME QueueInv, NEW r \in Requests, Forward(r) PROVE QueueInv'
  <1>0. /\ phase[r] = "submit"
        /\ UNCHANGED <<phase, sem, waiters, totalSubmits, blockedSubmits, maxConcurrent, currentInflight, cur, prev, peak>>
    BY DEF Forward, counters, locals
  <1>1. /\ request' \in [Requests -> Inner!RequestStates]
        /\ \A q \in Requests \ {r} : request'[q] = request[q]
    BY InnerMoves DEF Forward
  <1>2. TypeOK'
    BY <1>0, <1>1 DEF QueueInv, TypeOK
  <1>3. IsFiniteSet(In(Holding))' /\ SlotsAccounted' /\ WaitsOnce' /\ PeakPursued'
    BY <1>0 DEF QueueInv, SlotsAccounted, WaitsOnce, PeakPursued, In, ToSet
  <1>4. InnerCalledInside'
    BY <1>0, <1>1 DEF QueueInv, InnerCalledInside
  <1> QED BY <1>2, <1>3, <1>4 DEF QueueInv

LEMMA CountOutStep == ASSUME QueueInv, NEW r \in Requests, CountOut(r) PROVE QueueInv'
  <1>0. /\ UNCHANGED <<request, jobs, sem, waiters, totalSubmits, blockedSubmits, maxConcurrent, cur, prev, peak>>
        /\ currentInflight' = currentInflight - 1
        /\ request[r] \in {"accepted"} \cup Inner!Errors
    BY DEF CountOut, locals
  <1>1. Moves(r, "submit", "release")
    BY Moved DEF CountOut, Phases
  <1>2. IsFiniteSet(In(Holding))' /\ SlotsAccounted' /\ WaitsOnce'
    <2>1. /\ "submit" \in Holding /\ "release" \in Holding
          /\ One("release" \in Counted) = 0 /\ One("submit" \in Counted) = 1
      BY DEF Holding, Counted, One
    <2>2. currentInflight' = currentInflight + One("release" \in Counted) - One("submit" \in Counted)
      BY <1>0, <2>1, Numbers
    <2> QED BY <1>0, <1>1, <2>1, <2>2, SlotsUntouched
  <1>3. TypeOK'
    <2>1. In(Counted)' \subseteq In(Holding)'
      BY DEF In, Counted, Holding
    <2>2. currentInflight' \in Nat
      BY <1>2, <2>1, FS_Subset, FS_CardinalityType DEF SlotsAccounted
    <2> QED BY <1>0, <1>1, <2>2, Numbers DEF TypeOK, Moves
  <1>4. InnerCalledInside'
    BY <1>0, <1>1 DEF QueueInv, InnerCalledInside, Moves, Inner!Errors, Inner!Pending
  <1>5. PeakPursued'
    BY <1>0, <1>1, LoopUntouched DEF Moves
  <1> QED BY <1>2, <1>3, <1>4, <1>5 DEF QueueInv

(* The slot goes back, or to the head of the queue, who then holds it.      *)
LEMMA ReleaseStep == ASSUME QueueInv, NEW r \in Requests, Release(r) PROVE QueueInv'
  <1>0. /\ phase[r] = "release"
        /\ UNCHANGED <<request, jobs, totalSubmits, blockedSubmits, maxConcurrent, currentInflight, cur, prev, peak>>
    BY DEF Release, counters, locals
  <1>1. CASE waiters = << >>
    <2>1. Moves(r, "release", "done") /\ sem' = sem - 1 /\ waiters' = waiters
      BY <1>1, Moved DEF Release, Move, Phases
    <2>2. sem' = Cardinality(In(Holding))' /\ currentInflight' = Cardinality(In(Counted))'
      BY <1>0, <2>1, Numbers DEF One, Holding, Counted, Moves
    <2>3. sem' \in 0..Concurrency
      <3>1. sem' \in Nat
        BY <2>1, <2>2, FS_CardinalityType DEF Moves
      <3> QED BY <2>1, <3>1, Numbers
    <2>4. TypeOK'
      BY <1>0, <2>1, <2>3, Numbers DEF TypeOK, Moves
    <2>5. In({"waiting"})' = In({"waiting"}) /\ ToSet(waiters)' = ToSet(waiters)
      BY <2>1 DEF In, Moves, ToSet
    <2>6. IsFiniteSet(In(Holding))' /\ SlotsAccounted' /\ WaitsOnce'
      BY <1>1, <2>1, <2>2, <2>5, Numbers DEF SlotsAccounted, WaitsOnce, NoRepeat, Moves
    <2>7. InnerCalledInside'
      BY <1>0, <2>1 DEF QueueInv, InnerCalledInside, Moves
    <2>8. PeakPursued'
      BY <1>0, <2>1, LoopUntouched DEF Moves
    <2> QED BY <2>4, <2>6, <2>7, <2>8 DEF QueueInv
  <1>2. CASE waiters # << >>
    <2> DEFINE h == Head(waiters)
    <2>1. /\ phase' = [phase EXCEPT ![r] = "done", ![h] = "count"]
          /\ waiters' = Tail(waiters) /\ sem' = sem
      BY <1>2 DEF Release
    <2>2. /\ h \in Requests /\ h \in ToSet(waiters)
          /\ waiters' \in Seq(Requests) /\ NoRepeat(waiters')
          /\ ToSet(waiters') = ToSet(waiters) \ {h}
      BY <1>2, <2>1, Numbers, LeaveHead
    <2> HIDE DEF h
    <2>3. phase[h] = "waiting" /\ h # r
      BY <1>0, <2>2, Numbers DEF In
    <2>4. /\ phase' \in [Requests -> Phases]
          /\ phase'[r] = "done" /\ phase'[h] = "count"
          /\ \A q \in Requests \ {r, h} : phase'[q] = phase[q]
      BY <2>1, <2>2, <2>3, Numbers DEF Phases
    <2>5. In(Holding)' = (In(Holding) \ {r}) \cup {h} /\ r \in In(Holding) /\ h \notin In(Holding)
      BY <1>0, <2>2, <2>3, <2>4 DEF In, Holding
    <2>6. IsFiniteSet(In(Holding)) /\ Cardinality(In(Holding)) = sem
      BY DEF QueueInv, SlotsAccounted
    <2>7. IsFiniteSet(In(Holding) \ {r}) /\ Cardinality(In(Holding) \ {r}) = sem - 1
      BY <2>5, <2>6, FS_RemoveElement
    <2>8. IsFiniteSet(In(Holding))' /\ Cardinality(In(Holding))' = sem'
      <3>1. /\ IsFiniteSet((In(Holding) \ {r}) \cup {h})
            /\ Cardinality((In(Holding) \ {r}) \cup {h}) = (sem - 1) + 1
        BY <2>5, <2>7, FS_AddElement
      <3>2. sem \in Int
        BY Numbers
      <3> QED BY <2>1, <2>5, <3>1, <3>2
    <2>9. In(Counted)' = In(Counted) /\ In({"waiting"})' = In({"waiting"}) \ {h}
      BY <1>0, <2>2, <2>3, <2>4 DEF In, Counted
    <2>10. SlotsAccounted'
      <3>1. ToSet(waiters)' = In({"waiting"})'
        BY <2>2, <2>9, Numbers DEF ToSet
      <3> QED BY <1>0, <1>2, <2>1, <2>8, <2>9, <3>1, Numbers DEF QueueInv, SlotsAccounted
    <2>11. TypeOK' /\ WaitsOnce'
      BY <1>0, <2>1, <2>2, <2>4, Numbers DEF TypeOK, WaitsOnce, NoRepeat
    <2>12. InnerCalledInside'
      BY <1>0, <2>2, <2>3, <2>4 DEF QueueInv, InnerCalledInside
    <2>13. In({"load", "swap"})' = In({"load", "swap"}) /\ In({"swap"})' = In({"swap"})
      BY <1>0, <2>2, <2>3, <2>4 DEF In
    <2>14. PeakPursued'
      BY <1>0, <2>13 DEF QueueInv, PeakPursued
    <2> QED BY <2>8, <2>10, <2>11, <2>12, <2>14 DEF QueueInv
  <1> QED BY <1>1, <1>2

LEMMA StutterStep == ASSUME QueueInv, UNCHANGED vars PROVE QueueInv'
  BY DEF vars, counters, locals, QueueInv, TypeOK, In, SlotsAccounted, WaitsOnce,
         InnerCalledInside, PeakPursued, ToSet

-----------------------------------------------------------------------------
(***************************************************************************)
(* The queue's invariant, however many calls and slots there are.          *)
(***************************************************************************)
THEOREM QueueInvariant == Spec => []QueueInv
  <1>1. QueueInv /\ [Next]_vars => QueueInv'
    BY ArriveStep, BlockStep, GiveUpStep, CountInStep, LoadMaxStep, SwapMaxStep, ForwardStep,
       CountOutStep, ReleaseStep, StutterStep DEF Next, Step
  <1>2. Init => QueueInv
    BY InitStep
  <1> QED BY <1>1, <1>2, PTL DEF Spec

(***************************************************************************)
(* The wrapped submitter never sees more than Concurrency calls at once.   *)
(***************************************************************************)
LEMMA Bounded == QueueInv => ConcurrencyBounded
  <1> SUFFICES ASSUME QueueInv PROVE ConcurrencyBounded
    OBVIOUS
  <1>1. Cardinality(In(Holding)) <= Concurrency
    BY Numbers DEF QueueInv, SlotsAccounted
  <1>2. WithInner \subseteq In(Holding)
    BY DEF QueueInv, TypeOK, InnerCalledInside, WithInner, In, Holding, Phases, Inner!Pending
  <1>3. /\ IsFiniteSet(In(Holding))
        /\ Cardinality(In(Holding)) \in Nat
        /\ IsFiniteSet(WithInner)
        /\ Cardinality(WithInner) \in Nat
        /\ Cardinality(WithInner) <= Cardinality(In(Holding))
    BY <1>2, FS_Subset, FS_CardinalityType DEF QueueInv
  <1>4. Cardinality(WithInner) <= Concurrency
    BY <1>1, <1>3, Numbers
  <1> QED BY <1>1, <1>4 DEF QueueInv, ConcurrencyBounded

THEOREM ConcurrencyAlwaysBounded == Spec => []ConcurrencyBounded
  BY Bounded, QueueInvariant, PTL

(***************************************************************************)
(* Stats never forgets a peak for good.                                    *)
(***************************************************************************)
THEOREM PeakAlwaysRecorded == Spec => []PeakRecorded
  <1>1. QueueInv => PeakRecorded
    BY Numbers DEF QueueInv, PeakPursued, PeakRecorded
  <1> QED BY <1>1, QueueInvariant, PTL

-----------------------------------------------------------------------------
(* What the caller of r sees moves as r does, and nobody else's does.       *)
LEMMA OutcomeMoves ==
    ASSUME QueueInv, NEW r \in Requests,
           phase' \in [Requests -> Phases], request' \in [Requests -> Inner!RequestStates],
           \A q \in Requests \ {r} :
               OutcomeOf(phase'[q], request'[q]) = OutcomeOf(phase[q], request[q])
    PROVE  outcome' = [outcome EXCEPT ![r] = OutcomeOf(phase'[r], request'[r])]
  BY DEF outcome

LEMMA OutcomeStays ==
    ASSUME \A q \in Requests : OutcomeOf(phase'[q], request'[q]) = OutcomeOf(phase[q], request[q])
    PROVE  outcome' = outcome
  BY DEF outcome

(* A call that moves between two phases inside Submit, or goes there, or    *)
(* comes out with nothing forwarded.                                        *)
LEMMA MoveRefines ==
    ASSUME QueueInv, NEW r \in Requests, NEW from, NEW to, Moves(r, from, to),
           request' = request, jobs' = jobs,
           \/ from \notin {"none", "done"} /\ to \notin {"none", "done"}
           \/ from = "none" /\ to \notin {"none", "done"}
           \/ from \in {"full", "waiting", "release"} /\ to = "done"
    PROVE  [Outer!SubmitterNext]_<<outcome, jobs>>
  <1>0. /\ request \in [Requests -> Inner!RequestStates]
        /\ phase[r] = from /\ phase'[r] = to
        /\ \A q \in Requests \ {r} : phase'[q] = phase[q]
        /\ phase' \in [Requests -> Phases]
    BY Numbers DEF Moves
  <1>1. outcome' = [outcome EXCEPT ![r] = OutcomeOf(to, request[r])]
    BY <1>0, OutcomeMoves
  <1>2. outcome[r] = OutcomeOf(from, request[r])
    BY <1>0 DEF outcome
  <1>3. CASE from \notin {"none", "done"} /\ to \notin {"none", "done"}
    <2>1. OutcomeOf(to, request[r]) = OutcomeOf(from, request[r])
      BY <1>3 DEF OutcomeOf
    <2> QED BY <1>1, <1>2, <2>1 DEF outcome
  <1>4. CASE from = "none" /\ to \notin {"none", "done"}
    <2>1. request[r] = "none"
      BY <1>0, <1>4 DEF QueueInv, InnerCalledInside
    <2>2. OutcomeOf(to, request[r]) = "begun" /\ outcome[r] = "none"
      BY <1>2, <1>4, <2>1 DEF OutcomeOf
    <2>3. outcome' = [q \in Requests |-> IF q \in {r} THEN "begun" ELSE outcome[q]]
      BY <1>1, <2>2 DEF outcome
    <2>4. Outer!Begin({r})
      BY <2>2, <2>3 DEF Outer!Begin
    <2> QED BY <2>4 DEF Outer!SubmitterNext
  <1>5. CASE from \in {"full", "waiting", "release"} /\ to = "done"
    <2>1. CASE request[r] \in {"none", "refused"}
      <3>1. outcome[r] = "begun" /\ OutcomeOf(to, request[r]) = "refused"
        BY <1>2, <1>5, <2>1 DEF OutcomeOf
      <3>2. Outer!Refuse(r)
        BY <1>1, <3>1 DEF Outer!Refuse, Outer!Advance
      <3> QED BY <3>2 DEF Outer!SubmitterNext, Outer!Progress
    <2>2. CASE request[r] \in {"accepted", "failed"}
      <3>1. outcome[r] = "created" /\ OutcomeOf(to, request[r]) = request[r]
        BY <1>2, <1>5, <2>2 DEF OutcomeOf
      <3>2. Outer!Accept(r) \/ Outer!FailCreated(r)
        BY <1>1, <2>2, <3>1 DEF Outer!Accept, Outer!FailCreated, Outer!Advance
      <3> QED BY <3>2 DEF Outer!SubmitterNext, Outer!Progress
    <2>3. request[r] \in {"none", "refused", "accepted", "failed"}
      BY <1>0, <1>5 DEF QueueInv, InnerCalledInside, Inner!RequestStates, Inner!Pending, Inner!Errors
    <2> QED BY <2>1, <2>2, <2>3
  <1> QED BY <1>3, <1>4, <1>5

LEMMA ForwardRefines ==
    ASSUME QueueInv, NEW r \in Requests, Forward(r)
    PROVE  [Outer!SubmitterNext]_<<outcome, jobs>>
  <1>0. /\ phase[r] = "submit" /\ phase' = phase
        /\ phase \in [Requests -> Phases] /\ request \in [Requests -> Inner!RequestStates]
    BY Numbers DEF Forward
  <1>1. /\ request' \in [Requests -> Inner!RequestStates]
        /\ \A q \in Requests \ {r} : request'[q] = request[q]
        /\ \/ request[r] = "none" /\ request'[r] = "begun" /\ jobs' = jobs
           \/ request[r] = "begun" /\ request'[r] = "created" /\ jobs' = jobs \cup {NodeOf[r]}
           \/ request[r] = "begun" /\ request'[r] = "refused" /\ jobs' = jobs
           \/ request[r] = "created" /\ request'[r] \in {"accepted", "failed"} /\ jobs' = jobs
    BY InnerMoves DEF Forward
  <1>2. outcome' = [outcome EXCEPT ![r] = OutcomeOf("submit", request'[r])]
    BY <1>0, <1>1, OutcomeMoves
  <1>3. outcome[r] = OutcomeOf("submit", request[r])
    BY <1>0 DEF outcome
  <1>4. CASE request[r] = "begun" /\ request'[r] = "created" /\ jobs' = jobs \cup {NodeOf[r]}
    <2>1. outcome[r] = "begun" /\ OutcomeOf("submit", request'[r]) = "created"
      BY <1>3, <1>4 DEF OutcomeOf
    <2>2. Outer!Create(r)
      BY <1>2, <1>4, <2>1 DEF Outer!Create, Outer!Advance
    <2> QED BY <2>2 DEF Outer!SubmitterNext, Outer!Progress
  <1>5. CASE \/ request[r] = "none" /\ request'[r] = "begun" /\ jobs' = jobs
             \/ request[r] = "begun" /\ request'[r] = "refused" /\ jobs' = jobs
             \/ request[r] = "created" /\ request'[r] \in {"accepted", "failed"} /\ jobs' = jobs
    <2>1. OutcomeOf("submit", request'[r]) = OutcomeOf("submit", request[r]) /\ jobs' = jobs
      BY <1>5 DEF OutcomeOf
    <2> QED BY <1>2, <1>3, <2>1 DEF outcome
  <1> QED BY <1>1, <1>4, <1>5

(* A release that hands the slot on ends one call; the waiter stays inside. *)
LEMMA ReleaseRefines ==
    ASSUME QueueInv, NEW r \in Requests, Release(r)
    PROVE  [Outer!SubmitterNext]_<<outcome, jobs>>
  <1>0. phase[r] = "release" /\ request' = request /\ jobs' = jobs
    BY DEF Release
  <1>1. CASE waiters = << >>
    <2>1. Moves(r, "release", "done")
      BY <1>1, Moved DEF Release, Move, Phases
    <2> QED BY <1>0, <2>1, MoveRefines
  <1>2. CASE waiters # << >>
    <2> DEFINE h == Head(waiters)
    <2>1. phase' = [phase EXCEPT ![r] = "done", ![h] = "count"]
      BY <1>2 DEF Release
    <2>2. h \in Requests /\ h \in ToSet(waiters)
      BY <1>2, Numbers, LeaveHead
    <2> HIDE DEF h
    <2>3. phase[h] = "waiting" /\ h # r
      BY <1>0, <2>2, Numbers DEF In
    <2>4. /\ phase' \in [Requests -> Phases]
          /\ phase'[r] = "done" /\ phase'[h] = "count"
          /\ \A q \in Requests \ {r, h} : phase'[q] = phase[q]
      BY <2>1, <2>2, <2>3, Numbers DEF Phases
    <2>5. OutcomeOf("count", request[h]) = OutcomeOf("waiting", request[h])
      BY DEF OutcomeOf
    <2>6. outcome' = [outcome EXCEPT ![r] = OutcomeOf("done", request[r])]
      BY <1>0, <2>2, <2>3, <2>4, <2>5, Numbers, OutcomeMoves
    <2>7. outcome[r] = OutcomeOf("release", request[r])
      BY <1>0 DEF outcome
    <2>8. request[r] \in {"refused", "accepted", "failed"}
      BY <1>0, Numbers
         DEF QueueInv, InnerCalledInside, Inner!RequestStates, Inner!Pending, Inner!Errors
    <2>9. /\ OutcomeOf("done", request[r]) = request[r]
          /\ OutcomeOf("release", request[r]) = IF request[r] = "refused" THEN "begun" ELSE "created"
      BY <2>8 DEF OutcomeOf
    <2>10. Outer!Progress(r)
      BY <1>0, <2>6, <2>7, <2>8, <2>9
         DEF Outer!Progress, Outer!Refuse, Outer!Accept, Outer!FailCreated, Outer!Advance
    <2> QED BY <2>10 DEF Outer!SubmitterNext
  <1> QED BY <1>1, <1>2

(***************************************************************************)
(* The queue is itself a NodeSubmitter: whoever submits through it gets    *)
(* what it would get from the one it wraps, or an error and no job.        *)
(***************************************************************************)
THEOREM QueueImplementsNodeSubmitter == Spec => ImplementsNodeSubmitter
  <1>1. Init => Outer!SubmitterInit
    BY DEF Init, Inner!SubmitterInit, Outer!SubmitterInit, outcome, OutcomeOf
  <1>2. QueueInv /\ [Next]_vars => [Outer!SubmitterNext]_<<outcome, jobs>>
    <2> SUFFICES ASSUME QueueInv, [Next]_vars PROVE [Outer!SubmitterNext]_<<outcome, jobs>>
      OBVIOUS
    <2>1. ASSUME NEW r \in Requests, Arrive(r) PROVE [Outer!SubmitterNext]_<<outcome, jobs>>
      <3>1. (\E to \in {"count", "full"} : Move(r, "none", to)) /\ request' = request /\ jobs' = jobs
        BY <2>1 DEF Arrive, Send
      <3> QED BY <3>1, Moved, MoveRefines DEF Phases
    <2>2. ASSUME NEW r \in Requests, Block(r) PROVE [Outer!SubmitterNext]_<<outcome, jobs>>
      <3>1. /\ \E to \in {"count", "waiting", "done"} : Move(r, "full", to)
            /\ request' = request /\ jobs' = jobs
        BY <2>2 DEF Block, Send
      <3> QED BY <3>1, Moved, MoveRefines DEF Phases
    <2>3. ASSUME NEW r \in Requests, GiveUp(r) PROVE [Outer!SubmitterNext]_<<outcome, jobs>>
      <3>1. Move(r, "waiting", "done") /\ request' = request /\ jobs' = jobs
        BY <2>3 DEF GiveUp
      <3> QED BY <3>1, Moved, MoveRefines DEF Phases
    <2>4. ASSUME NEW r \in Requests, CountIn(r) \/ LoadMax(r) \/ SwapMax(r) \/ CountOut(r)
          PROVE  [Outer!SubmitterNext]_<<outcome, jobs>>
      <3>1. /\ \E from, to \in {"count", "load", "swap", "submit", "release"} : Move(r, from, to)
            /\ request' = request /\ jobs' = jobs
        BY <2>4 DEF CountIn, LoadMax, SwapMax, CountOut
      <3> QED BY <3>1, Moved, MoveRefines DEF Phases
    <2>5. CASE UNCHANGED vars
      BY <2>5 DEF vars, outcome
    <2> QED BY <2>1, <2>2, <2>3, <2>4, <2>5, ForwardRefines, ReleaseRefines DEF Next, Step
  <1> QED BY <1>1, <1>2, QueueInvariant, PTL DEF Spec, ImplementsNodeSubmitter, Outer!SubmitterSpec

-----------------------------------------------------------------------------
(***************************************************************************)
(* Not everyone waits for everyone: while some call has not returned, one  *)
(* of them is at a step that nothing blocks.                               *)
(***************************************************************************)
SomebodyGoesOn ==
    In({"none", "done"}) # Requests => In(Holding \cup {"full"}) # {}

(***************************************************************************)
(* Who waits on the channel does so because every slot is held, and those  *)
(* who hold one never wait for anything of the queue.  That the waiters    *)
(* get the slots in the end is SubmitsReturn, which TLC checks.            *)
(***************************************************************************)
THEOREM SomebodyAlwaysGoesOn == Spec => []SomebodyGoesOn
  <1>1. ASSUME QueueInv PROVE SomebodyGoesOn
    <2> SUFFICES ASSUME In({"none", "done"}) # Requests PROVE In(Holding \cup {"full"}) # {}
      BY DEF SomebodyGoesOn
    <2>1. PICK r \in Requests : phase[r] \notin {"none", "done"}
      BY DEF In
    <2>2. phase[r] \in Holding \cup {"full", "waiting"}
      BY <1>1, <2>1, Numbers DEF Phases, Holding
    <2>3. CASE phase[r] = "waiting"
      <3>1. r \in ToSet(waiters)
        BY <1>1, <2>3, Numbers DEF In
      <3>2. waiters # << >>
        BY <3>1 DEF ToSet
      <3>3. Cardinality(In(Holding)) = Concurrency
        BY <1>1, <3>2, Numbers DEF QueueInv, SlotsAccounted
      <3>4. Concurrency # 0
        BY ConcurrencyAssumption
      <3>5. In(Holding) # {}
        BY <3>3, <3>4, FS_EmptySet
      <3> QED BY <3>5 DEF In
    <2>4. CASE phase[r] # "waiting"
      BY <2>2, <2>4 DEF In
    <2> QED BY <2>3, <2>4
  <1> QED BY <1>1, QueueInvariant, PTL
=============================================================================
