-------------------------- MODULE PipelinesProofs --------------------------
(***************************************************************************)
(* The invariant of Pipelines, and what follows from it, for any number of *)
(* executions of any pipelines, whatever the volume holds.  First the      *)
(* names of the Jobs, for every prefix, run ID, node and limit: they fit,  *)
(* the nodes of a run are told apart even when the run's ID is cut, and a  *)
(* name that is not cut tells the run as well.  Last the pipelines of the  *)
(* commands: what the theorems ask of a pipeline is so of each of them,    *)
(* however wide its fan-outs are.                                          *)
(***************************************************************************)
EXTENDS Pipelines, Commands, SequenceTheorems, TLAPS

(* What the symbols of names are: strings, one of which the prover does not *)
(* know to be a string.                                                     *)
Symbol == STRING \cup {"-"}

LEMMA Dash == <<"-">> \in Seq(Symbol) /\ Len(<<"-">>) = 1 /\ <<"-">>[1] = "-"
  <1>1. Append(<<>>, "-") \in Seq(Symbol)
    BY EmptySeq, AppendProperties DEF Symbol
  <1>2. <<"-">> = Append(<<>>, "-")
    OBVIOUS
  <1>3. Len(<<"-">>) = 1 /\ <<"-">>[1] = "-"
    OBVIOUS
  <1> QED BY <1>1, <1>2, <1>3

(* A sequence is two others, one after the other.                          *)
Concat(x, a, b) ==
    /\ x \in Seq(Symbol)
    /\ Len(x) = Len(a) + Len(b)
    /\ \A i \in 1..(Len(a) + Len(b)) : x[i] = IF i <= Len(a) THEN a[i] ELSE b[i - Len(a)]

LEMMA Concats ==
    ASSUME NEW a \in Seq(Symbol), NEW b \in Seq(Symbol)
    PROVE  Concat(a \o b, a, b)
  BY ConcatProperties DEF Concat

(* The symbols of a name are those of its three parts, in order.            *)
Parts(x, p, r, n) ==
           /\ x \in Seq(Symbol)
           /\ Len(x) = Len(p) + Len(r) + 1 + Len(n)
           /\ \A i \in 1..Len(p) : x[i] = p[i]
           /\ \A i \in 1..Len(r) : x[Len(p) + i] = r[i]
           /\ x[Len(p) + Len(r) + 1] = "-"
           /\ \A i \in 1..Len(n) : x[Len(p) + Len(r) + 1 + i] = n[i]
LEMMA Symbols ==
    ASSUME NEW p \in Seq(Symbol), NEW r \in Seq(Symbol), NEW n \in Seq(Symbol)
    PROVE  Parts(p \o r \o Suffix(n), p, r, n)
  <1>1. PICK d : d = <<"-">>
    OBVIOUS
  <1>2. PICK pr : pr = p \o r
    OBVIOUS
  <1>3. PICK s : s = d \o n
    OBVIOUS
  <1>4. PICK x : x = pr \o s
    OBVIOUS
  <1>5. x = p \o r \o Suffix(n)
    BY <1>1, <1>2, <1>3, <1>4 DEF Suffix
  <1>6. d \in Seq(Symbol) /\ Len(d) = 1 /\ d[1] = "-"
    BY Dash, <1>1
  <1>7. /\ pr \in Seq(Symbol)
        /\ Len(pr) = Len(p) + Len(r)
        /\ \A i \in 1..(Len(p) + Len(r)) : pr[i] = IF i <= Len(p) THEN p[i] ELSE r[i - Len(p)]
    <2>1. Concat(pr, p, r)
      BY Concats, <1>2
    <2> QED BY <2>1 DEF Concat
  <1>8. /\ s \in Seq(Symbol)
        /\ Len(s) = 1 + Len(n)
        /\ \A i \in 1..(1 + Len(n)) : s[i] = IF i <= 1 THEN d[i] ELSE n[i - 1]
    <2>1. Concat(s, d, n)
      BY Concats, <1>3, <1>6
    <2> QED BY <1>6, <2>1 DEF Concat
  <1>9. /\ x \in Seq(Symbol)
        /\ Len(x) = Len(pr) + Len(s)
        /\ \A i \in 1..(Len(pr) + Len(s)) : x[i] = IF i <= Len(pr) THEN pr[i] ELSE s[i - Len(pr)]
    <2>1. Concat(x, pr, s)
      BY Concats, <1>4, <1>7, <1>8
    <2> QED BY <2>1 DEF Concat
  <1>10. Len(p) \in Nat /\ Len(r) \in Nat /\ Len(n) \in Nat
    BY LenProperties
  <1>11. Len(x) = Len(p) + Len(r) + 1 + Len(n)
    BY <1>7, <1>8, <1>9, <1>10
  <1>12. ASSUME NEW i \in 1..Len(p) PROVE x[i] = p[i]
    BY <1>7, <1>8, <1>9, <1>10
  <1>13. ASSUME NEW i \in 1..Len(r) PROVE x[Len(p) + i] = r[i]
    <2>1. /\ Len(p) + i \in 1..(Len(p) + Len(r))
          /\ ~(Len(p) + i <= Len(p))
          /\ (Len(p) + i) - Len(p) = i
      BY <1>10
    <2>2. Len(p) + i \in 1..(Len(pr) + Len(s)) /\ Len(p) + i <= Len(pr)
      BY <1>7, <1>8, <1>10
    <2> QED BY <1>7, <1>9, <2>1, <2>2
  <1>14. x[Len(p) + Len(r) + 1] = "-"
    <2>1. PICK j : j = Len(p) + Len(r) + 1
      OBVIOUS
    <2>2. /\ j \in 1..(Len(pr) + Len(s))
          /\ ~(j <= Len(pr))
          /\ j - Len(pr) = 1
          /\ 1 \in 1..(1 + Len(n))
      BY <1>7, <1>8, <1>10, <2>1
    <2> QED BY <1>6, <1>8, <1>9, <2>1, <2>2
  <1>15. ASSUME NEW i \in 1..Len(n) PROVE x[Len(p) + Len(r) + 1 + i] = n[i]
    <2>1. PICK j : j = Len(p) + Len(r) + 1 + i
      OBVIOUS
    <2>2. /\ j \in 1..(Len(pr) + Len(s))
          /\ ~(j <= Len(pr))
          /\ j - Len(pr) = 1 + i
          /\ 1 + i \in 1..(1 + Len(n))
          /\ ~(1 + i <= 1)
          /\ (1 + i) - 1 = i
      BY <1>7, <1>8, <1>10, <2>1
    <2> QED BY <1>8, <1>9, <2>1, <2>2
  <1> QED BY <1>5, <1>9, <1>11, <1>12, <1>13, <1>14, <1>15 DEF Parts

(* Two names with one prefix are the same.                                  *)
SameNames(p, r, m, q, n) == p \o r \o Suffix(m) = p \o q \o Suffix(n)

(* Lengths, which the provers compare better without the sequences.         *)
LEMMA LongerByK ==
    ASSUME NEW a \in Nat, NEW b \in Nat, NEW c \in Nat, NEW d \in Nat, NEW e \in Nat,
           a + b + 1 + d = a + c + 1 + e, d > e
    PROVE  d - e \in 1..d /\ c = b + (d - e) /\ d = e + (d - e)
  OBVIOUS

(* A longer node's name whose end is the other one's could be mistaken.     *)
LEMMA LongerIsConfusable ==
    ASSUME NEW p \in Seq(Symbol), NEW r \in Seq(Symbol), NEW q \in Seq(Symbol),
           NEW m \in Seq(Symbol), NEW n \in Seq(Symbol),
           SameNames(p, r, m, q, n), Len(m) > Len(n)
    PROVE  Confusable(m, n)
  <1>1. PICK x : x = p \o r \o Suffix(m)
    OBVIOUS
  <1>2. PICK k : k = Len(m) - Len(n)
    OBVIOUS
  <1>3. Parts(x, p, r, m)
    BY <1>1, Symbols
  <1>4. Parts(x, p, q, n)
    BY <1>1, Symbols DEF SameNames
  <1>5. Len(p) \in Nat /\ Len(r) \in Nat /\ Len(q) \in Nat /\ Len(m) \in Nat /\ Len(n) \in Nat
    BY LenProperties
  <1>6. k \in 1..Len(m) /\ Len(q) = Len(r) + k /\ Len(m) = Len(n) + k
    <2>1. Len(p) + Len(r) + 1 + Len(m) = Len(p) + Len(q) + 1 + Len(n)
      BY <1>3, <1>4 DEF Parts
    <2>2. PICK a \in Nat, b \in Nat, c \in Nat, d \in Nat, e \in Nat :
              a = Len(p) /\ b = Len(r) /\ c = Len(q) /\ d = Len(m) /\ e = Len(n)
      BY <1>5
    <2>3. a + b + 1 + d = a + c + 1 + e /\ d > e
      BY <2>1, <2>2
    <2>4. d - e \in 1..d /\ c = b + (d - e) /\ d = e + (d - e)
      BY <2>3, LongerByK
    <2> QED BY <1>2, <2>2, <2>4
  <1>7. m[k] = "-"
    <2>1. Len(p) + Len(r) + 1 + k = Len(p) + Len(q) + 1
      BY <1>5, <1>6
    <2> QED BY <1>3, <1>4, <1>6, <2>1 DEF Parts
  <1>8. SubSeq(m, k + 1, Len(m)) = n
    <2> DEFINE t == SubSeq(m, k + 1, Len(m))
    <2>1. \A i \in (k + 1)..Len(m) : m[i] \in Symbol
      BY <1>5, <1>6, ElementOfSeq
    <2>2. k + 1 \in Int /\ Len(m) \in Int
      BY <1>5, <1>6
    <2>3. /\ t \in Seq(Symbol)
          /\ Len(t) = IF k + 1 <= Len(m) THEN Len(m) - (k + 1) + 1 ELSE 0
          /\ \A i \in 1..(Len(m) - (k + 1) + 1) : t[i] = m[(k + 1) + i - 1]
      BY <2>1, <2>2, SubSeqProperties
    <2> HIDE DEF t
    <2>4. Len(t) = Len(n)
      BY <1>5, <1>6, <2>3
    <2>5. ASSUME NEW i \in 1..Len(t) PROVE t[i] = n[i]
      <3>1. /\ i \in 1..(Len(m) - (k + 1) + 1)
            /\ (k + 1) + i - 1 = k + i
            /\ k + i \in 1..Len(m)
            /\ i \in 1..Len(n)
        BY <1>5, <1>6, <2>4
      <3>2. t[i] = m[k + i]
        BY <2>3, <3>1
      <3>3. Len(p) + Len(r) + 1 + (k + i) = Len(p) + Len(q) + 1 + i
        BY <1>5, <1>6
      <3>4. m[k + i] = x[Len(p) + Len(r) + 1 + (k + i)]
        BY <1>3, <3>1 DEF Parts
      <3> QED BY <1>4, <3>1, <3>2, <3>3, <3>4 DEF Parts
    <2>6. t = n
      BY <2>3, <2>4, <2>5, SeqEqual
    <2> QED BY <2>6 DEF t
  <1> QED BY <1>6, <1>7, <1>8 DEF Confusable

(* Names with one prefix, of nodes that cannot be mistaken, tell the node   *)
(* and what was kept of the run's ID.                                       *)
LEMMA NamesTell ==
    ASSUME NEW p \in Seq(Symbol), NEW r \in Seq(Symbol), NEW q \in Seq(Symbol),
           NEW m \in Seq(Symbol), NEW n \in Seq(Symbol),
           ~Confusable(m, n), ~Confusable(n, m), SameNames(p, r, m, q, n)
    PROVE  m = n /\ r = q
  <1>1. PICK x : x = p \o r \o Suffix(m)
    OBVIOUS
  <1>2. Parts(x, p, r, m)
    BY <1>1, Symbols
  <1>3. Parts(x, p, q, n)
    BY <1>1, Symbols DEF SameNames
  <1>4. Len(p) \in Nat /\ Len(r) \in Nat /\ Len(q) \in Nat /\ Len(m) \in Nat /\ Len(n) \in Nat
    BY LenProperties
  <1>5. ~(Len(m) > Len(n)) /\ ~(Len(n) > Len(m))
    <2>1. SameNames(p, q, n, r, m)
      BY DEF SameNames
    <2> QED BY <2>1, LongerIsConfusable
  <1>6. Len(m) = Len(n) /\ Len(r) = Len(q)
    BY <1>2, <1>3, <1>4, <1>5 DEF Parts
  <1>7. m = n
    <2>1. \A i \in 1..Len(m) : m[i] = n[i]
      BY <1>2, <1>3, <1>6 DEF Parts
    <2> QED BY <1>6, <2>1, SeqEqual
  <1>8. r = q
    <2>1. \A i \in 1..Len(r) : r[i] = q[i]
      BY <1>2, <1>3, <1>6 DEF Parts
    <2> QED BY <1>6, <2>1, SeqEqual
  <1> QED BY <1>7, <1>8

-----------------------------------------------------------------------------
(* How much of a run's ID its Job's names keep.                             *)
Kept(prefix, runID, n) ==
    IF Fits(prefix, runID, n) THEN runID ELSE SubSeq(runID, 1, Room(prefix, n))

LEMMA NameParts ==
    ASSUME NEW p \in Seq(Symbol), NEW r \in Seq(Symbol), NEW n \in Seq(Symbol),
           r # <<>> \/ Fits(p, r, n)
    PROVE  /\ Kept(p, r, n) \in Seq(Symbol)
           /\ JobName(p, r, n) = p \o Kept(p, r, n) \o Suffix(n)
           /\ Len(p) + Len(Suffix(n)) < NameLimit => Len(JobName(p, r, n)) <= NameLimit
  <1>1. NameLimit \in Nat
    BY NameLimitAssumption
  <1>2. Len(p) \in Nat /\ Len(r) \in Nat /\ Len(n) \in Nat
    BY LenProperties
  <1>3. Len(Suffix(n)) = 1 + Len(n)
    <2>1. PICK d : d = <<"-">>
      OBVIOUS
    <2>2. d \in Seq(Symbol) /\ Len(d) = 1
      BY Dash, <2>1
    <2>3. Concat(d \o n, d, n)
      BY Concats, <2>2
    <2> QED BY <2>1, <2>2, <2>3 DEF Concat, Suffix
  <1>4. JobName(p, r, n) = p \o Kept(p, r, n) \o Suffix(n)
    BY DEF JobName, Kept
  <1>5. CASE Fits(p, r, n)
    <2>1. Kept(p, r, n) = r
      BY <1>5 DEF Kept
    <2>2. Len(JobName(p, r, n)) = Len(p) + Len(r) + 1 + Len(n)
      <3>1. Parts(p \o r \o Suffix(n), p, r, n)
        BY Symbols
      <3> QED BY <1>4, <2>1, <3>1 DEF Parts
    <2>3. Len(JobName(p, r, n)) <= NameLimit
      BY <1>1, <1>2, <1>3, <1>5, <2>2 DEF Fits
    <2> QED BY <1>4, <2>1, <2>3
  <1>6. CASE ~Fits(p, r, n)
    <2> DEFINE k == Room(p, n)
               t == SubSeq(r, 1, k)
    <2>1. Len(r) >= 1
      BY <1>2, <1>6, EmptySeq
    <2>2. k \in Int /\ 1 <= k /\ k <= Len(r)
      BY <1>1, <1>2, <1>3, <1>6, <2>1 DEF Room, Fits
    <2>3. Len(p) + Len(Suffix(n)) < NameLimit => Len(p) + k + 1 + Len(n) = NameLimit
      BY <1>1, <1>2, <1>3 DEF Room
    <2> HIDE DEF k
    <2>4. \A i \in 1..k : r[i] \in Symbol
      BY <1>2, <2>2, ElementOfSeq
    <2>5. t \in Seq(Symbol) /\ Len(t) = k
      <3>1. t \in Seq(Symbol) /\ Len(t) = IF 1 <= k THEN k - 1 + 1 ELSE 0
        BY <2>2, <2>4, SubSeqProperties
      <3> QED BY <2>2, <3>1
    <2>6. Kept(p, r, n) = t
      BY <1>6 DEF Kept, k
    <2> HIDE DEF t
    <2>7. Len(JobName(p, r, n)) = Len(p) + k + 1 + Len(n)
      <3>1. Parts(p \o t \o Suffix(n), p, t, n)
        BY <2>5, Symbols
      <3> QED BY <1>4, <2>5, <2>6, <3>1 DEF Parts
    <2> QED BY <1>1, <1>4, <2>3, <2>5, <2>6, <2>7
  <1> QED BY <1>5, <1>6

(* A Job's name is never longer than the limit, if that leaves room for one *)
(* symbol of the run's ID.                                                  *)
THEOREM NamesFit ==
    ASSUME NEW p \in Seq(Symbol), NEW r \in Seq(Symbol), NEW n \in Seq(Symbol),
           r # <<>>, Len(p) + Len(Suffix(n)) < NameLimit
    PROVE  Len(JobName(p, r, n)) <= NameLimit
  BY NameParts

(* "So all nodes remain distinguishable", the comment of nodeRunID: two     *)
(* nodes of a run have two names, even when the run's ID is cut.            *)
THEOREM NodesRemainDistinguishable ==
    ASSUME NEW p \in Seq(Symbol), NEW r \in Seq(Symbol), NEW nodes \in SUBSET Seq(Symbol),
           Distinguishable(nodes), NEW m \in nodes, NEW n \in nodes,
           r # <<>> \/ (Fits(p, r, m) /\ Fits(p, r, n)),
           JobName(p, r, m) = JobName(p, r, n)
    PROVE  m = n
  <1>1. m \in Seq(Symbol) /\ n \in Seq(Symbol)
    OBVIOUS
  <1>2. ~Confusable(m, n) /\ ~Confusable(n, m)
    BY DEF Distinguishable
  <1>3. Kept(p, r, m) \in Seq(Symbol) /\ JobName(p, r, m) = p \o Kept(p, r, m) \o Suffix(m)
    BY <1>1, NameParts
  <1>4. Kept(p, r, n) \in Seq(Symbol) /\ JobName(p, r, n) = p \o Kept(p, r, n) \o Suffix(n)
    BY <1>1, NameParts
  <1>5. PICK a \in Seq(Symbol), b \in Seq(Symbol) : SameNames(p, a, m, b, n)
    BY <1>3, <1>4 DEF SameNames
  <1> QED BY <1>1, <1>2, <1>5, NamesTell

(* A name that was not cut tells the run: two runs whose names fit never    *)
(* meet.  Nothing of the kind holds for two runs whose names are cut.       *)
THEOREM UncutNamesTellRuns ==
    ASSUME NEW p \in Seq(Symbol), NEW r \in Seq(Symbol), NEW q \in Seq(Symbol),
           NEW nodes \in SUBSET Seq(Symbol), Distinguishable(nodes),
           NEW m \in nodes, NEW n \in nodes,
           Fits(p, r, m), Fits(p, q, n), JobName(p, r, m) = JobName(p, q, n)
    PROVE  r = q /\ m = n
  <1>1. m \in Seq(Symbol) /\ n \in Seq(Symbol)
    OBVIOUS
  <1>2. ~Confusable(m, n) /\ ~Confusable(n, m)
    BY DEF Distinguishable
  <1>3. JobName(p, r, m) = p \o r \o Suffix(m) /\ JobName(p, q, n) = p \o q \o Suffix(n)
    BY DEF JobName
  <1>4. SameNames(p, r, m, q, n)
    BY <1>3 DEF SameNames
  <1> QED BY <1>1, <1>2, <1>4, NamesTell

-----------------------------------------------------------------------------
(* PipelinesInv, and what the constants say of the two variables it leaves. *)
IInv == PipelinesInv /\ cmd \in Workloads /\ DOMAIN file = Paths

(* What an execution's command brings with it.                              *)
LEMMA Programmes ==
    ASSUME PipelinesTypeOK, NEW e \in Executions
    PROVE  /\ cmd[e] \in [program : Programs, run : Seq(STRING)]
           /\ WellFormed(The(e))
  BY PlanAssumption DEF PipelinesTypeOK, The

LEMMA Symbolic ==
    ASSUME PipelinesTypeOK, NEW e \in Executions
    PROVE  /\ cmd[e].run \in Seq(Symbol)
           /\ The(e).prefix \in Seq(Symbol) /\ Len(The(e).prefix) = 1
           /\ Nodes(e) \in SUBSET Seq(Symbol)
  <1>1. STRING \subseteq Symbol
    BY DEF Symbol
  <1>2. \A s \in Seq(STRING) : s \in Seq(Symbol)
    BY <1>1, SeqMonotonic
  <1>3. cmd[e].run \in Seq(STRING)
    BY Programmes
  <1>4. WellFormed(The(e))
    BY Programmes
  <1> QED BY <1>2, <1>3, <1>4 DEF WellFormed, Nodes

(* A pipeline has one first node.                                           *)
LEMMA OneFirst ==
    ASSUME PipelinesTypeOK, NEW e \in Executions
    PROVE  \E first \in Nodes(e) : \A n \in Nodes(e) : Parents(e, n) = {} <=> n = first
  BY Programmes DEF WellFormed, Nodes, Parents

LEMMA ParentsAreNodes ==
    ASSUME PipelinesTypeOK, NEW e \in Executions, NEW n \in Nodes(e)
    PROVE  Parents(e, n) \subseteq Nodes(e)
  BY Programmes DEF WellFormed, Nodes, Parents

LEMMA Tellable ==
    ASSUME PipelinesTypeOK, NEW e \in Executions, NEW f \in Executions,
           The(e).prefix = The(f).prefix
    PROVE  Distinguishable(Nodes(e) \cup Nodes(f))
  BY Programmes, PlanAssumption DEF Nodes, The

LEMMA ShortNames ==
    ASSUME IInv, NEW e \in Executions, NEW n \in Nodes(e)
    PROVE  cmd[e].run # <<>> \/ Fits(The(e).prefix, cmd[e].run, n)
  BY WorkloadAssumption DEF IInv, Nodes, The

-----------------------------------------------------------------------------
(* A Job's name begins with the symbol of its program.                      *)
LEMMA FirstSymbol ==
    ASSUME IInv, NEW e \in Executions, NEW n \in Nodes(e)
    PROVE  JobOf(e, n)[1] = The(e).prefix[1]
  <1> DEFINE k == Kept(The(e).prefix, cmd[e].run, n)
  <1>1. PipelinesTypeOK
    BY DEF IInv, PipelinesInv
  <1>2. PICK p \in Seq(Symbol), r \in Seq(Symbol), m \in Seq(Symbol) :
            p = The(e).prefix /\ r = cmd[e].run /\ m = n /\ Len(p) = 1
    BY <1>1, Symbolic
  <1>3. r # <<>> \/ Fits(p, r, m)
    BY <1>2, ShortNames
  <1>4. Kept(p, r, m) \in Seq(Symbol) /\ JobName(p, r, m) = p \o Kept(p, r, m) \o Suffix(m)
    BY <1>3, NameParts
  <1>5. Parts(JobName(p, r, m), p, Kept(p, r, m), m)
    BY <1>4, Symbols
  <1>6. JobName(p, r, m)[1] = p[1]
    BY <1>2, <1>5 DEF Parts
  <1> QED BY <1>2, <1>6 DEF JobOf

(* Jobs of one name are of programs with one prefix.                        *)
LEMMA SamePrefix ==
    ASSUME IInv, NEW e \in Executions, NEW n \in Nodes(e),
           NEW f \in Executions, NEW m \in Nodes(f), JobOf(e, n) = JobOf(f, m)
    PROVE  The(e).prefix = The(f).prefix
  <1>1. PICK p \in Seq(Symbol), q \in Seq(Symbol) :
            p = The(e).prefix /\ q = The(f).prefix /\ Len(p) = 1 /\ Len(q) = 1
    BY Symbolic DEF IInv, PipelinesInv
  <1>2. p[1] = q[1]
    BY <1>1, FirstSymbol
  <1>3. \A i \in 1..Len(p) : p[i] = q[i]
    BY <1>1, <1>2
  <1>4. p = q
    BY <1>1, <1>3, SeqEqual
  <1> QED BY <1>1, <1>4

(* Two nodes of an execution have two names.                                *)
LEMMA OwnNamesDiffer ==
    ASSUME IInv, NEW e \in Executions, NEW n \in Nodes(e), NEW m \in Nodes(e),
           JobOf(e, n) = JobOf(e, m)
    PROVE  n = m
  <1>1. PipelinesTypeOK
    BY DEF IInv, PipelinesInv
  <1>2. PICK p \in Seq(Symbol), r \in Seq(Symbol), nodes \in SUBSET Seq(Symbol) :
            p = The(e).prefix /\ r = cmd[e].run /\ nodes = Nodes(e)
    BY <1>1, Symbolic
  <1>3. Distinguishable(nodes)
    BY <1>1, <1>2, Tellable
  <1>4. r # <<>> \/ (Fits(p, r, n) /\ Fits(p, r, m))
    BY <1>2, ShortNames
  <1>5. JobName(p, r, n) = JobName(p, r, m)
    BY <1>2 DEF JobOf
  <1>6. n \in nodes /\ m \in nodes
    BY <1>2
  <1> QED BY <1>3, <1>4, <1>5, <1>6, NodesRemainDistinguishable

(* A name that is taken is taken by an execution it can be shared with.     *)
LEMMA TakenByAnother ==
    ASSUME IInv, NEW e \in Executions, NEW n \in Nodes(e),
           job[e][n] = "none", ~NameFree(JobOf(e, n))
    PROVE  \E f \in Executions : SharesName(e, f, n)
  <1>1. PICK f \in Executions : \E m \in Nodes(f) : job[f][m] # "none" /\ JobOf(f, m) = JobOf(e, n)
    BY DEF NameFree
  <1>2. PICK m \in Nodes(f) : job[f][m] # "none" /\ JobOf(f, m) = JobOf(e, n)
    BY <1>1
  <1>3. PipelinesTypeOK /\ IdleHasNothing
    BY DEF IInv, PipelinesInv
  <1>4. f # e
    BY <1>2, OwnNamesDiffer
  <1>5. phase[f] # "idle"
    BY <1>2, <1>3 DEF IdleHasNothing
  <1>6. The(e).prefix = The(f).prefix
    BY <1>2, SamePrefix
  <1>7. ASSUME Fits(The(e).prefix, cmd[e].run, n), Fits(The(f).prefix, cmd[f].run, m)
        PROVE  cmd[f].run = cmd[e].run
    <2>1. PICK p \in Seq(Symbol), r \in Seq(Symbol), q \in Seq(Symbol) :
              p = The(e).prefix /\ r = cmd[e].run /\ q = cmd[f].run
      BY <1>3, Symbolic
    <2>2. PICK nodes \in SUBSET Seq(Symbol) : nodes = Nodes(e) \cup Nodes(f)
      BY <1>3, Symbolic
    <2>3. Distinguishable(nodes) /\ n \in nodes /\ m \in nodes
      BY <1>3, <1>6, <2>2, Tellable
    <2>4. Fits(p, r, n) /\ Fits(p, q, m) /\ JobName(p, r, n) = JobName(p, q, m)
      BY <1>2, <1>6, <1>7, <2>1 DEF JobOf
    <2>5. r = q
      BY <2>3, <2>4, UncutNamesTellRuns
    <2> QED BY <2>1, <2>5
  <1> QED BY <1>2, <1>4, <1>5, <1>6, <1>7 DEF SharesName

-----------------------------------------------------------------------------
(* What a step does to the Jobs and the nodes.                              *)

NodeBecomes(e, n, state) ==
    /\ DOMAIN node' = Executions
    /\ \A f \in Executions :
          /\ node'[f] \in [Nodes(f) -> NodeStates]
          /\ \A m \in Nodes(f) : node'[f][m] = IF f = e /\ m = n THEN state ELSE node[f][m]

JobBecomes(e, n, state) ==
    /\ DOMAIN job' = Executions
    /\ \A f \in Executions :
          /\ job'[f] \in [Nodes(f) -> JobStates]
          /\ \A m \in Nodes(f) : job'[f][m] = IF f = e /\ m = n THEN state ELSE job[f][m]

LEMMA SetNodeDoes ==
    ASSUME PipelinesTypeOK, NEW e \in Executions, NEW n \in Nodes(e), NEW s \in NodeStates,
           SetNode(e, n, s)
    PROVE  NodeBecomes(e, n, s)
  BY DEF PipelinesTypeOK, SetNode, NodeBecomes

LEMMA SetJobDoes ==
    ASSUME PipelinesTypeOK, NEW e \in Executions, NEW n \in Nodes(e), NEW s \in JobStates,
           SetJob(e, n, s)
    PROVE  JobBecomes(e, n, s)
  BY DEF PipelinesTypeOK, SetJob, JobBecomes

(* The commands stay, and what they determine.                              *)
LEMMA PlansStay ==
    ASSUME cmd' = cmd
    PROVE  /\ \A e \in Executions :
                 /\ Nodes(e)' = Nodes(e)
                 /\ The(e)' = The(e)
                 /\ \A n : Parents(e, n)' = Parents(e, n) /\ JobOf(e, n)' = JobOf(e, n)
           /\ Paths' = Paths
  BY DEF Nodes, The, Parents, JobOf, Paths, Files, Path
-----------------------------------------------------------------------------
(* A node's Job is created.                                                 *)
LEMMA CreationKeeps ==
    ASSUME IInv, NEW e \in Executions, NEW n \in Nodes(e), NEW s \in {"started", "refused"},
           Alive(e), Ready(e, n), NameFree(JobOf(e, n)),
           NodeBecomes(e, n, s), JobBecomes(e, n, "pending"),
           UNCHANGED <<cmd, phase, deadline, file, from>>
    PROVE  IInv'
  <1> USE DEF IInv, PipelinesInv
  <1>1. /\ \A f \in Executions :
              /\ Nodes(f)' = Nodes(f)
              /\ The(f)' = The(f)
              /\ \A m : Parents(f, m)' = Parents(f, m) /\ JobOf(f, m)' = JobOf(f, m)
        /\ Paths' = Paths
    BY PlansStay
  <1>2. /\ job[e][n] = "none"
        /\ node[e][n] = "waiting"
        /\ \A p \in Parents(e, n) : job[e][p] = "succeeded"
    <2>1. node[e][n] = "waiting" /\ \A p \in Parents(e, n) : node[e][p] = "succeeded"
      BY DEF Ready, ParentsSucceeded, Succeeded
    <2>2. Parents(e, n) \subseteq Nodes(e)
      BY ParentsAreNodes
    <2> QED BY <2>1, <2>2 DEF MemoryIsTrue
  <1>3. PipelinesTypeOK'
    BY <1>1 DEF PipelinesTypeOK, NodeBecomes, JobBecomes
  <1>4. FailureStopsDependants'
    <2>1. ASSUME NEW f \in Executions, NEW m \in Nodes(f), job'[f][m] # "none",
                 NEW p \in Parents(f, m)
          PROVE  job'[f][p] = "succeeded"
      <3>1. p \in Nodes(f)
        BY ParentsAreNodes
      <3>2. job[f][p] = "succeeded"
        BY <1>2, <2>1 DEF FailureStopsDependants, JobBecomes
      <3> QED BY <1>2, <3>1, <3>2 DEF JobBecomes
    <2> QED BY <1>1, <2>1 DEF FailureStopsDependants
  <1>5. MemoryIsTrue'
    BY <1>1, <1>2 DEF MemoryIsTrue, Alive, NodeBecomes, JobBecomes
  <1>6. IdleHasNothing'
    BY <1>1 DEF IdleHasNothing, Alive, NodeBecomes, JobBecomes
  <1>7. FirstNodeFirst'
    <2>1. ASSUME NEW f \in Executions, NEW m \in Nodes(f), NEW q \in Nodes(f),
                 job'[f][q] # "none", Parents(f, m) = {}
          PROVE  job'[f][m] # "none"
      <3>1. CASE job[f][q] # "none"
        BY <2>1, <3>1 DEF FirstNodeFirst, JobBecomes
      <3>2. CASE job[f][q] = "none"
        <4>1. f = e /\ q = n
          BY <2>1, <3>2 DEF JobBecomes
        <4>2. CASE Parents(e, n) = {}
          BY <2>1, <4>1, <4>2, OneFirst DEF JobBecomes
        <4>3. CASE Parents(e, n) # {}
          <5>1. PICK p \in Nodes(e) : job[e][p] = "succeeded"
            BY <1>2, <4>3, ParentsAreNodes
          <5>2. job[f][m] # "none"
            BY <2>1, <4>1, <5>1 DEF FirstNodeFirst
          <5> QED BY <5>2 DEF JobBecomes
        <4> QED BY <4>2, <4>3
      <3> QED BY <3>1, <3>2
    <2> QED BY <1>1, <2>1 DEF FirstNodeFirst
  <1>8. NamesUnique'
    <2>1. ASSUME NEW f \in Executions, NEW m \in Nodes(f), job'[f][m] # "none",
                 NEW g \in Executions, NEW q \in Nodes(g), job'[g][q] # "none", f # g
          PROVE  JobOf(f, m) # JobOf(g, q)
      <3>1. \A h \in Executions : \A k \in Nodes(h) : <<h, k>> # <<e, n>> => job'[h][k] = job[h][k]
        BY DEF JobBecomes
      <3>2. CASE job[f][m] # "none" /\ job[g][q] # "none"
        BY <2>1, <3>2 DEF NamesUnique
      <3>3. CASE job[f][m] = "none"
        BY <2>1, <3>1, <3>3 DEF NameFree
      <3>4. CASE job[g][q] = "none"
        BY <2>1, <3>1, <3>4 DEF NameFree
      <3> QED BY <3>2, <3>3, <3>4
    <2> QED BY <1>1, <2>1 DEF NamesUnique
  <1>9. BreakdownsExplained'
    <2>1. ASSUME NEW f \in Executions, NEW g \in Executions, NEW m \in Nodes(f), SharesName(f, g, m)
          PROVE  SharesName(f, g, m)'
      BY <1>1, <2>1 DEF SharesName
    <2>2. ASSUME NEW f \in Executions, Alive(f), NEW m \in Nodes(f)
          PROVE  /\ node'[f][m] = "failed" => BadEvent(job'[f][m]) \/ deadline[f]
                 /\ node'[f][m] = "taken" => node[f][m] = "taken"
                 /\ node'[f][m] = "skipped" => The(f).nodeTimeout
      BY <1>2, <2>2 DEF BreakdownsExplained, NodeBecomes, JobBecomes
    <2> QED BY <1>1, <2>1, <2>2 DEF BreakdownsExplained, Alive, BadEvent
  <1> QED BY <1>1, <1>3, <1>4, <1>5, <1>6, <1>7, <1>8, <1>9
(* A node's goroutine ends, for a reason.                                   *)
LEMMA NodeEndKeeps ==
    ASSUME IInv, NEW e \in Executions, NEW n \in Nodes(e),
           NEW s \in {"succeeded", "failed", "refused", "taken", "skipped"},
           node[e][n] \in {"waiting", "started"},
           s = "succeeded" => job[e][n] = "succeeded",
           s = "failed" => BadEvent(job[e][n]) \/ deadline[e],
           s = "taken" => \E f \in Executions : SharesName(e, f, n),
           s = "skipped" => The(e).nodeTimeout,
           Alive(e), NodeBecomes(e, n, s),
           UNCHANGED <<cmd, phase, deadline, job, file, from>>
    PROVE  IInv'
  <1> USE DEF IInv, PipelinesInv
  <1>1. /\ \A f \in Executions :
              /\ Nodes(f)' = Nodes(f)
              /\ The(f)' = The(f)
              /\ \A m : Parents(f, m)' = Parents(f, m) /\ JobOf(f, m)' = JobOf(f, m)
        /\ Paths' = Paths
    BY PlansStay
  <1>2. PipelinesTypeOK'
    BY <1>1 DEF PipelinesTypeOK, NodeBecomes
  <1>3. FailureStopsDependants'
    BY <1>1 DEF FailureStopsDependants
  <1>4. MemoryIsTrue'
    BY <1>1 DEF MemoryIsTrue, Alive, NodeBecomes
  <1>5. IdleHasNothing'
    BY <1>1 DEF IdleHasNothing, Alive, NodeBecomes
  <1>6. FirstNodeFirst'
    BY <1>1 DEF FirstNodeFirst
  <1>7. NamesUnique'
    BY <1>1 DEF NamesUnique
  <1>8. BreakdownsExplained'
    <2>1. ASSUME NEW f \in Executions, NEW g \in Executions, NEW m \in Nodes(f), SharesName(f, g, m)
          PROVE  SharesName(f, g, m)'
      BY <1>1, <2>1 DEF SharesName
    <2>2. ASSUME NEW f \in Executions, Alive(f), NEW m \in Nodes(f)
          PROVE  /\ node'[f][m] = "failed" => BadEvent(job[f][m]) \/ deadline[f]
                 /\ node'[f][m] = "taken" => \E g \in Executions : SharesName(f, g, m)
                 /\ node'[f][m] = "skipped" => The(f).nodeTimeout
      BY <2>2 DEF BreakdownsExplained, NodeBecomes
    <2> QED BY <1>1, <2>1, <2>2 DEF BreakdownsExplained, Alive, BadEvent
  <1> QED BY <1>1, <1>2, <1>3, <1>4, <1>5, <1>6, <1>7, <1>8

(* A Job that has not ended goes on, or ends.                               *)
LEMMA JobMoveKeeps ==
    ASSUME IInv, NEW e \in Executions, NEW n \in Nodes(e),
           NEW s \in {"active", "succeeded", "failed", "died", "missing"},
           job[e][n] \in {"pending", "active"},
           JobBecomes(e, n, s),
           file' \in [Paths -> [by : SUBSET Data0, whole : BOOLEAN]],
           DOMAIN from' = Executions,
           \A f \in Executions : from'[f] \in [Nodes(f) -> SUBSET Data0],
           UNCHANGED <<cmd, phase, deadline, node>>
    PROVE  IInv'
  <1> USE DEF IInv, PipelinesInv
  <1>1. /\ \A f \in Executions :
              /\ Nodes(f)' = Nodes(f)
              /\ The(f)' = The(f)
              /\ \A m : Parents(f, m)' = Parents(f, m) /\ JobOf(f, m)' = JobOf(f, m)
        /\ Paths' = Paths
    BY PlansStay
  <1>2. PipelinesTypeOK'
    BY <1>1 DEF PipelinesTypeOK, JobBecomes
  <1>3. \A f \in Executions : \A m \in Nodes(f) : job'[f][m] # "none" <=> job[f][m] # "none"
    BY DEF JobBecomes
  <1>4. FailureStopsDependants'
    <2>1. ASSUME NEW f \in Executions, NEW m \in Nodes(f), job'[f][m] # "none",
                 NEW p \in Parents(f, m)
          PROVE  job'[f][p] = "succeeded"
      <3>1. p \in Nodes(f)
        BY ParentsAreNodes
      <3>2. job[f][p] = "succeeded"
        BY <1>3, <2>1 DEF FailureStopsDependants
      <3> QED BY <3>1, <3>2 DEF JobBecomes
    <2> QED BY <1>1, <2>1 DEF FailureStopsDependants
  <1>5. MemoryIsTrue'
    BY <1>1 DEF MemoryIsTrue, Alive, JobBecomes
  <1>6. IdleHasNothing'
    BY <1>1 DEF IdleHasNothing, JobBecomes
  <1>7. FirstNodeFirst'
    BY <1>1, <1>3 DEF FirstNodeFirst
  <1>8. NamesUnique'
    BY <1>1, <1>3 DEF NamesUnique
  <1>9. BreakdownsExplained'
    <2>1. ASSUME NEW f \in Executions, NEW g \in Executions, NEW m \in Nodes(f), SharesName(f, g, m)
          PROVE  SharesName(f, g, m)'
      BY <1>1, <2>1 DEF SharesName
    <2>2. ASSUME NEW f \in Executions, Alive(f), NEW m \in Nodes(f),
                 node[f][m] = "failed"
          PROVE  BadEvent(job[f][m])' \/ deadline[f]
      BY <2>2 DEF BreakdownsExplained, JobBecomes, BadEvent
    <2> QED BY <1>1, <2>1, <2>2 DEF BreakdownsExplained, Alive
  <1> QED BY <1>1, <1>2, <1>4, <1>5, <1>6, <1>7, <1>8, <1>9

-----------------------------------------------------------------------------
(* The calls.                                                               *)
LEMMA BeginKeeps == ASSUME IInv, NEW e \in Executions, Begin(e) PROVE IInv'
  <1> USE DEF IInv, PipelinesInv, Begin
  <1>1. /\ \A f \in Executions :
              /\ Nodes(f)' = Nodes(f)
              /\ The(f)' = The(f)
              /\ \A m : Parents(f, m)' = Parents(f, m) /\ JobOf(f, m)' = JobOf(f, m)
        /\ Paths' = Paths
    BY PlansStay
  <1>2. \A f \in Executions : phase'[f] = IF f = e THEN "running" ELSE phase[f]
    BY DEF PipelinesTypeOK
  <1>3. PipelinesTypeOK'
    BY <1>1 DEF PipelinesTypeOK, Phases
  <1>4. FailureStopsDependants' /\ FirstNodeFirst' /\ NamesUnique'
    BY <1>1 DEF FailureStopsDependants, FirstNodeFirst, NamesUnique
  <1>5. MemoryIsTrue'
    BY <1>1, <1>2 DEF MemoryIsTrue, IdleHasNothing, Alive
  <1>6. IdleHasNothing'
    BY <1>1, <1>2 DEF IdleHasNothing
  <1>7. BreakdownsExplained'
    <2>1. ASSUME NEW f \in Executions, NEW g \in Executions, NEW m \in Nodes(f), SharesName(f, g, m)
          PROVE  SharesName(f, g, m)'
      BY <1>1, <1>2, <2>1 DEF SharesName
    <2> QED BY <1>1, <1>2, <2>1 DEF BreakdownsExplained, IdleHasNothing, Alive, BadEvent
  <1> QED BY <1>1, <1>3, <1>4, <1>5, <1>6, <1>7

LEMMA DeadlineKeeps == ASSUME IInv, NEW e \in Executions, Deadline(e) PROVE IInv'
  <1> USE DEF IInv, PipelinesInv, Deadline
  <1>1. /\ \A f \in Executions :
              /\ Nodes(f)' = Nodes(f)
              /\ The(f)' = The(f)
              /\ \A m : Parents(f, m)' = Parents(f, m) /\ JobOf(f, m)' = JobOf(f, m)
        /\ Paths' = Paths
    BY PlansStay
  <1>2. PipelinesTypeOK'
    BY <1>1 DEF PipelinesTypeOK
  <1>3. FailureStopsDependants' /\ FirstNodeFirst' /\ NamesUnique'
    BY <1>1 DEF FailureStopsDependants, FirstNodeFirst, NamesUnique
  <1>4. MemoryIsTrue' /\ IdleHasNothing'
    BY <1>1 DEF MemoryIsTrue, IdleHasNothing, Alive
  <1>5. BreakdownsExplained'
    <2>1. ASSUME NEW f \in Executions, NEW g \in Executions, NEW m \in Nodes(f), SharesName(f, g, m)
          PROVE  SharesName(f, g, m)'
      BY <1>1, <2>1 DEF SharesName
    <2>2. \A f \in Executions : deadline[f] => deadline'[f]
      BY DEF PipelinesTypeOK
    <2> QED BY <1>1, <2>1, <2>2 DEF BreakdownsExplained, Alive, BadEvent
  <1> QED BY <1>1, <1>2, <1>3, <1>4, <1>5

LEMMA ReturnKeeps == ASSUME IInv, NEW e \in Executions, Return(e) PROVE IInv'
  <1> USE DEF IInv, PipelinesInv, Return
  <1>1. /\ \A f \in Executions :
              /\ Nodes(f)' = Nodes(f)
              /\ The(f)' = The(f)
              /\ \A m : Parents(f, m)' = Parents(f, m) /\ JobOf(f, m)' = JobOf(f, m)
        /\ Paths' = Paths
    BY PlansStay
  <1>2. /\ phase[e] = "running"
        /\ phase' \in [Executions -> Phases]
        /\ \A f \in Executions : phase'[f] = IF f = e THEN phase'[e] ELSE phase[f]
        /\ phase'[e] \in {"ok", "error"}
    BY DEF PipelinesTypeOK, Phases
  <1>3. PipelinesTypeOK'
    BY <1>1, <1>2 DEF PipelinesTypeOK
  <1>4. FailureStopsDependants' /\ FirstNodeFirst' /\ NamesUnique'
    BY <1>1 DEF FailureStopsDependants, FirstNodeFirst, NamesUnique
  <1>5. MemoryIsTrue' /\ IdleHasNothing'
    BY <1>1, <1>2 DEF MemoryIsTrue, IdleHasNothing, Alive
  <1>6. BreakdownsExplained'
    <2>1. ASSUME NEW f \in Executions, NEW g \in Executions, NEW m \in Nodes(f), SharesName(f, g, m)
          PROVE  SharesName(f, g, m)'
      BY <1>1, <1>2, <2>1 DEF SharesName
    <2> QED BY <1>1, <1>2, <2>1 DEF BreakdownsExplained, Alive, BadEvent
  <1> QED BY <1>1, <1>3, <1>4, <1>5, <1>6

LEMMA ExitKeeps == ASSUME IInv, NEW e \in Executions, Exit(e) PROVE IInv'
  <1> USE DEF IInv, PipelinesInv, Exit
  <1>1. /\ \A f \in Executions :
              /\ Nodes(f)' = Nodes(f)
              /\ The(f)' = The(f)
              /\ \A m : Parents(f, m)' = Parents(f, m) /\ JobOf(f, m)' = JobOf(f, m)
        /\ Paths' = Paths
    BY PlansStay
  <1>2. /\ phase[e] # "idle"
        /\ phase' \in [Executions -> Phases]
        /\ \A f \in Executions : phase'[f] = IF f = e THEN "gone" ELSE phase[f]
    BY DEF PipelinesTypeOK, Phases
  <1>3. /\ DOMAIN node' = Executions
        /\ \A f \in Executions : f # e => node'[f] = node[f] /\ deadline'[f] = deadline[f]
        /\ node'[e] = [n \in Nodes(e) |-> "waiting"]
    BY DEF PipelinesTypeOK
  <1>4. PipelinesTypeOK'
    <2>1. \A f \in Executions : node'[f] \in [Nodes(f) -> NodeStates]
      BY <1>3 DEF PipelinesTypeOK, NodeStates
    <2> QED BY <1>1, <1>2, <1>3, <2>1 DEF PipelinesTypeOK
  <1>5. FailureStopsDependants' /\ FirstNodeFirst' /\ NamesUnique'
    BY <1>1 DEF FailureStopsDependants, FirstNodeFirst, NamesUnique
  <1>6. MemoryIsTrue' /\ IdleHasNothing'
    BY <1>1, <1>2, <1>3 DEF MemoryIsTrue, IdleHasNothing, Alive
  <1>7. BreakdownsExplained'
    <2>1. ASSUME NEW f \in Executions, NEW g \in Executions, NEW m \in Nodes(f), SharesName(f, g, m)
          PROVE  SharesName(f, g, m)'
      BY <1>1, <1>2, <2>1 DEF SharesName
    <2> QED BY <1>1, <1>2, <1>3, <2>1 DEF BreakdownsExplained, Alive, BadEvent
  <1> QED BY <1>1, <1>4, <1>5, <1>6, <1>7

LEMMA RemoveKeeps == ASSUME IInv, NEW e \in Executions, Remove(e) PROVE IInv'
  <1> USE DEF IInv, PipelinesInv, Remove
  <1>1. /\ \A f \in Executions :
              /\ Nodes(f)' = Nodes(f)
              /\ The(f)' = The(f)
              /\ \A m : Parents(f, m)' = Parents(f, m) /\ JobOf(f, m)' = JobOf(f, m)
        /\ Paths' = Paths
    BY PlansStay
  <1>2. \A f \in Executions :
            /\ SameRun(e, f) => ~Alive(f) /\ \A n \in Nodes(f) : job'[f][n] = "none"
            /\ ~SameRun(e, f) => job'[f] = job[f]
    OBVIOUS
  <1>3. PipelinesTypeOK'
    BY <1>1 DEF PipelinesTypeOK, JobStates
  <1>4. FailureStopsDependants' /\ FirstNodeFirst' /\ NamesUnique'
    BY <1>1, <1>2 DEF FailureStopsDependants, FirstNodeFirst, NamesUnique
  <1>5. MemoryIsTrue' /\ IdleHasNothing'
    BY <1>1, <1>2 DEF MemoryIsTrue, IdleHasNothing, Alive
  <1>6. BreakdownsExplained'
    <2>1. ASSUME NEW f \in Executions, NEW g \in Executions, NEW m \in Nodes(f), SharesName(f, g, m)
          PROVE  SharesName(f, g, m)'
      BY <1>1, <2>1 DEF SharesName
    <2> QED BY <1>1, <1>2, <2>1 DEF BreakdownsExplained, Alive, BadEvent
  <1> QED BY <1>1, <1>3, <1>4, <1>5, <1>6
-----------------------------------------------------------------------------
(* Every file a script names is one of the volume.                          *)
LEMMA FilesOfScripts ==
    ASSUME NEW e \in Executions, NEW n \in Nodes(e),
           NEW f \in ScriptOf(e, n).needs \cup ScriptOf(e, n).reads \cup ScriptOf(e, n).writes
    PROVE  Path(e, f) \in Paths
  <1>1. Path(e, f) \in Files(e)
    BY DEF Files, ScriptOf
  <1> QED BY <1>1 DEF Paths

(* What a script reads and writes is data of some execution.                *)
LEMMA DataIsTyped ==
    ASSUME PipelinesTypeOK, DOMAIN file = Paths, NEW e \in Executions, NEW n \in Nodes(e)
    PROVE  /\ Lineage(e, n) \in SUBSET Data0
           /\ \A read \in SUBSET Data0 : Data(e, n, read) \in SUBSET Data0
  <1>1. ASSUME NEW f \in ScriptOf(e, n).reads PROVE Path(e, f) \in Paths
    BY <1>1, FilesOfScripts
  <1>2. \A f \in ScriptOf(e, n).reads : file[Path(e, f)].by \in SUBSET Data0
    BY <1>1 DEF PipelinesTypeOK
  <1> QED BY <1>2 DEF Lineage, Data, Data0

LEMMA NodeStepKeeps ==
    ASSUME IInv, NEW e \in Executions, NEW n \in Nodes(e), Alive(e), NodeStep(e, n)
    PROVE  IInv'
  <1>1. PipelinesTypeOK /\ MemoryIsTrue
    BY DEF IInv, PipelinesInv
  <1>2. ASSUME Ready(e, n) PROVE job[e][n] = "none" /\ node[e][n] \in {"waiting", "started"}
    BY <1>1, <1>2 DEF MemoryIsTrue, Ready
  <1>3. CASE TooSlow(e, n)
    <2>1. NodeBecomes(e, n, "skipped")
      BY <1>1, <1>3, SetNodeDoes DEF TooSlow, NodeStates
    <2> QED BY <1>3, <2>1, NodeEndKeeps DEF TooSlow
  <1>4. CASE Start(e, n)
    <2>1. NodeBecomes(e, n, "started") /\ JobBecomes(e, n, "pending")
      BY <1>1, <1>4, SetNodeDoes, SetJobDoes DEF Start, NodeStates, JobStates
    <2> QED BY <1>4, <2>1, CreationKeeps DEF Start
  <1>5. CASE NameTaken(e, n)
    <2>1. NodeBecomes(e, n, "taken")
      BY <1>1, <1>5, SetNodeDoes DEF NameTaken, NodeStates
    <2>2. \E f \in Executions : SharesName(e, f, n)
      BY <1>2, <1>5, TakenByAnother DEF NameTaken
    <2> QED BY <1>2, <1>5, <2>1, <2>2, NodeEndKeeps DEF NameTaken
  <1>6. CASE ApiError(e, n)
    <2>1. NodeBecomes(e, n, "refused") /\ UNCHANGED <<cmd, phase, deadline, file, from>>
      BY <1>1, <1>6, SetNodeDoes DEF ApiError, NodeStates
    <2>2. CASE UNCHANGED job
      <3>1. node[e][n] \in {"waiting", "started"}
        BY <1>2, <1>6 DEF ApiError
      <3> QED BY <2>1, <2>2, <3>1, NodeEndKeeps
    <2>3. CASE Ready(e, n) /\ NameFree(JobOf(e, n)) /\ SetJob(e, n, "pending")
      <3>1. JobBecomes(e, n, "pending")
        BY <1>1, <2>3, SetJobDoes DEF JobStates
      <3> QED BY <2>1, <2>3, <3>1, CreationKeeps
    <2> QED BY <1>6, <2>2, <2>3 DEF ApiError
  <1>7. CASE Wait(e, n)
    <2>1. node[e][n] \in {"waiting", "started"} /\ UNCHANGED <<cmd, phase, deadline, job, file, from>>
      BY <1>7 DEF Wait
    <2>2. CASE GoodEvent(job[e][n]) /\ SetNode(e, n, "succeeded")
      <3>1. NodeBecomes(e, n, "succeeded")
        BY <1>1, <2>2, SetNodeDoes DEF NodeStates
      <3> QED BY <2>1, <2>2, <3>1, NodeEndKeeps DEF GoodEvent
    <2>3. CASE (BadEvent(job[e][n]) \/ deadline[e]) /\ SetNode(e, n, "failed")
      <3>1. NodeBecomes(e, n, "failed")
        BY <1>1, <2>3, SetNodeDoes DEF NodeStates
      <3> QED BY <2>1, <2>3, <3>1, NodeEndKeeps
    <2> QED BY <1>7, <2>2, <2>3 DEF Wait
  <1> QED BY <1>3, <1>4, <1>5, <1>6, <1>7 DEF NodeStep

LEMMA ClusterStepKeeps ==
    ASSUME IInv, NEW e \in Executions, NEW n \in Nodes(e), ClusterStep(e, n)
    PROVE  IInv'
  <1>1. PipelinesTypeOK /\ DOMAIN file = Paths
    BY DEF IInv, PipelinesInv
  <1>2. /\ file \in [Paths -> [by : SUBSET Data0, whole : BOOLEAN]]
        /\ DOMAIN from = Executions
        /\ \A f \in Executions : from[f] \in [Nodes(f) -> SUBSET Data0]
    BY <1>1 DEF PipelinesTypeOK
  <1>3. CASE JobBegins(e, n)
    <2>1. job[e][n] = "pending" /\ UNCHANGED <<cmd, phase, deadline, node>>
      BY <1>3 DEF JobBegins
    <2>2. CASE InputsThere(e, n)
      <3>1. JobBecomes(e, n, "active")
        BY <1>1, <1>3, <2>2, SetJobDoes DEF JobBegins, JobStates
      <3>2. PICK read \in SUBSET Data0 : read = Lineage(e, n)
        BY <1>1, DataIsTyped
      <3>3. PICK mine \in SUBSET Data0 : mine = Data(e, n, Lineage(e, n))
        BY <1>1, <3>2, DataIsTyped
      <3>4. from' = [from EXCEPT ![e][n] = read]
        BY <1>3, <2>2, <3>2 DEF JobBegins
      <3>5. file' = [p \in DOMAIN file |-> IF p \in Outputs(e, n)
                                          THEN [by |-> mine, whole |-> FALSE] ELSE file[p]]
        BY <1>3, <2>2, <3>3 DEF JobBegins
      <3>6. file' \in [Paths -> [by : SUBSET Data0, whole : BOOLEAN]]
        BY <1>2, <3>5
      <3>7. DOMAIN from' = Executions /\ \A f \in Executions : from'[f] \in [Nodes(f) -> SUBSET Data0]
        BY <1>2, <3>4
      <3> QED BY <2>1, <3>1, <3>6, <3>7, JobMoveKeeps
    <2>3. CASE ~InputsThere(e, n)
      <3>1. JobBecomes(e, n, "missing") /\ UNCHANGED <<from, file>>
        BY <1>1, <1>3, <2>3, SetJobDoes DEF JobBegins, JobStates
      <3> QED BY <1>2, <2>1, <3>1, JobMoveKeeps
    <2> QED BY <2>2, <2>3
  <1>4. CASE JobEnds(e, n)
    <2>1. job[e][n] = "active" /\ UNCHANGED <<cmd, phase, deadline, node, from>>
      BY <1>4 DEF JobEnds
    <2>2. PICK verdict \in {"succeeded", "failed"} : SetJob(e, n, verdict)
      BY <1>4 DEF JobEnds, Verdicts
    <2>3. JobBecomes(e, n, verdict)
      BY <1>1, <2>2, SetJobDoes DEF JobStates
    <2>4. PICK mine \in SUBSET Data0 : mine = Data(e, n, from[e][n])
      BY <1>1, <1>2, DataIsTyped
    <2>5. file' = [p \in DOMAIN file |->
                      IF p \in Outputs(e, n)
                      THEN [by |-> file[p].by \cup mine, whole |-> file[p].by = mine]
                      ELSE file[p]]
      BY <1>4, <2>4 DEF JobEnds
    <2>6. file' \in [Paths -> [by : SUBSET Data0, whole : BOOLEAN]]
      BY <1>2, <2>5
    <2> QED BY <1>2, <2>1, <2>3, <2>6, JobMoveKeeps
  <1>5. CASE JobDies(e, n)
    <2>1. JobBecomes(e, n, "died")
      BY <1>1, <1>5, SetJobDoes DEF JobDies, JobStates
    <2> QED BY <1>2, <1>5, <2>1, JobMoveKeeps DEF JobDies
  <1> QED BY <1>3, <1>4, <1>5 DEF ClusterStep

LEMMA StutterKeeps == ASSUME IInv, UNCHANGED vars PROVE IInv'
  <1> USE DEF IInv, PipelinesInv, vars
  <1>1. /\ \A f \in Executions :
              /\ Nodes(f)' = Nodes(f)
              /\ The(f)' = The(f)
              /\ \A m : Parents(f, m)' = Parents(f, m) /\ JobOf(f, m)' = JobOf(f, m)
        /\ Paths' = Paths
    BY PlansStay
  <1>2. PipelinesTypeOK'
    BY <1>1 DEF PipelinesTypeOK
  <1>3. FailureStopsDependants' /\ FirstNodeFirst' /\ NamesUnique' /\ MemoryIsTrue' /\ IdleHasNothing'
    BY <1>1 DEF FailureStopsDependants, FirstNodeFirst, NamesUnique, MemoryIsTrue, IdleHasNothing, Alive
  <1>4. BreakdownsExplained'
    <2>1. ASSUME NEW f \in Executions, NEW g \in Executions, NEW m \in Nodes(f), SharesName(f, g, m)
          PROVE  SharesName(f, g, m)'
      BY <1>1, <2>1 DEF SharesName
    <2> QED BY <1>1, <2>1 DEF BreakdownsExplained, Alive, BadEvent
  <1> QED BY <1>1, <1>2, <1>3, <1>4

LEMMA InitKeeps == ASSUME Init PROVE IInv
  <1> USE DEF Init
  <1>1. /\ \A e \in Executions : phase[e] = "idle"
        /\ \A e \in Executions : \A n \in Nodes(e) : node[e][n] = "waiting" /\ job[e][n] = "none"
    OBVIOUS
  <1>2. cmd \in [Executions -> [program : Programs, run : Seq(STRING)]]
    BY WorkloadAssumption
  <1>3. PipelinesTypeOK
    BY <1>2 DEF PipelinesTypeOK, Phases, NodeStates, JobStates, Data0
  <1>4. FailureStopsDependants /\ FirstNodeFirst /\ NamesUnique /\ MemoryIsTrue /\ IdleHasNothing
    BY <1>1 DEF FailureStopsDependants, FirstNodeFirst, NamesUnique, MemoryIsTrue, IdleHasNothing, Alive
  <1>5. BreakdownsExplained
    BY <1>1 DEF BreakdownsExplained, Alive
  <1> QED BY <1>3, <1>4, <1>5 DEF IInv, PipelinesInv

LEMMA StepKeeps == ASSUME IInv, [Next]_vars PROVE IInv'
  <1>1. CASE UNCHANGED vars
    BY <1>1, StutterKeeps
  <1>2. ASSUME NEW e \in Executions, Caller(e) PROVE IInv'
    BY <1>2, BeginKeeps, DeadlineKeeps, ReturnKeeps, ExitKeeps, RemoveKeeps DEF Caller
  <1>3. ASSUME NEW e \in Executions, Alive(e), NEW n \in Nodes(e), NodeStep(e, n) PROVE IInv'
    BY <1>3, NodeStepKeeps
  <1>4. ASSUME NEW e \in Executions, NEW n \in Nodes(e), ClusterStep(e, n) PROVE IInv'
    BY <1>4, ClusterStepKeeps
  <1> QED BY <1>1, <1>2, <1>3, <1>4 DEF Next

LEMMA Inductive == Spec => []IInv
  <1>1. Init => IInv
    BY InitKeeps
  <1>2. IInv /\ [Next]_vars => IInv'
    BY StepKeeps
  <1> QED BY <1>1, <1>2, PTL DEF Spec
-----------------------------------------------------------------------------
(* What holds in every state of every execution: no Job without its         *)
(* parents', no two Jobs with one name, and the process, while it is alive, *)
(* knows of its nodes' Jobs nothing that is not so.                         *)
THEOREM PipelinesCorrect == Spec => []PipelinesInv
  <1>1. IInv => PipelinesInv
    BY DEF IInv
  <1> QED BY <1>1, Inductive, PTL

(* Fail-fast and the joins: the Job of a node is never there before the     *)
(* Jobs of its parents have succeeded, however the processes ended.         *)
THEOREM DependantsWait == Spec => []FailureStopsDependants
  <1>1. IInv => FailureStopsDependants
    BY DEF IInv, PipelinesInv
  <1> QED BY <1>1, Inductive, PTL

(* All that is upstream of a node, at any distance: the least set that      *)
(* holds its parents and theirs.                                            *)
Upstream(e, n) ==
    {m \in Nodes(e) : \A S \in SUBSET Nodes(e) :
        Parents(e, n) \subseteq S /\ (\A k \in S : Parents(e, k) \subseteq S) => m \in S}

(* A Job that failed, or is missing, stops everything behind it, not only   *)
(* the nodes that name it: what cmd/fastfail shows on one chain.            *)
FailureStopsAllBehind ==
    \A e \in Executions : \A n \in Nodes(e) :
        job[e][n] # "none" => \A m \in Upstream(e, n) : job[e][m] = "succeeded"

(* The nodes whose Jobs succeeded have all of their parents among them.     *)
THEOREM NothingRunsBehindAFailure == Spec => []FailureStopsAllBehind
  <1>1. ASSUME IInv PROVE FailureStopsAllBehind
    <2> SUFFICES ASSUME NEW e \in Executions, NEW n \in Nodes(e), job[e][n] # "none",
                        NEW m \in Upstream(e, n)
                 PROVE  job[e][m] = "succeeded"
      BY DEF FailureStopsAllBehind
    <2> DEFINE Good == {k \in Nodes(e) : job[e][k] = "succeeded"}
    <2>1. ASSUME NEW k \in Nodes(e), job[e][k] # "none" PROVE Parents(e, k) \subseteq Good
      <3>1. Parents(e, k) \subseteq Nodes(e)
        BY <1>1, ParentsAreNodes DEF IInv, PipelinesInv
      <3> QED BY <1>1, <2>1, <3>1 DEF IInv, PipelinesInv, FailureStopsDependants
    <2>2. Parents(e, n) \subseteq Good /\ \A k \in Good : Parents(e, k) \subseteq Good
      BY <2>1
    <2> QED BY <2>2 DEF Upstream
  <1> QED BY <1>1, Inductive, PTL

(* Whoever has any Job has the first node's, and there is one Job of that   *)
(* name.                                                                    *)
LEMMA ExclusiveRuns == ASSUME IInv PROVE RunsAreExclusive
  <1> SUFFICES ASSUME NEW e \in Executions, NEW f \in Executions, e # f, SameRun(e, f),
                      NEW m \in Nodes(e), job[e][m] # "none",
                      NEW n \in Nodes(f), job[f][n] # "none"
               PROVE  FALSE
    BY DEF RunsAreExclusive
  <1> USE DEF IInv, PipelinesInv
  <1>1. /\ Nodes(e) = Nodes(f)
        /\ \A k : Parents(e, k) = Parents(f, k) /\ JobOf(e, k) = JobOf(f, k)
    BY DEF SameRun, Nodes, Parents, JobOf, The
  <1>2. PICK first \in Nodes(e) : Parents(e, first) = {}
    BY OneFirst
  <1>3. job[e][first] # "none" /\ job[f][first] # "none"
    BY <1>1, <1>2 DEF FirstNodeFirst
  <1> QED BY <1>1, <1>2, <1>3 DEF NamesUnique

(* Two executions of a run never have Jobs at the same time.                *)
THEOREM OneExecutionOfARun == Spec => []RunsAreExclusive
  BY Inductive, ExclusiveRuns, PTL

HasJobs(e) == \E n \in Nodes(e) : job[e][n] # "none"

(* A run passes from one execution to the next only through a state in      *)
(* which it has no Job at all: no retry takes over while a Job of the       *)
(* attempt before it, ended or not, is still on the cluster.                *)
RunsAreHandedOver ==
    [][\A e, f \in Executions :
          e # f /\ SameRun(e, f) /\ HasJobs(e) => ~HasJobs(f)']_vars

(* A step leaves e its Jobs, and then f has none by RunsAreExclusive, or it *)
(* removes the Jobs of the run, f's with them.                              *)
THEOREM RunsAreAlwaysHandedOver == Spec => RunsAreHandedOver
  <1>1. ASSUME IInv, RunsAreExclusive', [Next]_vars, NEW e \in Executions, NEW f \in Executions,
               e # f, SameRun(e, f), HasJobs(e)
        PROVE  ~HasJobs(f)'
    <2>1. PICK n \in Nodes(e) : job[e][n] # "none"
      BY <1>1 DEF HasJobs
    <2>2. PipelinesTypeOK /\ cmd' = cmd
      BY <1>1
      DEF IInv, PipelinesInv, Next, vars, Caller, Begin, Deadline, Return, Exit, Remove,
          NodeStep, TooSlow, Start, NameTaken, ApiError, Wait,
          ClusterStep, JobBegins, JobEnds, JobDies
    <2>3. Nodes(e)' = Nodes(e) /\ Nodes(f)' = Nodes(f) /\ SameRun(e, f)'
      BY <1>1, <2>2 DEF Nodes, The, SameRun
    <2>4. CASE job'[e][n] # "none"
      BY <1>1, <2>3, <2>4 DEF RunsAreExclusive, HasJobs
    <2>5. ASSUME NEW g \in Executions, Remove(g), job'[e][n] = "none" PROVE ~HasJobs(f)'
      <3>1. SameRun(g, e)
        BY <2>1, <2>2, <2>5 DEF Remove, PipelinesTypeOK
      <3>2. SameRun(g, f)
        BY <1>1, <3>1 DEF SameRun
      <3> QED BY <2>2, <2>3, <2>5, <3>2 DEF Remove, PipelinesTypeOK, HasJobs
    <2>6. ASSUME ~\E g \in Executions : Remove(g) PROVE job'[e][n] # "none"
      <3>1. CASE job' = job
        BY <2>1, <3>1
      <3>2. ASSUME NEW g \in Executions, NEW k \in Nodes(g), NEW state \in JobStates \ {"none"},
                   SetJob(g, k, state)
            PROVE  job'[e][n] # "none"
        BY <2>1, <2>2, <3>2 DEF SetJob, PipelinesTypeOK
      <3>3. ASSUME NEW g \in Executions, NEW k \in Nodes(g), NodeStep(g, k)
            PROVE  job' = job \/ SetJob(g, k, "pending")
        BY <3>3 DEF NodeStep, TooSlow, Start, NameTaken, ApiError, Wait
      <3>4. ASSUME NEW g \in Executions, NEW k \in Nodes(g), ClusterStep(g, k)
            PROVE  \E state \in JobStates \ {"none"} : SetJob(g, k, state)
        <4>1. Verdicts(g, k) \subseteq {"succeeded", "failed"}
          BY DEF Verdicts
        <4> QED BY <3>4, <4>1 DEF ClusterStep, JobBegins, JobEnds, JobDies, JobStates
      <3>5. CASE UNCHANGED vars
        BY <3>1, <3>5 DEF vars
      <3>6. ASSUME NEW g \in Executions, Caller(g) PROVE job' = job
        BY <2>6, <3>6 DEF Caller, Begin, Deadline, Return, Exit
      <3> QED BY <1>1, <3>1, <3>2, <3>3, <3>4, <3>5, <3>6 DEF Next, JobStates
    <2> QED BY <2>4, <2>5, <2>6
  <1>2. IInv /\ RunsAreExclusive' /\ [Next]_vars =>
            [\A e, f \in Executions :
                e # f /\ SameRun(e, f) /\ HasJobs(e) => ~HasJobs(f)']_vars
    BY <1>1
  <1> QED BY <1>2, Inductive, OneExecutionOfARun, PTL DEF Spec, RunsAreHandedOver

(* A run function reports success only when this execution has created a    *)
(* Job for every node and each of them has succeeded.                       *)
THEOREM SuccessIsDone == Spec => FinishedMeansDone
  <1>1. ASSUME IInv, [Next]_vars, NEW e \in Executions, phase[e] # "ok", phase'[e] = "ok"
        PROVE  \A n \in Nodes(e) : job[e][n] = "succeeded"
    <2>1. phase' # phase
      BY <1>1
    <2>2. PICK f \in Executions : Begin(f) \/ Return(f) \/ Exit(f)
      BY <1>1, <2>1
      DEF Next, vars, Caller, Deadline, Remove, NodeStep, TooSlow, Start, NameTaken, ApiError, Wait,
          ClusterStep, JobBegins, JobEnds, JobDies
    <2>3. /\ PipelinesTypeOK
          /\ MemoryIsTrue
      BY <1>1 DEF IInv, PipelinesInv
    <2>4. phase[e] = "running" /\ AllSucceeded(e)
      BY <1>1, <2>2, <2>3 DEF Begin, Return, Exit, PipelinesTypeOK
    <2> QED BY <2>3, <2>4 DEF MemoryIsTrue, Alive, AllSucceeded, Succeeded
  <1>2. IInv /\ [Next]_vars =>
            [\A e \in Executions :
                phase[e] # "ok" /\ phase'[e] = "ok" => \A n \in Nodes(e) : job[e][n] = "succeeded"]_vars
    BY <1>1
  <1> QED BY <1>2, Inductive, PTL DEF Spec, FinishedMeansDone
-----------------------------------------------------------------------------
(* While an execution is in error, nothing that explains it is undone.      *)
Lasts(e, n) ==
    /\ node[e][n] \in {"refused", "failed", "taken", "skipped"} => node'[e][n] = node[e][n]
    /\ BadEvent(job[e][n]) => job'[e][n] = job[e][n]

LEMMA EvidenceLasts ==
    ASSUME IInv, Next, NEW e \in Executions, phase[e] = "error", phase'[e] = "error"
    PROVE  /\ cmd' = cmd
           /\ \A f \in Executions : phase[f] # "idle" => phase'[f] # "idle"
           /\ deadline[e] => deadline'[e]
           /\ \A n \in Nodes(e) : Lasts(e, n)
  <1>1. PipelinesTypeOK
    BY DEF IInv, PipelinesInv
  <1>2. ASSUME NEW f \in Executions, Begin(f) \/ Deadline(f) \/ Return(f)
        PROVE  /\ cmd' = cmd
               /\ \A g \in Executions : phase[g] # "idle" => phase'[g] # "idle"
               /\ deadline[e] => deadline'[e]
               /\ node' = node /\ job' = job
    BY <1>1, <1>2 DEF Begin, Deadline, Return, PipelinesTypeOK
  <1>3. ASSUME NEW f \in Executions, Exit(f)
        PROVE  /\ cmd' = cmd
               /\ \A g \in Executions : phase[g] # "idle" => phase'[g] # "idle"
               /\ deadline[e] => deadline'[e]
               /\ node'[e] = node[e] /\ job' = job
    <2>1. f # e
      BY <1>1, <1>3 DEF Exit, PipelinesTypeOK
    <2> QED BY <1>1, <1>3, <2>1 DEF Exit, PipelinesTypeOK
  <1>4. ASSUME NEW f \in Executions, Remove(f)
        PROVE  cmd' = cmd /\ phase' = phase /\ deadline' = deadline /\ node' = node /\ job'[e] = job[e]
    BY <1>1, <1>4 DEF Remove, Alive, PipelinesTypeOK
  <1>5. ASSUME NEW f \in Executions, NEW m \in Nodes(f), NodeStep(f, m)
        PROVE  /\ cmd' = cmd /\ phase' = phase /\ deadline' = deadline
               /\ \A n \in Nodes(e) : Lasts(e, n)
    <2>1. /\ cmd' = cmd /\ phase' = phase /\ deadline' = deadline
          /\ node[f][m] \in {"waiting", "started"}
          /\ \E s : SetNode(f, m, s)
          /\ job' = job \/ (Ready(f, m) /\ SetJob(f, m, "pending") /\ NameFree(JobOf(f, m)))
      BY <1>5 DEF NodeStep, TooSlow, Start, NameTaken, ApiError, Wait, Ready
    <2>2. ASSUME NEW n \in Nodes(e), node[e][n] \in {"refused", "failed", "taken", "skipped"}
          PROVE  node'[e][n] = node[e][n]
      BY <1>1, <2>1, <2>2 DEF SetNode, PipelinesTypeOK
    <2>3. ASSUME NEW n \in Nodes(e), BadEvent(job[e][n])
          PROVE  job'[e][n] = job[e][n]
      <3>1. CASE job' = job
        BY <3>1
      <3>2. CASE SetJob(f, m, "pending") /\ NameFree(JobOf(f, m))
        <4>1. f # e \/ m # n
          BY <2>3, <3>2 DEF NameFree, BadEvent
        <4> QED BY <1>1, <3>2, <4>1 DEF SetJob, PipelinesTypeOK
      <3> QED BY <2>1, <3>1, <3>2
    <2> QED BY <2>1, <2>2, <2>3 DEF Lasts
  <1>6. ASSUME NEW f \in Executions, NEW m \in Nodes(f), ClusterStep(f, m)
        PROVE  /\ cmd' = cmd /\ phase' = phase /\ deadline' = deadline
               /\ \A n \in Nodes(e) : Lasts(e, n)
    <2>1. /\ cmd' = cmd /\ phase' = phase /\ deadline' = deadline /\ node' = node
          /\ job[f][m] \in {"pending", "active"}
          /\ \E s : SetJob(f, m, s)
      BY <1>6 DEF ClusterStep, JobBegins, JobEnds, JobDies
    <2>2. ASSUME NEW n \in Nodes(e), BadEvent(job[e][n])
          PROVE  job'[e][n] = job[e][n]
      BY <1>1, <2>1, <2>2 DEF SetJob, BadEvent, PipelinesTypeOK
    <2> QED BY <2>1, <2>2 DEF Lasts
  <1> QED BY <1>2, <1>3, <1>4, <1>5, <1>6 DEF Next, Caller, Lasts

LEMMA CauseLasts ==
    ASSUME IInv, Next, NEW e \in Executions, phase[e] = "error", phase'[e] = "error", Cause(e)
    PROVE  Cause(e)'
  <1>1. /\ cmd' = cmd
        /\ \A f \in Executions : phase[f] # "idle" => phase'[f] # "idle"
        /\ deadline[e] => deadline'[e]
        /\ \A n \in Nodes(e) : Lasts(e, n)
    BY EvidenceLasts
  <1>2. \A f \in Executions : Nodes(f)' = Nodes(f) /\ The(f)' = The(f)
    BY <1>1, PlansStay
  <1>3. ASSUME NEW f \in Executions, NEW n \in Nodes(e), SharesName(e, f, n)
        PROVE  SharesName(e, f, n)'
    BY <1>1, <1>2, <1>3 DEF SharesName
  <1> QED BY <1>1, <1>2, <1>3 DEF Cause, Lasts, BadEvent

(* A call fails for a reason: its deadline, an error of the API, a Job that *)
(* did not succeed, a name another execution can hold, or dag-go's limit in *)
(* a command that did not mean to turn it off.  A pipeline's own nodes      *)
(* never refuse each other.                                                 *)
THEOREM FailuresAreExplained == LimitTurnedOff => (Spec => []FailuresHaveACause)
  <1> SUFFICES ASSUME LimitTurnedOff PROVE Spec => []FailuresHaveACause
    OBVIOUS
  <1>1. Init => FailuresHaveACause
    BY DEF Init, FailuresHaveACause
  <1>2. ASSUME IInv, FailuresHaveACause, Next PROVE FailuresHaveACause'
    <2> SUFFICES ASSUME NEW e \in Executions, phase'[e] = "error"
                 PROVE  Cause(e)'
      BY DEF FailuresHaveACause
    <2>1. PipelinesTypeOK /\ BreakdownsExplained
      BY <1>2 DEF IInv, PipelinesInv
    <2>2. CASE phase[e] = "error"
      <3>1. Cause(e)
        BY <1>2, <2>2 DEF FailuresHaveACause
      <3> QED BY <1>2, <2>2, <3>1, CauseLasts
    <2>3. CASE phase[e] # "error"
      <3>1. phase' # phase
        BY <2>3
      <3>2. PICK f \in Executions : Begin(f) \/ Return(f) \/ Exit(f)
        BY <1>2, <3>1
        DEF Next, Caller, Deadline, Remove, NodeStep, TooSlow, Start, NameTaken, ApiError, Wait,
            ClusterStep, JobBegins, JobEnds, JobDies
      <3>3. /\ phase[e] = "running" /\ GivesUp(e)
            /\ UNCHANGED <<cmd, deadline, node, job>>
            /\ \A g \in Executions : g # e => phase'[g] = phase[g]
        BY <2>1, <2>3, <3>2 DEF Begin, Return, Exit, PipelinesTypeOK
      <3>4. \A g \in Executions : Nodes(g)' = Nodes(g) /\ The(g)' = The(g)
        BY <3>3, PlansStay
      <3>5. ASSUME NEW g \in Executions, NEW n \in Nodes(e), SharesName(e, g, n)
            PROVE  SharesName(e, g, n)'
        BY <3>3, <3>4, <3>5 DEF SharesName
      <3>6. Cause(e)
        <4>1. ASSUME NEW n \in Nodes(e), node[e][n] = "skipped"
              PROVE  cmd[e].program \notin CallerDeadlineOnly
          BY <2>1, <3>3, <4>1 DEF BreakdownsExplained, Alive, LimitTurnedOff, The
        <4> QED BY <2>1, <3>3, <4>1 DEF GivesUp, Broken, Cause, BreakdownsExplained, Alive
      <3>7. Cause(e) => Cause(e)'
        BY <3>3, <3>4, <3>5 DEF Cause, BadEvent
      <3> QED BY <3>4, <3>6, <3>7
    <2> QED BY <2>2, <2>3
  <1>3. ASSUME FailuresHaveACause, UNCHANGED vars PROVE FailuresHaveACause'
    <2>1. \A e \in Executions : Nodes(e)' = Nodes(e) /\ The(e)' = The(e)
      BY <1>3, PlansStay DEF vars
    <2>2. ASSUME NEW e \in Executions, NEW f \in Executions, NEW n \in Nodes(e), SharesName(e, f, n)
          PROVE  SharesName(e, f, n)'
      BY <1>3, <2>1, <2>2 DEF SharesName, vars
    <2> QED BY <1>3, <2>1, <2>2 DEF FailuresHaveACause, Cause, BadEvent, vars
  <1> QED BY <1>1, <1>2, <1>3, Inductive, PTL DEF Spec
-----------------------------------------------------------------------------
(* A pipeline feeds its nodes: whatever set of nodes is done, if a node's   *)
(* parents are in it, and the parents of those that are, then someone in it *)
(* writes each file and directory the node's script uses.                   *)
Fed(plan) ==
    \A n \in DOMAIN plan.dag :
        \A f \in plan.script[n].needs \cup plan.script[n].reads :
            \A done \in SUBSET DOMAIN plan.dag :
                (\A m \in done \cup {n} : plan.dag[m] \subseteq done) =>
                    \E m \in done : f \in plan.script[m].writes

There(p) == file[p].by # {}

(* A script that has begun has its outputs on the volume.                   *)
OutputsAreThere ==
    \A e \in Executions : \A n \in Nodes(e) :
        job[e][n] \in {"active", "succeeded", "failed"} => \A p \in Outputs(e, n) : There(p)

LEMMA OutputsArePaths ==
    ASSUME NEW e \in Executions, NEW n \in Nodes(e)
    PROVE  Outputs(e, n) \subseteq Paths
  BY FilesOfScripts DEF Outputs

(* A Job that is on the cluster finds what its script uses.                 *)
LEMMA InputsFound ==
    ASSUME \A p \in Programs : Fed(Plan[p]), IInv, OutputsAreThere,
           NEW e \in Executions, NEW n \in Nodes(e), job[e][n] # "none"
    PROVE  InputsThere(e, n)
  <1> DEFINE done == {m \in Nodes(e) : job[e][m] = "succeeded"}
  <1>1. PipelinesTypeOK /\ FailureStopsDependants
    BY DEF IInv, PipelinesInv
  <1>2. Fed(The(e))
    BY <1>1, Programmes DEF The
  <1>3. ASSUME NEW m \in done \cup {n} PROVE The(e).dag[m] \subseteq done
    BY <1>1, ParentsAreNodes DEF FailureStopsDependants, Parents
  <1>4. done \in SUBSET DOMAIN The(e).dag /\ n \in DOMAIN The(e).dag
    BY DEF Nodes
  <1> HIDE DEF done
  <1>5. ASSUME NEW f \in ScriptOf(e, n).needs \cup ScriptOf(e, n).reads
        PROVE  There(Path(e, f))
    <2>1. PICK m \in done : f \in ScriptOf(e, m).writes
      BY <1>2, <1>3, <1>4 DEF Fed, ScriptOf
    <2>2. m \in Nodes(e) /\ job[e][m] = "succeeded"
      BY DEF done
    <2> QED BY <2>1, <2>2 DEF OutputsAreThere, Outputs
  <1> QED BY <1>5 DEF InputsThere, There

(* A script that finds its inputs writes something.                         *)
LEMMA SomethingWritten ==
    ASSUME NEW e \in Executions, NEW n \in Nodes(e), InputsThere(e, n)
    PROVE  Data(e, n, Lineage(e, n)) # {}
  <1>1. CASE ScriptOf(e, n).reads = {}
    BY <1>1 DEF Data
  <1>2. CASE ScriptOf(e, n).reads # {}
    <2>1. PICK f \in ScriptOf(e, n).reads : file[Path(e, f)].by # {}
      BY <1>2 DEF InputsThere
    <2>2. file[Path(e, f)].by \subseteq Lineage(e, n)
      BY DEF Lineage
    <2> QED BY <1>2, <2>1, <2>2 DEF Data
  <1> QED BY <1>1, <1>2

LEMMA InputsStep ==
    ASSUME \A p \in Programs : Fed(Plan[p]), IInv, OutputsAreThere, InputsAreThere, [Next]_vars
    PROVE  OutputsAreThere' /\ InputsAreThere'
  <1>1. PipelinesTypeOK
    BY DEF IInv, PipelinesInv
  <1>2. cmd' = cmd
    BY DEF Next, vars, Caller, Begin, Deadline, Return, Exit, Remove, NodeStep, TooSlow, Start,
           NameTaken, ApiError, Wait, ClusterStep, JobBegins, JobEnds, JobDies
  <1>3. \A e \in Executions : Nodes(e)' = Nodes(e) /\ \A n : Outputs(e, n)' = Outputs(e, n)
    BY <1>2 DEF Nodes, The, Outputs, ScriptOf, Path
  <1>4. SUFFICES
            /\ \A p \in Paths : There(p) => There(p)'
            /\ \A e \in Executions : \A n \in Nodes(e) :
                  /\ job'[e][n] # "missing"
                  /\ job'[e][n] \in {"active", "succeeded", "failed"}
                        => job[e][n] \in {"active", "succeeded", "failed"}
                           \/ \A p \in Outputs(e, n) : There(p)'
    BY <1>1, <1>3, OutputsArePaths DEF OutputsAreThere, InputsAreThere
  <1>5. CASE UNCHANGED file /\ UNCHANGED job
    BY <1>5 DEF There, InputsAreThere
  <1>6. ASSUME NEW e \in Executions, Remove(e)
        PROVE  /\ \A p \in Paths : There(p) => There(p)'
               /\ \A f \in Executions : \A m \in Nodes(f) : job'[f][m] \in {"none", job[f][m]}
    BY <1>6 DEF Remove, There
  <1>7. ASSUME NEW e \in Executions, NEW n \in Nodes(e), NEW s \in {"pending", "died"},
               SetJob(e, n, s), UNCHANGED file
        PROVE  /\ \A p \in Paths : There(p) => There(p)'
               /\ \A f \in Executions : \A m \in Nodes(f) :
                     job'[f][m] \in {"pending", "died", job[f][m]}
    BY <1>1, <1>7, SetJobDoes DEF JobBecomes, There, JobStates
  <1>8. ASSUME NEW e \in Executions, NEW n \in Nodes(e), JobBegins(e, n)
        PROVE  /\ \A p \in Paths : There(p) => There(p)'
               /\ \A p \in Outputs(e, n) : There(p)'
               /\ JobBecomes(e, n, "active")
    <2>1. InputsThere(e, n)
      BY <1>8, InputsFound DEF JobBegins
    <2>2. PICK mine : mine = Data(e, n, Lineage(e, n)) /\ mine # {}
      BY <2>1, SomethingWritten
    <2>3. file' = [p \in DOMAIN file |-> IF p \in Outputs(e, n)
                                        THEN [by |-> mine, whole |-> FALSE] ELSE file[p]]
      BY <1>8, <2>1, <2>2 DEF JobBegins
    <2>4. DOMAIN file = Paths
      BY DEF IInv
    <2>5. JobBecomes(e, n, "active")
      BY <1>1, <1>8, <2>1, SetJobDoes DEF JobBegins, JobStates
    <2> QED BY <1>1, <2>2, <2>3, <2>4, <2>5, OutputsArePaths DEF There
  <1>9. ASSUME NEW e \in Executions, NEW n \in Nodes(e), JobEnds(e, n)
        PROVE  /\ \A p \in Paths : There(p) => There(p)'
               /\ job[e][n] = "active"
               /\ \E verdict \in {"succeeded", "failed"} : JobBecomes(e, n, verdict)
    <2>1. PICK mine : mine = Data(e, n, from[e][n])
      OBVIOUS
    <2>2. file' = [p \in DOMAIN file |->
                      IF p \in Outputs(e, n)
                      THEN [by |-> file[p].by \cup mine, whole |-> file[p].by = mine]
                      ELSE file[p]]
      BY <1>9, <2>1 DEF JobEnds
    <2>3. DOMAIN file = Paths
      BY DEF IInv
    <2>4. PICK verdict \in {"succeeded", "failed"} : SetJob(e, n, verdict)
      BY <1>9 DEF JobEnds, Verdicts
    <2>5. JobBecomes(e, n, verdict)
      BY <1>1, <2>4, SetJobDoes DEF JobStates
    <2> QED BY <1>9, <2>2, <2>3, <2>5 DEF There, JobEnds
  <1>10. CASE \E e \in Executions : Caller(e)
    BY <1>5, <1>6, <1>10 DEF Caller, Begin, Deadline, Return, Exit, InputsAreThere
  <1>11. CASE \E e \in Executions : \E n \in Nodes(e) : NodeStep(e, n)
    <2>1. PICK e \in Executions : \E n \in Nodes(e) : NodeStep(e, n)
      BY <1>11
    <2>2. PICK n \in Nodes(e) : NodeStep(e, n)
      BY <2>1
    <2>3. UNCHANGED file /\ (UNCHANGED job \/ SetJob(e, n, "pending"))
      BY <2>2 DEF NodeStep, TooSlow, Start, NameTaken, ApiError, Wait
    <2> QED BY <1>5, <1>7, <2>3 DEF InputsAreThere
  <1>12. CASE \E e \in Executions : \E n \in Nodes(e) : ClusterStep(e, n)
    <2>1. PICK e \in Executions : \E n \in Nodes(e) : ClusterStep(e, n)
      BY <1>12
    <2>2. PICK n \in Nodes(e) : ClusterStep(e, n)
      BY <2>1
    <2>3. CASE JobBegins(e, n)
      BY <1>8, <2>3 DEF JobBecomes, InputsAreThere
    <2>4. CASE JobEnds(e, n)
      BY <1>9, <2>4 DEF JobBecomes, InputsAreThere
    <2>5. CASE JobDies(e, n)
      BY <1>7, <2>5 DEF JobDies, InputsAreThere
    <2> QED BY <2>2, <2>3, <2>4, <2>5 DEF ClusterStep
  <1> QED BY <1>5, <1>10, <1>11, <1>12 DEF Next, vars

(* In a pipeline that feeds its nodes no script ever lacks a file or a      *)
(* directory it needs, whatever the other executions do to the volume,      *)
(* whoever crashes and whatever Jobs are deleted.                           *)
THEOREM InputsAreReady ==
    (\A p \in Programs : Fed(Plan[p])) => (Spec => []InputsAreThere)
  <1> SUFFICES ASSUME \A p \in Programs : Fed(Plan[p])
               PROVE  Spec => []InputsAreThere
    OBVIOUS
  <1>1. Init => OutputsAreThere /\ InputsAreThere
    BY DEF Init, OutputsAreThere, InputsAreThere
  <1>2. IInv /\ OutputsAreThere /\ InputsAreThere /\ [Next]_vars
            => OutputsAreThere' /\ InputsAreThere'
    BY InputsStep
  <1> QED BY <1>1, <1>2, Inductive, PTL DEF Spec
-----------------------------------------------------------------------------
(* Every file and directory of a pipeline is the work of one node at most.  *)
SoleWriters(plan) ==
    \A m, n \in DOMAIN plan.dag :
        m # n => plan.script[m].writes \cap plan.script[n].writes = {}

(* While nobody else works in its directory, what an execution's scripts    *)
(* have read, and what they write and have written, is its own, and whole   *)
(* once a script has ended.  ReportsAreOwn says the first of this, and only *)
(* of a call that has succeeded, which is too little to go on: the reader   *)
(* relies on the file's writer, the writer on what it has read itself.      *)
OutputsAreOwn ==
    \A e \in Executions : AloneInDirectory(e) => \A n \in Nodes(e) :
        /\ from[e][n] \subseteq {e}
        /\ job[e][n] = "active" => Data(e, n, from[e][n]) = {e}
        /\ job[e][n] \in {"active", "succeeded", "failed"} =>
              \A p \in Outputs(e, n) :
                 /\ file[p].by = {e}
                 /\ file[p].whole \/ job[e][n] = "active"

(* Who is alone in a directory was so before: no call is ever unmade.       *)
LEMMA AloneBefore ==
    ASSUME IInv, [Next]_vars, NEW e \in Executions, AloneInDirectory(e)'
    PROVE  cmd' = cmd /\ AloneInDirectory(e)
  <1>1. PipelinesTypeOK
    BY DEF IInv, PipelinesInv
  <1>2. cmd' = cmd
    BY DEF Next, vars, Caller, Begin, Deadline, Return, Exit, Remove, NodeStep, TooSlow, Start,
           NameTaken, ApiError, Wait, ClusterStep, JobBegins, JobEnds, JobDies
  <1>3. phase' = phase \/ \E f \in Executions : \E s \in {"running", "ok", "error", "gone"} :
                              phase' = [phase EXCEPT ![f] = s]
    BY DEF Next, vars, Caller, Begin, Deadline, Return, Exit, Remove, NodeStep, TooSlow, Start,
           NameTaken, ApiError, Wait, ClusterStep, JobBegins, JobEnds, JobDies
  <1>4. \A f \in Executions : phase'[f] = "idle" => phase[f] = "idle"
    BY <1>1, <1>3 DEF PipelinesTypeOK
  <1> QED BY <1>2, <1>4 DEF AloneInDirectory, SameRun, The

(* No two scripts of the executions an execution is alone with, and none of *)
(* its own, write one file, if both have begun.                             *)
LEMMA OutputsApart ==
    ASSUME \A p \in Programs : SoleWriters(Plan[p]), IInv,
           NEW e \in Executions, NEW n \in Nodes(e), AloneInDirectory(e), job[e][n] # "none",
           NEW g \in Executions, NEW m \in Nodes(g), job[g][m] # "none",
           e # g \/ n # m
    PROVE  Outputs(e, n) \cap Outputs(g, m) = {}
  <1>1. PipelinesTypeOK /\ IdleHasNothing
    BY DEF IInv, PipelinesInv
  <1>2. CASE e = g
    <2>1. SoleWriters(The(e))
      BY <1>1, Programmes DEF The
    <2>2. ScriptOf(e, n).writes \cap ScriptOf(e, m).writes = {}
      BY <1>2, <2>1 DEF SoleWriters, ScriptOf, Nodes
    <2> QED BY <1>2, <2>2 DEF Outputs, Path
  <1>3. CASE e # g
    <2>1. phase[g] # "idle"
      BY <1>1 DEF IdleHasNothing
    <2>2. ~SameRun(e, g)
      BY <1>3, ExclusiveRuns DEF RunsAreExclusive
    <2>3. <<The(g).root, cmd[g].run>> # <<The(e).root, cmd[e].run>>
      BY <1>3, <2>1, <2>2 DEF AloneInDirectory
    <2> QED BY <2>3 DEF Outputs, Path
  <1> QED BY <1>2, <1>3

(* A script about to begin, all of whose inputs are of its own execution,   *)
(* reads nothing else.                                                      *)
LEMMA ReadsOwn ==
    ASSUME \A p \in Programs : Fed(Plan[p]), IInv, OutputsAreOwn,
           NEW e \in Executions, NEW n \in Nodes(e), AloneInDirectory(e), job[e][n] # "none"
    PROVE  Lineage(e, n) \subseteq {e} /\ Data(e, n, Lineage(e, n)) = {e}
  <1> DEFINE done == {m \in Nodes(e) : job[e][m] = "succeeded"}
  <1>1. PipelinesTypeOK /\ FailureStopsDependants
    BY DEF IInv, PipelinesInv
  <1>2. Fed(The(e))
    BY <1>1, Programmes DEF The
  <1>3. ASSUME NEW m \in done \cup {n} PROVE The(e).dag[m] \subseteq done
    BY <1>1, ParentsAreNodes DEF FailureStopsDependants, Parents
  <1>4. done \in SUBSET DOMAIN The(e).dag /\ n \in DOMAIN The(e).dag
    BY DEF Nodes
  <1> HIDE DEF done
  <1>5. ASSUME NEW f \in ScriptOf(e, n).reads
        PROVE  file[Path(e, f)].by = {e} /\ file[Path(e, f)].whole
    <2>1. PICK m \in done : f \in ScriptOf(e, m).writes
      BY <1>2, <1>3, <1>4 DEF Fed, ScriptOf
    <2>2. m \in Nodes(e) /\ job[e][m] = "succeeded"
      BY DEF done
    <2>3. Path(e, f) \in Outputs(e, m)
      BY <2>1 DEF Outputs
    <2> QED BY <2>2, <2>3 DEF OutputsAreOwn
  <1>6. Lineage(e, n) \subseteq {e}
    BY <1>5 DEF Lineage
  <1>7. CASE ScriptOf(e, n).reads = {}
    BY <1>6, <1>7 DEF Data
  <1>8. CASE ScriptOf(e, n).reads # {}
    <2>1. PICK f : f \in ScriptOf(e, n).reads
      BY <1>8
    <2>2. file[Path(e, f)].by \subseteq Lineage(e, n)
      BY <2>1 DEF Lineage
    <2>3. e \in Lineage(e, n)
      BY <1>5, <2>1, <2>2
    <2> QED BY <1>6, <1>8, <2>3 DEF Data
  <1> QED BY <1>6, <1>7, <1>8

-----------------------------------------------------------------------------
(* A step that writes no file and sets no script to work keeps it so.       *)
LEMMA IdleStepOwn ==
    ASSUME IInv, OutputsAreOwn, [Next]_vars, UNCHANGED file,
           \A e \in Executions : \A n \in Nodes(e) :
              /\ from'[e][n] \in {{}, from[e][n]}
              /\ job'[e][n] # job[e][n] => job'[e][n] \in {"none", "pending", "died", "missing"}
              /\ from'[e][n] # from[e][n] => job'[e][n] # "active"
    PROVE  OutputsAreOwn'
  <1> SUFFICES ASSUME NEW e \in Executions, AloneInDirectory(e)', NEW n \in Nodes(e)'
               PROVE  /\ from'[e][n] \subseteq {e}
                      /\ job'[e][n] = "active" => Data(e, n, from[e][n])' = {e}
                      /\ job'[e][n] \in {"active", "succeeded", "failed"} =>
                            \A p \in Outputs(e, n)' :
                               /\ file'[p].by = {e}
                               /\ file'[p].whole \/ job'[e][n] = "active"
    BY DEF OutputsAreOwn
  <1>1. cmd' = cmd /\ AloneInDirectory(e)
    BY AloneBefore
  <1>2. n \in Nodes(e) /\ Outputs(e, n)' = Outputs(e, n) /\ ScriptOf(e, n)' = ScriptOf(e, n)
    BY <1>1 DEF Nodes, The, Outputs, ScriptOf, Path
  <1>3. /\ from[e][n] \subseteq {e}
        /\ job[e][n] = "active" => Data(e, n, from[e][n]) = {e}
        /\ job[e][n] \in {"active", "succeeded", "failed"} =>
              \A p \in Outputs(e, n) :
                 /\ file[p].by = {e}
                 /\ file[p].whole \/ job[e][n] = "active"
    BY <1>1, <1>2 DEF OutputsAreOwn
  <1>4. from'[e][n] \subseteq {e}
    BY <1>2, <1>3
  <1>5. ASSUME job'[e][n] = "active" PROVE Data(e, n, from[e][n])' = {e}
    BY <1>2, <1>3, <1>5 DEF Data
  <1>6. ASSUME job'[e][n] \in {"active", "succeeded", "failed"}, NEW p \in Outputs(e, n)'
        PROVE  file'[p].by = {e} /\ (file'[p].whole \/ job'[e][n] = "active")
    BY <1>2, <1>3, <1>6
  <1> QED BY <1>4, <1>5, <1>6
(* A script begins: what it reads is its own, and so is what it writes.     *)
LEMMA BeginsOwn ==
    ASSUME \A p \in Programs : Fed(Plan[p]) /\ SoleWriters(Plan[p]),
           IInv, OutputsAreThere, OutputsAreOwn, [Next]_vars,
           NEW g \in Executions, NEW m \in Nodes(g), JobBegins(g, m)
    PROVE  OutputsAreOwn'
  <1>1. PipelinesTypeOK /\ DOMAIN file = Paths
    BY DEF IInv, PipelinesInv
  <1>2. job[g][m] = "pending" /\ InputsThere(g, m)
    BY InputsFound DEF JobBegins
  <1>3. PICK read : read = Lineage(g, m)
    OBVIOUS
  <1>4. PICK mine : mine = Data(g, m, read)
    OBVIOUS
  <1>5. /\ SetJob(g, m, "active")
        /\ from' = [from EXCEPT ![g][m] = read]
        /\ file' = [p \in Paths |-> IF p \in Outputs(g, m) THEN [by |-> mine, whole |-> FALSE]
                                                          ELSE file[p]]
    BY <1>1, <1>2, <1>3, <1>4 DEF JobBegins
  <1>6. JobBecomes(g, m, "active")
    BY <1>1, <1>5, SetJobDoes DEF JobStates
  <1> SUFFICES ASSUME NEW e \in Executions, AloneInDirectory(e)', NEW n \in Nodes(e)'
               PROVE  /\ from'[e][n] \subseteq {e}
                      /\ job'[e][n] = "active" => Data(e, n, from[e][n])' = {e}
                      /\ job'[e][n] \in {"active", "succeeded", "failed"} =>
                            \A p \in Outputs(e, n)' :
                               /\ file'[p].by = {e}
                               /\ file'[p].whole \/ job'[e][n] = "active"
    BY DEF OutputsAreOwn
  <1>7. cmd' = cmd /\ AloneInDirectory(e)
    BY AloneBefore
  <1>8. n \in Nodes(e) /\ Outputs(e, n)' = Outputs(e, n) /\ ScriptOf(e, n)' = ScriptOf(e, n)
    BY <1>7 DEF Nodes, The, Outputs, ScriptOf, Path
  <1>9. Outputs(e, n) \subseteq Paths
    BY <1>8, OutputsArePaths
  <1>10. CASE e = g /\ n = m
    <2>1. read \subseteq {e} /\ mine = {e}
      BY <1>2, <1>3, <1>4, <1>7, <1>10, ReadsOwn
    <2>2. from'[e][n] = read
      BY <1>1, <1>5, <1>8, <1>10 DEF PipelinesTypeOK
    <2>3. job'[e][n] = "active"
      BY <1>6, <1>8, <1>10 DEF JobBecomes
    <2>4. Data(e, n, from[e][n])' = {e}
      BY <1>4, <1>8, <1>10, <2>1, <2>2 DEF Data
    <2>5. \A p \in Outputs(e, n) : file'[p].by = {e}
      BY <1>5, <1>9, <1>10, <2>1
    <2> QED BY <1>8, <2>1, <2>2, <2>3, <2>4, <2>5
  <1>11. CASE e # g \/ n # m
    <2>1. from'[e][n] = from[e][n] /\ job'[e][n] = job[e][n]
      BY <1>1, <1>5, <1>6, <1>8, <1>11 DEF PipelinesTypeOK, JobBecomes
    <2>2. Data(e, n, from[e][n])' = Data(e, n, from[e][n])
      BY <1>8, <2>1 DEF Data
    <2>3. ASSUME job[e][n] \in {"active", "succeeded", "failed"}, NEW p \in Outputs(e, n)
          PROVE  file'[p] = file[p]
      <3>1. Outputs(e, n) \cap Outputs(g, m) = {}
        BY <1>2, <1>7, <1>8, <1>11, <2>3, OutputsApart
      <3> QED BY <1>5, <1>9, <3>1
    <2>4. /\ from[e][n] \subseteq {e}
          /\ job[e][n] = "active" => Data(e, n, from[e][n]) = {e}
          /\ job[e][n] \in {"active", "succeeded", "failed"} =>
                \A p \in Outputs(e, n) :
                   /\ file[p].by = {e}
                   /\ file[p].whole \/ job[e][n] = "active"
      BY <1>7, <1>8 DEF OutputsAreOwn
    <2> QED BY <1>8, <2>1, <2>2, <2>3, <2>4
  <1> QED BY <1>10, <1>11

(* A script ends: nobody else has begun to write what it wrote.             *)
LEMMA EndsOwn ==
    ASSUME \A p \in Programs : SoleWriters(Plan[p]), IInv, OutputsAreOwn, [Next]_vars,
           NEW g \in Executions, NEW m \in Nodes(g), JobEnds(g, m)
    PROVE  OutputsAreOwn'
  <1>1. PipelinesTypeOK /\ DOMAIN file = Paths
    BY DEF IInv, PipelinesInv
  <1>2. PICK mine : mine = Data(g, m, from[g][m])
    OBVIOUS
  <1>3. /\ job[g][m] = "active"
        /\ from' = from
        /\ file' = [p \in Paths |->
                       IF p \in Outputs(g, m)
                       THEN [by |-> file[p].by \cup mine, whole |-> file[p].by = mine]
                       ELSE file[p]]
    BY <1>1, <1>2 DEF JobEnds
  <1>4. PICK verdict \in {"succeeded", "failed"} : JobBecomes(g, m, verdict)
    <2>1. PICK verdict \in {"succeeded", "failed"} : SetJob(g, m, verdict)
      BY DEF JobEnds, Verdicts
    <2> QED BY <1>1, <2>1, SetJobDoes DEF JobStates
  <1> SUFFICES ASSUME NEW e \in Executions, AloneInDirectory(e)', NEW n \in Nodes(e)'
               PROVE  /\ from'[e][n] \subseteq {e}
                      /\ job'[e][n] = "active" => Data(e, n, from[e][n])' = {e}
                      /\ job'[e][n] \in {"active", "succeeded", "failed"} =>
                            \A p \in Outputs(e, n)' :
                               /\ file'[p].by = {e}
                               /\ file'[p].whole \/ job'[e][n] = "active"
    BY DEF OutputsAreOwn
  <1>5. cmd' = cmd /\ AloneInDirectory(e)
    BY AloneBefore
  <1>6. n \in Nodes(e) /\ Outputs(e, n)' = Outputs(e, n) /\ ScriptOf(e, n)' = ScriptOf(e, n)
    BY <1>5 DEF Nodes, The, Outputs, ScriptOf, Path
  <1>7. Outputs(e, n) \subseteq Paths
    BY <1>6, OutputsArePaths
  <1>8. /\ from[e][n] \subseteq {e}
        /\ job[e][n] = "active" => Data(e, n, from[e][n]) = {e}
        /\ job[e][n] \in {"active", "succeeded", "failed"} =>
              \A p \in Outputs(e, n) :
                 /\ file[p].by = {e}
                 /\ file[p].whole \/ job[e][n] = "active"
    BY <1>5, <1>6 DEF OutputsAreOwn
  <1>9. CASE e = g /\ n = m
    <2>1. mine = {e} /\ \A p \in Outputs(e, n) : file[p].by = {e}
      BY <1>2, <1>3, <1>8, <1>9
    <2>2. \A p \in Outputs(e, n) : file'[p].by = {e} /\ file'[p].whole
      BY <1>3, <1>7, <1>9, <2>1
    <2>3. job'[e][n] # "active"
      BY <1>4, <1>6, <1>9 DEF JobBecomes
    <2> QED BY <1>3, <1>6, <1>8, <2>2, <2>3
  <1>10. CASE e # g \/ n # m
    <2>1. job'[e][n] = job[e][n]
      BY <1>4, <1>6, <1>10 DEF JobBecomes
    <2>2. Data(e, n, from[e][n])' = Data(e, n, from[e][n])
      BY <1>3, <1>6 DEF Data
    <2>3. ASSUME job[e][n] \in {"active", "succeeded", "failed"}, NEW p \in Outputs(e, n)
          PROVE  file'[p] = file[p]
      <3>1. Outputs(e, n) \cap Outputs(g, m) = {}
        BY <1>3, <1>5, <1>6, <1>10, <2>3, OutputsApart
      <3> QED BY <1>3, <1>7, <3>1
    <2> QED BY <1>3, <1>6, <1>8, <2>1, <2>2, <2>3
  <1> QED BY <1>9, <1>10

LEMMA OwnStep ==
    ASSUME \A p \in Programs : Fed(Plan[p]) /\ SoleWriters(Plan[p]),
           IInv, OutputsAreThere, OutputsAreOwn, [Next]_vars
    PROVE  OutputsAreOwn'
  <1>1. PipelinesTypeOK
    BY DEF IInv, PipelinesInv
  <1>2. cmd' = cmd /\ \A e \in Executions : Nodes(e)' = Nodes(e)
    <2>1. cmd' = cmd
      BY DEF Next, vars, Caller, Begin, Deadline, Return, Exit, Remove, NodeStep, TooSlow, Start,
             NameTaken, ApiError, Wait, ClusterStep, JobBegins, JobEnds, JobDies
    <2> QED BY <2>1 DEF Nodes, The
  <1>3. CASE UNCHANGED <<file, job, from>>
    BY <1>3, IdleStepOwn
  <1>4. ASSUME NEW e \in Executions, Remove(e) PROVE OutputsAreOwn'
    <2>1. UNCHANGED file
      BY <1>4 DEF Remove
    <2>2. \A f \in Executions : \A m \in Nodes(f) :
             \/ job'[f][m] = "none" /\ from'[f][m] = {}
             \/ job'[f][m] = job[f][m] /\ from'[f][m] = from[f][m]
      BY <1>4 DEF Remove
    <2> QED BY <2>1, <2>2, IdleStepOwn
  <1>5. ASSUME NEW e \in Executions, NEW n \in Nodes(e), NEW s \in {"pending", "died"},
               SetJob(e, n, s), UNCHANGED <<file, from>>
        PROVE  OutputsAreOwn'
    <2>1. JobBecomes(e, n, s)
      BY <1>1, <1>5, SetJobDoes DEF JobStates
    <2> QED BY <1>5, <2>1, IdleStepOwn DEF JobBecomes
  <1>6. CASE \E e \in Executions : Caller(e)
    BY <1>3, <1>4, <1>6 DEF Caller, Begin, Deadline, Return, Exit
  <1>7. CASE \E e \in Executions : \E n \in Nodes(e) : NodeStep(e, n)
    <2>1. PICK e \in Executions : \E n \in Nodes(e) : NodeStep(e, n)
      BY <1>7
    <2>2. PICK n \in Nodes(e) : NodeStep(e, n)
      BY <2>1
    <2>3. UNCHANGED <<file, from>> /\ (UNCHANGED job \/ SetJob(e, n, "pending"))
      BY <2>2 DEF NodeStep, TooSlow, Start, NameTaken, ApiError, Wait
    <2> QED BY <1>3, <1>5, <2>3
  <1>8. CASE \E e \in Executions : \E n \in Nodes(e) : ClusterStep(e, n)
    <2>1. PICK e \in Executions : \E n \in Nodes(e) : ClusterStep(e, n)
      BY <1>8
    <2>2. PICK n \in Nodes(e) : ClusterStep(e, n)
      BY <2>1
    <2>3. CASE JobBegins(e, n)
      BY <2>3, BeginsOwn
    <2>4. CASE JobEnds(e, n)
      BY <2>4, EndsOwn
    <2>5. CASE JobDies(e, n)
      BY <1>5, <2>5 DEF JobDies
    <2> QED BY <2>2, <2>3, <2>4, <2>5 DEF ClusterStep
  <1> QED BY <1>3, <1>6, <1>7, <1>8 DEF Next, vars

(* Where the edges bring every file a script uses, and no two nodes write   *)
(* one file, a call that succeeds has reported on its own data, unless      *)
(* somebody else worked in its directory: whatever earlier attempts at the  *)
(* run left on the volume, finished or not, and whoever crashes.            *)
THEOREM ReportsAlwaysOwn ==
    (\A p \in Programs : Fed(Plan[p]) /\ SoleWriters(Plan[p])) => (Spec => []ReportsAreOwn)
  <1> SUFFICES ASSUME \A p \in Programs : Fed(Plan[p]) /\ SoleWriters(Plan[p])
               PROVE  Spec => []ReportsAreOwn
    OBVIOUS
  <1>1. Init => OutputsAreThere /\ InputsAreThere /\ OutputsAreOwn
    BY DEF Init, OutputsAreThere, InputsAreThere, OutputsAreOwn
  <1>2. IInv /\ OutputsAreThere /\ InputsAreThere /\ [Next]_vars
            => OutputsAreThere' /\ InputsAreThere'
    BY InputsStep
  <1>3. IInv /\ OutputsAreThere /\ OutputsAreOwn /\ [Next]_vars => OutputsAreOwn'
    BY OwnStep
  <1>4. OutputsAreOwn => ReportsAreOwn
    BY DEF OutputsAreOwn, ReportsAreOwn
  <1> QED BY <1>1, <1>2, <1>3, <1>4, Inductive, PTL DEF Spec
-----------------------------------------------------------------------------
(* The pipelines of the commands, whatever the width of their fan-outs.     *)

(* A worker's name is its kind's and one more symbol.                       *)
LEMMA WorkersNamed ==
    ASSUME NEW kind, NEW w \in Workers(kind)
    PROVE  \E s : w = kind \o <<s>>
  BY DEF Workers, Worker

LEMMA SomeWorker == ASSUME NEW kind PROVE Workers(kind) # {}
  <1>1. 1 \in 1..Fan
    BY FanAssumption
  <1>2. Worker(kind, 1) \in Workers(kind)
    BY <1>1, Zenon DEF Workers
  <1> QED BY <1>2

(* What a node's script needs of the volume, and what it leaves there.      *)
Uses(plan, n) == plan.script[n].needs \cup plan.script[n].reads

Writes(plan, n) == plan.script[n].writes

(* A fan-out feeds its nodes if the first node's script leaves what the     *)
(* workers' need, and these, or the first, what the last one's needs: the   *)
(* last node waits for the workers only, but they have waited for the first.*)
LEMMA FanOutFed ==
    ASSUME NEW plan, NEW first, NEW workers, NEW last,
           plan.dag = FanOut(first, workers, last),
           first \notin workers, last \notin workers, first # last, workers # {},
           Uses(plan, first) = {},
           \A w \in workers : Uses(plan, w) \subseteq Writes(plan, first),
           \A f \in Uses(plan, last) :
              f \in Writes(plan, first) \/ \E w \in workers : f \in Writes(plan, w)
    PROVE  Fed(plan)
  <1>1. /\ DOMAIN plan.dag = {first, last} \cup workers
        /\ plan.dag[last] = workers
        /\ \A w \in workers : plan.dag[w] = {first}
    BY DEF FanOut
  <1> SUFFICES ASSUME NEW n \in DOMAIN plan.dag, NEW f \in Uses(plan, n),
                      NEW done \in SUBSET DOMAIN plan.dag,
                      \A m \in done \cup {n} : plan.dag[m] \subseteq done
               PROVE  \E m \in done : f \in Writes(plan, m)
    BY DEF Fed, Uses, Writes
  <1>2. CASE n \in workers
    BY <1>1, <1>2
  <1>3. CASE n = last
    <2>1. workers \subseteq done /\ first \in done
      BY <1>1, <1>3
    <2> QED BY <1>3, <2>1
  <1> QED BY <1>1, <1>2, <1>3

LEMMA FanOutSole ==
    ASSUME NEW plan, NEW first, NEW workers, NEW last,
           plan.dag = FanOut(first, workers, last),
           Writes(plan, first) \cap Writes(plan, last) = {},
           \A w \in workers :
              /\ Writes(plan, w) \cap Writes(plan, first) = {}
              /\ Writes(plan, w) \cap Writes(plan, last) = {}
              /\ \A v \in workers : v # w => Writes(plan, v) \cap Writes(plan, w) = {}
    PROVE  SoleWriters(plan)
  <1>1. DOMAIN plan.dag = {first, last} \cup workers
    BY DEF FanOut
  <1> SUFFICES ASSUME NEW m \in {first, last} \cup workers, NEW n \in {first, last} \cup workers,
                      m # n
               PROVE  Writes(plan, m) \cap Writes(plan, n) = {}
    BY <1>1 DEF SoleWriters, Writes
  <1> QED OBVIOUS

(* A pipeline of one node uses nothing.                                     *)
LEMMA OneNodeSound ==
    ASSUME NEW plan, NEW n, DOMAIN plan.dag = {n}, Uses(plan, n) = {}
    PROVE  Fed(plan) /\ SoleWriters(plan)
  BY DEF Fed, SoleWriters, Uses
-----------------------------------------------------------------------------
(* A name is a sequence of whatever.                                        *)
Word(w) == \E S : w \in Seq(S)

LEMMA Words ==
    ASSUME NEW v, NEW w, Word(v), Word(w)
    PROVE  \E S : v \in Seq(S) /\ w \in Seq(S)
  <1>1. PICK S : v \in Seq(S)
    BY DEF Word
  <1>2. PICK T : w \in Seq(T)
    BY DEF Word
  <1>3. S \subseteq S \cup T /\ T \subseteq S \cup T
    OBVIOUS
  <1>4. v \in Seq(S \cup T) /\ w \in Seq(S \cup T)
    BY <1>1, <1>2, <1>3, SeqMonotonic
  <1> QED BY <1>4

LEMMA OneSymbol ==
    ASSUME NEW x
    PROVE  <<x>> \in Seq({x}) /\ Len(<<x>>) = 1 /\ <<x>>[1] = x
  <1>1. Append(<<>>, x) \in Seq({x})
    BY EmptySeq, AppendProperties
  <1>2. <<x>> = Append(<<>>, x)
    OBVIOUS
  <1>3. Len(<<x>>) = 1 /\ <<x>>[1] = x
    OBVIOUS
  <1> QED BY <1>1, <1>2, <1>3

(* w is v with one symbol before it.                                        *)
Labelled(w, x, v) ==
    /\ Word(w)
    /\ Len(v) \in Nat
    /\ Len(w) = 1 + Len(v)
    /\ w[1] = x
    /\ \A i \in 1..Len(v) : w[1 + i] = v[i]

LEMMA Labels == ASSUME NEW x, NEW v, Word(v) PROVE Labelled(<<x>> \o v, x, v)
  <1>1. PICK d : d = <<x>>
    OBVIOUS
  <1>2. Word(d) /\ Len(d) = 1 /\ d[1] = x
    BY <1>1, OneSymbol DEF Word
  <1>3. PICK S : d \in Seq(S) /\ v \in Seq(S)
    BY <1>2, Words
  <1>4. PICK w : w = d \o v
    OBVIOUS
  <1>5. /\ w \in Seq(S)
        /\ Len(w) = Len(d) + Len(v)
        /\ \A i \in 1..(Len(d) + Len(v)) : w[i] = IF i <= Len(d) THEN d[i] ELSE v[i - Len(d)]
    BY <1>3, <1>4, ConcatProperties
  <1>6. Len(v) \in Nat
    BY <1>3, LenProperties
  <1>7. ASSUME NEW i \in 1..Len(v) PROVE w[1 + i] = v[i]
    <2>1. 1 + i \in 1..(1 + Len(v)) /\ ~(1 + i <= 1) /\ (1 + i) - 1 = i
      BY <1>6
    <2> QED BY <1>2, <1>5, <2>1
  <1>8. w[1] = x
    BY <1>2, <1>5, <1>6
  <1>9. Labelled(w, x, v)
    BY <1>2, <1>5, <1>6, <1>7, <1>8 DEF Labelled, Word
  <1> QED BY <1>1, <1>4, <1>9

LEMMA LabelsDiffer ==
    ASSUME NEW x, NEW v, Word(v), NEW y, NEW w, Word(w), <<x>> \o v = <<y>> \o w
    PROVE  x = y /\ v = w
  <1>1. PICK u : u = <<x>> \o v
    OBVIOUS
  <1>2. Labelled(u, x, v) /\ Labelled(u, y, w)
    BY <1>1, Labels
  <1>3. Len(v) = Len(w)
    BY <1>2 DEF Labelled
  <1>4. \A i \in 1..Len(v) : v[i] = w[i]
    BY <1>2, <1>3 DEF Labelled
  <1>5. PICK S : v \in Seq(S) /\ w \in Seq(S)
    BY Words
  <1>6. v = w
    BY <1>3, <1>4, <1>5, SeqEqual
  <1> QED BY <1>2, <1>6 DEF Labelled

(* A worker's name is longer than its kind's, and begins with it.           *)
LEMMA WorkerNames ==
    ASSUME NEW kind, Word(kind), NEW w \in Workers(kind)
    PROVE  /\ Word(w)
           /\ Len(w) = Len(kind) + 1
           /\ \A i \in 1..Len(kind) : w[i] = kind[i]
  <1>1. PICK s : w = kind \o <<s>>
    BY WorkersNamed
  <1>2. PICK d : d = <<s>>
    OBVIOUS
  <1>3. Word(d) /\ Len(d) = 1
    BY <1>2, OneSymbol DEF Word
  <1>4. PICK S : kind \in Seq(S) /\ d \in Seq(S)
    BY <1>3, Words
  <1>5. w = kind \o d
    BY <1>1, <1>2
  <1>6. Len(kind) \in Nat
    BY <1>4, LenProperties
  <1>7. /\ w \in Seq(S)
        /\ Len(w) = Len(kind) + Len(d)
        /\ \A i \in 1..(Len(kind) + Len(d)) :
              w[i] = IF i <= Len(kind) THEN kind[i] ELSE d[i - Len(kind)]
    BY <1>4, <1>5, ConcatProperties
  <1>8. \A i \in 1..Len(kind) : w[i] = kind[i]
    BY <1>3, <1>6, <1>7
  <1> QED BY <1>3, <1>7, <1>8 DEF Word

(* The nodes that are no workers.                                           *)
Ends == {NodeA, NodeC, NodeM, NodeD, NodeSetup, NodePrepare, NodeCollect}

LEMMA EndsNamed == \A n \in Ends : Word(n) /\ Len(n) = 1
  BY OneSymbol
  DEF Word, Ends, NodeA, NodeC, NodeM, NodeD, NodeSetup, NodePrepare, NodeCollect

LEMMA WorkersB == \A w \in NodesB : Word(w) /\ Len(w) = 2 /\ w[1] = "b" /\ w \notin Ends
  <1>1. PICK kind : kind = <<"b">>
    OBVIOUS
  <1>2. Word(kind) /\ Len(kind) = 1 /\ kind[1] = "b"
    BY <1>1, OneSymbol DEF Word
  <1> SUFFICES ASSUME NEW w \in NodesB PROVE Word(w) /\ Len(w) = 2 /\ w[1] = "b" /\ w \notin Ends
    OBVIOUS
  <1>3. w \in Workers(kind)
    BY <1>1 DEF NodesB
  <1>4. Word(w) /\ Len(w) = Len(kind) + 1 /\ \A i \in 1..Len(kind) : w[i] = kind[i]
    BY <1>2, <1>3, WorkerNames
  <1>5. Len(w) = 2 /\ w[1] = "b"
    BY <1>2, <1>4
  <1>6. w \notin Ends
    BY <1>5, EndsNamed
  <1> QED BY <1>4, <1>5, <1>6

LEMMA WorkersC == \A w \in NodesC : Word(w) /\ Len(w) = 2 /\ w[1] = "c" /\ w \notin Ends
  <1>1. PICK kind : kind = <<"c">>
    OBVIOUS
  <1>2. Word(kind) /\ Len(kind) = 1 /\ kind[1] = "c"
    BY <1>1, OneSymbol DEF Word
  <1> SUFFICES ASSUME NEW w \in NodesC PROVE Word(w) /\ Len(w) = 2 /\ w[1] = "c" /\ w \notin Ends
    OBVIOUS
  <1>3. w \in Workers(kind)
    BY <1>1 DEF NodesC
  <1>4. Word(w) /\ Len(w) = Len(kind) + 1 /\ \A i \in 1..Len(kind) : w[i] = kind[i]
    BY <1>2, <1>3, WorkerNames
  <1>5. Len(w) = 2 /\ w[1] = "c"
    BY <1>2, <1>4
  <1>6. w \notin Ends
    BY <1>5, EndsNamed
  <1> QED BY <1>4, <1>5, <1>6

LEMMA TwoSymbols ==
    ASSUME NEW x, NEW y
    PROVE  <<x, y>> \in Seq({x, y}) /\ Len(<<x, y>>) = 2
  <1>1. Append(Append(<<>>, x), y) \in Seq({x, y})
    BY EmptySeq, AppendProperties
  <1>2. <<x, y>> = Append(Append(<<>>, x), y)
    OBVIOUS
  <1>3. Len(<<x, y>>) = 2
    OBVIOUS
  <1> QED BY <1>1, <1>2, <1>3

LEMMA WorkersSpecimen == \A w \in SpecimenWorkers : Word(w) /\ w \notin Ends
  <1>1. PICK kind : kind = <<"worker", "-">>
    OBVIOUS
  <1>2. Word(kind) /\ Len(kind) = 2
    BY <1>1, TwoSymbols DEF Word
  <1> SUFFICES ASSUME NEW w \in SpecimenWorkers PROVE Word(w) /\ w \notin Ends
    OBVIOUS
  <1>3. w \in Workers(kind)
    BY <1>1 DEF SpecimenWorkers
  <1>4. Word(w) /\ Len(w) = Len(kind) + 1
    BY <1>2, <1>3, WorkerNames
  <1> QED BY <1>2, <1>4, EndsNamed

-----------------------------------------------------------------------------
(* What a file or a directory is, its name's first symbol tells.            *)
LEMMA FileNames ==
    ASSUME NEW w, Word(w)
    PROVE  /\ Word(Shard(w)) /\ Shard(w)[1] = "shard"
           /\ Word(Dir(w)) /\ Dir(w)[1] = "mkdir"
           /\ Word(Report) /\ Report[1] = "report"
           /\ Word(Merged) /\ Merged[1] = "merged"
           /\ Word(Seed) /\ Seed[1] = "seed"
           /\ Word(<<"done">> \o w) /\ (<<"done">> \o w)[1] = "done"
  <1>1. /\ Word(Report) /\ Report[1] = "report"
        /\ Word(Merged) /\ Merged[1] = "merged"
        /\ Word(Seed) /\ Seed[1] = "seed"
    BY OneSymbol DEF Word, Report, Merged, Seed
  <1>2. Word(Shard(w)) /\ Shard(w)[1] = "shard"
    BY Labels DEF Shard, Labelled
  <1>3. Word(Dir(w)) /\ Dir(w)[1] = "mkdir"
    BY Labels DEF Dir, Labelled
  <1>4. Word(<<"done">> \o w) /\ (<<"done">> \o w)[1] = "done"
    <2>1. PICK v : v = <<"done">> \o w
      OBVIOUS
    <2>2. Word(v) /\ v[1] = "done"
      BY <2>1, Labels DEF Labelled
    <2> QED BY <2>1, <2>2
  <1> QED BY <1>1, <1>2, <1>3, <1>4

LEMMA ShardsDiffer ==
    ASSUME NEW v, Word(v), NEW w, Word(w), Shard(v) = Shard(w)
    PROVE  v = w
  BY LabelsDiffer DEF Shard

LEMMA Scripted ==
    ASSUME NEW plan, NEW n, NEW directories, NEW reads, NEW writes,
           plan.script[n] = Script(directories, reads, writes)
    PROVE  Uses(plan, n) = directories \cup reads /\ Writes(plan, n) = writes
  <1>1. PICK s : s = plan.script[n]
    OBVIOUS
  <1>2. Uses(plan, n) = s.needs \cup s.reads /\ Writes(plan, n) = s.writes
    BY <1>1 DEF Uses, Writes
  <1>3. s = Script(directories, reads, writes)
    BY <1>1
  <1>4. s.needs = directories /\ s.reads = reads /\ s.writes = writes
    BY <1>3 DEF Script
  <1> QED BY <1>2, <1>4

(* A node that uses nothing, makes directories and writes one file.         *)
SetsUp(plan, n, directories, out) ==
    /\ Uses(plan, n) = {}
    /\ Writes(plan, n) = {Dir(d) : d \in directories} \cup {out}

LEMMA SetUpUses ==
    ASSUME NEW plan, NEW n, NEW directories, NEW out, plan.script[n] = SetUp(directories, out)
    PROVE  SetsUp(plan, n, directories, out)
  <1>1. PICK made : made = {Dir(d) : d \in directories} \cup {out}
    OBVIOUS
  <1>2. plan.script[n] = Script({}, {}, made)
    BY <1>1 DEF SetUp, Plain
  <1>3. Uses(plan, n) = {} \cup {} /\ Writes(plan, n) = made
    BY <1>2, Scripted
  <1> QED BY <1>1, <1>3 DEF SetsUp

LEMMA WriteShardUses ==
    ASSUME NEW plan, NEW n, NEW w, NEW inputs, plan.script[n] = WriteShard(w, inputs)
    PROVE  Uses(plan, n) = {Dir(Shard(w))} \cup inputs /\ Writes(plan, n) = {Shard(w)}
  <1>1. plan.script[n] = Script({Dir(Shard(w))}, inputs, {Shard(w)})
    BY DEF WriteShard
  <1> QED BY <1>1, Scripted

LEMMA CollectUses ==
    ASSUME NEW plan, NEW n, NEW workers, NEW report, plan.script[n] = Collect(workers, report)
    PROVE  Uses(plan, n) = {Dir(report)} \cup Shards(workers) /\ Writes(plan, n) = {report}
  <1>1. plan.script[n] = Script({Dir(report)}, Shards(workers), {report})
    BY DEF Collect
  <1> QED BY <1>1, Scripted

(* A fan-out whose workers write a shard each and whose last node reports   *)
(* on the shards: the first node makes every directory.                     *)
LEMMA ShardedSound ==
    ASSUME NEW plan, NEW first, NEW workers, NEW last, NEW out, NEW inputs \in {{}, {out}},
           plan.dag = FanOut(first, workers, last),
           first \notin workers, last \notin workers, first # last, workers # {},
           \A w \in workers : Word(w),
           plan.script[first] = SetUp(Shards(workers) \cup {Report}, out),
           \A w \in workers : plan.script[w] = WriteShard(w, inputs),
           plan.script[last] = Collect(workers, Report),
           out[1] \in {"seed", "done"}
    PROVE  Fed(plan) /\ SoleWriters(plan)
  <1>1. /\ Uses(plan, first) = {}
        /\ Writes(plan, first) = {Dir(d) : d \in Shards(workers) \cup {Report}} \cup {out}
    <2>1. SetsUp(plan, first, Shards(workers) \cup {Report}, out)
      BY SetUpUses
    <2> QED BY <2>1 DEF SetsUp
  <1>2. ASSUME NEW w \in workers
        PROVE  Uses(plan, w) = {Dir(Shard(w))} \cup inputs /\ Writes(plan, w) = {Shard(w)}
    BY WriteShardUses
  <1>3. Uses(plan, last) = {Dir(Report)} \cup Shards(workers) /\ Writes(plan, last) = {Report}
    BY CollectUses
  <1>4. Fed(plan)
    <2>1. \A w \in workers : Uses(plan, w) \subseteq Writes(plan, first)
      BY <1>1, <1>2 DEF Shards
    <2>2. ASSUME NEW f \in Uses(plan, last)
          PROVE  f \in Writes(plan, first) \/ \E w \in workers : f \in Writes(plan, w)
      <3>1. CASE f = Dir(Report)
        BY <1>1, <3>1
      <3>2. CASE f \in Shards(workers)
        BY <1>2, <3>2 DEF Shards
      <3> QED BY <1>3, <3>1, <3>2
    <2> QED BY <1>1, <2>1, <2>2, FanOutFed
  <1>5. SoleWriters(plan)
    <2>1. ASSUME NEW f \in Writes(plan, first) PROVE f[1] \in {"mkdir", "seed", "done"}
      <3>1. CASE f = out
        BY <3>1
      <3>2. CASE f \in {Dir(d) : d \in Shards(workers) \cup {Report}}
        <4>1. PICK d \in Shards(workers) \cup {Report} : f = Dir(d)
          BY <3>2
        <4>2. Word(d)
          BY <4>1, FileNames DEF Shards
        <4> QED BY <4>1, <4>2, FileNames
      <3> QED BY <1>1, <2>1, <3>1, <3>2
    <2>2. \A w \in workers : Shard(w)[1] = "shard"
      BY FileNames
    <2>3. Report[1] = "report"
      BY FileNames
    <2>4. Writes(plan, first) \cap Writes(plan, last) = {}
      BY <1>3, <2>1, <2>3
    <2>5. ASSUME NEW w \in workers
          PROVE  /\ Writes(plan, w) \cap Writes(plan, first) = {}
                 /\ Writes(plan, w) \cap Writes(plan, last) = {}
                 /\ \A v \in workers : v # w => Writes(plan, v) \cap Writes(plan, w) = {}
      <3>1. Writes(plan, w) \cap Writes(plan, first) = {}
        BY <1>2, <2>1, <2>2
      <3>2. Writes(plan, w) \cap Writes(plan, last) = {}
        BY <1>2, <1>3, <2>2, <2>3
      <3>3. \A v \in workers : v # w => Writes(plan, v) \cap Writes(plan, w) = {}
        BY <1>2, ShardsDiffer
      <3> QED BY <3>1, <3>2, <3>3
    <2> QED BY <2>4, <2>5, FanOutSole
  <1> QED BY <1>4, <1>5

-----------------------------------------------------------------------------
(* The pipelines, one by one.                                               *)
LEMMA PocSound == Fed(PocPipeline) /\ SoleWriters(PocPipeline)
  <1>1. PICK plan : plan = PocPipeline
    OBVIOUS
  <1>2. PICK scripts : scripts = Scripts(NodeA, SpecA, NodesB, SpecWorker, NodeC, SpecCollect)
    OBVIOUS
  <1>3. plan.dag = FanOut(NodeA, NodesB, NodeC) /\ plan.script = scripts
    BY <1>1, <1>2 DEF PocPipeline, PerRun, PocDag
  <1>4. NodeA # NodeC /\ NodeA \notin NodesB /\ NodeC \notin NodesB
    BY WorkersB DEF Ends, NodeA, NodeC
  <1>5. /\ plan.script[NodeA] = SpecA
        /\ \A w \in NodesB : plan.script[w] = SpecWorker(w)
        /\ plan.script[NodeC] = SpecCollect
    BY <1>2, <1>3, <1>4 DEF Scripts
  <1>6. plan.script[NodeA] = SetUp(Shards(NodesB) \cup {Report}, Seed)
    BY <1>5 DEF SpecA
  <1>7. \A w \in NodesB : plan.script[w] = WriteShard(w, {Seed})
    BY <1>5 DEF SpecWorker
  <1>8. plan.script[NodeC] = Collect(NodesB, Report)
    BY <1>5 DEF SpecCollect
  <1>9. Seed[1] = "seed" /\ NodesB # {} /\ \A w \in NodesB : Word(w)
    BY WorkersB, SomeWorker, OneSymbol DEF Seed, NodesB
  <1>10. Fed(plan) /\ SoleWriters(plan)
    BY <1>3, <1>4, <1>6, <1>7, <1>8, <1>9, ShardedSound
  <1> QED BY <1>1, <1>10

LEMMA WideFanoutSound == Fed(WideFanout) /\ SoleWriters(WideFanout)
  <1>1. PICK plan : plan = WideFanout
    OBVIOUS
  <1>2. PICK scripts : scripts = Scripts(NodeA, StressSpecSetup(NodesB, {Report}),
                                         NodesB, StressSpec, NodeC, StressSpecCollect)
    OBVIOUS
  <1>3. plan.dag = FanOut(NodeA, NodesB, NodeC) /\ plan.script = scripts
    BY <1>1, <1>2 DEF WideFanout, Stress, PerRun, WideFanoutDag
  <1>4. NodeA # NodeC /\ NodeA \notin NodesB /\ NodeC \notin NodesB
    BY WorkersB DEF Ends, NodeA, NodeC
  <1>5. /\ plan.script[NodeA] = StressSpecSetup(NodesB, {Report})
        /\ \A w \in NodesB : plan.script[w] = StressSpec(w)
        /\ plan.script[NodeC] = StressSpecCollect
    BY <1>2, <1>3, <1>4 DEF Scripts
  <1>6. PICK out : out = <<"done">> \o NodeA
    OBVIOUS
  <1>7. plan.script[NodeA] = SetUp(Shards(NodesB) \cup {Report}, out)
    BY <1>5, <1>6 DEF StressSpecSetup
  <1>8. \A w \in NodesB : plan.script[w] = WriteShard(w, {})
    BY <1>5 DEF StressSpec
  <1>9. plan.script[NodeC] = Collect(NodesB, Report)
    BY <1>5 DEF StressSpecCollect
  <1>10. out[1] = "done" /\ NodesB # {} /\ \A w \in NodesB : Word(w)
    BY <1>6, WorkersB, SomeWorker, EndsNamed, FileNames DEF Ends, NodesB
  <1>11. Fed(plan) /\ SoleWriters(plan)
    BY <1>3, <1>4, <1>7, <1>8, <1>9, <1>10, ShardedSound
  <1> QED BY <1>1, <1>11

(* Both pipelines of cmd/ingress have these scripts.                        *)
LEMMA IngressSound ==
    ASSUME NEW plan, NEW first \in {NodeSetup, NodePrepare}, NEW workers,
           workers # {}, \A w \in workers : Word(w) /\ w \notin Ends,
           plan.dag = FanOut(first, workers, NodeCollect),
           plan.script = IngressScripts(first, workers)
    PROVE  Fed(plan) /\ SoleWriters(plan)
  <1>1. first # NodeCollect /\ first \notin workers /\ NodeCollect \notin workers /\ Word(first)
    BY EndsNamed DEF Ends, NodeSetup, NodePrepare, NodeCollect
  <1>2. PICK out : out = <<"done">> \o first
    OBVIOUS
  <1>3. plan.script[first] = SetUp(Shards(workers) \cup {Report}, out)
    BY <1>1, <1>2 DEF IngressScripts, Scripts
  <1>4. \A w \in workers : plan.script[w] = WriteShard(w, {})
    BY <1>1 DEF IngressScripts, Scripts
  <1>5. plan.script[NodeCollect] = Collect(workers, Report)
    BY <1>1 DEF IngressScripts, Scripts
  <1>6. out[1] = "done"
    BY <1>1, <1>2, FileNames
  <1> QED BY <1>1, <1>3, <1>4, <1>5, <1>6, ShardedSound

LEMMA WideFanout3Sound == Fed(WideFanout3) /\ SoleWriters(WideFanout3)
  <1>1. PICK plan : plan = WideFanout3
    OBVIOUS
  <1>2. plan.dag = FanOut(NodeSetup, NodesB, NodeCollect)
        /\ plan.script = IngressScripts(NodeSetup, NodesB)
    BY <1>1 DEF WideFanout3, Ingress, PerRun, WideFanout3Dag
  <1>3. NodesB # {} /\ \A w \in NodesB : Word(w) /\ w \notin Ends
    BY WorkersB, SomeWorker DEF NodesB
  <1>4. Fed(plan) /\ SoleWriters(plan)
    BY <1>2, <1>3, IngressSound
  <1> QED BY <1>1, <1>4

LEMMA SpecimenSound == Fed(Specimen) /\ SoleWriters(Specimen)
  <1>1. PICK plan : plan = Specimen
    OBVIOUS
  <1>2. plan.dag = FanOut(NodePrepare, SpecimenWorkers, NodeCollect)
        /\ plan.script = IngressScripts(NodePrepare, SpecimenWorkers)
    BY <1>1 DEF Specimen, Ingress, PerRun, SpecimenDag, SpecimenScripts
  <1>3. SpecimenWorkers # {} /\ \A w \in SpecimenWorkers : Word(w) /\ w \notin Ends
    BY WorkersSpecimen, SomeWorker DEF SpecimenWorkers
  <1>4. Fed(plan) /\ SoleWriters(plan)
    BY <1>2, <1>3, IngressSound
  <1> QED BY <1>1, <1>4

LEMMA PlainUses ==
    ASSUME NEW plan, NEW n, NEW reads, NEW writes, plan.script[n] = Plain(reads, writes)
    PROVE  Uses(plan, n) = reads /\ Writes(plan, n) = writes
  <1>1. plan.script[n] = Script({}, reads, writes)
    BY DEF Plain
  <1>2. Uses(plan, n) = {} \cup reads /\ Writes(plan, n) = writes
    BY <1>1, Scripted
  <1> QED BY <1>2

(* Whatever such a script exits with.                                       *)
Exits(reads, writes, verdict) == [Plain(reads, writes) EXCEPT !.verdict = verdict]

LEMMA ExitUses ==
    ASSUME NEW plan, NEW n, NEW reads, NEW writes, NEW verdict,
           plan.script[n] = Exits(reads, writes, verdict)
    PROVE  Uses(plan, n) = reads /\ Writes(plan, n) = writes
  <1>1. PICK s : s = plan.script[n]
    OBVIOUS
  <1>2. Uses(plan, n) = s.needs \cup s.reads /\ Writes(plan, n) = s.writes
    BY <1>1 DEF Uses, Writes
  <1>3. s = Exits(reads, writes, verdict)
    BY <1>1
  <1>4. s = [needs |-> {}, reads |-> reads, writes |-> writes, verdict |-> verdict]
    BY <1>3 DEF Exits, Plain, Script
  <1>5. s.needs = {} /\ s.reads = reads /\ s.writes = writes
    BY <1>4
  <1> QED BY <1>2, <1>5

LEMMA NothingUsed ==
    ASSUME NEW plan, NEW n, plan.script[n] = ExitOne \/ plan.script[n] = Plain({}, {})
    PROVE  Uses(plan, n) = {} /\ Writes(plan, n) = {}
  <1>1. PICK none : none = {}
    OBVIOUS
  <1>2. CASE plan.script[n] = ExitOne
    <2>1. plan.script[n] = Exits(none, none, "exit 1")
      BY <1>1, <1>2 DEF ExitOne, Exits
    <2>2. Uses(plan, n) = none /\ Writes(plan, n) = none
      BY <2>1, ExitUses
    <2> QED BY <1>1, <2>2
  <1>3. CASE plan.script[n] = Plain({}, {})
    <2>1. plan.script[n] = Plain(none, none)
      BY <1>1, <1>3
    <2>2. Uses(plan, n) = none /\ Writes(plan, n) = none
      BY <2>1, PlainUses
    <2> QED BY <1>1, <2>2
  <1> QED BY <1>2, <1>3

LEMMA AbcSound == Fed(PipelineAbc) /\ SoleWriters(PipelineAbc)
  <1>1. PICK plan : plan = PipelineAbc
    OBVIOUS
  <1>2. PICK b, text : b = <<"b">> /\ text = <<"b.txt">>
    OBVIOUS
  <1>3. b # NodeA /\ b # NodeC /\ NodeA # NodeC /\ text # TextA
    BY <1>2 DEF NodeA, NodeC, TextA
  <1>4. plan.dag = FanOut(NodeA, {b}, NodeC) /\ plan.script = AbcScripts
    BY <1>1, <1>2 DEF PipelineAbc, Fixed, AbcDag
  <1>5. /\ plan.script[NodeA] = Plain({}, {TextA})
        /\ plan.script[b] = Plain({TextA}, {text})
        /\ plan.script[NodeC] = Exits({text}, {}, "verify")
    BY <1>2, <1>3, <1>4 DEF AbcScripts, Scripts, Exits
  <1>6. /\ Uses(plan, NodeA) = {} /\ Writes(plan, NodeA) = {TextA}
        /\ Uses(plan, b) = {TextA} /\ Writes(plan, b) = {text}
        /\ Uses(plan, NodeC) = {text} /\ Writes(plan, NodeC) = {}
    <2>1. Uses(plan, NodeA) = {} /\ Writes(plan, NodeA) = {TextA}
      BY <1>5, PlainUses
    <2>2. Uses(plan, b) = {TextA} /\ Writes(plan, b) = {text}
      BY <1>5, PlainUses
    <2>3. Uses(plan, NodeC) = {text} /\ Writes(plan, NodeC) = {}
      BY <1>5, ExitUses
    <2> QED BY <2>1, <2>2, <2>3
  <1>7. Fed(plan)
    BY <1>3, <1>4, <1>6, FanOutFed
  <1>8. SoleWriters(plan)
    BY <1>3, <1>4, <1>6, FanOutSole
  <1> QED BY <1>1, <1>7, <1>8

LEMMA FanoutSound == Fed(Fanout) /\ SoleWriters(Fanout)
  <1>1. PICK plan : plan = Fanout
    OBVIOUS
  <1>2. plan.dag = FanoutDag /\ plan.script = FanoutScripts
    BY <1>1 DEF Fanout, Fixed
  <1>3. ASSUME NEW w \in SpreadB PROVE w \in NodesB
    <2>1. PICK i \in 1..Spread : w = Worker(<<"b">>, i)
      BY Zenon DEF SpreadB
    <2>2. i \in 1..Fan
      BY FanAssumption
    <2> QED BY <2>1, <2>2, Zenon DEF NodesB, Workers
  <1>4. NodeA \notin SpreadB /\ TextA \notin SpreadB
    <2>1. Len(TextA) = 1
      BY OneSymbol DEF TextA
    <2>2. \A w \in SpreadB : Len(w) = 2 /\ w # NodeA
      BY <1>3, WorkersB DEF Ends
    <2> QED BY <2>1, <2>2
  <1>5. /\ DOMAIN plan.dag = {NodeA} \cup SpreadB
        /\ \A w \in SpreadB : plan.dag[w] = {NodeA}
    BY <1>2, <1>4 DEF FanoutDag
  <1>6. /\ plan.script[NodeA] = Plain({}, {TextA})
        /\ \A w \in SpreadB : plan.script[w] = Plain({TextA}, {w})
    BY <1>2, <1>4 DEF FanoutScripts
  <1>7. Uses(plan, NodeA) = {} /\ Writes(plan, NodeA) = {TextA}
    BY <1>6, PlainUses
  <1>8. ASSUME NEW w \in SpreadB PROVE Uses(plan, w) = {TextA} /\ Writes(plan, w) = {w}
    <2>1. plan.script[w] = Plain({TextA}, {w})
      BY <1>6
    <2> QED BY <2>1, PlainUses
  <1>9. Fed(plan)
    <2> SUFFICES ASSUME NEW n \in DOMAIN plan.dag, NEW f \in Uses(plan, n),
                        NEW done \in SUBSET DOMAIN plan.dag,
                        \A m \in done \cup {n} : plan.dag[m] \subseteq done
                 PROVE  \E m \in done : f \in Writes(plan, m)
      BY DEF Fed, Uses, Writes
    <2>1. n \in SpreadB
      BY <1>5, <1>7
    <2> QED BY <1>5, <1>7, <1>8, <2>1
  <1>10. SoleWriters(plan)
    <2> SUFFICES ASSUME NEW m \in DOMAIN plan.dag, NEW n \in DOMAIN plan.dag, m # n
                 PROVE  Writes(plan, m) \cap Writes(plan, n) = {}
      BY DEF SoleWriters, Writes
    <2> QED BY <1>4, <1>5, <1>7, <1>8
  <1> QED BY <1>1, <1>9, <1>10

LEMMA FastfailSound == Fed(Fastfail) /\ SoleWriters(Fastfail)
  <1>1. PICK plan : plan = Fastfail
    OBVIOUS
  <1>2. PICK seed : seed = <<"ff-seed">>
    OBVIOUS
  <1>3. NodeA # NodeC /\ NodeA \notin NodesB /\ NodeC \notin NodesB
    BY WorkersB DEF Ends, NodeA, NodeC
  <1>4. plan.dag = FanOut(NodeA, NodesB, NodeC) /\ plan.script = FastfailScripts
    BY <1>1 DEF Fastfail, Fixed, FastfailDag
  <1>5. /\ plan.script[NodeA] = Plain({}, {seed})
        /\ plan.script[NodeC] = ExitOne
        /\ \A w \in NodesB : plan.script[w] \in {ExitOne, Plain({}, {<<"ff">> \o w})}
    BY <1>2, <1>3, <1>4 DEF FastfailScripts, Scripts
  <1>6. Uses(plan, NodeA) = {} /\ Writes(plan, NodeA) = {seed}
    <2>1. plan.script[NodeA] = Plain({}, {seed})
      BY <1>5
    <2> QED BY <2>1, PlainUses
  <1>7. Uses(plan, NodeC) = {} /\ Writes(plan, NodeC) = {}
    BY <1>5, NothingUsed
  <1>8. ASSUME NEW w \in NodesB
        PROVE  Uses(plan, w) = {} /\ Writes(plan, w) \subseteq {<<"ff">> \o w}
    <2>1. CASE plan.script[w] = ExitOne
      BY <2>1, NothingUsed
    <2>2. CASE plan.script[w] = Plain({}, {<<"ff">> \o w})
      <3>1. PICK out : out = <<"ff">> \o w
        OBVIOUS
      <3>2. plan.script[w] = Plain({}, {out})
        BY <2>2, <3>1
      <3> QED BY <3>1, <3>2, PlainUses
    <2> QED BY <1>5, <2>1, <2>2
  <1>9. NodesB # {}
    BY SomeWorker DEF NodesB
  <1>10. Fed(plan)
    BY <1>3, <1>4, <1>6, <1>7, <1>8, <1>9, FanOutFed
  <1>11. ASSUME NEW w \in NodesB, NEW v \in NodesB, v # w
         PROVE  <<"ff">> \o v # <<"ff">> \o w
    BY <1>11, WorkersB, LabelsDiffer
  <1>12. ASSUME NEW w \in NodesB PROVE <<"ff">> \o w # seed
    <2>1. PICK out : out = <<"ff">> \o w
      OBVIOUS
    <2>2. out[1] = "ff"
      BY <2>1, WorkersB, Labels DEF Labelled
    <2>3. seed[1] = "ff-seed"
      BY <1>2, OneSymbol
    <2> QED BY <2>1, <2>2, <2>3
  <1>13. SoleWriters(plan)
    <2>1. Writes(plan, NodeA) \cap Writes(plan, NodeC) = {}
      BY <1>7
    <2>2. ASSUME NEW w \in NodesB
          PROVE  /\ Writes(plan, w) \cap Writes(plan, NodeA) = {}
                 /\ Writes(plan, w) \cap Writes(plan, NodeC) = {}
                 /\ \A v \in NodesB : v # w => Writes(plan, v) \cap Writes(plan, w) = {}
      <3>1. Writes(plan, w) \cap Writes(plan, NodeA) = {}
        BY <1>6, <1>8, <1>12
      <3>2. ASSUME NEW v \in NodesB, v # w PROVE Writes(plan, v) \cap Writes(plan, w) = {}
        BY <1>8, <1>11, <3>2
      <3> QED BY <1>7, <3>1, <3>2
    <2> QED BY <1>4, <2>1, <2>2, FanOutSole
  <1> QED BY <1>1, <1>10, <1>13

LEMMA ExecClassSound == Fed(ExecClass) /\ SoleWriters(ExecClass)
  <1>1. PICK plan : plan = ExecClass
    OBVIOUS
  <1>2. PICK b1, b2, seed : b1 = <<"b", "1">> /\ b2 = <<"b", "2">> /\ seed = <<"ec-seed">>
    OBVIOUS
  <1>3. ClassWorkers = {b1, b2}
    BY <1>2 DEF ClassWorkers
  <1>4. Word(b1) /\ Word(b2) /\ Len(b1) = 2 /\ Len(b2) = 2 /\ b1 # b2
    BY <1>2, TwoSymbols DEF Word
  <1>5. NodeA # NodeC /\ NodeA \notin ClassWorkers /\ NodeC \notin ClassWorkers
    <2>1. NodeA # NodeC
      BY DEF NodeA, NodeC
    <2>2. Len(NodeA) = 1 /\ Len(NodeC) = 1
      BY EndsNamed DEF Ends
    <2> QED BY <1>3, <1>4, <2>1, <2>2
  <1>6. plan.dag = FanOut(NodeA, ClassWorkers, NodeC) /\ plan.script = ExecClassScripts
    BY <1>1 DEF ExecClass, Fixed, ExecClassDag
  <1>7. PICK shards : shards = {ClassShard(w) : w \in ClassWorkers}
    OBVIOUS
  <1>8. /\ plan.script[NodeA] = Plain({}, {seed})
        /\ \A w \in ClassWorkers : plan.script[w] = Plain({seed}, {ClassShard(w)})
        /\ plan.script[NodeC] = Plain(shards, {})
    BY <1>2, <1>5, <1>6, <1>7 DEF ExecClassScripts, Scripts
  <1>9. Uses(plan, NodeA) = {} /\ Writes(plan, NodeA) = {seed}
    BY <1>8, PlainUses
  <1>10. ASSUME NEW w \in ClassWorkers
         PROVE  Uses(plan, w) = {seed} /\ Writes(plan, w) = {ClassShard(w)}
    <2>1. plan.script[w] = Plain({seed}, {ClassShard(w)})
      BY <1>8
    <2> QED BY <2>1, PlainUses
  <1>11. Uses(plan, NodeC) = shards /\ Writes(plan, NodeC) = {}
    BY <1>8, PlainUses
  <1>12. \A w \in ClassWorkers : ClassShard(w) # seed
    <2>1. \A w \in ClassWorkers : ClassShard(w)[1] = "ec"
      BY <1>3, <1>4, Labels DEF ClassShard, Labelled
    <2>2. seed[1] = "ec-seed"
      BY <1>2, OneSymbol
    <2> QED BY <2>1, <2>2
  <1>13. \A v, w \in ClassWorkers : ClassShard(v) = ClassShard(w) => v = w
    BY <1>3, <1>4, LabelsDiffer DEF ClassShard
  <1>14. Fed(plan)
    <2>1. ClassWorkers # {}
      BY <1>3
    <2>2. \A f \in shards : \E w \in ClassWorkers : f \in Writes(plan, w)
      BY <1>7, <1>10
    <2>3. \A w \in ClassWorkers : Uses(plan, w) \subseteq Writes(plan, NodeA)
      BY <1>9, <1>10
    <2> QED BY <1>5, <1>6, <1>9, <1>11, <2>1, <2>2, <2>3, FanOutFed
  <1>15. SoleWriters(plan)
    <2>1. Writes(plan, NodeA) \cap Writes(plan, NodeC) = {}
      BY <1>11
    <2>2. ASSUME NEW w \in ClassWorkers
          PROVE  /\ Writes(plan, w) \cap Writes(plan, NodeA) = {}
                 /\ Writes(plan, w) \cap Writes(plan, NodeC) = {}
                 /\ \A v \in ClassWorkers : v # w => Writes(plan, v) \cap Writes(plan, w) = {}
      BY <1>9, <1>10, <1>11, <1>12, <1>13
    <2> QED BY <1>6, <2>1, <2>2, FanOutSole
  <1> QED BY <1>1, <1>14, <1>15

(* The commands of one Job.                                                 *)
LEMMA SingleSound ==
    ASSUME NEW name, NEW label, NEW script \in {Plain({}, {}), ExitOne},
           NEW plan, plan.dag = [n \in {label} |-> {}], plan.script = [n \in {label} |-> script]
    PROVE  Fed(plan) /\ SoleWriters(plan)
  <1>1. plan.script[label] = script
    OBVIOUS
  <1>2. Uses(plan, label) = {}
    BY <1>1, NothingUsed
  <1> QED BY <1>2, OneNodeSound

LEMMA SinglesSound ==
    /\ \A p \in {DagRunnerOk, DagRunnerFail, TestRerun} : Fed(p) /\ SoleWriters(p)
    /\ \A label : Fed(RunJob(label)) /\ SoleWriters(RunJob(label))
  <1>1. ASSUME NEW name, NEW label, NEW script \in {Plain({}, {}), ExitOne}, NEW plan,
               \/ plan = OneNode(name, label, script)
               \/ plan = [OneNode(name, label, script) EXCEPT !.nodeTimeout = FALSE]
        PROVE  Fed(plan) /\ SoleWriters(plan)
    <2>1. plan.dag = [n \in {label} |-> {}] /\ plan.script = [n \in {label} |-> script]
      BY <1>1 DEF OneNode, Fixed
    <2> QED BY <2>1, SingleSound
  <1>2. Fed(DagRunnerOk) /\ SoleWriters(DagRunnerOk)
    BY <1>1 DEF DagRunnerOk
  <1>3. Fed(DagRunnerFail) /\ SoleWriters(DagRunnerFail)
    BY <1>1 DEF DagRunnerFail
  <1>4. Fed(TestRerun) /\ SoleWriters(TestRerun)
    BY <1>1 DEF TestRerun
  <1>5. ASSUME NEW label PROVE Fed(RunJob(label)) /\ SoleWriters(RunJob(label))
    <2>1. PICK script : script = IF label = "fail" THEN ExitOne ELSE Plain({}, {})
      OBVIOUS
    <2>2. script \in {Plain({}, {}), ExitOne}
      BY <2>1
    <2>3. RunJob(label) = [OneNode("poc-test", <<label>>, script) EXCEPT !.nodeTimeout = FALSE]
      BY <2>1 DEF RunJob
    <2> QED BY <1>1, <2>2, <2>3
  <1> QED BY <1>2, <1>3, <1>4, <1>5

(* Whoever waits for the second fan-out has waited for the first.           *)
LEMMA TwoStageSound == Fed(TwoStage) /\ SoleWriters(TwoStage)
  <1>1. PICK plan : plan = TwoStage
    OBVIOUS
  <1>2. plan.dag = TwoStageDag /\ plan.script = TwoStageScripts
    BY <1>1 DEF TwoStage, Stress, PerRun
  <1>3. /\ NodeA # NodeM /\ NodeA # NodeD /\ NodeM # NodeD
        /\ NodeA \notin NodesB \cup NodesC
        /\ NodeM \notin NodesB \cup NodesC
        /\ NodeD \notin NodesB \cup NodesC
    BY WorkersB, WorkersC DEF Ends, NodeA, NodeM, NodeD
  <1>4. NodesB \cap NodesC = {}
    BY WorkersB, WorkersC
  <1>5. NodesB # {} /\ NodesC # {}
    BY SomeWorker DEF NodesB, NodesC
  <1>6. /\ DOMAIN plan.dag = {NodeA, NodeM, NodeD} \cup NodesB \cup NodesC
        /\ plan.dag[NodeM] = NodesB
        /\ plan.dag[NodeD] = NodesC
        /\ \A w \in NodesB : plan.dag[w] = {NodeA}
        /\ \A w \in NodesC : plan.dag[w] = {NodeM}
    BY <1>2, <1>3, <1>4 DEF TwoStageDag, InARow, FanOut
  <1>7. /\ plan.script[NodeA] = StressSpecSetup(NodesB \cup NodesC, {Merged, Report})
        /\ plan.script[NodeM] = StressSpecMerge
        /\ plan.script[NodeD] = StressSpecFinalCollect
        /\ \A w \in NodesB \cup NodesC : plan.script[w] = StressSpec(w)
    BY <1>2, <1>3, <1>4 DEF TwoStageScripts, InARow, Scripts
  <1>8. PICK made, out : made = Shards(NodesB \cup NodesC) \cup {Merged, Report}
                         /\ out = <<"done">> \o NodeA
    OBVIOUS
  <1>9. Uses(plan, NodeA) = {} /\ Writes(plan, NodeA) = {Dir(d) : d \in made} \cup {out}
    <2>1. plan.script[NodeA] = SetUp(made, out)
      BY <1>7, <1>8 DEF StressSpecSetup
    <2>2. SetsUp(plan, NodeA, made, out)
      BY <2>1, SetUpUses
    <2> QED BY <2>2 DEF SetsUp
  <1>10. ASSUME NEW w \in NodesB \cup NodesC
         PROVE  Uses(plan, w) = {Dir(Shard(w))} /\ Writes(plan, w) = {Shard(w)}
    <2>1. plan.script[w] = WriteShard(w, {})
      BY <1>7 DEF StressSpec
    <2>2. Uses(plan, w) = {Dir(Shard(w))} \cup {} /\ Writes(plan, w) = {Shard(w)}
      BY <2>1, WriteShardUses
    <2> QED BY <2>2
  <1>11. Uses(plan, NodeM) = {Dir(Merged)} \cup Shards(NodesB) /\ Writes(plan, NodeM) = {Merged}
    BY <1>7, CollectUses DEF StressSpecMerge
  <1>12. Uses(plan, NodeD) = {Dir(Report)} \cup Shards(NodesC) /\ Writes(plan, NodeD) = {Report}
    BY <1>7, CollectUses DEF StressSpecFinalCollect
  <1>13. Fed(plan)
    <2> SUFFICES ASSUME NEW n \in DOMAIN plan.dag, NEW f \in Uses(plan, n),
                        NEW done \in SUBSET DOMAIN plan.dag,
                        \A m \in done \cup {n} : plan.dag[m] \subseteq done
                 PROVE  \E m \in done : f \in Writes(plan, m)
      BY DEF Fed, Uses, Writes
    <2>1. n # NodeA => NodeA \in done
      <3>1. CASE n \in NodesB
        BY <1>6, <3>1
      <3>2. CASE n = NodeM
        BY <1>5, <1>6, <3>2
      <3>3. CASE n \in NodesC
        BY <1>5, <1>6, <3>3
      <3>4. CASE n = NodeD
        BY <1>5, <1>6, <3>4
      <3> QED BY <1>6, <3>1, <3>2, <3>3, <3>4
    <2>2. CASE n \in NodesB \cup NodesC
      <3>1. f = Dir(Shard(n)) /\ Shard(n) \in made
        BY <1>8, <1>10, <2>2 DEF Shards
      <3>2. f \in Writes(plan, NodeA)
        BY <1>9, <3>1
      <3> QED BY <1>3, <2>1, <2>2, <3>2
    <2>3. CASE n = NodeM
      <3>1. CASE f = Dir(Merged)
        BY <1>3, <1>8, <1>9, <2>1, <2>3, <3>1
      <3>2. CASE f \in Shards(NodesB)
        BY <1>6, <1>10, <2>3, <3>2 DEF Shards
      <3> QED BY <1>11, <2>3, <3>1, <3>2
    <2>4. CASE n = NodeD
      <3>1. CASE f = Dir(Report)
        BY <1>3, <1>8, <1>9, <2>1, <2>4, <3>1
      <3>2. CASE f \in Shards(NodesC)
        BY <1>6, <1>10, <2>4, <3>2 DEF Shards
      <3> QED BY <1>12, <2>4, <3>1, <3>2
    <2> QED BY <1>6, <1>9, <2>2, <2>3, <2>4
  <1>14. ASSUME NEW f \in Writes(plan, NodeA) PROVE f[1] \in {"mkdir", "done"}
    <2>1. CASE f = out
      BY <1>8, <2>1, EndsNamed, FileNames DEF Ends
    <2>2. CASE f \in {Dir(d) : d \in made}
      <3>1. PICK d \in made : f = Dir(d)
        BY <2>2
      <3>2. Word(d)
        BY <1>8, WorkersB, WorkersC, EndsNamed, FileNames DEF Shards, Ends
      <3> QED BY <3>1, <3>2, FileNames
    <2> QED BY <1>9, <2>1, <2>2
  <1>15. /\ \A w \in NodesB \cup NodesC : Word(w) /\ Shard(w)[1] = "shard"
         /\ Merged[1] = "merged" /\ Report[1] = "report"
    BY WorkersB, WorkersC, EndsNamed, FileNames DEF Ends
  <1>16. SoleWriters(plan)
    <2> SUFFICES ASSUME NEW m \in DOMAIN plan.dag, NEW n \in DOMAIN plan.dag, m # n,
                        NEW f \in Writes(plan, m), f \in Writes(plan, n)
                 PROVE  FALSE
      BY DEF SoleWriters, Writes
    <2>1. CASE m = NodeA \/ n = NodeA
      BY <1>6, <1>10, <1>11, <1>12, <1>14, <1>15, <2>1
    <2>2. CASE m \in NodesB \cup NodesC /\ n \in NodesB \cup NodesC
      BY <1>10, <1>15, <2>2, ShardsDiffer
    <2>3. CASE m \in {NodeM, NodeD} \/ n \in {NodeM, NodeD}
      BY <1>6, <1>9, <1>10, <1>11, <1>12, <1>14, <1>15, <2>3
    <2> QED BY <1>6, <2>1, <2>2, <2>3
  <1> QED BY <1>1, <1>13, <1>16

(* Every pipeline of the commands feeds its nodes, and no two of its nodes  *)
(* write one file, however wide its fan-outs are.                           *)
THEOREM CatalogueSound ==
    \A p \in CommandNames : Fed(Catalogue[p]) /\ SoleWriters(Catalogue[p])
  <1>1. \A p \in CommandNames :
            \/ Catalogue[p] \in {PocPipeline, PipelineAbc, Fanout, Fastfail, ExecClass}
            \/ Catalogue[p] \in {DagRunnerOk, DagRunnerFail, TestRerun}
            \/ \E label : Catalogue[p] = RunJob(label)
            \/ Catalogue[p] \in {TwoStage, WideFanout, WideFanout3, Specimen}
    BY ZenonT(60) DEF Catalogue, CommandNames, RunPattern
  <1> QED BY <1>1, PocSound, AbcSound, FanoutSound, FastfailSound, ExecClassSound, SinglesSound,
             TwoStageSound, WideFanoutSound, WideFanout3Sound, SpecimenSound

LEMMA ProgramsSound ==
    ASSUME Plan = Catalogue
    PROVE  \A p \in Programs : Fed(Plan[p]) /\ SoleWriters(Plan[p])
  <1>1. DOMAIN Catalogue = CommandNames
    BY Zenon DEF Catalogue
  <1> QED BY <1>1, CatalogueSound DEF Programs

(* No script of a command's pipeline ever lacks a file or a directory.      *)
THEOREM CommandsFindTheirInputs == Plan = Catalogue => (Spec => []InputsAreThere)
  BY ProgramsSound, InputsAreReady

(* No command that succeeds alone in its directory has reported on another  *)
(* run's data, an earlier attempt's, or half of its own.                    *)
THEOREM CommandsReportTheirOwn == Plan = Catalogue => (Spec => []ReportsAreOwn)
  BY ProgramsSound, ReportsAlwaysOwn

(* The patterns of stress and the pipelines of ingress never fail for       *)
(* dag-go's limit: all four get their DAG from initDag.                     *)
THEOREM CommandsFailForACause ==
    Plan = Catalogue /\ CallerDeadlineOnly = LongPipelines => (Spec => []FailuresHaveACause)
  <1>1. \A p \in LongPipelines : Catalogue[p] \in {WideFanout, TwoStage, WideFanout3, Specimen}
    BY ZenonT(60) DEF LongPipelines, Catalogue, CommandNames, RunPattern
  <1>2. \A p \in {WideFanout, TwoStage, WideFanout3, Specimen} : p.nodeTimeout = FALSE
    BY DEF WideFanout, TwoStage, WideFanout3, Specimen, Stress, Ingress, PerRun, StressInit, IngressInit
  <1>3. Plan = Catalogue /\ CallerDeadlineOnly = LongPipelines => LimitTurnedOff
    BY <1>1, <1>2 DEF LimitTurnedOff
  <1> QED BY <1>3, FailuresAreExplained
=============================================================================
