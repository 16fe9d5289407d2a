--------------------------- MODULE SchedulerProofs ---------------------------
(***************************************************************************)
(* Proofs about Scheduler, for every capacity, set of transports and       *)
(* workload.                                                               *)
(***************************************************************************)
EXTENDS Scheduler, FiniteSetTheorems, TLAPS

USE ConstantsAssumption

(* Every payload offered carries a number that is used up; what is queued has been offered and *)
(* not popped.                                                                                   *)
HistoryInv ==
    \A t \in Transports :
        /\ \A p \in offered[t] : p.sequence < nextSequence
        /\ queue[t] \subseteq offered[t] /\ popped[t] \subseteq offered[t]
        /\ queue[t] \cap popped[t] = {}
        /\ IsFiniteSet(offered[t]) /\ IsFiniteSet(popped[t])

IInv == TypeOK /\ HistoryInv /\ Conservation /\ NewestSurvive

-----------------------------------------------------------------------------
(* Sizes of the sets kept for one transport are natural numbers. *)
LEMMA SizeType ==
    ASSUME TypeOK, HistoryInv, NEW t \in Transports
    PROVE  /\ Cardinality(queue[t]) \in Nat
           /\ Cardinality(popped[t]) \in Nat
           /\ Cardinality(offered[t]) \in Nat
BY FS_CardinalityType DEF TypeOK, HistoryInv

(* The age order is transitive on payloads, and strict. *)
LEMMA AgeOrder ==
    ASSUME NEW p \in Payload, NEW q \in Payload, NEW r \in Payload
    PROVE  /\ ~OlderThan(p, p)
           /\ OlderThan(p, q) /\ OlderThan(q, r) => OlderThan(p, r)
BY DEF OlderThan, Payload

(* A payload that has as many newer ones keeps them when more are offered. *)
LEMMA NewerGrow ==
    ASSUME NEW S, NEW T, S \subseteq T, IsFiniteSet(T), NEW p,
           Cardinality({q \in S : OlderThan(p, q)}) >= Capacity
    PROVE  Cardinality({q \in T : OlderThan(p, q)}) >= Capacity
<1> DEFINE A == {q \in S : OlderThan(p, q)}
           B == {q \in T : OlderThan(p, q)}
<1>1. A \subseteq B /\ B \subseteq T
  OBVIOUS
<1>2. IsFiniteSet(B)
  BY <1>1, FS_Subset
<1>3. Cardinality(A) <= Cardinality(B) /\ IsFiniteSet(A)
  BY <1>1, <1>2, FS_Subset
<1>4. Cardinality(A) \in Nat /\ Cardinality(B) \in Nat
  BY <1>2, <1>3, FS_CardinalityType
<1> HIDE DEF A, B
<1>5. Cardinality(A) >= Capacity
  BY DEF A
<1>6. Cardinality(B) >= Capacity
  BY <1>3, <1>4, <1>5
<1>. QED
  BY <1>6 DEF B

-----------------------------------------------------------------------------
(* The initial states satisfy the invariant. *)
LEMMA InitInv == Init => IInv
BY FS_EmptySet DEF Init, IInv, TypeOK, HistoryInv, Conservation, NewestSurvive, Counters

(* enqueue keeps the invariant. *)
LEMMA OfferKeepsInv ==
    ASSUME IInv, NEW t \in Transports, Offer(t)
    PROVE  IInv'
<1>1. PICK lead \in 0 .. MaxLead, life \in Lifetimes :
        Enqueue(t, [sequence |-> nextSequence, deadline |-> now + lead,
                    expires |-> IF life = 0 THEN 0 ELSE now + lead + life])
  BY DEF Offer
<1> DEFINE p == [sequence |-> nextSequence, deadline |-> now + lead,
                 expires |-> IF life = 0 THEN 0 ELSE now + lead + life]
<1>2. p \in Payload /\ nextSequence' = nextSequence + 1 /\ p.sequence = nextSequence
  BY DEF IInv, TypeOK, Payload, Offer
<1>3. Enqueue(t, p)
  BY <1>1
<1> HIDE DEF p
<1>4. /\ TypeOK /\ HistoryInv /\ Conservation /\ NewestSurvive
      /\ queue \in [Transports -> SUBSET Payload] /\ offered \in [Transports -> SUBSET Payload]
      /\ popped \in [Transports -> SUBSET Payload]
      /\ stats \in [Transports -> [Counters -> Nat]] /\ now \in Nat /\ nextSequence \in Nat
      /\ IsFiniteSet(queue[t]) /\ Cardinality(queue[t]) <= Capacity
      /\ Capacity \in Nat \ {0}
  BY DEF IInv, TypeOK
<1>5. p \notin offered[t] /\ p \notin queue[t] /\ p \notin popped[t]
  BY <1>2, <1>4 DEF HistoryInv
<1>6. /\ offered' = [offered EXCEPT ![t] = @ \cup {p}]
      /\ UNCHANGED <<now, popped>>
  BY <1>3 DEF Enqueue
<1>7. /\ IsFiniteSet(queue[t] \cup {p})
      /\ Cardinality(queue[t] \cup {p}) = Cardinality(queue[t]) + 1
  BY <1>4, <1>5, FS_AddElement
<1>8. Cardinality(queue[t]) \in Nat /\ Cardinality(popped[t]) \in Nat
  BY <1>4, SizeType
<1>9. IsFiniteSet(offered[t] \cup {p})
  BY <1>4, FS_AddElement DEF HistoryInv
(* What the queue and the counters of t look like afterwards, in both cases. *)
<1>10. /\ queue' \in [Transports -> SUBSET Payload]
       /\ \A u \in Transports \ {t} : queue'[u] = queue[u]
       /\ queue'[t] \subseteq queue[t] \cup {p}
       /\ IsFiniteSet(queue'[t]) /\ Cardinality(queue'[t]) <= Capacity
       /\ stats' \in [Transports -> [Counters -> Nat]]
       /\ \A u \in Transports \ {t} : stats'[u] = stats[u]
       /\ stats'[t].expected = stats[t].expected + 1
       /\ Cardinality(queue'[t]) + stats'[t].dropped = Cardinality(queue[t]) + stats[t].dropped + 1
       /\ \A r \in (queue[t] \cup {p}) \ queue'[t] :
            Cardinality({q \in offered'[t] : OlderThan(r, q)}) >= Capacity
  <2>1. CASE ~Full(t)
    <3>1. /\ queue' = [queue EXCEPT ![t] = @ \cup {p}]
          /\ stats' = [stats EXCEPT ![t].expected = @ + 1]
      BY <1>3, <2>1 DEF Enqueue
    <3>2. Cardinality(queue[t]) < Capacity
      <4>1. Cardinality(queue[t]) # Capacity
        BY <2>1 DEF Full
      <4>2. Cardinality(queue[t]) <= Capacity /\ Capacity \in Nat
        BY <1>4
      <4>. QED
        BY <4>1, <4>2, <1>8
    <3>3. queue'[t] = queue[t] \cup {p}
      BY <3>1, <1>4
    <3>4. Cardinality(queue'[t]) <= Capacity /\ Cardinality(queue'[t]) = Cardinality(queue[t]) + 1
      BY <3>2, <3>3, <1>4, <1>7, <1>8
    <3>5. /\ stats' \in [Transports -> [Counters -> Nat]]
          /\ stats'[t].expected = stats[t].expected + 1
          /\ stats'[t].dropped = stats[t].dropped /\ stats[t].dropped \in Nat
          /\ \A u \in Transports \ {t} : stats'[u] = stats[u]
      BY <3>1, <1>4 DEF Counters
    <3>6. queue' \in [Transports -> SUBSET Payload] /\ \A u \in Transports \ {t} : queue'[u] = queue[u]
      BY <3>1, <1>2, <1>4
    <3>7. Cardinality(queue'[t]) + stats'[t].dropped = Cardinality(queue[t]) + stats[t].dropped + 1
      BY <3>4, <3>5, <1>8
    <3>. QED
      BY <3>3, <3>4, <3>5, <3>6, <3>7, <1>7
  <2>2. CASE Full(t)
    <3>1. /\ stats' = [stats EXCEPT ![t].expected = @ + 1, ![t].dropped = @ + 1]
          /\ \E q \in queue[t] \cup {p} :
                /\ GivenUp(q, p, queue[t])
                /\ queue' = [queue EXCEPT ![t] = (@ \cup {p}) \ {q}]
      BY <1>3, <2>2 DEF Enqueue
    <3>2. PICK oldest \in queue[t] \cup {p} :
            /\ IsOldest(oldest, queue[t] \cup {p})
            /\ queue' = [queue EXCEPT ![t] = (@ \cup {p}) \ {oldest}]
      BY <3>1 DEF GivenUp
    <3>3. queue'[t] = (queue[t] \cup {p}) \ {oldest}
      BY <3>2, <1>4
    <3>4. /\ IsFiniteSet(queue'[t])
          /\ Cardinality(queue'[t]) = Cardinality(queue[t])
      <4>1. /\ IsFiniteSet((queue[t] \cup {p}) \ {oldest})
            /\ Cardinality((queue[t] \cup {p}) \ {oldest}) = Cardinality(queue[t] \cup {p}) - 1
        BY <1>7, FS_RemoveElement
      <4>. QED
        BY <4>1, <3>3, <1>7, <1>8
    <3>5. Cardinality(queue'[t]) = Capacity
      BY <3>4, <2>2 DEF Full
    <3>6. /\ stats' \in [Transports -> [Counters -> Nat]]
          /\ stats'[t].expected = stats[t].expected + 1
          /\ stats'[t].dropped = stats[t].dropped + 1 /\ stats[t].dropped \in Nat
          /\ \A u \in Transports \ {t} : stats'[u] = stats[u]
      BY <3>1, <1>4 DEF Counters
    <3>7. queue' \in [Transports -> SUBSET Payload] /\ \A u \in Transports \ {t} : queue'[u] = queue[u]
      BY <3>2, <1>2, <1>4
    <3>8. Cardinality({q \in offered'[t] : OlderThan(oldest, q)}) >= Capacity
      <4>1. queue'[t] \subseteq {q \in offered'[t] : OlderThan(oldest, q)}
        BY <3>2, <3>3, <1>4, <1>6 DEF IsOldest, HistoryInv
      <4>2. IsFiniteSet(offered'[t])
        BY <1>4, <1>6, <1>9
      <4>3. IsFiniteSet({q \in offered'[t] : OlderThan(oldest, q)})
        BY <4>2, FS_Subset
      <4>4. Cardinality(queue'[t]) <= Cardinality({q \in offered'[t] : OlderThan(oldest, q)})
        BY <4>1, <4>3, FS_Subset
      <4>. QED
        BY <4>3, <4>4, <3>5, FS_CardinalityType
    <3>9. Cardinality(queue'[t]) + stats'[t].dropped = Cardinality(queue[t]) + stats[t].dropped + 1
      BY <3>4, <3>6, <1>8
    <3>. QED
      BY <3>3, <3>4, <3>5, <3>6, <3>7, <3>8, <3>9, <1>4
  <2>. QED
    BY <2>1, <2>2
<1>11. TypeOK'
  <2>1. offered' \in [Transports -> SUBSET Payload]
    BY <1>2, <1>4, <1>6
  <2>2. \A u \in Transports : IsFiniteSet(queue'[u]) /\ Cardinality(queue'[u]) <= Capacity
    BY <1>10, <1>4 DEF TypeOK
  <2>. QED
    BY <1>2, <1>4, <1>6, <1>10, <2>1, <2>2 DEF TypeOK
<1>12. HistoryInv'
  <2>1. ASSUME NEW u \in Transports, u # t
        PROVE  offered'[u] = offered[u] /\ queue'[u] = queue[u] /\ popped'[u] = popped[u]
    BY <1>4, <1>6, <1>10, <2>1
  <2>2. /\ offered'[t] = offered[t] \cup {p} /\ popped'[t] = popped[t]
        /\ queue'[t] \subseteq offered'[t] /\ popped'[t] \subseteq offered'[t]
        /\ queue'[t] \cap popped'[t] = {}
    BY <1>4, <1>5, <1>6, <1>10 DEF HistoryInv
  <2>3. ASSUME NEW u \in Transports
        PROVE  \A r \in offered'[u] : r.sequence < nextSequence'
    <3>1. \A r \in offered[u] : r.sequence < nextSequence /\ r.sequence \in Nat
      BY <1>4 DEF HistoryInv, Payload
    <3>. QED
      BY <3>1, <2>1, <2>2, <1>2, <1>4
  <2>. QED
    BY <2>1, <2>2, <2>3, <1>4, <1>9 DEF HistoryInv
<1>13. Conservation'
  <2>1. ASSUME NEW u \in Transports, u # t
        PROVE  stats'[u].expected = Cardinality(queue'[u]) + Cardinality(popped'[u]) + stats'[u].dropped
    BY <1>4, <1>6, <1>10, <2>1 DEF Conservation
  <2>2. popped'[t] = popped[t]
    BY <1>6
  <2>3. stats[t].expected = Cardinality(queue[t]) + Cardinality(popped[t]) + stats[t].dropped
    BY <1>4 DEF Conservation
  <2>4. /\ stats[t].dropped \in Nat /\ stats'[t].dropped \in Nat
        /\ stats[t].expected \in Nat /\ Cardinality(queue'[t]) \in Nat
    BY <1>4, <1>10, FS_CardinalityType DEF Counters
  <2>5. /\ stats'[t].expected = stats[t].expected + 1
        /\ Cardinality(queue'[t]) + stats'[t].dropped = Cardinality(queue[t]) + stats[t].dropped + 1
    BY <1>10
  <2>6. stats'[t].expected = Cardinality(queue'[t]) + Cardinality(popped[t]) + stats'[t].dropped
    BY <1>8, <2>3, <2>4, <2>5
  <2>7. stats'[t].expected = Cardinality(queue'[t]) + Cardinality(popped'[t]) + stats'[t].dropped
    BY <2>2, <2>6
  <2>. QED
    BY <2>1, <2>7 DEF Conservation
<1>14. NewestSurvive'
  <2>1. SUFFICES ASSUME NEW u \in Transports,
                        NEW r \in offered'[u] \ (queue'[u] \cup popped'[u])
                 PROVE  \/ Expired(r)'
                        \/ Cardinality({q \in offered'[u] : OlderThan(r, q)}) >= Capacity
    BY DEF NewestSurvive, OlderThan
  <2>2. CASE u # t
    <3>1. offered'[u] = offered[u] /\ queue'[u] = queue[u] /\ popped'[u] = popped[u] /\ now' = now
      BY <1>4, <1>6, <1>10, <2>2
    <3>. QED
      BY <3>1, <1>4 DEF NewestSurvive, Expired
  <2>3. CASE u = t /\ r \in (queue[t] \cup {p}) \ queue'[t]
    BY <1>10, <2>3
  <2>4. CASE u = t /\ r \notin (queue[t] \cup {p})
    <3>1. r \in offered[t] \ (queue[t] \cup popped[t])
      BY <1>4, <1>6, <2>1, <2>4
    <3>2. CASE Expired(r)
      BY <3>2, <1>6 DEF Expired
    <3>3. CASE Cardinality({q \in offered[t] : OlderThan(r, q)}) >= Capacity
      <4>1. offered[t] \subseteq offered'[t] /\ IsFiniteSet(offered'[t])
        BY <1>4, <1>6, <1>9
      <4> DEFINE before == offered[t]
                 after == offered'[t]
      <4>2. before \subseteq after /\ IsFiniteSet(after)
            /\ Cardinality({q \in before : OlderThan(r, q)}) >= Capacity
        BY <4>1, <3>3
      <4> HIDE DEF before, after
      <4>3. Cardinality({q \in after : OlderThan(r, q)}) >= Capacity
        BY <4>2, NewerGrow
      <4>. QED
        BY <4>3, <2>4 DEF after
    <3>. QED
      BY <3>1, <3>2, <3>3, <1>4 DEF NewestSurvive
  <2>. QED
    BY <2>1, <2>2, <2>3, <2>4
<1>. QED
  BY <1>11, <1>12, <1>13, <1>14 DEF IInv

(* pop_next keeps the invariant. *)
LEMMA PopKeepsInv ==
    ASSUME IInv, NEW t \in Transports, PopNext(t)
    PROVE  IInv'
<1> DEFINE valid == {p \in queue[t] : ~Expired(p)}
           expired == {p \in queue[t] : Expired(p)}
           counted == [stats[t] EXCEPT !.dropped = @ + Discarded(t)]
<1>1. /\ TypeOK /\ HistoryInv /\ Conservation /\ NewestSurvive
      /\ queue \in [Transports -> SUBSET Payload] /\ offered \in [Transports -> SUBSET Payload]
      /\ popped \in [Transports -> SUBSET Payload]
      /\ stats \in [Transports -> [Counters -> Nat]] /\ now \in Nat
      /\ IsFiniteSet(queue[t]) /\ IsFiniteSet(popped[t])
  BY DEF IInv, TypeOK, HistoryInv
<1>2. UNCHANGED <<now, offered, nextSequence>>
  BY DEF PopNext
<1>3. /\ IsFiniteSet(valid) /\ IsFiniteSet(expired)
      /\ valid \subseteq queue[t] /\ expired \subseteq queue[t]
      /\ queue[t] = valid \cup expired /\ valid \cap expired = {}
  BY <1>1, FS_Subset
<1>4. /\ Cardinality(valid) \in Nat /\ Cardinality(expired) \in Nat /\ Cardinality(popped[t]) \in Nat
      /\ Cardinality(queue[t]) \in Nat
  BY <1>1, <1>3, FS_CardinalityType
<1>5. Cardinality(queue[t]) = Cardinality(valid) + Cardinality(expired)
  <2>1. Cardinality(valid \cup expired) =
            Cardinality(valid) + Cardinality(expired) - Cardinality(valid \cap expired)
    BY <1>3, FS_Union
  <2>. QED
    BY <2>1, <1>3, <1>4, FS_EmptySet
<1>6. Discarded(t) = Cardinality(expired)
  BY DEF Discarded
<1>7. /\ counted \in [Counters -> Nat]
      /\ counted.expected = stats[t].expected
      /\ counted.dropped = stats[t].dropped + Cardinality(expired)
  BY <1>1, <1>4, <1>6 DEF Counters
(* What the queue, the counters and the popped ones of t look like, in both cases. *)
<1>8. /\ queue' \in [Transports -> SUBSET Payload] /\ popped' \in [Transports -> SUBSET Payload]
      /\ stats' \in [Transports -> [Counters -> Nat]]
      /\ \A u \in Transports \ {t} : queue'[u] = queue[u] /\ popped'[u] = popped[u] /\ stats'[u] = stats[u]
      /\ queue'[t] \subseteq queue[t] /\ popped[t] \subseteq popped'[t]
      /\ popped'[t] \subseteq popped[t] \cup queue[t]
      /\ queue'[t] \cap popped'[t] = {} /\ IsFiniteSet(popped'[t])
      /\ \A r \in queue[t] \ (queue'[t] \cup popped'[t]) : Expired(r)
      /\ stats'[t].expected = stats[t].expected
      /\ stats'[t].dropped = stats[t].dropped + Cardinality(expired)
      /\ Cardinality(queue'[t]) + Cardinality(popped'[t]) = Cardinality(valid) + Cardinality(popped[t])
  <2>1. CASE valid = {}
    <3>1. /\ queue' = [queue EXCEPT ![t] = {}]
          /\ stats' = [stats EXCEPT ![t] = counted]
          /\ UNCHANGED popped
      BY <2>1 DEF PopNext
    <3>2. queue'[t] = {} /\ Cardinality(queue'[t]) = Cardinality(valid)
      BY <3>1, <2>1, <1>1
    <3>. QED
      BY <3>1, <3>2, <1>1, <1>3, <1>7, <2>1
  <2>2. CASE valid # {}
    <3>1. PICK p \in valid :
            /\ queue' = [queue EXCEPT ![t] = valid \ {p}]
            /\ popped' = [popped EXCEPT ![t] = @ \cup {p}]
            /\ stats' = [stats EXCEPT ![t] =
                            [counted EXCEPT !.late = IF now > p.deadline THEN @ + 1 ELSE @]]
      BY <2>2 DEF PopNext
    <3>2. queue'[t] = valid \ {p} /\ popped'[t] = popped[t] \cup {p} /\ p \in queue[t] /\ p \notin popped[t]
      BY <3>1, <1>1, <1>3 DEF HistoryInv
    <3>3. Cardinality(valid \ {p}) = Cardinality(valid) - 1
      BY <3>1, <1>3, FS_RemoveElement
    <3>4. Cardinality(popped[t] \cup {p}) = Cardinality(popped[t]) + 1 /\ IsFiniteSet(popped[t] \cup {p})
      BY <3>2, <1>1, FS_AddElement
    <3>5. Cardinality(queue'[t]) + Cardinality(popped'[t]) = Cardinality(valid) + Cardinality(popped[t])
      BY <3>2, <3>3, <3>4, <1>4
    <3>6. /\ stats' \in [Transports -> [Counters -> Nat]]
          /\ \A u \in Transports \ {t} : stats'[u] = stats[u]
          /\ stats'[t].expected = stats[t].expected
          /\ stats'[t].dropped = stats[t].dropped + Cardinality(expired)
      <4> DEFINE final == [counted EXCEPT !.late = IF now > p.deadline THEN @ + 1 ELSE @]
      <4>1. p.deadline \in Nat
        BY <3>2, <1>1 DEF Payload
      <4>2. /\ final \in [Counters -> Nat]
            /\ final.expected = counted.expected /\ final.dropped = counted.dropped
        <5> HIDE DEF counted
        <5>. QED
          BY <1>7, <4>1 DEF Counters
      <4>3. stats' = [stats EXCEPT ![t] = final]
        BY <3>1
      <4> HIDE DEF final, counted
      <4>. QED
        BY <4>2, <4>3, <1>1, <1>7
    <3>7. /\ queue' \in [Transports -> SUBSET Payload] /\ popped' \in [Transports -> SUBSET Payload]
          /\ \A u \in Transports \ {t} : queue'[u] = queue[u] /\ popped'[u] = popped[u]
      BY <3>1, <3>2, <1>1, <1>3
    <3>8. /\ queue'[t] \subseteq queue[t] /\ popped'[t] \subseteq popped[t] \cup queue[t]
          /\ queue'[t] \cap popped'[t] = {}
          /\ \A r \in queue[t] \ (queue'[t] \cup popped'[t]) : Expired(r)
      BY <3>2, <1>1, <1>3 DEF HistoryInv
    <3>. QED
      BY <3>2, <3>4, <3>5, <3>6, <3>7, <3>8
  <2>. QED
    BY <2>1, <2>2
<1> HIDE DEF valid, expired, counted
<1>9. TypeOK'
  <2>1. IsFiniteSet(queue'[t]) /\ Cardinality(queue'[t]) <= Capacity
    <3>1. IsFiniteSet(queue'[t]) /\ Cardinality(queue'[t]) <= Cardinality(queue[t])
      BY <1>1, <1>8, FS_Subset
    <3>2. Cardinality(queue'[t]) \in Nat /\ Cardinality(queue[t]) <= Capacity /\ Capacity \in Nat
      BY <3>1, <1>1, FS_CardinalityType DEF TypeOK
    <3>. QED
      BY <3>1, <3>2, <1>4
  <2>2. \A u \in Transports : IsFiniteSet(queue'[u]) /\ Cardinality(queue'[u]) <= Capacity
    BY <2>1, <1>1, <1>8 DEF TypeOK
  <2>3. now' = now /\ offered' = offered /\ nextSequence' = nextSequence
    BY <1>2
  <2>. QED
    BY <1>1, <1>8, <2>2, <2>3 DEF TypeOK
<1>10. HistoryInv'
  <2>1. ASSUME NEW u \in Transports, u # t
        PROVE  queue'[u] = queue[u] /\ popped'[u] = popped[u]
    BY <1>8, <2>1
  <2>2. /\ queue'[t] \subseteq offered'[t] /\ popped'[t] \subseteq offered'[t]
        /\ queue'[t] \cap popped'[t] = {} /\ IsFiniteSet(popped'[t])
    BY <1>1, <1>2, <1>8 DEF HistoryInv
  <2>3. offered' = offered /\ nextSequence' = nextSequence
    BY <1>2
  <2>. QED
    BY <2>1, <2>2, <2>3, <1>1 DEF HistoryInv
<1>11. Conservation'
  <2>1. ASSUME NEW u \in Transports, u # t
        PROVE  stats'[u].expected = Cardinality(queue'[u]) + Cardinality(popped'[u]) + stats'[u].dropped
    BY <1>1, <1>8, <2>1 DEF Conservation
  <2>2. stats[t].expected = Cardinality(queue[t]) + Cardinality(popped[t]) + stats[t].dropped
    BY <1>1 DEF Conservation
  <2>3. stats[t].dropped \in Nat /\ Cardinality(queue'[t]) \in Nat /\ Cardinality(popped'[t]) \in Nat
    <3>1. IsFiniteSet(queue'[t])
      BY <1>1, <1>8, FS_Subset
    <3>. QED
      BY <3>1, <1>1, <1>8, FS_CardinalityType DEF Counters
  <2>4. /\ stats'[t].expected = stats[t].expected
        /\ stats'[t].dropped = stats[t].dropped + Cardinality(expired)
        /\ Cardinality(queue'[t]) + Cardinality(popped'[t]) = Cardinality(valid) + Cardinality(popped[t])
    BY <1>8
  <2>5. stats'[t].expected = Cardinality(queue'[t]) + Cardinality(popped'[t]) + stats'[t].dropped
    BY <1>4, <1>5, <2>2, <2>3, <2>4
  <2>. QED
    BY <2>1, <2>5 DEF Conservation
<1>12. NewestSurvive'
  <2>1. SUFFICES ASSUME NEW u \in Transports,
                        NEW r \in offered[u] \ (queue'[u] \cup popped'[u])
                 PROVE  \/ Expired(r)
                        \/ Cardinality({q \in offered[u] : OlderThan(r, q)}) >= Capacity
    BY <1>2 DEF NewestSurvive, OlderThan, Expired
  <2>2. CASE r \in offered[u] \ (queue[u] \cup popped[u])
    BY <2>2, <1>1 DEF NewestSurvive
  <2>3. CASE r \in queue[u] \cup popped[u]
    <3>1. u = t /\ r \in queue[t] \ (queue'[t] \cup popped'[t])
      BY <2>1, <2>3, <1>8
    <3>. QED
      BY <3>1, <1>8
  <2>. QED
    BY <2>1, <2>2, <2>3
<1>. QED
  BY <1>9, <1>10, <1>11, <1>12 DEF IInv

(* Time only passes expiries. *)
LEMMA ClockKeepsInv ==
    ASSUME IInv, ClockTick
    PROVE  IInv'
<1>1. /\ now' = now + 1 /\ now \in Nat
      /\ UNCHANGED <<queue, stats, offered, popped, nextSequence>>
  BY DEF ClockTick, IInv, TypeOK
<1>2. ASSUME NEW t \in Transports, NEW p \in offered[t], Expired(p)
      PROVE  Expired(p)'
  <2>1. p.expires \in Nat
    BY DEF IInv, TypeOK, Payload
  <2>. QED
    BY <1>1, <1>2, <2>1 DEF Expired
<1>3. NewestSurvive'
  BY <1>1, <1>2 DEF IInv, NewestSurvive, OlderThan
<1>. QED
  BY <1>1, <1>3 DEF IInv, TypeOK, HistoryInv, Conservation

(* So does every step. *)
LEMMA StepInv == IInv /\ [Next]_vars => IInv'
<1> SUFFICES ASSUME IInv, [Next]_vars PROVE IInv'
  OBVIOUS
<1>1. ASSUME NEW t \in Transports, Offer(t) PROVE IInv'
  BY <1>1, OfferKeepsInv
<1>2. ASSUME NEW t \in Transports, PopNext(t) PROVE IInv'
  BY <1>2, PopKeepsInv
<1>3. CASE ClockTick
  BY <1>3, ClockKeepsInv
<1>4. CASE UNCHANGED vars
  BY <1>4 DEF vars, IInv, TypeOK, HistoryInv, Conservation, NewestSurvive, Expired, OlderThan
<1>. QED
  BY <1>1, <1>2, <1>3, <1>4 DEF Next

(* Hence it holds in every reachable state. *)
LEMMA Invariance == Spec => []IInv
BY InitInv, StepInv, PTL DEF Spec

-----------------------------------------------------------------------------
(* enqueue and pop_next keep every type, and no queue outgrows its capacity. *)
THEOREM TypeCorrect == Spec => []TypeOK
<1>1. IInv => TypeOK
  BY DEF IInv
<1>. QED
  BY <1>1, Invariance, PTL

(* Every payload is queued, popped or counted as dropped, exactly once. *)
THEOREM AccountsBalance == Spec => []Conservation
<1>1. IInv => Conservation
  BY DEF IInv
<1>. QED
  BY <1>1, Invariance, PTL

(* A payload that is lost before it expires has made room for newer ones. *)
THEOREM OldestLost == Spec => []NewestSurvive
<1>1. IInv => NewestSurvive
  BY DEF IInv
<1>. QED
  BY <1>1, Invariance, PTL
=============================================================================
