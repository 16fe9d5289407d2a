----------------------------- MODULE Scheduler -----------------------------
(***************************************************************************)
(* rid::Scheduler (components/rid_scheduler/scheduler.cpp): one bounded    *)
(* queue per transport that gives up its oldest payload when it is full.   *)
(*                                                                         *)
(* Its caller offers payloads, pops the most urgent one and reports what   *)
(* became of it.  A payload is its sequence number, deadline and expiry;   *)
(* sequence numbers are distinct, so that one payload of a queue is the    *)
(* oldest.  An invalid transport, an empty or too large payload and a zero *)
(* capacity are refused before anything changes and are left out.          *)
(***************************************************************************)
EXTENDS Integers, FiniteSets

CONSTANTS
    Transports,
    Capacity,          \* capacity_per_transport_
    Lifetimes,         \* how long after its deadline a payload expires; 0: never
    MaxLead,           \* bound: how far ahead of now a deadline lies
    MaxPayloads,       \* bound: payloads offered
    MaxNow             \* bound: the clock

ASSUME ConstantsAssumption ==
    /\ Capacity \in Nat \ {0}
    /\ Lifetimes \subseteq Nat
    /\ MaxLead \in Nat /\ MaxPayloads \in Nat /\ MaxNow \in Nat

VARIABLES
    now,
    queue,             \* transport -> payloads
    stats,             \* transport -> TransportStats
    offered,           \* transport -> all payloads ever enqueued
    popped,            \* transport -> what pop_next has returned
    nextSequence       \* the caller's Runtime::sequence_

vars == <<now, queue, stats, offered, popped, nextSequence>>

Counters == {"expected", "dropped", "late"}
Payload == [sequence : Nat, deadline : Nat, expires : Nat]

Init ==
    /\ now = 0
    /\ queue = [t \in Transports |-> {}]
    /\ stats = [t \in Transports |-> [c \in Counters |-> 0]]
    /\ offered = [t \in Transports |-> {}]
    /\ popped = [t \in Transports |-> {}]
    /\ nextSequence = 0

OlderThan(p, q) ==
    \/ p.deadline < q.deadline
    \/ p.deadline = q.deadline /\ p.sequence < q.sequence

IsOldest(p, payloads) == p \in payloads /\ \A q \in payloads \ {p} : OlderThan(p, q)

Expired(p) == p.expires # 0 /\ now > p.expires

-----------------------------------------------------------------------------
(* What a full queue gives up for p: the oldest of them all, which may be p itself. *)
Mutant_GivenUp(q, p, payloads) == q = p             \* refuses the newcomer
GivenUp(q, p, payloads) == IsOldest(q, payloads \cup {p})

Full(t) == Cardinality(queue[t]) = Capacity

(* enqueue *)
Enqueue(t, p) ==
    /\ offered' = [offered EXCEPT ![t] = @ \cup {p}]
    /\ IF ~Full(t)
       THEN /\ queue' = [queue EXCEPT ![t] = @ \cup {p}]
            /\ stats' = [stats EXCEPT ![t].expected = @ + 1]
       ELSE /\ stats' = [stats EXCEPT ![t].expected = @ + 1, ![t].dropped = @ + 1]
            /\ \E q \in queue[t] \cup {p} :
                /\ GivenUp(q, p, queue[t])
                /\ queue' = [queue EXCEPT ![t] = (@ \cup {p}) \ {q}]
    /\ UNCHANGED <<now, popped>>

Offer(t) ==
    /\ nextSequence < MaxPayloads
    /\ nextSequence' = nextSequence + 1
    /\ \E lead \in 0 .. MaxLead, life \in Lifetimes :
        Enqueue(t, [sequence |-> nextSequence, deadline |-> now + lead,
                    expires |-> IF life = 0 THEN 0 ELSE now + lead + life])

Discarded(t) == Cardinality({p \in queue[t] : Expired(p)})

(* pop_next: expired payloads go first, then the earliest deadline is taken. *)
PopNext(t) ==
    LET valid == {p \in queue[t] : ~Expired(p)}
        counted == [stats[t] EXCEPT !.dropped = @ + Discarded(t)]
    IN
    /\ IF valid = {}
       THEN /\ queue' = [queue EXCEPT ![t] = {}]
            /\ stats' = [stats EXCEPT ![t] = counted]
            /\ UNCHANGED popped
       ELSE \E p \in valid :
            /\ IsOldest(p, valid)
            /\ queue' = [queue EXCEPT ![t] = valid \ {p}]
            /\ popped' = [popped EXCEPT ![t] = @ \cup {p}]
            /\ stats' = [stats EXCEPT ![t] =
                            [counted EXCEPT !.late = IF now > p.deadline THEN @ + 1 ELSE @]]
    /\ UNCHANGED <<now, offered, nextSequence>>

ClockTick ==
    /\ now < MaxNow
    /\ now' = now + 1
    /\ UNCHANGED <<queue, stats, offered, popped, nextSequence>>

Next ==
    \/ \E t \in Transports : Offer(t)
    \/ \E t \in Transports : PopNext(t)
    \/ ClockTick

Spec == Init /\ [][Next]_vars

-----------------------------------------------------------------------------
(* Every variable keeps its type, and no queue outgrows its capacity. *)
TypeOK ==
    /\ now \in Nat
    /\ queue \in [Transports -> SUBSET Payload]
    /\ stats \in [Transports -> [Counters -> Nat]]
    /\ offered \in [Transports -> SUBSET Payload]
    /\ popped \in [Transports -> SUBSET Payload]
    /\ nextSequence \in Nat
    /\ \A t \in Transports : IsFiniteSet(queue[t]) /\ Cardinality(queue[t]) <= Capacity

(* Every payload offered is queued, popped or counted as dropped, exactly once, whether it was *)
(* given up for a newer one, refused as the oldest, or expired.                                  *)
Conservation ==
    \A t \in Transports :
        stats[t].expected = Cardinality(queue[t]) + Cardinality(popped[t]) + stats[t].dropped

(* Overload costs old payloads only: one that is gone without having been popped has expired, *)
(* or as many newer payloads were offered as the queue has room for.                            *)
NewestSurvive ==
    \A t \in Transports : \A p \in offered[t] \ (queue[t] \cup popped[t]) :
        \/ Expired(p)
        \/ Cardinality({q \in offered[t] : OlderThan(p, q)}) >= Capacity
=============================================================================
