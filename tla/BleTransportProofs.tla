------------------------- MODULE BleTransportProofs -------------------------
(***************************************************************************)
(* Proofs about BleTransport, for every capacity, ring size and workload.  *)
(***************************************************************************)
EXTENDS BleTransport, FiniteSetTheorems, TLAPS

USE ConstantsAssumption

(* Counting keeps the statistics well typed. *)
LEMMA CountType ==
    ASSUME stats \in [Transports -> [Counters -> Nat]],
           NEW t \in Transports, NEW cs, Count(t, cs)
    PROVE  stats' \in [Transports -> [Counters -> Nat]]
BY DEF Count

(* A ring index stays in the ring. *)
LEMMA NextSlotType ==
    ASSUME NEW i \in 0 .. RingSize - 1
    PROVE  NextSlot(i) \in 0 .. RingSize - 1
BY DEF NextSlot

(* Taking one payload out of the queue, or putting one in that fits, keeps it a     *)
(* finite set of at most PendingCapacity payloads.                                    *)
LEMMA QueueType ==
    ASSUME IsFiniteSet(pending), Cardinality(pending) <= PendingCapacity
    PROVE  /\ \A p \in pending : /\ IsFiniteSet(pending \ {p})
                                 /\ Cardinality(pending \ {p}) <= PendingCapacity
           /\ \A p : Cardinality(pending) < PendingCapacity =>
                       /\ IsFiniteSet(pending \union {p})
                       /\ Cardinality(pending \union {p}) <= PendingCapacity
<1>1. Cardinality(pending) \in Nat
  BY FS_CardinalityType
<1>2. \A p \in pending : /\ IsFiniteSet(pending \ {p})
                         /\ Cardinality(pending \ {p}) = Cardinality(pending) - 1
  BY FS_RemoveElement
<1>3. \A p : /\ IsFiniteSet(pending \union {p})
             /\ Cardinality(pending \union {p}) <= Cardinality(pending) + 1
  BY <1>1, FS_AddElement
<1>4. \A p : Cardinality(pending \union {p}) \in Nat
  BY <1>3, FS_CardinalityType
<1>5. ASSUME NEW p \in pending
      PROVE  IsFiniteSet(pending \ {p}) /\ Cardinality(pending \ {p}) <= PendingCapacity
  BY <1>1, <1>2
<1>6. ASSUME NEW p, Cardinality(pending) < PendingCapacity
      PROVE  /\ IsFiniteSet(pending \union {p})
             /\ Cardinality(pending \union {p}) <= PendingCapacity
  <2>1. Cardinality(pending) + 1 <= PendingCapacity
    BY <1>1, <1>6
  <2>2. /\ IsFiniteSet(pending \union {p})
        /\ Cardinality(pending \union {p}) <= Cardinality(pending) + 1
    BY <1>3
  <2>3. Cardinality(pending \union {p}) \in Nat
    BY <1>4
  <2>. QED
    BY <1>1, <2>1, <2>2, <2>3
<1>. QED
  BY <1>5, <1>6

(* The empty queue is within capacity. *)
LEMMA EmptyQueue == IsFiniteSet({}) /\ Cardinality({}) = 0 /\ 0 <= PendingCapacity
BY FS_EmptySet

(* The callback gate: the host task is counted while it is past the gate, the callback  *)
(* is bound until shutdown begins, and from the end of shutdown's wait on no callback   *)
(* body runs.                                                                             *)
GateInv ==
    /\ inFlight = IF hpc \in CallbackBody \union {"load", "leave"} THEN 1 ELSE 0
    /\ callback = ~shuttingDown
    /\ rpc \in {"unbind", "reset"} => shuttingDown
    /\ rpc \in RuntimePCs \ {"idle", "unbind", "reset"} => ~shuttingDown
    /\ shuttingDown /\ rpc # "unbind" => hpc \notin CallbackBody

(* TypeOK is not inductive alone: the in-flight count is decremented. *)
TypeGateInv == TypeOK /\ GateInv

(* The initial state is well typed. *)
LEMMA TypeInit == Init => TypeOK
<1> SUFFICES ASSUME Init PROVE TypeOK
  OBVIOUS
<1>1. pending \in SUBSET Payload /\ IsFiniteSet(pending)
      /\ Cardinality(pending) <= PendingCapacity
  BY EmptyQueue DEF Init
<1>2. stats \in [Transports -> [Counters -> Nat]]
  BY DEF Init
<1>3. completions \in [0 .. RingSize - 1 -> Completion] /\ event \in Completion
  BY DEF Init, Completion, Transports
<1>4. selected \in Payload
  BY DEF Init, Payload, Transports
<1>5. 0 \in 0 .. RingSize - 1
  OBVIOUS
<1>. QED
  BY <1>1, <1>2, <1>3, <1>4, <1>5 DEF Init, TypeOK, Transports, RuntimePCs, HostPCs

(* Every step keeps the state well typed. *)
LEMMA TypeStep == TypeOK /\ GateInv /\ [Next]_vars => TypeOK'
<1> SUFFICES ASSUME TypeOK, GateInv, [Next]_vars PROVE TypeOK'
  OBVIOUS
<1>. USE DEF TypeOK, transportVars, ringVars, gateVars, backendVars, runtimeVars, hostVars,
         inputVars, RuntimeFrame, HostFrame, RuntimePCs, HostPCs
<1>1. ASSUME NEW t \in Transports, NEW lag \in 0 .. MaxLag, NEW life \in Lifetimes,
             Submit(t, lag, life)
      PROVE  TypeOK'
  <2>1. pending' \in SUBSET Payload
    BY <1>1 DEF Submit, Payload
  <2>2. IsFiniteSet(pending') /\ Cardinality(pending') <= PendingCapacity
    BY <1>1, QueueType DEF Submit
  <2>3. stats' \in [Transports -> [Counters -> Nat]]
    BY <1>1, CountType DEF Submit
  <2>. QED
    BY <1>1, <2>1, <2>2, <2>3 DEF Submit
<1>2. CASE PollBegin
  BY <1>2 DEF PollBegin
<1>3. CASE DrainEvent
  <2>1. stats' \in [Transports -> [Counters -> Nat]] /\ busy' \in BOOLEAN
    BY <1>3, CountType DEF DrainEvent, TakeCompletion, EndAdvertisement
  <2>. QED
    BY <1>3, <2>1, NextSlotType DEF DrainEvent
<1>4. CASE DrainPublish
  BY <1>4 DEF DrainPublish
<1>5. CASE DrainOverflow
  <2>1. stats' \in [Transports -> [Counters -> Nat]] /\ busy' \in BOOLEAN
    BY <1>5, CountType DEF DrainOverflow, EndAdvertisement
  <2>. QED
    BY <1>5, <2>1 DEF DrainOverflow
<1>6. CASE PollSelect
  <2>1. CASE pending = {} /\ UNCHANGED <<pending, stats, selected>> /\ rpc' = "idle"
    BY <1>6, <2>1 DEF PollSelect
  <2>2. ASSUME NEW p \in pending, pending' = pending \ {p}, selected' = p,
               IF Expired(p) THEN Count(p.transport, {"dropped"}) /\ rpc' = "select"
                             ELSE rpc' = "configure" /\ UNCHANGED stats
        PROVE  TypeOK'
    <3>1. p.transport \in Transports
      BY DEF Payload
    <3>2. stats' \in [Transports -> [Counters -> Nat]]
      BY <2>2, <3>1, CountType
    <3>3. IsFiniteSet(pending') /\ Cardinality(pending') <= PendingCapacity
      BY <2>2, QueueType
    <3>. QED
      BY <1>6, <2>2, <3>2, <3>3 DEF PollSelect
  <2>. QED
    BY <1>6, <2>1, <2>2 DEF PollSelect
<1>7. CASE PollConfigure
  <2>1. selected.transport \in Transports
    BY DEF Payload
  <2>2. stats' \in [Transports -> [Counters -> Nat]]
    BY <1>7, <2>1, CountType DEF PollConfigure, PollFails
  <2>. QED
    BY <1>7, <2>1, <2>2 DEF PollConfigure, PollFails
<1>8. CASE PollStart
  <2>1. selected.transport \in Transports
    BY DEF Payload
  <2>2. stats' \in [Transports -> [Counters -> Nat]]
    BY <1>8, <2>1, CountType DEF PollStart, PollFails
  <2>. QED
    BY <1>8, <2>1, <2>2 DEF PollStart, PollFails
<1>9. CASE PollStarted
  <2>1. selected.transport \in Transports /\ selected.deadline \in Nat
    BY DEF Payload
  <2>2. stats' \in [Transports -> [Counters -> Nat]]
    BY <1>9, <2>1, CountType DEF PollStarted
  <2>. QED
    BY <1>9, <2>1, <2>2 DEF PollStarted, NoteActive
<1>10. CASE Shutdown
  BY <1>10 DEF Shutdown
<1>11. CASE Unbind
  BY <1>11 DEF Unbind
<1>12. ASSUME NEW unstopped \in SUBSET Transports, NEW unremoved \in SUBSET Transports,
              Reset(unstopped, unremoved)
       PROVE  TypeOK'
  <2>1. IsFiniteSet(pending') /\ Cardinality(pending') <= PendingCapacity
    BY <1>12, EmptyQueue DEF Reset
  <2>. QED
    BY <1>12, <2>1 DEF Reset, StillConfigured
<1>13. ASSUME NEW t \in Transports, NEW ok \in BOOLEAN,
              AdvComplete(t, ok) \/ StrayEvent(t, ok)
       PROVE  TypeOK'
  <2>1. event' \in Completion
    BY <1>13 DEF AdvComplete, StrayEvent, GapEventCalled, Completion
  <2>2. advertising' \in SUBSET Transports /\ strays' \in Nat
    BY <1>13 DEF AdvComplete, StrayEvent
  <2>3. hpc' = "filter" /\ HostFrame
        /\ UNCHANGED <<completions, completionWrite, overflows, inFlight>>
    BY <1>13 DEF AdvComplete, StrayEvent, GapEventCalled
  <2>. QED
    BY <2>1, <2>2, <2>3
<1>14. CASE Filter
  BY <1>14 DEF Filter, HostStep
<1>15. CASE Enter
  BY <1>15 DEF Enter, HostStep
<1>16. CASE LoadCallback
  BY <1>16 DEF LoadCallback, HostStep
<1>17. CASE LoadContext
  BY <1>17 DEF LoadContext, HostStep
<1>18. CASE Enqueue
  BY <1>18 DEF Enqueue, HostStep
<1>19. CASE WriteSlot
  BY <1>19 DEF WriteSlot, HostStep
<1>20. CASE Publish
  BY <1>20, NextSlotType DEF Publish, HostStep
<1>21. CASE Leave
  BY <1>21 DEF Leave, HostStep, LeaveGate, GateInv
<1>22. CASE Tick
  BY <1>22 DEF Tick
<1>23. CASE UNCHANGED vars
  BY <1>23 DEF vars
<1>. QED
  BY <1>1, <1>2, <1>3, <1>4, <1>5, <1>6, <1>7, <1>8, <1>9, <1>10, <1>11, <1>12, <1>13,
     <1>14, <1>15, <1>16, <1>17, <1>18, <1>19, <1>20, <1>21, <1>22, <1>23
  DEF Next, Poll, ShutdownCall, GapEvent, Complete

(* The gate is open at first. *)
LEMMA GateInit == Init => GateInv
BY DEF Init, GateInv, CallbackBody, RuntimePCs

(* Every step keeps the gate.  The host enters a callback body only if it finds the       *)
(* callback bound, and shutdown leaves its wait only with no host task past the gate.     *)
LEMMA GateStep == TypeOK /\ GateInv /\ [Next]_vars => GateInv'
<1> SUFFICES ASSUME TypeOK, GateInv, [Next]_vars PROVE GateInv'
  OBVIOUS
<1>. USE DEF GateInv, CallbackBody, RuntimePCs, HostPCs
<1>0. /\ rpc \in RuntimePCs /\ hpc \in HostPCs /\ inFlight \in Nat
      /\ shuttingDown \in BOOLEAN /\ callback \in BOOLEAN
  BY DEF TypeOK
<1>3. ASSUME NEW t \in Transports, NEW lag, NEW life, Submit(t, lag, life)
      PROVE  GateInv'
  BY <1>3, <1>0 DEF Submit, gateVars, hostVars, runtimeVars
<1>4. CASE Poll
  <2>1. /\ UNCHANGED <<hpc, inFlight, callback, shuttingDown>>
        /\ ~shuttingDown
        /\ rpc' \in RuntimePCs \ {"unbind", "reset"}
    BY <1>4, <1>0 DEF Poll, PollBegin, DrainEvent, DrainPublish, DrainOverflow, PollSelect,
       PollConfigure, PollStart, PollStarted, PollFails, RuntimeFrame, hostVars, transportVars
  <2>. QED
    BY <2>1, <1>0
<1>5. CASE Shutdown
  BY <1>5, <1>0 DEF Shutdown, RuntimeFrame, hostVars
<1>6. CASE Unbind
  BY <1>6, <1>0 DEF Unbind, CallbacksDone, RuntimeFrame, hostVars, transportVars
<1>7. ASSUME NEW unstopped, NEW unremoved, Reset(unstopped, unremoved)
      PROVE  GateInv'
  BY <1>7, <1>0 DEF Reset, RuntimeFrame, hostVars
<1>8. CASE GapEvent
  <2>1. UNCHANGED <<rpc, callback, shuttingDown>>
    BY <1>8 DEF GapEvent, Filter, Enter, LoadCallback, LoadContext, Enqueue, WriteSlot, Publish,
       Leave, HostStep, HostFrame, transportVars, runtimeVars
  <2>2. /\ hpc' \in CallbackBody => hpc \in CallbackBody \/ callback
        /\ inFlight' = IF hpc' \in CallbackBody \union {"load", "leave"} THEN 1 ELSE 0
    BY <1>8, <1>0 DEF GapEvent, Filter, Enter, LoadCallback, LoadContext, Enqueue, WriteSlot,
       Publish, Leave, LeaveGate, HostStep
  <2>. QED
    BY <2>1, <2>2, <1>0
<1>9. ASSUME NEW t \in Transports, NEW ok \in BOOLEAN, AdvComplete(t, ok) \/ StrayEvent(t, ok)
      PROVE  GateInv'
  BY <1>9, <1>0 DEF AdvComplete, StrayEvent, GapEventCalled, HostFrame, transportVars, runtimeVars
<1>10. CASE Tick \/ UNCHANGED vars
  BY <1>10, <1>0 DEF Tick, vars, gateVars, hostVars, transportVars, runtimeVars
<1>. QED
  BY <1>3, <1>4, <1>5, <1>6, <1>7, <1>8, <1>9, <1>10 DEF Next, ShutdownCall, Complete

(* The types and the gate hold together in every reachable state. *)
LEMMA TypeGate == Spec => []TypeGateInv
<1>1. Init => TypeGateInv
  BY TypeInit, GateInit DEF TypeGateInv
<1>2. TypeGateInv /\ [Next]_vars => TypeGateInv'
  BY TypeStep, GateStep DEF TypeGateInv
<1>. QED
  BY <1>1, <1>2, PTL DEF Spec

(* Every reachable state is well typed, and the queue never exceeds its capacity. *)
THEOREM TypeCorrect == Spec => []TypeOK
<1>1. TypeGateInv => TypeOK
  BY DEF TypeGateInv
<1>. QED
  BY <1>1, TypeGate, PTL

(* Once shutdown has waited, no callback runs in the transport, whatever the             *)
(* interleaving of the two tasks and however many completions the stack delivers.         *)
THEOREM CallbackSafety == Spec => []CallbackQuiesced
<1>1. TypeGateInv => CallbackQuiesced
  BY DEF TypeGateInv, TypeOK, GateInv, CallbackQuiesced
<1>. QED
  BY <1>1, TypeGate, PTL

-----------------------------------------------------------------------------
(* Conservation. *)

(* What Conservation needs besides itself: sequence numbers are fresh, poll tries a      *)
(* payload only when nothing is on air, and nothing runs once shut down.                  *)
AccountInv ==
    /\ \A p \in pending : p.sequence < nextSequence
    /\ rpc \in {"select", "configure", "start", "started"} => ~busy
    /\ shutDown => shuttingDown /\ rpc = "idle"
    /\ Conservation

(* Count adds one to the named counters of one transport and changes nothing else.       *)
LEMMA CountEffect ==
    ASSUME stats \in [Transports -> [Counters -> Nat]],
           NEW t \in Transports, NEW cs, Count(t, cs)
    PROVE  \A u \in Transports, c \in Counters :
               stats'[u][c] = IF u = t /\ c \in cs THEN stats[u][c] + 1 ELSE stats[u][c]
BY DEF Count

(* The payloads of a transport are counted as they enter and leave the queue.             *)
LEMMA QueuedAdd ==
    ASSUME IsFiniteSet(pending), NEW p, p \notin pending, pending' = pending \union {p},
           NEW t
    PROVE  /\ Queued(t) \in Nat
           /\ Queued(t)' = IF p.transport = t THEN Queued(t) + 1 ELSE Queued(t)
<1>. DEFINE Q == {q \in pending : q.transport = t}
<1>1. IsFiniteSet(Q) /\ Cardinality(Q) \in Nat
  BY FS_Subset, FS_CardinalityType
<1>2. Queued(t) = Cardinality(Q)
  BY DEF Queued
<1>3. CASE p.transport = t
  <2>1. {q \in pending' : q.transport = t} = Q \union {p}
    BY <1>3
  <2>2. Cardinality(Q \union {p}) = Cardinality(Q) + 1
    BY <1>1, FS_AddElement
  <2>. QED
    BY <1>1, <1>2, <1>3, <2>1, <2>2 DEF Queued
<1>4. CASE p.transport # t
  <2>1. {q \in pending' : q.transport = t} = Q
    BY <1>4
  <2>. QED
    BY <1>1, <1>2, <1>4, <2>1 DEF Queued
<1>. QED
  BY <1>3, <1>4

(* A payload that leaves the queue lowers the count of its transport by one. *)
LEMMA QueuedRemove ==
    ASSUME IsFiniteSet(pending), NEW p \in pending, pending' = pending \ {p}, NEW t
    PROVE  /\ Queued(t) \in Nat /\ Queued(t)' \in Nat
           /\ Queued(t) = IF p.transport = t THEN Queued(t)' + 1 ELSE Queued(t)'
<1>. DEFINE Q == {q \in pending : q.transport = t}
<1>1. IsFiniteSet(Q) /\ Cardinality(Q) \in Nat
  BY FS_Subset, FS_CardinalityType
<1>2. Queued(t) = Cardinality(Q)
  BY DEF Queued
<1>3. CASE p.transport = t
  <2>1. {q \in pending' : q.transport = t} = Q \ {p}
    BY <1>3
  <2>2. IsFiniteSet(Q \ {p}) /\ Cardinality(Q \ {p}) = Cardinality(Q) - 1
    BY <1>1, <1>3, FS_RemoveElement
  <2>3. Cardinality(Q \ {p}) \in Nat
    BY <2>2, FS_CardinalityType
  <2>4. Queued(t)' = Cardinality(Q \ {p})
    BY <2>1 DEF Queued
  <2>. HIDE DEF Q
  <2>. QED
    BY <1>1, <1>2, <1>3, <2>2, <2>3, <2>4
<1>4. CASE p.transport # t
  <2>1. {q \in pending' : q.transport = t} = Q
    BY <1>4
  <2>. QED
    BY <1>1, <1>2, <1>4, <2>1 DEF Queued
<1>. QED
  BY <1>3, <1>4

(* The number of queued payloads is a natural number, and depends on the queue only.      *)
LEMMA QueuedType ==
    ASSUME IsFiniteSet(pending), NEW t
    PROVE  Queued(t) \in Nat /\ (pending' = pending => Queued(t)' = Queued(t))
<1>1. IsFiniteSet({q \in pending : q.transport = t})
  BY FS_Subset
<1>. QED
  BY <1>1, FS_CardinalityType DEF Queued

(* At first nothing was expected and nothing is queued. *)
LEMMA AccountInit == Init => AccountInv
<1> SUFFICES ASSUME Init PROVE AccountInv
  OBVIOUS
<1>1. ASSUME NEW t \in Transports
      PROVE  stats[t]["expected"] = Settled(t) + Queued(t) + InHand(t) + OnAir(t)
  <2>1. {q \in pending : q.transport = t} = {}
    BY DEF Init
  <2>2. Queued(t) = 0
    BY <2>1, FS_EmptySet DEF Queued
  <2>. QED
    BY <2>2 DEF Init, Settled, InHand, OnAir, Counters
<1>. QED
  BY <1>1 DEF Init, AccountInv, Conservation

(* Every step moves a payload from one column of the account to another, or none. *)
LEMMA AccountStep ==
    TypeOK /\ TypeOK' /\ GateInv /\ AccountInv /\ [Next]_vars => AccountInv'
<1> SUFFICES ASSUME TypeOK, TypeOK', GateInv, AccountInv, [Next]_vars PROVE AccountInv'
  OBVIOUS
<1>0. /\ IsFiniteSet(pending) /\ stats \in [Transports -> [Counters -> Nat]]
      /\ stats' \in [Transports -> [Counters -> Nat]]
      /\ rpc \in RuntimePCs /\ busy \in BOOLEAN /\ shutDown \in BOOLEAN
      /\ nextSequence \in Nat /\ activeTransport \in Transports
      /\ selected.transport \in Transports /\ \A p \in pending : p.transport \in Transports
      /\ \A p \in pending : p.sequence \in Nat
  BY DEF TypeOK, Payload
<1>1. \A t \in Transports : Queued(t) \in Nat
  BY <1>0, QueuedType
<1>. USE DEF AccountInv, GateInv, Conservation, Settled, InHand, OnAir, Counters, RuntimePCs
<1>2. ASSUME NEW t \in Transports, NEW lag, NEW life, Submit(t, lag, life)
      PROVE  AccountInv'
  <2>. DEFINE p == [sequence |-> nextSequence, transport |-> t, deadline |-> now - lag,
                    expires |-> IF life = 0 THEN 0 ELSE now + life]
  <2>1. p \notin pending /\ pending' = pending \union {p}
    BY <1>0, <1>2 DEF Submit
  <2>2. /\ Count(t, {"expected"}) /\ nextSequence' = nextSequence + 1
        /\ ~shutDown /\ UNCHANGED <<rpc, selected, busy, activeTransport, shutDown, shuttingDown>>
    BY <1>2 DEF Submit, runtimeVars
  <2>3. \A q \in pending' : q.sequence < nextSequence'
    BY <1>0, <2>1, <2>2
  <2>4. ASSUME NEW u \in Transports
        PROVE  (stats[u]["expected"] = Settled(u) + Queued(u) + InHand(u) + OnAir(u))'
    <3>1. Queued(u)' = IF t = u THEN Queued(u) + 1 ELSE Queued(u)
      BY <1>0, <2>1, QueuedAdd
    <3>2. \A c \in Counters : stats'[u][c] = IF u = t /\ c = "expected" THEN stats[u][c] + 1
                                                                    ELSE stats[u][c]
      BY <1>0, <2>2, CountEffect
    <3>. QED
      BY <1>0, <1>1, <2>2, <3>1, <3>2
  <2>. QED
    BY <1>0, <2>2, <2>3, <2>4
<1>3. ASSUME UNCHANGED <<pending, stats, busy, activeTransport, shutDown, nextSequence>>,
             shuttingDown => shuttingDown', shutDown' => rpc' = "idle",
             rpc' \in {"select", "configure", "start", "started"} => ~busy,
             \A t \in Transports : InHand(t)' = InHand(t)
      PROVE  AccountInv'
  <2>1. \A t \in Transports : Queued(t)' = Queued(t)
    BY <1>0, <1>3, QueuedType
  <2>2. \A t \in Transports : OnAir(t)' = OnAir(t) /\ Settled(t)' = Settled(t)
    BY <1>3
  <2>3. Conservation'
    <3>. HIDE DEF InHand, OnAir, Settled
    <3>. QED
      BY <1>0, <1>3, <2>1, <2>2
  <2>. QED
    BY <1>0, <1>3, <2>3
<1>4. CASE PollBegin \/ DrainPublish
  BY <1>0, <1>3, <1>4 DEF PollBegin, DrainPublish, transportVars, inputVars, RuntimeFrame
<1>5. ASSUME NEW c \in {"completed", "radio_errors"}, EndAdvertisement(c), busy,
             UNCHANGED <<pending, activeTransport, shutDown, shuttingDown, nextSequence, selected>>,
             rpc \in {"drain", "overflow"}, rpc' \in {"drain", "select"}
      PROVE  AccountInv'
  <2>1. \A t \in Transports : Queued(t)' = Queued(t)
    BY <1>0, <1>5, QueuedType
  <2>2. \A t \in Transports, d \in Counters :
            stats'[t][d] = IF t = activeTransport /\ d = c THEN stats[t][d] + 1 ELSE stats[t][d]
    BY <1>0, <1>5, CountEffect DEF EndAdvertisement
  <2>3. busy' = FALSE
    BY <1>5 DEF EndAdvertisement
  <2>. QED
    BY <1>0, <1>1, <1>5, <2>1, <2>2, <2>3
<1>6. CASE DrainEvent
  <2>1. /\ UNCHANGED <<pending, activeTransport, shutDown, shuttingDown, nextSequence, selected, rpc>>
        /\ rpc = "drain"
    BY <1>6 DEF DrainEvent, RuntimeFrame, inputVars
  <2>2. CASE busy
    BY <1>5, <1>6, <2>1, <2>2 DEF DrainEvent, TakeCompletion
  <2>3. CASE ~busy
    BY <1>0, <1>3, <1>6, <2>1, <2>3 DEF DrainEvent, TakeCompletion
  <2>. QED
    BY <2>2, <2>3
<1>7. CASE DrainOverflow
  <2>1. /\ UNCHANGED <<pending, activeTransport, shutDown, shuttingDown, nextSequence, selected>>
        /\ rpc = "overflow" /\ rpc' = IF busy' THEN "idle" ELSE "select"
    BY <1>7 DEF DrainOverflow, RuntimeFrame, inputVars
  <2>2. CASE overflows > 0 /\ busy
    BY <1>5, <1>7, <2>1, <2>2 DEF DrainOverflow, EndAdvertisement
  <2>3. CASE ~(overflows > 0 /\ busy)
    <3>1. UNCHANGED <<stats, busy>>
      BY <1>7, <2>3 DEF DrainOverflow
    <3>2. \A t \in Transports : Queued(t)' = Queued(t)
      BY <1>0, <2>1, QueuedType
    <3>. QED
      BY <1>0, <1>1, <2>1, <3>1, <3>2
  <2>. QED
    BY <2>2, <2>3
<1>8. CASE PollSelect
  <2>1. /\ UNCHANGED <<busy, activeTransport, shutDown, shuttingDown, nextSequence>>
        /\ rpc = "select"
    BY <1>8 DEF PollSelect, RuntimeFrame, inputVars
  <2>2. CASE UNCHANGED <<pending, stats, selected>> /\ rpc' = "idle"
    BY <1>0, <1>3, <2>1, <2>2
  <2>3. ASSUME NEW p \in pending, pending' = pending \ {p}, selected' = p,
               IF Expired(p) THEN Count(p.transport, {"dropped"}) /\ rpc' = "select"
                             ELSE rpc' = "configure" /\ UNCHANGED stats
        PROVE  AccountInv'
    <3>1. \A q \in pending' : q.sequence < nextSequence'
      BY <1>0, <2>1, <2>3
    <3>2. ASSUME NEW t \in Transports
          PROVE  (stats[t]["expected"] = Settled(t) + Queued(t) + InHand(t) + OnAir(t))'
      <4>1. /\ Queued(t)' \in Nat
            /\ Queued(t) = IF p.transport = t THEN Queued(t)' + 1 ELSE Queued(t)'
        BY <1>0, <2>3, QueuedRemove
      <4>2. CASE Expired(p)
        <5>1. \A d \in Counters : stats'[t][d] = IF t = p.transport /\ d = "dropped"
                                                  THEN stats[t][d] + 1 ELSE stats[t][d]
          BY <1>0, <2>3, <4>2, CountEffect
        <5>. QED
          BY <1>0, <1>1, <2>1, <2>3, <4>1, <4>2, <5>1
      <4>3. CASE ~Expired(p)
        BY <1>0, <1>1, <2>1, <2>3, <4>1, <4>3
      <4>. QED
        BY <4>2, <4>3
    <3>. QED
      BY <1>0, <2>1, <2>3, <3>1, <3>2
  <2>. QED
    BY <1>8, <2>2, <2>3 DEF PollSelect
<1>9. ASSUME PollFails, rpc \in {"configure", "start"},
             UNCHANGED <<pending, busy, activeTransport, shutDown, shuttingDown, nextSequence,
                         selected>>
      PROVE  AccountInv'
  <2>1. \A t \in Transports : Queued(t)' = Queued(t)
    BY <1>0, <1>9, QueuedType
  <2>2. \A t \in Transports, d \in Counters :
            stats'[t][d] = IF t = selected.transport /\ d = "radio_errors" THEN stats[t][d] + 1
                                                                        ELSE stats[t][d]
    BY <1>0, <1>9, CountEffect DEF PollFails
  <2>. QED
    BY <1>0, <1>1, <1>9, <2>1, <2>2 DEF PollFails
<1>10. CASE PollConfigure
  BY <1>0, <1>3, <1>9, <1>10 DEF PollConfigure, RuntimeFrame, inputVars
<1>11. CASE PollStart
  BY <1>0, <1>3, <1>9, <1>11 DEF PollStart, RuntimeFrame, inputVars
<1>12. CASE PollStarted
  <2>. DEFINE cs == {"submitted"} \union IF now0 > selected.deadline THEN {"late"} ELSE {}
  <2>1. /\ rpc = "started" /\ rpc' = "idle" /\ activeTransport' = selected.transport /\ busy'
        /\ UNCHANGED <<pending, selected, shutDown, shuttingDown, nextSequence>>
    BY <1>12 DEF PollStarted, NoteActive, RuntimeFrame, inputVars
  <2>2. \A t \in Transports, d \in Counters :
            stats'[t][d] = IF t = selected.transport /\ d \in cs THEN stats[t][d] + 1
                                                               ELSE stats[t][d]
    <3>1. Count(selected.transport, cs)
      BY <1>12 DEF PollStarted
    <3>. HIDE DEF cs
    <3>. QED
      BY <1>0, <3>1, CountEffect
  <2>3. \A t \in Transports, d \in {"expected", "completed", "dropped", "radio_errors"} :
            stats'[t][d] = stats[t][d]
    BY <2>2
  <2>4. \A t \in Transports : Queued(t)' = Queued(t)
    BY <1>0, <2>1, QueuedType
  <2>. QED
    BY <1>0, <1>1, <2>1, <2>3, <2>4
<1>13. CASE Shutdown \/ Unbind
  BY <1>0, <1>3, <1>13 DEF Shutdown, Unbind, RuntimeFrame, inputVars, transportVars
<1>14. ASSUME NEW unstopped, NEW unremoved, Reset(unstopped, unremoved)
       PROVE  AccountInv'
  <2>1. /\ rpc = "reset" /\ rpc' = "idle" /\ ~shutDown
        /\ UNCHANGED <<stats, activeTransport, shuttingDown, selected, nextSequence>>
    BY <1>14 DEF Reset, RuntimeFrame, inputVars
  <2>2. CASE shutDown' = TRUE /\ busy' = FALSE /\ pending' = {}
    BY <1>0, <1>1, <2>1, <2>2
  <2>3. CASE UNCHANGED <<shutDown, busy, pending>>
    BY <1>0, <1>3, <2>1, <2>3
  <2>. QED
    BY <1>14, <2>2, <2>3 DEF Reset
<1>15. CASE \/ GapEvent \/ Tick \/ UNCHANGED vars
            \/ \E t \in Transports, ok \in BOOLEAN : AdvComplete(t, ok) \/ StrayEvent(t, ok)
  <2>1. UNCHANGED <<pending, stats, busy, activeTransport, shutDown, shuttingDown, nextSequence,
                    rpc, selected>>
    BY <1>15 DEF GapEvent, Filter, Enter, LoadCallback, LoadContext, Enqueue, WriteSlot, Publish,
       Leave, HostStep, HostFrame, GapEventCalled, AdvComplete, StrayEvent, Tick, vars,
       transportVars, runtimeVars, inputVars
  <2>2. \A t \in Transports : Queued(t)' = Queued(t)
    BY <1>0, <2>1, QueuedType
  <2>. QED
    BY <1>0, <1>1, <2>1, <2>2
<1>. QED
  BY <1>2, <1>4, <1>6, <1>7, <1>8, <1>10, <1>11, <1>12, <1>13, <1>14, <1>15
  DEF Next, Poll, ShutdownCall, Complete

(* Every payload submit accepts is accounted for exactly once, for any queue, any ring,   *)
(* any workload and any behaviour of the stack, stray and overflowing completions too.    *)
THEOREM AccountsBalance == Spec => []Conservation
<1>1. Init => TypeGateInv /\ AccountInv
  BY TypeInit, GateInit, AccountInit DEF TypeGateInv
<1>2. TypeGateInv /\ AccountInv /\ [Next]_vars => (TypeGateInv /\ AccountInv)'
  BY TypeStep, GateStep, AccountStep DEF TypeGateInv
<1>3. AccountInv => Conservation
  BY DEF AccountInv
<1>. QED
  BY <1>1, <1>2, <1>3, PTL DEF Spec

-----------------------------------------------------------------------------
(* The completion ring. *)

(* The slots from i up to, not including, j, along the ring.                              *)
Steps(i, j) == IF i <= j THEN j - i ELSE j - i + RingSize

(* The remainder of less than two rounds. *)
LEMMA RingRemainder ==
    ASSUME NEW x \in 0 .. 2 * RingSize - 1
    PROVE  x % RingSize = IF x < RingSize THEN x ELSE x - RingSize
<1>. DEFINE R == RingSize
            q == x \div R
            m == x % R
<1>1. x \in Int /\ x >= 0 /\ R \in Int /\ R > 1 /\ x < 2 * R
  OBVIOUS
<1>. HIDE DEF R
<1>2. q \in Int /\ m \in Int /\ 0 <= m /\ m < R /\ x = R * q + m
  <2>1. x = R * q + m
    BY <1>1, Z3
  <2>2. q \in Int /\ m \in Int /\ 0 <= m /\ m < R
    BY <1>1, Z3
  <2>. QED
    BY <2>1, <2>2
<1>. HIDE DEF q, m
<1>3. q >= 2 => R * q >= 2 * R
  BY <1>1, <1>2, Z3
<1>4. q <= -1 => R * q <= -R
  BY <1>1, <1>2, Z3
<1>5. q = 0 \/ q = 1
  BY <1>1, <1>2, <1>3, <1>4
<1>6. m = IF x < R THEN x ELSE x - R
  BY <1>1, <1>2, <1>5
<1>. QED
  BY <1>6 DEF R, m

(* The ring's arithmetic without remainders.  First the slot that follows another. *)
LEMMA NextSlotIs ==
    ASSUME NEW i \in 0 .. RingSize - 1
    PROVE  NextSlot(i) = IF i = RingSize - 1 THEN 0 ELSE i + 1
<1>1. i + 1 \in 0 .. 2 * RingSize - 1
  OBVIOUS
<1>. QED
  BY <1>1, RingRemainder DEF NextSlot

(* How many slots lie between two indices, as the drain and the properties compute it. *)
LEMMA SlotsBetween ==
    ASSUME NEW i \in 0 .. RingSize - 1, NEW j \in 0 .. RingSize - 1
    PROVE  (j - i + RingSize) % RingSize = Steps(i, j)
<1>1. j - i + RingSize \in 0 .. 2 * RingSize - 1
  OBVIOUS
<1>2. (j - i + RingSize) % RingSize =
          IF j - i + RingSize < RingSize THEN j - i + RingSize ELSE j - i + RingSize - RingSize
  BY <1>1, RingRemainder
<1>. QED
  BY <1>2 DEF Steps

(* The slot some steps ahead. *)
LEMMA SlotAhead ==
    ASSUME NEW i \in 0 .. RingSize - 1, NEW k \in 0 .. RingSize - 1
    PROVE  (i + k) % RingSize = IF i + k < RingSize THEN i + k ELSE i + k - RingSize
<1>1. i + k \in 0 .. 2 * RingSize - 1
  OBVIOUS
<1>. QED
  BY <1>1, RingRemainder

(* A drain's indices lie between those of the ring, in the order in which the drain has   *)
(* read them, and the host writes only into a ring that is not full.                      *)
InOrder == Steps(completionRead, completionWrite) =
               Steps(completionRead, drainRead) + Steps(drainRead, drainWrite)
                   + Steps(drainWrite, completionWrite)

RingInv ==
    /\ hpc \in {"write", "publish"} => ~RingFull
    /\ rpc = "drain" => InOrder

(* The ring is empty at first. *)
LEMMA RingInit == Init => RingInv
BY DEF Init, RingInv

(* Both tasks keep the order, although neither waits for the other.  Publishing moves the *)
(* write index away from the drain, into the slot that is kept free; the drain frees only *)
(* what it has read.                                                                       *)
LEMMA RingStep == TypeOK /\ RingInv /\ [Next]_vars => RingInv'
<1> SUFFICES ASSUME TypeOK, RingInv, [Next]_vars PROVE RingInv'
  OBVIOUS
<1>0. /\ completionWrite \in 0 .. RingSize - 1 /\ completionRead \in 0 .. RingSize - 1
      /\ drainRead \in 0 .. RingSize - 1 /\ drainWrite \in 0 .. RingSize - 1
  BY DEF TypeOK
<1>. USE DEF RingInv, RingFull, InOrder, Steps
<1>1. ASSUME UNCHANGED <<completionWrite, completionRead, drainRead, drainWrite>>,
             rpc' = "drain" => rpc = "drain",
             hpc' \in {"write", "publish"} => hpc \in {"write", "publish"}
      PROVE  RingInv'
  BY <1>1
<1>2. ASSUME NEW t \in Transports, NEW lag, NEW life, Submit(t, lag, life)
      PROVE  RingInv'
  BY <1>1, <1>2 DEF Submit, ringVars, runtimeVars, hostVars
<1>3. CASE PollBegin
  <2>1. /\ UNCHANGED <<completionWrite, completionRead, hpc>>
        /\ drainRead' = completionRead /\ drainWrite' = completionWrite
    BY <1>3 DEF PollBegin, RuntimeFrame, hostVars
  <2>. QED
    BY <1>0, <2>1
<1>4. CASE DrainEvent
  <2>1. /\ UNCHANGED <<completionWrite, completionRead, drainWrite, rpc, hpc>>
        /\ drainRead' = NextSlot(drainRead) /\ drainRead # drainWrite /\ rpc = "drain"
    BY <1>4 DEF DrainEvent, RuntimeFrame, hostVars
  <2>2. NextSlot(drainRead) = IF drainRead = RingSize - 1 THEN 0 ELSE drainRead + 1
    BY <1>0, NextSlotIs
  <2>3. drainRead' \in 0 .. RingSize - 1
    BY <1>0, <2>1, <2>2
  <2>. QED
    BY <1>0, <2>1, <2>2, <2>3
<1>5. CASE DrainPublish
  <2>1. /\ UNCHANGED <<completionWrite, hpc>> /\ rpc = "drain" /\ rpc' = "overflow"
        /\ drainRead = drainWrite /\ completionRead' = drainRead
    BY <1>5 DEF DrainPublish, RuntimeFrame, hostVars
  <2>2. NextSlot(completionWrite) = IF completionWrite = RingSize - 1 THEN 0
                                                                    ELSE completionWrite + 1
    BY <1>0, NextSlotIs
  <2>3. Steps(completionRead, completionWrite) =
            Steps(completionRead, drainRead) + Steps(drainRead, completionWrite)
    BY <1>0, <2>1
  <2>4. NextSlot(completionWrite) # completionRead => NextSlot(completionWrite) # drainRead
    BY <1>0, <2>2, <2>3
  <2>. QED
    BY <2>1, <2>4
<1>6. CASE \/ DrainOverflow \/ PollSelect \/ PollConfigure \/ PollStart \/ PollStarted
           \/ Shutdown \/ Unbind
  BY <1>1, <1>6 DEF DrainOverflow, PollSelect, PollConfigure, PollStart, PollStarted, PollFails,
     Shutdown, Unbind, RuntimeFrame, hostVars
<1>7. ASSUME NEW unstopped, NEW unremoved, Reset(unstopped, unremoved)
      PROVE  RingInv'
  BY <1>1, <1>7 DEF Reset, RuntimeFrame, hostVars
<1>8. ASSUME NEW t \in Transports, NEW ok \in BOOLEAN, AdvComplete(t, ok) \/ StrayEvent(t, ok)
      PROVE  RingInv'
  BY <1>1, <1>8 DEF AdvComplete, StrayEvent, GapEventCalled, HostFrame, runtimeVars
<1>9. CASE Filter \/ Enter \/ LoadCallback \/ LoadContext \/ Leave
  BY <1>1, <1>9 DEF Filter, Enter, LoadCallback, LoadContext, Leave, HostStep, HostFrame,
     runtimeVars
<1>10. CASE Enqueue
  BY <1>10 DEF Enqueue, HostStep, HostFrame, runtimeVars
<1>11. CASE WriteSlot
  BY <1>1, <1>11 DEF WriteSlot, HostStep, HostFrame, runtimeVars
<1>12. CASE Publish
  <2>1. /\ UNCHANGED <<completionRead, drainRead, drainWrite, rpc>>
        /\ completionWrite' = NextSlot(completionWrite) /\ hpc' = "leave"
        /\ NextSlot(completionWrite) # completionRead
    BY <1>12 DEF Publish, HostStep, HostFrame, runtimeVars
  <2>2. NextSlot(completionWrite) = IF completionWrite = RingSize - 1 THEN 0
                                                                    ELSE completionWrite + 1
    BY <1>0, NextSlotIs
  <2>3. completionWrite' \in 0 .. RingSize - 1
    BY <1>0, <2>1, <2>2
  <2>. QED
    BY <1>0, <2>1, <2>2, <2>3
<1>13. CASE Tick \/ UNCHANGED vars
  BY <1>1, <1>13 DEF Tick, vars, ringVars, runtimeVars, hostVars
<1>. QED
  BY <1>2, <1>3, <1>4, <1>5, <1>6, <1>7, <1>8, <1>9, <1>10, <1>11, <1>12, <1>13
     DEF Next, Poll, ShutdownCall, GapEvent, Complete

(* The order holds in every reachable state. *)
LEMMA RingOrdered == Spec => [](TypeGateInv /\ RingInv)
<1>1. Init => TypeGateInv /\ RingInv
  BY TypeInit, GateInit, RingInit DEF TypeGateInv
<1>2. TypeGateInv /\ RingInv /\ [Next]_vars => (TypeGateInv /\ RingInv)'
  BY TypeStep, GateStep, RingStep DEF TypeGateInv
<1>. QED
  BY <1>1, <1>2, PTL DEF Spec

(* The slot the host task writes is none that the drain has yet to read, for a ring of    *)
(* any size and any number of completions, stray ones too.                                *)
THEOREM SlotsApart == Spec => []NoSlotRace
<1>1. TypeGateInv /\ RingInv => NoSlotRace
  <2> SUFFICES ASSUME TypeOK, InOrder,
                      NEW k \in 0 .. ((drainWrite - drainRead + RingSize) % RingSize) - 1
               PROVE  (drainRead + k) % RingSize # completionWrite
    BY DEF TypeGateInv, NoSlotRace, RingInv
  <2>1. /\ completionWrite \in 0 .. RingSize - 1 /\ completionRead \in 0 .. RingSize - 1
        /\ drainRead \in 0 .. RingSize - 1 /\ drainWrite \in 0 .. RingSize - 1
    BY DEF TypeOK
  <2>2. k \in 0 .. Steps(drainRead, drainWrite) - 1
    BY <2>1, SlotsBetween
  <2>3. Steps(drainRead, drainWrite) <= Steps(drainRead, completionWrite)
    BY <2>1 DEF InOrder, Steps
  <2>4. k \in 0 .. RingSize - 1 /\ k < Steps(drainRead, completionWrite)
    BY <2>1, <2>2, <2>3 DEF Steps
  <2>5. (drainRead + k) % RingSize =
            IF drainRead + k < RingSize THEN drainRead + k ELSE drainRead + k - RingSize
    BY <2>1, <2>4, SlotAhead
  <2>. QED
    BY <2>1, <2>4, <2>5 DEF Steps
<1>. QED
  BY <1>1, RingOrdered, PTL

-----------------------------------------------------------------------------
(* The end of the transport. *)

(* The stack sends only from instances that are configured, and a start is of one that is. *)
FinalInv ==
    /\ advertising \subseteq configured
    /\ rpc = "start" => activeMode \in configured
    /\ ShutDownIsFinal

(* No instance is on air at first. *)
LEMMA FinalInit == Init => FinalInv
BY DEF Init, FinalInv, ShutDownIsFinal

(* Every step keeps it.  A reset that reports success has stopped every configured         *)
(* instance, so every one on air; one that fails keeps what it could not remove.            *)
LEMMA FinalStep == TypeOK /\ AccountInv /\ FinalInv /\ [Next]_vars => FinalInv'
<1> SUFFICES ASSUME TypeOK, AccountInv, FinalInv, [Next]_vars PROVE FinalInv'
  OBVIOUS
<1>0. shutDown => rpc = "idle" /\ shuttingDown
  BY DEF AccountInv
<1>. USE DEF FinalInv, ShutDownIsFinal
<1>1. ASSUME UNCHANGED <<configured, activeMode>>, advertising' \subseteq advertising,
             rpc' = "start" => rpc = "start",
             (~shutDown /\ ~shutDown') \/ UNCHANGED <<shutDown, pending, busy>>
      PROVE  FinalInv'
  BY <1>1
<1>2. ASSUME NEW t \in Transports, NEW lag, NEW life, Submit(t, lag, life)
      PROVE  FinalInv'
  <2>1. ~shutDown /\ UNCHANGED <<shutDown, configured, activeMode, advertising, rpc>>
    BY <1>0, <1>2 DEF Submit, backendVars, runtimeVars
  <2>. QED
    BY <2>1
<1>3. CASE PollBegin \/ DrainPublish
  BY <1>1, <1>3 DEF PollBegin, DrainPublish, transportVars, backendVars
<1>4. CASE DrainEvent \/ DrainOverflow \/ PollSelect \/ PollStarted \/ Shutdown
  <2>1. /\ ~shutDown /\ UNCHANGED <<shutDown, configured, activeMode, advertising>>
        /\ rpc' # "start"
    BY <1>0, <1>4 DEF DrainEvent, DrainOverflow, PollSelect, PollStarted, Shutdown, backendVars
  <2>. QED
    BY <1>1, <2>1
<1>5. CASE PollConfigure
  <2>1. /\ ~shutDown /\ UNCHANGED <<shutDown, advertising>> /\ configured \subseteq configured'
    BY <1>0, <1>5 DEF PollConfigure
  <2>2. rpc' = "start" => activeMode' \in configured'
    BY <1>5 DEF PollConfigure, PollFails
  <2>. QED
    BY <2>1, <2>2
<1>6. CASE PollStart
  <2>1. /\ ~shutDown /\ UNCHANGED <<shutDown, configured, activeMode>> /\ rpc' # "start"
        /\ advertising' \subseteq advertising \union {activeMode} /\ activeMode \in configured
    BY <1>0, <1>6 DEF PollStart, PollFails, backendVars
  <2>. QED
    BY <2>1
<1>7. CASE Unbind
  BY <1>1, <1>7 DEF Unbind, transportVars, backendVars
<1>8. ASSUME NEW unstopped, NEW unremoved, Reset(unstopped, unremoved)
      PROVE  FinalInv'
  <2>1. /\ ~shutDown /\ rpc' = "idle"
        /\ configured' = unremoved /\ advertising' = advertising \ (configured \ unstopped)
        /\ unstopped \intersect advertising \subseteq unremoved
    BY <1>0, <1>8 DEF Reset, StillConfigured
  <2>2. advertising' \subseteq configured'
    BY <2>1
  <2>3. shutDown' => unstopped = {} /\ unremoved = {} /\ pending' = {} /\ ~busy'
    BY <1>8, <2>1 DEF Reset
  <2>. QED
    BY <2>1, <2>2, <2>3
<1>9. ASSUME NEW t \in Transports, NEW ok \in BOOLEAN, AdvComplete(t, ok) \/ StrayEvent(t, ok)
      PROVE  FinalInv'
  BY <1>1, <1>9 DEF AdvComplete, StrayEvent, GapEventCalled, HostFrame, transportVars,
     backendVars, runtimeVars
<1>10. CASE GapEvent \/ Tick \/ UNCHANGED vars
  <2>1. UNCHANGED <<shutDown, pending, busy, configured, activeMode, advertising, rpc>>
    BY <1>10 DEF GapEvent, Filter, Enter, LoadCallback, LoadContext, Enqueue, WriteSlot,
       Publish, Leave, HostStep, HostFrame, Tick, vars, transportVars, backendVars, runtimeVars
  <2>. QED
    BY <1>1, <2>1
<1>. QED
  BY <1>2, <1>3, <1>4, <1>5, <1>6, <1>7, <1>8, <1>9, <1>10
     DEF Next, Poll, ShutdownCall, Complete

(* All invariants so far. *)
BaseInv == TypeGateInv /\ AccountInv /\ RingInv /\ FinalInv

(* They hold in every reachable state. *)
LEMMA Base == Spec => []BaseInv
<1>1. Init => BaseInv
  BY TypeInit, GateInit, AccountInit, RingInit, FinalInit DEF BaseInv, TypeGateInv
<1>2. BaseInv /\ [Next]_vars => BaseInv'
  BY TypeStep, GateStep, AccountStep, RingStep, FinalStep DEF BaseInv, TypeGateInv
<1>. QED
  BY <1>1, <1>2, PTL DEF Spec

(* A shutdown that reports success leaves nothing on air or configured, and nothing to    *)
(* send, however many attempts before it failed and wherever they stopped.                *)
THEOREM FinallyShutDown == Spec => []ShutDownIsFinal
<1>1. BaseInv => ShutDownIsFinal
  BY DEF BaseInv, FinalInv
<1>. QED
  BY <1>1, Base, PTL

-----------------------------------------------------------------------------
(* The completion an advertisement is owed, when the stack sends none unasked. *)

OnTheWay == {"filter", "enter", "load"} \union CallbackBody

(* There is one completion in all exactly while an advertisement has not ended for the    *)
(* transport, and every trace of it is of the mode that was started: it passes the filter, *)
(* finds a callback and a slot, and is taken for the advertisement it belongs to.            *)
OneCompletion ==
    (IF advertising = {} THEN 0 ELSE 1) + (IF hpc \in OnTheWay THEN 1 ELSE 0)
        + Steps(UnreadFrom, completionWrite)
    = IF busy \/ rpc = "started" THEN 1 ELSE 0

OfActiveMode ==
    /\ advertising \subseteq {activeMode}
    /\ hpc \in OnTheWay => event.instance = activeMode
    /\ hpc = "publish" => completions[completionWrite] = event
    /\ UnreadFrom # completionWrite => completions[UnreadFrom].instance = activeMode
    /\ busy => activeTransport = activeMode
    /\ rpc \in {"start", "started"} => selected.transport = activeMode

WayInv ==
    /\ ~shuttingDown => context
    /\ (strays = 0 /\ ~shuttingDown) =>
          /\ OneCompletion
          /\ OfActiveMode
          /\ overflows = 0
          /\ rpc = "drain" /\ drainRead # completionRead => ~busy

(* Nothing is on the way at first. *)
LEMMA WayInit == Init => WayInv
BY DEF Init, WayInv, OneCompletion, OfActiveMode, OnTheWay, CallbackBody, UnreadFrom, Steps

(* A callback of the host task keeps it: the completion it carries passes each gate, and  *)
(* is on the way until its slot is published.                                              *)
LEMMA WayHostStep ==
    ASSUME BaseInv, WayInv, strays = 0, ~shuttingDown, GapEvent
    PROVE  OneCompletion' /\ OfActiveMode' /\ overflows' = 0
<1>0. /\ completionWrite \in 0 .. RingSize - 1 /\ completionRead \in 0 .. RingSize - 1
      /\ drainRead \in 0 .. RingSize - 1 /\ drainWrite \in 0 .. RingSize - 1
      /\ completions \in [0 .. RingSize - 1 -> Completion]
      /\ busy \in BOOLEAN /\ hpc \in HostPCs
  BY DEF BaseInv, TypeGateInv, TypeOK
<1>1. /\ OneCompletion /\ OfActiveMode /\ overflows = 0 /\ context /\ callback
      /\ rpc = "drain" /\ drainRead # completionRead => ~busy
  BY DEF WayInv, BaseInv, TypeGateInv, GateInv
<1>2. UNCHANGED <<rpc, completionRead, drainRead, busy, activeMode, activeTransport, selected,
                  advertising, event>>
  BY DEF GapEvent, Filter, Enter, LoadCallback, LoadContext, Enqueue, WriteSlot, Publish, Leave,
     HostStep, HostFrame, transportVars, backendVars, runtimeVars
<1>3. UnreadFrom' = UnreadFrom /\ UnreadFrom \in 0 .. RingSize - 1
  BY <1>0, <1>2 DEF UnreadFrom
<1>. USE DEF OneCompletion, OfActiveMode, OnTheWay, CallbackBody
(* Of a host task that carries a completion, this is the only one. *)
<1>4. hpc \in OnTheWay => /\ advertising = {} /\ UnreadFrom = completionWrite
                          /\ busy \/ rpc = "started"
  BY <1>0, <1>1, <1>3 DEF Steps
<1>5. CASE Filter \/ Enter \/ LoadCallback \/ LoadContext \/ Leave
  <2>1. /\ UNCHANGED <<completions, completionWrite, overflows>> /\ hpc' # "publish"
        /\ hpc \in OnTheWay <=> hpc' \in OnTheWay
    BY <1>1, <1>5 DEF Filter, Enter, LoadCallback, LoadContext, Leave, HostStep, ActiveInstance
  <2>. QED
    BY <1>1, <1>2, <1>3, <2>1
<1>6. CASE Enqueue
  <2>1. ~RingFull
    <3>1. UnreadFrom = completionWrite /\ (rpc = "drain" => drainRead = completionRead)
      BY <1>1, <1>4, <1>6 DEF Enqueue, HostStep
    <3>2. completionRead = completionWrite
      BY <3>1 DEF UnreadFrom
    <3>3. NextSlot(completionWrite) # completionWrite
      BY <1>0, NextSlotIs
    <3>. QED
      BY <3>2, <3>3 DEF RingFull
  <2>2. /\ UNCHANGED <<completions, completionWrite, overflows>> /\ hpc = "enqueue" /\ hpc' = "write"
    BY <1>6, <2>1 DEF Enqueue, HostStep
  <2>. QED
    BY <1>1, <1>2, <1>3, <2>2
<1>7. CASE WriteSlot
  <2>1. /\ UNCHANGED <<completionWrite, overflows>> /\ hpc = "write" /\ hpc' = "publish"
        /\ completions' = [completions EXCEPT ![completionWrite] = event]
    BY <1>7 DEF WriteSlot, HostStep
  <2>2. completions'[completionWrite] = event /\ UnreadFrom = completionWrite
    BY <1>0, <1>4, <2>1
  <2>. QED
    BY <1>1, <1>2, <1>3, <2>1, <2>2
<1>8. CASE Publish
  <2>1. /\ UNCHANGED <<completions, overflows>> /\ hpc = "publish" /\ hpc' = "leave"
        /\ completionWrite' = NextSlot(completionWrite)
    BY <1>8 DEF Publish, HostStep
  <2>2. completionWrite' = IF completionWrite = RingSize - 1 THEN 0 ELSE completionWrite + 1
    BY <1>0, <2>1, NextSlotIs
  <2>3. Steps(completionWrite, completionWrite) = 0 /\ Steps(completionWrite, completionWrite') = 1
    BY <1>0, <2>2 DEF Steps
  <2>4. UnreadFrom = completionWrite /\ completions[completionWrite] = event
    BY <1>1, <1>4, <2>1
  <2>. QED
    BY <1>1, <1>2, <1>3, <1>4, <2>1, <2>3, <2>4
<1>. QED
  BY <1>5, <1>6, <1>7, <1>8 DEF GapEvent

(* A step of poll keeps it: the drain takes the completion if there is one, and a new     *)
(* advertisement starts only when nothing is on the way.                                   *)
LEMMA WayPollStep ==
    ASSUME BaseInv, TypeOK', WayInv, strays = 0, ~shuttingDown, Poll
    PROVE  /\ OneCompletion' /\ OfActiveMode' /\ overflows' = 0
           /\ (rpc = "drain" /\ drainRead # completionRead => ~busy)'
<1>0. /\ completionWrite \in 0 .. RingSize - 1 /\ completionRead \in 0 .. RingSize - 1
      /\ drainRead \in 0 .. RingSize - 1 /\ drainWrite \in 0 .. RingSize - 1
      /\ drainRead' \in 0 .. RingSize - 1
      /\ busy \in BOOLEAN /\ rpc \in RuntimePCs /\ selected \in Payload
  BY DEF BaseInv, TypeGateInv, TypeOK
<1>1. /\ OneCompletion /\ OfActiveMode /\ overflows = 0
      /\ rpc = "drain" /\ drainRead # completionRead => ~busy
      /\ rpc \in {"select", "configure", "start", "started"} => ~busy
      /\ rpc = "drain" => InOrder
  BY DEF WayInv, BaseInv, AccountInv, RingInv
<1>2. UNCHANGED <<hpc, event, completions, completionWrite>>
  BY DEF Poll, PollBegin, DrainEvent, DrainPublish, DrainOverflow, PollSelect, PollConfigure,
     PollStart, PollStarted, RuntimeFrame, hostVars
<1>. USE DEF OneCompletion, OfActiveMode, OnTheWay, CallbackBody, UnreadFrom
(* While poll has a payload in its hands, nothing is on the way. *)
<1>3. rpc \in {"select", "configure", "start"} =>
          /\ advertising = {} /\ hpc \notin OnTheWay /\ UnreadFrom = completionWrite
  BY <1>0, <1>1 DEF Steps
<1>4. CASE PollBegin
  <2>1. /\ UNCHANGED <<completionRead, busy, activeMode, activeTransport, selected, advertising,
                       overflows>>
        /\ rpc = "idle" /\ rpc' = "drain" /\ drainRead' = completionRead
    BY <1>4 DEF PollBegin, transportVars, backendVars
  <2>. QED
    BY <1>1, <1>2, <2>1
<1>5. CASE DrainEvent
  <2>1. /\ UNCHANGED <<completionRead, activeMode, activeTransport, selected, advertising,
                       overflows, rpc>>
        /\ rpc = "drain" /\ drainRead # drainWrite /\ drainRead' = NextSlot(drainRead)
    BY <1>5 DEF DrainEvent, backendVars
  <2>2. busy' = FALSE
    BY <1>1, <1>5 DEF DrainEvent, TakeCompletion, EndAdvertisement
  <2>3. Steps(drainRead, completionWrite) = 1 /\ busy /\ advertising = {} /\ hpc \notin OnTheWay
    <3>1. Steps(drainRead, completionWrite) \in Nat /\ Steps(drainRead, completionWrite) >= 1
      BY <1>0, <1>1, <2>1 DEF InOrder, Steps
    <3>. QED
      BY <1>0, <1>1, <2>1, <3>1
  <2>4. drainRead' = completionWrite /\ Steps(drainRead', completionWrite) = 0
    <3>1. drainRead' = IF drainRead = RingSize - 1 THEN 0 ELSE drainRead + 1
      BY <1>0, <2>1, NextSlotIs
    <3>. QED
      BY <1>0, <2>3, <3>1 DEF Steps
  <2>. QED
    BY <1>1, <1>2, <2>1, <2>2, <2>3, <2>4
<1>6. CASE DrainPublish
  <2>1. /\ UNCHANGED <<busy, activeMode, activeTransport, selected, advertising, overflows>>
        /\ rpc = "drain" /\ rpc' = "overflow" /\ completionRead' = drainRead
    BY <1>6 DEF DrainPublish, transportVars, backendVars
  <2>. QED
    BY <1>1, <1>2, <2>1
<1>7. CASE DrainOverflow
  <2>1. /\ UNCHANGED <<completionRead, busy, activeMode, activeTransport, selected, advertising>>
        /\ rpc = "overflow" /\ rpc' \in {"idle", "select"} /\ overflows' = 0
    BY <1>1, <1>7 DEF DrainOverflow, backendVars
  <2>. QED
    BY <1>1, <1>2, <2>1
<1>8. CASE PollSelect
  <2>1. /\ UNCHANGED <<completionRead, busy, activeMode, activeTransport, advertising, overflows>>
        /\ rpc = "select" /\ rpc' \in {"idle", "select", "configure"}
    BY <1>8 DEF PollSelect, backendVars
  <2>. QED
    BY <1>1, <1>2, <2>1
<1>9. CASE PollConfigure
  <2>1. /\ UNCHANGED <<completionRead, busy, activeTransport, selected, advertising, overflows>>
        /\ rpc = "configure" /\ rpc' \in {"idle", "start"}
        /\ rpc' = "start" => activeMode' = selected.transport
    BY <1>9 DEF PollConfigure, PollFails
  <2>. QED
    BY <1>1, <1>2, <1>3, <2>1
<1>10. CASE PollStart
  <2>1. /\ UNCHANGED <<completionRead, busy, activeMode, activeTransport, selected, overflows>>
        /\ rpc = "start"
        /\ \/ rpc' = "started" /\ advertising' = advertising \union {activeMode}
           \/ rpc' = "idle" /\ advertising' = advertising
    BY <1>10 DEF PollStart, PollFails, backendVars
  <2>2. rpc' = "started" => advertising' = {activeMode} /\ advertising' # {}
    BY <1>3, <2>1
  <2>3. Steps(UnreadFrom, completionWrite) = 0 /\ UnreadFrom = completionWrite /\ UnreadFrom' = UnreadFrom
    BY <1>0, <1>3, <2>1 DEF Steps
  <2>. QED
    BY <1>1, <1>2, <1>3, <2>1, <2>2, <2>3
<1>11. CASE PollStarted
  <2>1. /\ UNCHANGED <<completionRead, activeMode, selected, advertising, overflows>>
        /\ rpc = "started" /\ rpc' = "idle" /\ busy' = TRUE
        /\ activeTransport' = selected.transport
    BY <1>11 DEF PollStarted, NoteActive, backendVars
  <2>. QED
    BY <1>1, <1>2, <2>1
<1>. QED
  BY <1>4, <1>5, <1>6, <1>7, <1>8, <1>9, <1>10, <1>11 DEF Poll

(* Every step keeps it. *)
LEMMA WayStep == BaseInv /\ TypeOK' /\ WayInv /\ [Next]_vars => WayInv'
<1> SUFFICES ASSUME BaseInv, TypeOK', WayInv, [Next]_vars PROVE WayInv'
  OBVIOUS
<1>0. /\ GateInv /\ strays \in Nat /\ advertising \subseteq Transports /\ hpc \in HostPCs
      /\ ~shuttingDown => context
      /\ rpc = "unbind" => shuttingDown
  BY DEF BaseInv, TypeGateInv, GateInv, TypeOK, WayInv
<1>. DEFINE Quiet == strays = 0 /\ ~shuttingDown
            Goal == /\ OneCompletion' /\ OfActiveMode' /\ overflows' = 0
                    /\ (rpc = "drain" /\ drainRead # completionRead => ~busy)'
<1>1. Quiet => /\ OneCompletion /\ OfActiveMode /\ overflows = 0
               /\ rpc = "drain" /\ drainRead # completionRead => ~busy
  BY DEF WayInv
<1>2. ASSUME UNCHANGED <<context, shuttingDown, strays>>, Quiet => Goal
      PROVE  WayInv'
  BY <1>0, <1>2 DEF WayInv
(* Once shutdown has begun or the stack has made something up, nothing is claimed. *)
<1>3. ASSUME shuttingDown' \/ strays' # 0, shuttingDown' \/ UNCHANGED <<context, shuttingDown>>
      PROVE  WayInv'
  BY <1>0, <1>3 DEF WayInv
<1>4. ASSUME UNCHANGED <<context, shuttingDown, strays, rpc, hpc, event, completions,
                         completionWrite, completionRead, drainRead, busy, activeMode,
                         activeTransport, selected, advertising, overflows>>
      PROVE  WayInv'
  BY <1>1, <1>2, <1>4 DEF OneCompletion, OfActiveMode, UnreadFrom
<1>5. ASSUME NEW t \in Transports, NEW lag, NEW life, Submit(t, lag, life)
      PROVE  WayInv'
  BY <1>4, <1>5 DEF Submit, ringVars, gateVars, backendVars, runtimeVars, hostVars
<1>6. CASE Poll
  <2>1. UNCHANGED <<context, shuttingDown, strays>>
    BY <1>6 DEF Poll, PollBegin, DrainEvent, DrainPublish, DrainOverflow, PollSelect,
       PollConfigure, PollStart, PollStarted, RuntimeFrame, transportVars, inputVars
  <2>2. Quiet => Goal
    BY <1>6, WayPollStep
  <2>. QED
    BY <1>2, <2>1, <2>2
<1>7. CASE ShutdownCall
  <2>1. shuttingDown'
    BY <1>0, <1>7 DEF ShutdownCall, Shutdown, Unbind, Reset, GateInv, transportVars
  <2>. QED
    BY <1>3, <2>1
<1>8. CASE GapEvent
  <2>1. UNCHANGED <<context, shuttingDown, strays, rpc, completionRead, drainRead, busy>>
    BY <1>8 DEF GapEvent, Filter, Enter, LoadCallback, LoadContext, Enqueue, WriteSlot, Publish,
       Leave, HostStep, HostFrame, transportVars, runtimeVars
  <2>2. Quiet => Goal
    BY <1>1, <1>8, <2>1, WayHostStep
  <2>. QED
    BY <1>2, <2>1, <2>2
<1>9. ASSUME NEW t \in Transports, NEW ok \in BOOLEAN, AdvComplete(t, ok)
      PROVE  WayInv'
  <2>1. /\ UNCHANGED <<context, shuttingDown, strays, rpc, completions, completionWrite,
                       completionRead, drainRead, busy, activeMode, activeTransport, selected,
                       overflows>>
        /\ hpc = "idle" /\ hpc' = "filter" /\ event'.instance = t
        /\ t \in advertising /\ advertising' = advertising \ {t}
    BY <1>9 DEF AdvComplete, GapEventCalled, HostFrame, transportVars, backendVars, runtimeVars
  <2>2. Quiet => advertising = {t} /\ t = activeMode /\ advertising' = {}
    BY <1>1, <2>1 DEF OfActiveMode
  <2>3. UnreadFrom' = UnreadFrom
    BY <2>1 DEF UnreadFrom
  <2>4. Quiet => OneCompletion'
    BY <1>1, <2>1, <2>2, <2>3 DEF OneCompletion, OnTheWay, CallbackBody
  <2>5. Quiet => OfActiveMode'
    BY <1>1, <2>1, <2>2, <2>3 DEF OfActiveMode
  <2>. QED
    BY <1>1, <1>2, <2>1, <2>4, <2>5
<1>10. ASSUME NEW t \in Transports, NEW ok \in BOOLEAN, StrayEvent(t, ok)
       PROVE  WayInv'
  <2>1. UNCHANGED <<context, shuttingDown>> /\ strays' = strays + 1
    BY <1>10 DEF StrayEvent, GapEventCalled, HostFrame, transportVars
  <2>. QED
    BY <1>0, <1>3, <2>1
<1>11. CASE Tick \/ UNCHANGED vars
  BY <1>4, <1>11 DEF Tick, vars, transportVars, ringVars, gateVars, backendVars, runtimeVars,
     hostVars, inputVars
<1>. QED
  BY <1>5, <1>6, <1>7, <1>8, <1>9, <1>10, <1>11 DEF Next, Complete

(* It holds in every reachable state. *)
LEMMA Way == Spec => [](BaseInv /\ WayInv)
<1>1. Init /\ BaseInv => BaseInv /\ WayInv
  BY WayInit
<1>2. BaseInv /\ BaseInv' /\ WayInv /\ [Next]_vars => WayInv'
  BY WayStep DEF BaseInv, TypeGateInv
<1>. QED
  BY <1>1, <1>2, Base, PTL DEF Spec

(* The completion of the advertisement on the air is in exactly one place while the        *)
(* transport waits for it, and in none when it does not: for any ring of two slots or more. *)
THEOREM CompletionIsSomewhere == Spec => []CompletionAccounted
<1>1. BaseInv /\ WayInv => CompletionAccounted
  <2> SUFFICES ASSUME BaseInv, WayInv, strays = 0, ~shuttingDown
               PROVE  CompletionAccounted
    BY DEF CompletionAccounted
  <2>1. OneCompletion /\ advertising \subseteq {activeMode}
    BY DEF WayInv, OfActiveMode
  <2>2. Cardinality(advertising) = IF advertising = {} THEN 0 ELSE 1
    <3>1. advertising = {} \/ advertising = {activeMode}
      BY <2>1
    <3>. QED
      BY <3>1, FS_EmptySet, FS_Singleton
  <2>3. Unread = Steps(UnreadFrom, completionWrite)
    <3>1. completionWrite \in 0 .. RingSize - 1 /\ UnreadFrom \in 0 .. RingSize - 1
      BY DEF BaseInv, TypeGateInv, TypeOK, UnreadFrom
    <3>. QED
      BY <3>1, SlotsBetween DEF Unread
  <2>. QED
    BY <2>1, <2>2, <2>3 DEF CompletionAccounted, OneCompletion, OnTheWay
<1>. QED
  BY <1>1, Way, PTL

(* The completion the drain takes is of the advertisement it is credited to. *)
THEOREM CompletionIsAttributed == Spec => []CompletionAttributed
<1>1. BaseInv /\ WayInv => CompletionAttributed
  <2> SUFFICES ASSUME BaseInv, WayInv, strays = 0, rpc = "drain", drainRead # drainWrite, busy
               PROVE  completions[drainRead].instance = activeTransport
    BY DEF CompletionAttributed
  <2>1. ~shuttingDown
    BY DEF BaseInv, TypeGateInv, GateInv, RuntimePCs
  <2>2. OfActiveMode /\ UnreadFrom = drainRead
    BY <2>1 DEF WayInv, UnreadFrom
  <2>3. drainRead # completionWrite
    <3>1. /\ completionWrite \in 0 .. RingSize - 1 /\ completionRead \in 0 .. RingSize - 1
          /\ drainRead \in 0 .. RingSize - 1 /\ drainWrite \in 0 .. RingSize - 1
      BY DEF BaseInv, TypeGateInv, TypeOK
    <3>. QED
      BY <3>1 DEF BaseInv, RingInv, InOrder, Steps
  <2>. QED
    BY <2>2, <2>3 DEF OfActiveMode
<1>. QED
  BY <1>1, Way, PTL
=============================================================================
