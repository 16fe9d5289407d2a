----------------------- MODULE RadioCoordinatorProofs -----------------------
(***************************************************************************)
(* Proofs about RadioCoordinator, for every capacity, dwell and retry time *)
(* and every workload.                                                     *)
(***************************************************************************)
EXTENDS RadioCoordinator, FiniteSetTheorems, TLAPS

USE ConstantsAssumption

(* Count adds one to the named counters of one band and changes nothing else. *)
LEMMA CountEffect ==
    ASSUME stats \in [Bands -> [Counters -> Nat]],
           NEW b \in Bands, NEW cs, Count(b, cs)
    PROVE  /\ stats' \in [Bands -> [Counters -> Nat]]
           /\ \A u \in Bands, c \in Counters :
                 stats'[u][c] = IF u = b /\ c \in cs THEN stats[u][c] + 1 ELSE stats[u][c]
BY DEF Count

(* The other of two bands is a band. *)
LEMMA OtherType == \A b \in Bands : Other(b) \in Bands
BY DEF Other, Bands

(* One step of the queue of band b: a payload that was not in it enters, or one that was *)
(* leaves; the other queue keeps its own.                                                  *)
LEMMA QueueAdd ==
    ASSUME TypeOK, NEW b \in Bands, NEW p \in Payload, p \notin queue[b],
           queue' = [queue EXCEPT ![b] = @ \union {p}]
    PROVE  /\ queue' \in [Bands -> SUBSET Payload]
           /\ \A u \in Bands : /\ IsFiniteSet(queue'[u])
                               /\ Cardinality(queue'[u]) =
                                    IF u = b THEN Cardinality(queue[u]) + 1 ELSE Cardinality(queue[u])
<1>1. queue \in [Bands -> SUBSET Payload] /\ IsFiniteSet(queue[b])
  BY DEF TypeOK
<1>2. /\ IsFiniteSet(queue[b] \union {p})
      /\ Cardinality(queue[b] \union {p}) = Cardinality(queue[b]) + 1
  BY <1>1, FS_AddElement
<1>. QED
  BY <1>1, <1>2 DEF TypeOK

(* erase: the queue of band b loses one payload. *)
LEMMA QueueRemove ==
    ASSUME TypeOK, NEW b \in Bands, NEW p \in queue[b],
           queue' = [queue EXCEPT ![b] = @ \ {p}]
    PROVE  /\ queue' \in [Bands -> SUBSET Payload]
           /\ \A u \in Bands : /\ IsFiniteSet(queue'[u])
                               /\ Cardinality(queue'[u]) =
                                    IF u = b THEN Cardinality(queue[u]) - 1 ELSE Cardinality(queue[u])
<1>1. queue \in [Bands -> SUBSET Payload] /\ IsFiniteSet(queue[b])
  BY DEF TypeOK
<1>2. /\ IsFiniteSet(queue[b] \ {p})
      /\ Cardinality(queue[b] \ {p}) = Cardinality(queue[b]) - 1
  BY <1>1, FS_RemoveElement
<1>. QED
  BY <1>1, <1>2 DEF TypeOK

(* The size of a queue is a natural number. *)
LEMMA QueueSizeType == TypeOK => \A b \in Bands : Cardinality(queue[b]) \in Nat
BY FS_CardinalityType DEF TypeOK

-----------------------------------------------------------------------------
(* The radio is where the code believes it is, and every queued number is used up. *)
RadioInv ==
    /\ hwChannel = currentChannel
    /\ currentChannel # NoChannel => currentChannel = Channel(activeBand)
    /\ \A b \in Bands : \A p \in queue[b] : p.sequence < nextSequence

IInv == TypeOK /\ RadioInv /\ Conservation

(* What poll can do to queue and counters of one band. *)
Accounts(b) ==
    \/ UNCHANGED queue /\ \E cs \in SUBSET {"radio_errors"} : Count(b, cs)
    \/ \E p \in queue[b] :
          /\ queue' = [queue EXCEPT ![b] = @ \ {p}]
          /\ \/ Count(b, {"dropped"})
             \/ Count(b, {"submitted"})
             \/ Count(b, {"submitted", "late"})

(* Such a step keeps the types and the balance. *)
LEMMA AccountsKept ==
    ASSUME TypeOK, Conservation, NEW b \in Bands, Accounts(b)
    PROVE  /\ queue' \in [Bands -> SUBSET Payload]
           /\ \A u \in Bands : IsFiniteSet(queue'[u]) /\ Cardinality(queue'[u]) <= QueueCapacity
           /\ stats' \in [Bands -> [Counters -> Nat]]
           /\ Conservation'
           /\ \A u \in Bands : queue'[u] \subseteq queue[u]
<1>1. stats \in [Bands -> [Counters -> Nat]] /\ queue \in [Bands -> SUBSET Payload]
      /\ \A u \in Bands : /\ IsFiniteSet(queue[u])
                          /\ Cardinality(queue[u]) <= QueueCapacity
  BY DEF TypeOK
<1>2. \A u \in Bands : Cardinality(queue[u]) \in Nat
  BY QueueSizeType
<1>3. CASE UNCHANGED queue /\ \E cs \in SUBSET {"radio_errors"} : Count(b, cs)
  <2>1. PICK cs \in SUBSET {"radio_errors"} : Count(b, cs)
    BY <1>3
  <2>2. /\ stats' \in [Bands -> [Counters -> Nat]]
        /\ \A u \in Bands, c \in Counters :
              stats'[u][c] = IF u = b /\ c \in cs THEN stats[u][c] + 1 ELSE stats[u][c]
    BY <1>1, <2>1, CountEffect
  <2>3. \A u \in Bands, c \in {"expected", "submitted", "dropped"} : stats'[u][c] = stats[u][c]
    BY <2>1, <2>2 DEF Counters
  <2>. QED
    BY <1>1, <1>3, <2>2, <2>3 DEF Conservation
<1>4. ASSUME NEW p \in queue[b], queue' = [queue EXCEPT ![b] = @ \ {p}],
             NEW cs, Count(b, cs), cs \in {{"dropped"}, {"submitted"}, {"submitted", "late"}}
      PROVE  /\ stats' \in [Bands -> [Counters -> Nat]]
             /\ Conservation'
  <2>1. /\ stats' \in [Bands -> [Counters -> Nat]]
        /\ \A u \in Bands, c \in Counters :
              stats'[u][c] = IF u = b /\ c \in cs THEN stats[u][c] + 1 ELSE stats[u][c]
    BY <1>1, <1>4, CountEffect
  <2>2. \A u \in Bands : Cardinality(queue'[u]) =
            IF u = b THEN Cardinality(queue[u]) - 1 ELSE Cardinality(queue[u])
    BY <1>4, QueueRemove
  <2>3. /\ stats'[b]["expected"] = stats[b]["expected"]
        /\ stats'[b]["submitted"] + stats'[b]["dropped"] =
               stats[b]["submitted"] + stats[b]["dropped"] + 1
    <3>1. "expected" \notin cs /\ (("submitted" \in cs) <=> ("dropped" \notin cs))
      BY <1>4
    <3>2. \A c \in Counters : stats[b][c] \in Nat
      BY <1>1
    <3>. QED
      BY <2>1, <3>1, <3>2 DEF Counters
  <2>4. \A u \in Bands \ {b}, c \in Counters : stats'[u][c] = stats[u][c]
    BY <2>1
  <2>. QED
    BY <1>1, <1>2, <2>1, <2>2, <2>3, <2>4 DEF Conservation, Counters
<1>5. CASE \E p \in queue[b] :
             /\ queue' = [queue EXCEPT ![b] = @ \ {p}]
             /\ Count(b, {"dropped"}) \/ Count(b, {"submitted"}) \/ Count(b, {"submitted", "late"})
  <2>1. PICK p \in queue[b] :
             /\ queue' = [queue EXCEPT ![b] = @ \ {p}]
             /\ Count(b, {"dropped"}) \/ Count(b, {"submitted"}) \/ Count(b, {"submitted", "late"})
    BY <1>5
  <2>2. PICK cs \in {{"dropped"}, {"submitted"}, {"submitted", "late"}} : Count(b, cs)
    BY <2>1
  <2>2a. stats' \in [Bands -> [Counters -> Nat]] /\ Conservation'
    BY <1>4, <2>1, <2>2
  <2>3. \A u \in Bands : IsFiniteSet(queue'[u]) /\ Cardinality(queue'[u]) <= QueueCapacity
    <3>1. \A u \in Bands : /\ IsFiniteSet(queue'[u])
                           /\ Cardinality(queue'[u]) =
                                IF u = b THEN Cardinality(queue[u]) - 1 ELSE Cardinality(queue[u])
      BY <1>1, <2>1, QueueRemove
    <3>2. TAKE u \in Bands
    <3>3. Cardinality(queue[u]) \in Nat /\ Cardinality(queue[u]) <= QueueCapacity
      BY <1>1, <1>2 DEF TypeOK
    <3>. QED
      BY <3>1, <3>3, ConstantsAssumption DEF ConstantsAssumption
  <2>. QED
    BY <1>1, <2>1, <2>2a, <2>3
<1>. QED
  BY <1>3, <1>5 DEF Accounts

-----------------------------------------------------------------------------
(* The inductive invariant holds at first. *)
LEMMA InvInit == Init => IInv
<1> SUFFICES ASSUME Init PROVE IInv
  OBVIOUS
<1>1. \A b \in Bands : queue[b] = {} /\ IsFiniteSet(queue[b]) /\ Cardinality(queue[b]) = 0
  BY FS_EmptySet DEF Init
<1>2. TypeOK
  <2>1. queue \in [Bands -> SUBSET Payload]
    BY DEF Init
  <2>2. \A b \in Bands : IsFiniteSet(queue[b]) /\ Cardinality(queue[b]) <= QueueCapacity
    BY <1>1
  <2>3. stats \in [Bands -> [Counters -> Nat]] /\ submitErrors \in [Bands -> Nat]
    BY DEF Init
  <2>. QED
    BY <2>1, <2>2, <2>3 DEF Init, TypeOK, Bands, NoChannel
<1>3. Conservation
  BY <1>1 DEF Init, Conservation, Counters
<1>. QED
  BY <1>1, <1>2, <1>3 DEF Init, IInv, RadioInv, NoChannel

(* submit. *)
LEMMA SubmitStep ==
    ASSUME IInv, NEW b \in Bands, NEW lag \in 0 .. MaxLag, NEW life \in Lifetimes,
           Submit(b, lag, life)
    PROVE  IInv'
<1>. DEFINE p == [sequence |-> nextSequence, deadline |-> now - lag,
                  expires |-> IF life = 0 THEN 0 ELSE now + life]
<1>1. /\ TypeOK /\ RadioInv /\ Conservation /\ now \in Nat /\ nextSequence \in Nat
      /\ stats \in [Bands -> [Counters -> Nat]] /\ queue \in [Bands -> SUBSET Payload]
      /\ submitErrors \in [Bands -> Nat]
      /\ \A u \in Bands : IsFiniteSet(queue[u]) /\ Cardinality(queue[u]) <= QueueCapacity
  BY DEF IInv, TypeOK
<1>2. /\ nextSequence' = nextSequence + 1 /\ lag <= now
      /\ UNCHANGED <<activeBand, currentChannel, dwellStarted, retryAt, hwChannel, configured,
                     pollAgain, now>>
  BY DEF Submit, radioVars
<1>3. \A u \in Bands : \A q \in queue[u] : q.sequence \in Nat
  BY <1>1 DEF Payload
<1>4. CASE HasRoom(b) /\ queue' = [queue EXCEPT ![b] = @ \union {p}] /\ Count(b, {"expected"})
           /\ UNCHANGED submitErrors
  <2>1. p \in Payload /\ p \notin queue[b]
    BY <1>1, <1>2 DEF Payload, RadioInv
  <2>2. /\ queue' \in [Bands -> SUBSET Payload]
        /\ \A u \in Bands : /\ IsFiniteSet(queue'[u])
                            /\ Cardinality(queue'[u]) =
                                 IF u = b THEN Cardinality(queue[u]) + 1 ELSE Cardinality(queue[u])
    <3>. HIDE DEF p
    <3>. QED
      BY <1>1, <1>4, <2>1, QueueAdd
  <2>3. /\ stats' \in [Bands -> [Counters -> Nat]]
        /\ \A u \in Bands, c \in Counters : stats'[u][c] =
              IF u = b /\ c = "expected" THEN stats[u][c] + 1 ELSE stats[u][c]
    BY <1>1, <1>4, CountEffect
  <2>4. \A u \in Bands : Cardinality(queue[u]) \in Nat
    BY <1>1, QueueSizeType
  <2>5. \A u \in Bands : Cardinality(queue'[u]) <= QueueCapacity
    <3>1. Cardinality(queue[b]) + 1 <= QueueCapacity
      BY <1>4, <2>4 DEF HasRoom
    <3>2. TAKE u \in Bands
    <3>3. CASE u = b
      BY <2>2, <3>1, <3>3
    <3>4. CASE u # b
      BY <1>1, <2>2, <3>4
    <3>. QED
      BY <3>3, <3>4
  <2>6. TypeOK'
    <3>1. nextSequence' \in Nat /\ submitErrors' \in [Bands -> Nat]
      BY <1>1, <1>2, <1>4
    <3>2. \A u \in Bands : IsFiniteSet(queue'[u]) /\ Cardinality(queue'[u]) <= QueueCapacity
      BY <2>2, <2>5
    <3>. QED
      BY <1>1, <1>2, <2>2, <2>3, <3>1, <3>2 DEF TypeOK
  <2>7. Conservation'
    BY <1>1, <2>2, <2>3, <2>4 DEF Conservation, Counters
  <2>8. \A u \in Bands : \A q \in queue'[u] : q.sequence < nextSequence'
    BY <1>1, <1>2, <1>3, <1>4 DEF RadioInv
  <2>. QED
    BY <1>1, <1>2, <2>6, <2>7, <2>8 DEF IInv, RadioInv
<1>5. CASE submitErrors' = [submitErrors EXCEPT ![b] = @ + 1] /\ UNCHANGED <<queue, stats>>
  <2>1. submitErrors' \in [Bands -> Nat]
    BY <1>1, <1>5
  <2>2. TypeOK'
    BY <1>1, <1>2, <1>5, <2>1 DEF TypeOK
  <2>3. Conservation'
    BY <1>1, <1>5 DEF Conservation
  <2>. QED
    BY <1>1, <1>2, <1>3, <1>5, <2>2, <2>3 DEF IInv, RadioInv
<1>. QED
  BY <1>4, <1>5 DEF Submit

(* Serving a band moves one payload at most, and tunes the driver when it tunes at all. *)
LEMMA ServeStep ==
    ASSUME IInv, NEW b \in Bands, PollServes(b)
    PROVE  Accounts(b) /\ IInv'
<1>1. /\ TypeOK /\ RadioInv /\ Conservation /\ now \in Nat
      /\ stats \in [Bands -> [Counters -> Nat]]
  BY DEF IInv, TypeOK
<1>2. Accounts(b)
  <2>1. PICK p \in queue[b] :
          /\ IsEarliest(p, b)
          /\ \/ Discard(p, b) \/ Transmit(p, b) \/ TransmitFails(b)
    BY DEF PollServes
  <2>2. CASE Discard(p, b)
    BY <2>2 DEF Discard, Accounts
  <2>3. CASE Transmit(p, b)
    <3>1. ({"submitted"} \union {"late"}) = {"submitted", "late"}
          /\ ({"submitted"} \union {}) = {"submitted"}
      OBVIOUS
    <3>2. CASE now > p.deadline
      BY <2>3, <3>1, <3>2 DEF Transmit, Accounts
    <3>3. CASE ~(now > p.deadline)
      BY <2>3, <3>1, <3>3 DEF Transmit, Accounts
    <3>. QED
      BY <3>2, <3>3
  <2>4. CASE TransmitFails(b)
    BY <2>4 DEF TransmitFails, Accounts
  <2>. QED
    BY <2>1, <2>2, <2>3, <2>4
<1>3. /\ queue' \in [Bands -> SUBSET Payload]
      /\ \A u \in Bands : IsFiniteSet(queue'[u]) /\ Cardinality(queue'[u]) <= QueueCapacity
      /\ stats' \in [Bands -> [Counters -> Nat]]
      /\ Conservation'
      /\ \A u \in Bands : queue'[u] \subseteq queue[u]
  BY <1>1, <1>2, AccountsKept
<1>4. configured' = TRUE /\ pollAgain' \in BOOLEAN
      /\ UNCHANGED <<nextSequence, submitErrors, now>>
  BY DEF PollServes, callerVars, TypeOK, IInv
<1>5. \A u \in Bands : \A p \in queue'[u] : p.sequence < nextSequence'
  BY <1>1, <1>3, <1>4 DEF RadioInv
<1>5a. Conservation'
  BY <1>3
<1>6. CASE UNCHANGED radioVars
  <2>1. TypeOK'
    BY <1>1, <1>3, <1>4, <1>6 DEF TypeOK, radioVars
  <2>2. RadioInv'
    BY <1>1, <1>5, <1>6 DEF RadioInv, radioVars
  <2>. QED
    BY <1>2, <1>5a, <2>1, <2>2 DEF IInv
<1>7. CASE Tune(b)
  <2>1. TypeOK'
    BY <1>1, <1>3, <1>4, <1>7 DEF TypeOK, Tune, Channel
  <2>2. RadioInv'
    BY <1>1, <1>5, <1>7 DEF RadioInv, Tune
  <2>. QED
    BY <1>2, <1>5a, <2>1, <2>2 DEF IInv
<1>. QED
  BY <1>2, <1>6, <1>7 DEF PollServes

(* Every step keeps the inductive invariant. *)
LEMMA InvStep == IInv /\ [Next]_vars => IInv'
<1> SUFFICES ASSUME IInv, [Next]_vars PROVE IInv'
  OBVIOUS
<1>1. /\ TypeOK /\ RadioInv /\ Conservation /\ now \in Nat
      /\ stats \in [Bands -> [Counters -> Nat]] /\ pollAgain \in BOOLEAN
  BY DEF IInv, TypeOK
<1>2. ASSUME NEW b \in Bands, NEW lag \in 0 .. MaxLag, NEW life \in Lifetimes,
             Submit(b, lag, life)
      PROVE  IInv'
  BY <1>2, SubmitStep
<1>3. CASE PollNotConfigured \/ PollBacksOff
  <2>1. UNCHANGED <<queue, stats, activeBand, currentChannel, dwellStarted, retryAt, hwChannel,
                    nextSequence, submitErrors, now>>
        /\ configured' \in BOOLEAN /\ pollAgain' \in BOOLEAN
    BY <1>1, <1>3 DEF PollNotConfigured, PollBacksOff, radioVars, callerVars, TypeOK
  <2>. QED
    BY <1>1, <2>1 DEF IInv, TypeOK, RadioInv, Conservation
<1>4. CASE PollChannelFails
  <2>1. Target \in Bands
    BY <1>1, OtherType DEF Target, TypeOK
  <2>2. Accounts(Target)
    BY <1>4 DEF PollChannelFails, Accounts
  <2>3. /\ queue' \in [Bands -> SUBSET Payload]
        /\ \A u \in Bands : IsFiniteSet(queue'[u]) /\ Cardinality(queue'[u]) <= QueueCapacity
        /\ stats' \in [Bands -> [Counters -> Nat]]
        /\ Conservation'
    <3>. HIDE DEF Target
    <3>. QED
      BY <1>1, <2>1, <2>2, AccountsKept
  <2>4. /\ retryAt' \in Nat /\ configured' = TRUE /\ pollAgain' = FALSE
        /\ UNCHANGED <<queue, activeBand, currentChannel, dwellStarted, hwChannel, nextSequence,
                       submitErrors, now>>
    BY <1>1, <1>4 DEF PollChannelFails, callerVars
  <2>5. TypeOK'
    BY <1>1, <2>3, <2>4 DEF TypeOK
  <2>6. RadioInv'
    BY <1>1, <2>4 DEF RadioInv
  <2>. QED
    BY <2>3, <2>5, <2>6 DEF IInv
<1>5. ASSUME NEW b \in Bands, PollServes(b)
      PROVE  IInv'
  BY <1>5, ServeStep
<1>6. CASE Tick \/ UNCHANGED vars
  <2>1. UNCHANGED <<queue, stats, activeBand, currentChannel, dwellStarted, retryAt, hwChannel,
                    nextSequence, submitErrors, configured>>
        /\ now' \in Nat /\ pollAgain' \in BOOLEAN
    <3>1. CASE Tick
      BY <1>1, <3>1 DEF Tick, radioVars, callerVars
    <3>2. CASE UNCHANGED vars
      BY <1>1, <3>2 DEF vars, radioVars, callerVars
    <3>. QED
      BY <1>6, <3>1, <3>2
  <2>. QED
    BY <1>1, <2>1 DEF IInv, TypeOK, RadioInv, Conservation
<1>. QED
  BY <1>2, <1>3, <1>4, <1>5, <1>6 DEF Next, Poll

(* So it holds in every reachable state. *)
LEMMA Invariance == Spec => []IInv
BY InvInit, InvStep, PTL DEF Spec

(* Every reachable state is well typed, and no queue outgrows its array. *)
THEOREM TypeCorrect == Spec => []TypeOK
<1>1. IInv => TypeOK
  BY DEF IInv
<1>. QED
  BY <1>1, Invariance, PTL

(* No accepted frame is lost or sent twice, whatever fails. *)
THEOREM AccountsBalance == Spec => []Conservation
<1>1. IInv => Conservation
  BY DEF IInv
<1>. QED
  BY <1>1, Invariance, PTL

(* Only poll sends, and only from the band it serves. *)
LEMMA SendingServes ==
    ASSUME IInv, Next, NEW u \in Bands, stats'[u]["submitted"] # stats[u]["submitted"]
    PROVE  PollServes(u)
<1>1. stats \in [Bands -> [Counters -> Nat]] /\ "submitted" \in Counters /\ activeBand \in Bands
  BY DEF IInv, TypeOK, Counters
<1>2. ASSUME NEW b \in Bands, NEW cs, Count(b, cs)
      PROVE  u = b /\ "submitted" \in cs
  BY <1>1, <1>2, CountEffect
<1>3. ~(\E b \in Bands, lag \in 0 .. MaxLag, life \in Lifetimes : Submit(b, lag, life))
  BY <1>2 DEF Submit
<1>4. ~PollNotConfigured /\ ~PollBacksOff /\ ~Tick
  BY DEF PollNotConfigured, PollBacksOff, Tick
<1>5. ~PollChannelFails
  <2>1. Target \in Bands
    BY <1>1, OtherType DEF Target
  <2>. HIDE DEF Target
  <2>. QED
    BY <1>2, <2>1 DEF PollChannelFails
<1>6. ASSUME NEW b \in Bands, PollServes(b)
      PROVE  u = b
  BY <1>2, <1>6 DEF PollServes, Discard, Transmit, TransmitFails
<1>. QED
  BY <1>3, <1>4, <1>5, <1>6 DEF Next, Poll

(* Every frame is sent on the channel of the band it was queued for. *)
THEOREM ChannelCorrect == Spec => SentOnItsChannel
<1>. DEFINE Sent == \A b \in Bands :
          stats'[b]["submitted"] # stats[b]["submitted"] => hwChannel' = Channel(b)
<1>1. IInv /\ [Next]_vars => [Sent]_vars
  <2> SUFFICES ASSUME IInv, Next, NEW u \in Bands,
                      stats'[u]["submitted"] # stats[u]["submitted"]
               PROVE  hwChannel' = Channel(u)
    OBVIOUS
  <2>1. PollServes(u)
    BY SendingServes
  <2>2. CASE SwitchNeeded
    BY <2>1, <2>2 DEF PollServes, Tune
  <2>3. CASE ~SwitchNeeded
    <3>1. Target = activeBand /\ currentChannel # NoChannel
      BY <2>3 DEF SwitchNeeded, Target
    <3>2. UNCHANGED radioVars /\ u = Target
      BY <2>1, <2>3 DEF PollServes
    <3>. QED
      BY <3>1, <3>2 DEF radioVars, RadioInv, IInv
  <2>. QED
    BY <2>2, <2>3
<1>. QED
  BY <1>1, Invariance, PTL DEF Spec, SentOnItsChannel

(* The driver's channel changes only when poll serves a band, and only to that band's. *)
LEMMA SwitchingServes ==
    ASSUME Next, hwChannel' # hwChannel
    PROVE  \E b \in Bands : PollServes(b) /\ SwitchNeeded /\ Tune(b)
<1>1. ~(\E b \in Bands, lag \in 0 .. MaxLag, life \in Lifetimes : Submit(b, lag, life))
  BY DEF Submit, radioVars
<1>2. ~PollNotConfigured /\ ~PollBacksOff /\ ~PollChannelFails /\ ~Tick
  BY DEF PollNotConfigured, PollBacksOff, PollChannelFails, Tick, radioVars
<1>3. \A b \in Bands : PollServes(b) => SwitchNeeded /\ Tune(b)
  BY DEF PollServes, radioVars
<1>. QED
  BY <1>1, <1>2, <1>3 DEF Next, Poll

(* Within its dwell time a band that has work keeps the radio; after it, a band that the *)
(* other one waits for sends nothing more: for any dwell and retry time, any workload and *)
(* any errors of the driver.                                                               *)
THEOREM DwellIsHonoured == Spec => DwellHonoured
<1>. DEFINE Honoured ==
          currentChannel # NoChannel =>
            IF now < dwellStarted + Dwell
            THEN hwChannel' # hwChannel => queue[activeBand] = {}
            ELSE stats'[activeBand]["submitted"] # stats[activeBand]["submitted"]
                     => queue[Other(activeBand)] = {}
<1>1. IInv /\ [Next]_vars => [Honoured]_vars
  <2> SUFFICES ASSUME IInv, Next, currentChannel # NoChannel
               PROVE  Honoured
    OBVIOUS
  <2>1. /\ activeBand \in Bands /\ now \in Nat /\ dwellStarted \in Nat /\ Dwell \in Nat
        /\ hwChannel = Channel(activeBand)
    BY DEF IInv, TypeOK, RadioInv
  <2>2. ASSUME now < dwellStarted + Dwell, hwChannel' # hwChannel
        PROVE  queue[activeBand] = {}
    <3>1. PICK b \in Bands : PollServes(b) /\ Tune(b)
      BY <2>2, SwitchingServes
    <3>2. b # activeBand
      BY <2>1, <2>2, <3>1 DEF Tune
    <3>3. ~DwellOver
      BY <2>1, <2>2 DEF DwellOver
    <3>. QED
      BY <3>1, <3>2, <3>3 DEF PollServes, Target
  <2>3. ASSUME ~(now < dwellStarted + Dwell),
               stats'[activeBand]["submitted"] # stats[activeBand]["submitted"]
        PROVE  queue[Other(activeBand)] = {}
    <3>1. PollServes(activeBand)
      BY <2>1, <2>3, SendingServes
    <3>2. activeBand # Other(activeBand)
      BY <2>1 DEF Other, Bands
    <3>3. ~DwellOver
      BY <3>1, <3>2 DEF PollServes, Target
    <3>. QED
      BY <2>1, <2>3, <3>3 DEF DwellOver
  <2>. QED
    BY <2>2, <2>3
<1>. QED
  BY <1>1, Invariance, PTL DEF Spec, DwellHonoured

(* An accepted payload is given up only when it has expired: whatever the driver refuses, *)
(* it stays queued and is tried again.                                                     *)
THEOREM KeptWhileValid == Spec => RetriedWhileValid
<1>. DEFINE Kept == \A b \in Bands : \A p \in queue[b] \ queue'[b] :
                        stats'[b]["submitted"] # stats[b]["submitted"] \/ Expired(p)
<1>1. IInv /\ [Next]_vars => [Kept]_vars
  <2> SUFFICES ASSUME IInv, Next, NEW u \in Bands, NEW q \in queue[u], q \notin queue'[u]
               PROVE  stats'[u]["submitted"] # stats[u]["submitted"] \/ Expired(q)
    OBVIOUS
  <2>1. /\ stats \in [Bands -> [Counters -> Nat]] /\ "submitted" \in Counters
        /\ queue \in [Bands -> SUBSET Payload]
    BY DEF IInv, TypeOK, Counters
  <2>2. ~(\E b \in Bands, lag \in 0 .. MaxLag, life \in Lifetimes : Submit(b, lag, life))
    BY <2>1 DEF Submit
  <2>3. ~PollNotConfigured /\ ~PollBacksOff /\ ~PollChannelFails /\ ~Tick
    BY DEF PollNotConfigured, PollBacksOff, PollChannelFails, Tick
  <2>4. PICK b \in Bands : PollServes(b)
    BY <2>2, <2>3 DEF Next, Poll
  <2>5. PICK p \in queue[b] :
           \/ Expired(p) /\ Discard(p, b)
           \/ Transmit(p, b)
           \/ TransmitFails(b)
    BY <2>4 DEF PollServes
  <2>6. CASE Expired(p) /\ Discard(p, b)
    BY <2>1, <2>6 DEF Discard
  <2>7. CASE Transmit(p, b)
    <3>1. u = b
      BY <2>1, <2>7 DEF Transmit
    <3>2. stats'[b]["submitted"] = stats[b]["submitted"] + 1
      <4>1. Count(b, {"submitted"} \union IF now > p.deadline THEN {"late"} ELSE {})
        BY <2>7 DEF Transmit
      <4>. QED
        BY <2>1, <4>1, CountEffect
    <3>3. stats[b]["submitted"] \in Nat
      BY <2>1
    <3>. QED
      BY <3>1, <3>2, <3>3
  <2>8. CASE TransmitFails(b)
    BY <2>8 DEF TransmitFails
  <2>. QED
    BY <2>5, <2>6, <2>7, <2>8
<1>. QED
  BY <1>1, Invariance, PTL DEF Spec, RetriedWhileValid
=============================================================================
