---------------------------- MODULE BleTransport ----------------------------
(***************************************************************************)
(* rid::BleTransport and rid::NimbleBleGapBackend                          *)
(* (components/rid_radio/ble_transport.cpp).                               *)
(*                                                                         *)
(* Two threads share the transport.  The runtime task calls submit, poll   *)
(* and shutdown; the NimBLE host task calls gap_event, whose callback puts *)
(* a completion into a single-producer single-consumer ring that poll      *)
(* drains.  A step of this module is one access of either thread to the    *)
(* state they share: the atomics of the ring, the callback gate            *)
(* (callback, context, in-flight count), the active mode.  What a thread   *)
(* does between two such accesses is part of the step.  The atomics are    *)
(* sequentially consistent: the target is a single-core RISC-V.            *)
(*                                                                         *)
(* An early return of submit or poll (shut down, invalid payload, full     *)
(* queue) writes nothing and is a stuttering step.                         *)
(*                                                                         *)
(* A BleMode, its GAP instance and the transport that uses them correspond *)
(* one to one, and are all written as the transport.  Payload bytes are    *)
(* left out.  pending_ is a set, because no choice the code makes depends  *)
(* on the place of an entry: the sequence numbers of one fleet are         *)
(* distinct, and the deadlines of two fleets differ.                       *)
(***************************************************************************)
EXTENDS Integers, FiniteSets

CONSTANTS
    PendingCapacity,   \* kMaxBlePendingPayloads (16)
    RingSize,          \* kCompletionQueueCapacity (8)
    MaxPayloads,       \* bound: payloads submitted
    MaxTime,           \* bound: last instant of the clock
    MaxLag,            \* bound: how far a deadline lies before its submission
    Lifetimes,         \* expires_at_ms - submission time, 0 for "never expires"
    MaxStray           \* bound: completions the stack sends unasked

ASSUME ConstantsAssumption ==
    /\ PendingCapacity \in Nat \ {0}
    /\ RingSize \in Nat /\ RingSize > 1
    /\ MaxPayloads \in Nat /\ MaxTime \in Nat /\ MaxLag \in Nat
    /\ Lifetimes \subseteq Nat
    /\ MaxStray \in Nat

Transports == {"Ble4", "Ble5"}

Counters == {"expected", "submitted", "completed", "late", "dropped",
             "radio_errors"}

Payload == [sequence : Nat, transport : Transports, deadline : Nat,
            expires : Nat]

\* BleCompletionEvent; instance is the one gap_event was called for.
Completion == [instance : Transports, ok : BOOLEAN]

VARIABLES
    \* owned by the runtime task
    pending,           \* pending_[0 .. pending_count_ - 1]
    stats,             \* stats_
    activeTransport,   \* active_transport_
    busy,              \* busy_
    shuttingDown,      \* shutting_down_
    shutDown,          \* shut_down_
    \* the completion ring
    completions,       \* completions_
    completionWrite,   \* completion_write_
    completionRead,    \* completion_read_
    overflows,         \* completion_overflows_
    \* the backend
    configured,        \* the instances with configured_[i]
    activeMode,        \* active_mode_
    callback,          \* completion_callback_ # nullptr
    context,           \* completion_context_ # nullptr
    inFlight,          \* callbacks_in_flight_
    \* the program counter and locals of each thread
    rpc, now0, drainRead, drainWrite, selected,
    hpc, event,
    \* the environment: controller, clock, producer of payloads
    advertising,       \* instances on air
    now, nextSequence, strays

transportVars == <<pending, stats, activeTransport, busy, shuttingDown, shutDown>>
ringVars      == <<completions, completionWrite, completionRead, overflows>>
gateVars      == <<callback, context, inFlight>>
backendVars   == <<configured, activeMode>>
runtimeVars   == <<rpc, now0, drainRead, drainWrite, selected>>
hostVars      == <<hpc, event>>
inputVars     == <<now, nextSequence, strays>>
vars == <<transportVars, ringVars, gateVars, backendVars, runtimeVars, hostVars,
          advertising, inputVars>>

\* The constructor has bound the callback.  The values of locals are arbitrary.
Init ==
    /\ pending = {}
    /\ stats = [t \in Transports |-> [c \in Counters |-> 0]]
    /\ activeTransport = "Ble4"
    /\ busy = FALSE
    /\ shuttingDown = FALSE
    /\ shutDown = FALSE
    /\ completions = [i \in 0 .. RingSize - 1 |-> [instance |-> "Ble4", ok |-> FALSE]]
    /\ completionWrite = 0
    /\ completionRead = 0
    /\ overflows = 0
    /\ configured = {}
    /\ activeMode = "Ble4"
    /\ callback = TRUE
    /\ context = TRUE
    /\ inFlight = 0
    /\ rpc = "idle"
    /\ now0 = 0
    /\ drainRead = 0
    /\ drainWrite = 0
    /\ selected = [sequence |-> 0, transport |-> "Ble4", deadline |-> 0, expires |-> 0]
    /\ hpc = "idle"
    /\ event = [instance |-> "Ble4", ok |-> FALSE]
    /\ advertising = {}
    /\ now = 0
    /\ nextSequence = 0
    /\ strays = 0

-----------------------------------------------------------------------------
(* Helpers.  Mutant_X is X with a bug; the runs show that a property sees it. *)

NextSlot(i) == (i + 1) % RingSize

\* A full ring keeps one slot free.
Mutant_RingFull == FALSE  \* overwrites unread slots
RingFull == NextSlot(completionWrite) = completionRead

Earlier(p, q) == \/ p.deadline < q.deadline
                 \/ p.deadline = q.deadline /\ p.sequence < q.sequence

IsEarliest(p) == p \in pending /\ \A q \in pending \ {p} : Earlier(p, q)

Expired(p) == p.expires # 0 /\ now0 > p.expires

\* Adds one to each of a set of counters.
Count(t, cs) == stats' =
    [stats EXCEPT ![t] = [c \in Counters |-> IF c \in cs THEN @[c] + 1 ELSE @[c]]]

Mutant_EndAdvertisement(c) ==  \* a failed advertisement is not counted
    busy' = FALSE /\ IF c = "completed" THEN Count(activeTransport, {c}) ELSE UNCHANGED stats
EndAdvertisement(c) == busy' = FALSE /\ Count(activeTransport, {c})

\* A completion that finds the transport idle is discarded.
Mutant_TakeCompletionStuck(ok) ==  \* a failed advertisement leaves the transport busy
    IF busy /\ ok THEN EndAdvertisement("completed") ELSE UNCHANGED <<stats, busy>>
TakeCompletion(ok) ==
    IF busy THEN EndAdvertisement(IF ok THEN "completed" ELSE "radio_errors")
    ELSE UNCHANGED <<stats, busy>>

Mutant_NoteActive == UNCHANGED activeTransport  \* keeps the previous transport
NoteActive == activeTransport' = selected.transport

\* The instance gap_event lets through.
Mutant_ActiveInstance == activeTransport  \* which poll sets only after the start
ActiveInstance == activeMode

Mutant_CallbacksDone == TRUE  \* does not wait
CallbacksDone == inFlight = 0

Mutant_LeaveGate == inFlight' = IF callback THEN inFlight - 1 ELSE inFlight  \* early return
LeaveGate == inFlight' = inFlight - 1

Mutant_StillConfigured(unremoved) == {}  \* forgets an instance it could not remove
StillConfigured(unremoved) == unremoved

\* What no step of a thread touches of the other's state.
RuntimeFrame == UNCHANGED <<completions, completionWrite, inFlight, hostVars, inputVars>>
HostFrame    == UNCHANGED <<transportVars, completionRead, callback, context, backendVars,
                            runtimeVars, now, nextSequence>>

-----------------------------------------------------------------------------
(* The runtime task: submit, poll, shutdown. *)

Submit(t, lag, life) ==
    /\ rpc = "idle" /\ ~shuttingDown
    /\ Cardinality(pending) < PendingCapacity
    /\ nextSequence < MaxPayloads
    /\ lag <= now
    /\ pending' = pending \union
          {[sequence |-> nextSequence, transport |-> t, deadline |-> now - lag,
            expires |-> IF life = 0 THEN 0 ELSE now + life]}
    /\ Count(t, {"expected"})
    /\ nextSequence' = nextSequence + 1
    /\ UNCHANGED <<activeTransport, busy, shuttingDown, shutDown, ringVars, gateVars,
                   backendVars, runtimeVars, hostVars, advertising, now, strays>>

\* drain_completions loads both indices once.
PollBegin ==
    /\ rpc = "idle" /\ ~shuttingDown
    /\ rpc' = "drain"
    /\ now0' = now
    /\ drainRead' = completionRead
    /\ drainWrite' = completionWrite
    /\ RuntimeFrame
    /\ UNCHANGED <<transportVars, completionRead, overflows, callback, context, backendVars,
                   selected, advertising>>

DrainEvent ==
    /\ rpc = "drain" /\ drainRead # drainWrite
    /\ TakeCompletion(completions[drainRead].ok)
    /\ drainRead' = NextSlot(drainRead)
    /\ RuntimeFrame
    /\ UNCHANGED <<pending, activeTransport, shuttingDown, shutDown, completionRead, overflows,
                   callback, context, backendVars, rpc, now0, drainWrite, selected, advertising>>

DrainPublish ==
    /\ rpc = "drain" /\ drainRead = drainWrite
    /\ rpc' = "overflow"
    /\ completionRead' = drainRead
    /\ RuntimeFrame
    /\ UNCHANGED <<transportVars, overflows, callback, context, backendVars, now0, drainRead,
                   drainWrite, selected, advertising>>

\* The exchange of the overflow count, then poll's return while still busy.
DrainOverflow ==
    /\ rpc = "overflow"
    /\ overflows' = 0
    /\ IF overflows > 0 /\ busy
       THEN EndAdvertisement("radio_errors")
       ELSE UNCHANGED <<stats, busy>>
    /\ rpc' = IF busy' THEN "idle" ELSE "select"
    /\ RuntimeFrame
    /\ UNCHANGED <<pending, activeTransport, shuttingDown, shutDown, completionRead, callback,
                   context, backendVars, now0, drainRead, drainWrite, selected, advertising>>

\* The payload leaves the queue before anything is tried with it.
PollSelect ==
    /\ rpc = "select"
    /\ \/ /\ pending = {}
          /\ rpc' = "idle"
          /\ UNCHANGED <<pending, stats, selected>>
       \/ \E p \in pending :
          /\ IsEarliest(p)
          /\ pending' = pending \ {p}
          /\ selected' = p
          /\ IF Expired(p) THEN Count(p.transport, {"dropped"}) /\ rpc' = "select"
                           ELSE rpc' = "configure" /\ UNCHANGED stats
    /\ RuntimeFrame
    /\ UNCHANGED <<activeTransport, busy, shuttingDown, shutDown, completionRead, overflows,
                   callback, context, backendVars, now0, drainRead, drainWrite, advertising>>

PollFails == Count(selected.transport, {"radio_errors"}) /\ rpc' = "idle"

\* backend_.configure.  When it fails the instance may or may not have got its
\* first-time parameters.
PollConfigure ==
    /\ rpc = "configure"
    /\ \/ /\ configured' = configured \union {selected.transport}
          /\ activeMode' = selected.transport
          /\ rpc' = "start" /\ UNCHANGED stats
       \/ /\ configured' \in {configured, configured \union {selected.transport}}
          /\ UNCHANGED activeMode
          /\ PollFails
    /\ RuntimeFrame
    /\ UNCHANGED <<pending, activeTransport, busy, shuttingDown, shutDown, completionRead,
                   overflows, callback, context, now0, drainRead, drainWrite, selected,
                   advertising>>

\* backend_.start, on the instance of the active mode.
PollStart ==
    /\ rpc = "start"
    /\ \/ /\ advertising' = advertising \union {activeMode}
          /\ rpc' = "started" /\ UNCHANGED stats
       \/ PollFails /\ UNCHANGED advertising
    /\ RuntimeFrame
    /\ UNCHANGED <<pending, activeTransport, busy, shuttingDown, shutDown, completionRead,
                   overflows, callback, context, backendVars, now0, drainRead, drainWrite,
                   selected>>

\* The radio is already on air when the transport notes that it is.
PollStarted ==
    /\ rpc = "started"
    /\ rpc' = "idle"
    /\ NoteActive
    /\ busy' = TRUE
    /\ Count(selected.transport,
             {"submitted"} \union IF now0 > selected.deadline THEN {"late"} ELSE {})
    /\ RuntimeFrame
    /\ UNCHANGED <<pending, shuttingDown, shutDown, completionRead, overflows, callback,
                   context, backendVars, now0, drainRead, drainWrite, selected, advertising>>

\* A second call goes straight to the reset; once shut down it does nothing.
Shutdown ==
    /\ rpc = "idle" /\ ~shutDown
    /\ shuttingDown' = TRUE
    /\ callback' = FALSE
    /\ rpc' = IF shuttingDown THEN "reset" ELSE "unbind"
    /\ RuntimeFrame
    /\ UNCHANGED <<pending, stats, activeTransport, busy, shutDown, completionRead, overflows,
                   context, backendVars, now0, drainRead, drainWrite, selected, advertising>>

\* The spin of set_completion_callback(nullptr, nullptr) ends.
Unbind ==
    /\ rpc = "unbind" /\ CallbacksDone
    /\ context' = FALSE
    /\ rpc' = "reset"
    /\ RuntimeFrame
    /\ UNCHANGED <<transportVars, completionRead, overflows, callback, backendVars, now0,
                   drainRead, drainWrite, selected, advertising>>

\* backend_.reset(): each configured instance is stopped, then removed; the first error
\* is returned, and with one the transport stays as it is.  The stack removes no
\* instance that is still on air.
Reset(unstopped, unremoved) ==
    /\ rpc = "reset"
    /\ unstopped \subseteq configured
    /\ unremoved \subseteq configured
    /\ unstopped \intersect advertising \subseteq unremoved
    /\ configured' = StillConfigured(unremoved)
    /\ advertising' = advertising \ (configured \ unstopped)
    /\ IF unstopped = {} /\ unremoved = {}
       THEN shutDown' = TRUE /\ busy' = FALSE /\ pending' = {}
       ELSE UNCHANGED <<shutDown, busy, pending>>
    /\ rpc' = "idle"
    /\ RuntimeFrame
    /\ UNCHANGED <<stats, activeTransport, shuttingDown, completionRead, overflows, callback,
                   context, activeMode, now0, drainRead, drainWrite, selected>>

-----------------------------------------------------------------------------
(* The host task: gap_event and the callback it makes. *)

GapEventCalled(t, ok) ==
    /\ hpc = "idle"
    /\ hpc' = "filter"
    /\ event' = [instance |-> t, ok |-> ok]
    /\ HostFrame
    /\ UNCHANGED <<completions, completionWrite, overflows, inFlight>>

\* The controller ends an advertisement of one event.
AdvComplete(t, ok) ==
    /\ t \in advertising
    /\ advertising' = advertising \ {t}
    /\ GapEventCalled(t, ok)
    /\ UNCHANGED strays

\* The stack reports a completion nobody asked for.
StrayEvent(t, ok) ==
    /\ t \in configured
    /\ strays < MaxStray
    /\ strays' = strays + 1
    /\ GapEventCalled(t, ok)
    /\ UNCHANGED advertising

HostStep(from, to) ==
    /\ hpc = from /\ hpc' = to
    /\ HostFrame
    /\ UNCHANGED <<event, advertising, strays>>

Filter ==
    /\ HostStep("filter", IF event.instance = ActiveInstance THEN "enter" ELSE "idle")
    /\ UNCHANGED <<completions, completionWrite, overflows, inFlight>>

Enter ==
    /\ HostStep("enter", "load")
    /\ inFlight' = inFlight + 1
    /\ UNCHANGED <<completions, completionWrite, overflows>>

LoadCallback ==
    /\ HostStep("load", IF callback THEN "context" ELSE "leave")
    /\ UNCHANGED <<completions, completionWrite, overflows, inFlight>>

\* completion_callback ignores a null context.
LoadContext ==
    /\ HostStep("context", IF context THEN "enqueue" ELSE "leave")
    /\ UNCHANGED <<completions, completionWrite, overflows, inFlight>>

Enqueue ==
    /\ HostStep("enqueue", IF RingFull THEN "leave" ELSE "write")
    /\ overflows' = IF RingFull THEN overflows + 1 ELSE overflows
    /\ UNCHANGED <<completions, completionWrite, inFlight>>

WriteSlot ==
    /\ HostStep("write", "publish")
    /\ completions' = [completions EXCEPT ![completionWrite] = event]
    /\ UNCHANGED <<completionWrite, overflows, inFlight>>

Publish ==
    /\ HostStep("publish", "leave")
    /\ completionWrite' = NextSlot(completionWrite)
    /\ UNCHANGED <<completions, overflows, inFlight>>

Leave ==
    /\ HostStep("leave", "idle")
    /\ LeaveGate
    /\ UNCHANGED <<completions, completionWrite, overflows>>

Tick ==
    /\ now < MaxTime
    /\ now' = now + 1
    /\ UNCHANGED <<transportVars, ringVars, gateVars, backendVars, runtimeVars, hostVars,
                   advertising, nextSequence, strays>>

-----------------------------------------------------------------------------
Poll ==
    \/ PollBegin \/ DrainEvent \/ DrainPublish \/ DrainOverflow
    \/ PollSelect \/ PollConfigure \/ PollStart \/ PollStarted

ShutdownCall ==
    \/ Shutdown \/ Unbind
    \/ \E unstopped, unremoved \in SUBSET Transports : Reset(unstopped, unremoved)

GapEvent ==
    \/ Filter \/ Enter \/ LoadCallback \/ LoadContext
    \/ Enqueue \/ WriteSlot \/ Publish \/ Leave

Complete == \E t \in Transports, ok \in BOOLEAN : AdvComplete(t, ok)

Next ==
    \/ \E t \in Transports, lag \in 0 .. MaxLag, life \in Lifetimes : Submit(t, lag, life)
    \/ Poll
    \/ ShutdownCall
    \/ GapEvent
    \/ Complete
    \/ \E t \in Transports, ok \in BOOLEAN : StrayEvent(t, ok)
    \/ Tick

Spec == Init /\ [][Next]_vars

\* runtime_task polls forever, the host task runs its callbacks, and the controller
\* ends every advertisement, which is started with max_events = 1.  A spinning shutdown
\* runs again after each yield; nobody is obliged to call shutdown or to retry it.
FairSpec == /\ Spec
            /\ WF_vars(Poll) /\ WF_vars(Unbind)
            /\ WF_vars(GapEvent) /\ WF_vars(Complete)

-----------------------------------------------------------------------------
(* Properties. *)

RuntimePCs == {"idle", "drain", "overflow", "select", "configure", "start", "started",
               "unbind", "reset"}
HostPCs == {"idle", "filter", "enter", "load", "context", "enqueue", "write", "publish",
            "leave"}

\* Every variable holds a value of the type its C++ counterpart has; pending_ never
\* holds more than PendingCapacity payloads and the ring indices stay in the ring.
TypeOK ==
    /\ pending \in SUBSET Payload
    /\ IsFiniteSet(pending) /\ Cardinality(pending) <= PendingCapacity
    /\ stats \in [Transports -> [Counters -> Nat]]
    /\ activeTransport \in Transports
    /\ busy \in BOOLEAN /\ shuttingDown \in BOOLEAN /\ shutDown \in BOOLEAN
    /\ completions \in [0 .. RingSize - 1 -> Completion]
    /\ completionWrite \in 0 .. RingSize - 1
    /\ completionRead \in 0 .. RingSize - 1
    /\ overflows \in Nat
    /\ configured \in SUBSET Transports
    /\ activeMode \in Transports
    /\ callback \in BOOLEAN /\ context \in BOOLEAN /\ inFlight \in Nat
    /\ rpc \in RuntimePCs
    /\ now0 \in Nat
    /\ drainRead \in 0 .. RingSize - 1 /\ drainWrite \in 0 .. RingSize - 1
    /\ selected \in Payload
    /\ hpc \in HostPCs /\ event \in Completion
    /\ advertising \in SUBSET Transports
    /\ now \in Nat /\ nextSequence \in Nat /\ strays \in Nat

InHand(t) ==
    IF rpc \in {"configure", "start", "started"} /\ selected.transport = t THEN 1 ELSE 0

OnAir(t) == IF busy /\ activeTransport = t THEN 1 ELSE 0

Queued(t) == Cardinality({p \in pending : p.transport = t})

Settled(t) == stats[t]["completed"] + stats[t]["dropped"] + stats[t]["radio_errors"]

\* No payload is lost or counted twice: of the payloads submit accepted for a transport,
\* each is queued, in poll's hands, on air, or counted exactly once as completed,
\* dropped or failed, whatever the host task does meanwhile (submit, poll,
\* drain_completions).  A completed shutdown discards the queue without counting it.
Conservation ==
    \A t \in Transports :
        IF shutDown THEN stats[t]["expected"] >= Settled(t)
        ELSE stats[t]["expected"] = Settled(t) + Queued(t) + InHand(t) + OnAir(t)

\* Ring slots published and not yet consumed by the drain.
UnreadFrom == IF rpc = "drain" THEN drainRead ELSE completionRead
Unread == (completionWrite - UnreadFrom + RingSize) % RingSize

CallbackBody == {"context", "enqueue", "write", "publish"}

\* The completion of the current advertisement is somewhere: with the controller, in
\* gap_event, or in the ring.  It is there exactly once while the transport waits for
\* it, and never when it does not, so the transport is never busy for ever and never
\* takes an old completion for that of a newer advertisement (gap_event's filter,
\* poll's late assignment of busy_).
CompletionAccounted ==
    (strays = 0 /\ ~shuttingDown) =>
        Cardinality(advertising)
            + (IF hpc \in {"filter", "enter", "load"} \union CallbackBody THEN 1 ELSE 0)
            + Unread
        = IF busy \/ rpc = "started" THEN 1 ELSE 0

\* A completion is credited to the transport whose advertisement it ends, although the
\* event in the ring does not say which that is (active_transport_, active_mode_).
CompletionAttributed ==
    (strays = 0 /\ rpc = "drain" /\ drainRead # drainWrite /\ busy) =>
        completions[drainRead].instance = activeTransport

\* The host task never writes a slot that drain_completions has yet to read, however many
\* completions arrive during the drain (completions_ is a plain array).
NoSlotRace ==
    (hpc = "write" /\ rpc = "drain") =>
        \A k \in 0 .. ((drainWrite - drainRead + RingSize) % RingSize) - 1 :
            (drainRead + k) % RingSize # completionWrite

\* Once shutdown has waited for the callbacks in flight, no callback runs in the
\* transport: the object may be destroyed (set_completion_callback, gap_event).
CallbackQuiesced ==
    (rpc = "reset" \/ (shuttingDown /\ rpc = "idle")) => hpc \notin CallbackBody

\* When shutdown reports success, perhaps after failed attempts, no instance is left on
\* air or configured in the stack, and nothing will be sent (reset, shutdown).
ShutDownIsFinal ==
    shutDown => configured = {} /\ advertising = {} /\ pending = {} /\ ~busy

\* The transport is never stuck waiting for a completion.
BusyEnds == busy ~> (~busy \/ shuttingDown)

\* Every accepted payload leaves the queue: it is tried or dropped.
QueueDrains == \A s \in 0 .. MaxPayloads - 1 :
    (\E p \in pending : p.sequence = s) ~> ((\A p \in pending : p.sequence # s) \/ shuttingDown)

\* The spin of set_completion_callback ends: every callback that came in goes out again,
\* also the one that found the callback gone (callbacks_in_flight_).
UnbindEnds == rpc = "unbind" ~> rpc = "reset"

\* design 11: a submission that fails for the time being is tried again while the
\* payload is valid.  Here: a payload that fails before its expiry is kept.
RetriedWhileValid ==
    [][(rpc \in {"configure", "start"} /\ rpc' = "idle" /\ ~Expired(selected))
           => (selected \in pending')]_vars
=============================================================================
