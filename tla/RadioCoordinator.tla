-------------------------- MODULE RadioCoordinator --------------------------
(***************************************************************************)
(* rid::RadioCoordinator (components/rid_radio/radio_coordinator.cpp): two *)
(* Wi-Fi queues, channel 6 and channel 149, that share one radio.          *)
(*                                                                         *)
(* The runtime task is its only caller, so a call of submit or poll is one *)
(* step.  The Wi-Fi driver behind WifiBackend is the environment: each of  *)
(* its calls may fail, and hwChannel is the channel it is really tuned to. *)
(* The invalid arguments submit refuses write nothing and are left out, as *)
(* are the bytes of a frame.  A queue is a set, because no choice depends  *)
(* on the order of the array: the sequence numbers of one fleet are        *)
(* distinct, and the deadlines of two fleets differ.                       *)
(***************************************************************************)
EXTENDS Integers, FiniteSets

CONSTANTS
    QueueCapacity,     \* kQueueCapacity (16), per band
    Dwell,             \* dwell_ms_ (100)
    Retry,             \* retry_ms_ (20)
    MaxPayloads,       \* bound: payloads offered
    MaxTime,           \* bound: last instant of the clock
    MaxLag,            \* bound: how far a deadline lies before its submission
    Lifetimes,         \* expires_at_ms - submission time, 0 for "never expires"
    Recovery           \* bound: from this instant on the driver no longer fails

ASSUME ConstantsAssumption ==
    /\ QueueCapacity \in Nat \ {0}
    /\ Dwell \in Nat /\ Retry \in Nat
    /\ MaxPayloads \in Nat /\ MaxTime \in Nat /\ MaxLag \in Nat
    /\ Lifetimes \subseteq Nat
    /\ Recovery \in Nat

Bands == {"Wifi24", "Wifi58"}
Other(b) == IF b = "Wifi24" THEN "Wifi58" ELSE "Wifi24"
NoChannel == 0
Channel(b) == IF b = "Wifi24" THEN 6 ELSE 149

Counters == {"expected", "submitted", "late", "dropped", "radio_errors"}

Payload == [sequence : Nat, deadline : Nat, expires : Nat]

VARIABLES
    queue,             \* pending_, pending_count_
    stats,             \* stats_
    activeBand,        \* active_band_
    currentChannel,    \* current_channel_
    dwellStarted,      \* dwell_started_ms_
    retryAt,           \* retry_at_ms_
    configured,        \* configured_
    hwChannel,         \* the driver's channel
    nextSequence,      \* Runtime::sequence_, one for every payload offered
    submitErrors,      \* Runtime::stats_.submit_errors, per band
    pollAgain,         \* runtime_task polls on in this round: no poll has failed in it
    now

radioVars == <<activeBand, currentChannel, dwellStarted, retryAt, hwChannel>>
callerVars == <<nextSequence, submitErrors>>
vars == <<queue, stats, radioVars, configured, callerVars, pollAgain, now>>

Init ==
    /\ queue = [b \in Bands |-> {}]
    /\ stats = [b \in Bands |-> [c \in Counters |-> 0]]
    /\ activeBand = "Wifi24"
    /\ currentChannel = NoChannel
    /\ dwellStarted = 0
    /\ retryAt = 0
    /\ configured = FALSE
    /\ hwChannel = NoChannel
    /\ nextSequence = 0
    /\ submitErrors = [b \in Bands |-> 0]
    /\ pollAgain = TRUE
    /\ now = 0

-----------------------------------------------------------------------------
(* Helpers.  Mutant_X is X with a bug; the runs show that a property sees it. *)

Mutant_Earlier(p, q) == p.sequence < q.sequence  \* first in, first out
Earlier(p, q) == \/ p.deadline < q.deadline
                 \/ p.deadline = q.deadline /\ p.sequence < q.sequence

IsEarliest(p, b) == p \in queue[b] /\ \A q \in queue[b] \ {p} : Earlier(p, q)

Mutant_Expired(p) == FALSE  \* sent however late
Expired(p) == p.expires # 0 /\ now > p.expires

HasRoom(b) == Cardinality(queue[b]) < QueueCapacity

\* Adds one to each of a set of counters.
Count(b, cs) == stats' =
    [stats EXCEPT ![b] = [c \in Counters |-> IF c \in cs THEN @[c] + 1 ELSE @[c]]]

HasWork == \E b \in Bands : queue[b] # {}

\* The active band has had its share and the other one waits.
Mutant_DwellOver == queue[Other(activeBand)] # {}  \* does not look at the clock
DwellOver == queue[Other(activeBand)] # {} /\ now - dwellStarted >= Dwell

SwitchNeeded == currentChannel = NoChannel \/ queue[activeBand] = {} \/ DwellOver

\* The band to serve: the other one when the active has nothing, or had its share.
Mutant_Target ==  \* an idle active band keeps the radio
    IF currentChannel # NoChannel /\ DwellOver THEN Other(activeBand) ELSE activeBand
Target ==
    IF queue[activeBand] = {} \/ (currentChannel # NoChannel /\ DwellOver)
    THEN Other(activeBand) ELSE activeBand

\* The bound on faults, for the liveness property.
MayFail == now < Recovery

-----------------------------------------------------------------------------
(* submit, called by Runtime::submit with a payload that has the next number. *)

Submit(b, lag, life) ==
    /\ nextSequence < MaxPayloads
    /\ lag <= now
    /\ nextSequence' = nextSequence + 1
    /\ \/ /\ HasRoom(b)
          /\ queue' = [queue EXCEPT ![b] = @ \union
                {[sequence |-> nextSequence, deadline |-> now - lag,
                  expires |-> IF life = 0 THEN 0 ELSE now + life]}]
          /\ Count(b, {"expected"})
          /\ UNCHANGED submitErrors
       \/ /\ ~HasRoom(b)
          /\ submitErrors' = [submitErrors EXCEPT ![b] = @ + 1]
          /\ UNCHANGED <<queue, stats>>
    /\ UNCHANGED <<radioVars, configured, pollAgain, now>>

-----------------------------------------------------------------------------
(* poll, and the loop of runtime_task around it: while payloads wait, poll again until   *)
(* it fails, or until the next round.                                                     *)

PollCalled == HasWork /\ pollAgain

\* set_country_cn fails.
PollNotConfigured ==
    /\ PollCalled /\ ~configured /\ MayFail
    /\ pollAgain' = FALSE
    /\ UNCHANGED <<queue, stats, radioVars, configured, callerVars, now>>

\* The channel could not be changed a moment ago: wait.
PollBacksOff ==
    /\ PollCalled /\ SwitchNeeded /\ now < retryAt
    /\ configured' = TRUE
    /\ UNCHANGED <<queue, stats, radioVars, callerVars, pollAgain, now>>

\* set_channel fails: the driver keeps its channel.
PollChannelFails ==
    /\ PollCalled /\ SwitchNeeded /\ now >= retryAt /\ MayFail
    /\ configured' = TRUE
    /\ pollAgain' = FALSE
    /\ retryAt' = now + Retry
    /\ Count(Target, {"radio_errors"})
    /\ UNCHANGED <<queue, activeBand, currentChannel, dwellStarted, hwChannel, callerVars, now>>

Mutant_Tune(b) ==  \* the driver is not told
    /\ activeBand' = b
    /\ currentChannel' = Channel(b)
    /\ dwellStarted' = now
    /\ retryAt' = 0
    /\ hwChannel' = IF hwChannel = NoChannel THEN Channel(b) ELSE hwChannel

\* select_band succeeds.
Tune(b) ==
    /\ activeBand' = b
    /\ currentChannel' = Channel(b)
    /\ hwChannel' = Channel(b)
    /\ dwellStarted' = now
    /\ retryAt' = 0

Discard(p, b) ==
    queue' = [queue EXCEPT ![b] = @ \ {p}] /\ Count(b, {"dropped"})

Mutant_TransmitFails(b) ==  \* the payload is given up
    /\ \E p \in queue[b] : IsEarliest(p, b) /\ queue' = [queue EXCEPT ![b] = @ \ {p}]
    /\ Count(b, {"radio_errors"})
\* The payload is kept for a later poll.
TransmitFails(b) == Count(b, {"radio_errors"}) /\ UNCHANGED queue

Transmit(p, b) ==
    /\ queue' = [queue EXCEPT ![b] = @ \ {p}]
    /\ Count(b, {"submitted"} \union IF now > p.deadline THEN {"late"} ELSE {})

\* The band is on the air already, or is brought there first; then its most urgent
\* payload is dropped or transmitted.
PollServes(b) ==
    /\ PollCalled /\ b = Target
    /\ configured' = TRUE
    /\ IF SwitchNeeded THEN now >= retryAt /\ Tune(b) ELSE UNCHANGED radioVars
    /\ \E p \in queue[b] :
        /\ IsEarliest(p, b)
        /\ \/ Expired(p) /\ Discard(p, b) /\ UNCHANGED pollAgain
           \/ ~Expired(p) /\ Transmit(p, b) /\ UNCHANGED pollAgain
           \/ ~Expired(p) /\ MayFail /\ TransmitFails(b) /\ pollAgain' = FALSE
    /\ UNCHANGED <<callerVars, now>>

\* The next round of runtime_task.
Tick ==
    /\ now < MaxTime
    /\ now' = now + 1
    /\ pollAgain' = TRUE
    /\ UNCHANGED <<queue, stats, radioVars, configured, callerVars>>

-----------------------------------------------------------------------------
Poll ==
    \/ PollNotConfigured \/ PollBacksOff \/ PollChannelFails
    \/ \E b \in Bands : PollServes(b)

Next ==
    \/ \E b \in Bands, lag \in 0 .. MaxLag, life \in Lifetimes : Submit(b, lag, life)
    \/ Poll
    \/ Tick

Spec == Init /\ [][Next]_vars

\* runtime_task polls for as long as it runs, and time passes.
FairSpec == Spec /\ WF_vars(Poll) /\ WF_vars(Tick)

-----------------------------------------------------------------------------
(* Properties. *)

\* Every variable has the type of its C++ counterpart, and no queue outgrows its array.
TypeOK ==
    /\ queue \in [Bands -> SUBSET Payload]
    /\ \A b \in Bands : IsFiniteSet(queue[b]) /\ Cardinality(queue[b]) <= QueueCapacity
    /\ stats \in [Bands -> [Counters -> Nat]]
    /\ activeBand \in Bands
    /\ currentChannel \in {NoChannel, 6, 149} /\ hwChannel \in {NoChannel, 6, 149}
    /\ dwellStarted \in Nat /\ retryAt \in Nat
    /\ configured \in BOOLEAN /\ pollAgain \in BOOLEAN
    /\ nextSequence \in Nat /\ submitErrors \in [Bands -> Nat] /\ now \in Nat

\* Per band, every accepted payload is queued, or was sent or dropped exactly once;
\* retries and failed switches, which count radio_errors, lose none and repeat none
\* (submit, poll).
Conservation ==
    \A b \in Bands :
        stats[b]["expected"] =
            stats[b]["submitted"] + stats[b]["dropped"] + Cardinality(queue[b])

\* A frame leaves on the channel of the queue it waited in, whatever switches failed
\* before (select_band, active_band_, current_channel_).
SentOnItsChannel ==
    [][\A b \in Bands :
          stats'[b]["submitted"] # stats[b]["submitted"] => hwChannel' = Channel(b)]_vars

\* The two bands share the radio by dwell time.  poll leaves a band that has work only
\* when its dwell time is over, and it sends nothing more from it once that is so and
\* the other band waits (dwell_started_ms_).
DwellHonoured ==
    [][currentChannel # NoChannel =>
        IF now < dwellStarted + Dwell
        THEN hwChannel' # hwChannel => queue[activeBand] = {}
        ELSE stats'[activeBand]["submitted"] # stats[activeBand]["submitted"]
                 => queue[Other(activeBand)] = {}]_vars

\* A failed transmission is repeated for as long as the payload is valid: an accepted
\* payload leaves its queue only by being sent or by being found expired (design 11).
RetriedWhileValid ==
    [][\A b \in Bands : \A p \in queue[b] \ queue'[b] :
          stats'[b]["submitted"] # stats[b]["submitted"] \/ Expired(p)]_vars

\* No band starves: once the driver works again every queued payload leaves its queue,
\* in whichever band it waits and however busy the other one is.
QueueDrains ==
    \A s \in 0 .. MaxPayloads - 1, b \in Bands :
        (\E p \in queue[b] : p.sequence = s) ~> (\A p \in queue[b] : p.sequence # s)
=============================================================================
