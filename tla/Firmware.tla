------------------------------- MODULE Firmware -------------------------------
(***************************************************************************)
(* The running firmware: Runtime, the two tasks of main/app_main.cpp, and  *)
(* the transports behind RadioSink.  Wi-Fi is the RadioCoordinator module, *)
(* whose clock is the time rid_runtime has sampled, polled as runtime_task *)
(* does: until it fails, no payload waits, or the limit of a round is      *)
(* reached.  BLE is a queue that a poll may empty, since its backend       *)
(* decides when it is free (BleTransport has it in detail).                *)
(***************************************************************************)
EXTENDS Runtime

CONSTANTS
    QueueCapacity,     \* kQueueCapacity (16), per transport
    Dwell, Retry,      \* as in RadioCoordinator
    MaxPolls           \* kMaxWifiPollsPerTick (8)

ASSUME FirmwareAssumption ==
    /\ QueueCapacity \in Nat \ {0} /\ MaxPolls \in Nat \ {0}
    /\ Dwell \in Nat /\ Retry \in Nat

VARIABLES
    wifiQueue, wifiStats, activeBand, currentChannel, dwellStarted, retryAt, configured,
    hwChannel,         \* RadioCoordinator and its driver
    pollAgain,         \* no Wi-Fi poll of this round has failed
    polls,             \* attempt
    bleQueue,          \* the pending payloads of BleTransport
    sent,              \* history: the payload that the last poll put on the air, if any
    lastAir            \* history: the deadline of the last frame of each band

coordinatorVars == <<wifiQueue, wifiStats, activeBand, currentChannel, dwellStarted, retryAt,
                     configured, hwChannel>>
airVars == <<coordinatorVars, pollAgain, polls, bleQueue, sent, lastAir>>
vars == <<runtimeVars, airVars>>

Wifi == INSTANCE RadioCoordinator WITH
    queue <- wifiQueue, stats <- wifiStats, now <- sampledAt, nextSequence <- sequence,
    submitErrors <- 0, MaxPayloads <- 0, MaxLag <- 0, Lifetimes <- {},
    Recovery <- MaxTime + 1

Bands == {"Wifi24", "Wifi58"}

Init ==
    /\ RuntimeInit
    /\ wifiQueue = [b \in Bands |-> {}]
    /\ wifiStats = [b \in Bands |-> [c \in Wifi!Counters |-> 0]]
    /\ activeBand = "Wifi24" /\ currentChannel = Wifi!NoChannel /\ hwChannel = Wifi!NoChannel
    /\ dwellStarted = 0 /\ retryAt = 0 /\ configured = FALSE
    /\ pollAgain = TRUE /\ polls = 0
    /\ bleQueue = {} /\ sent = {}
    /\ lastAir = [b \in Bands |-> 0]

-----------------------------------------------------------------------------
(* The tick numbers what it builds in the order of aircraft and kinds. *)
Before(m, n) == m[1] < n[1] \/ (m[1] = n[1] /\ m[2] < n[2])
Rank(m, ms) == Cardinality({n \in ms : Before(n, m)})

TransportOf(m) == fleet[m[1]].transport

(* The payload of message m, with its sequence number. *)
Numbered(m) ==
    [sequence |-> sequence + Rank(m, Built(sampledAt)), epoch |-> epoch,
     deadline |-> sampledAt, expires |-> PayloadOf(m, sampledAt).expires]

Room(transport) ==
    QueueCapacity - Cardinality(IF transport = "Ble" THEN bleQueue ELSE wifiQueue[transport])

(* Of what is offered in one tick, a transport refuses all that comes when it is full. *)
Refused(offered) ==
    {m \in offered : Rank(m, {n \in offered : TransportOf(n) = TransportOf(m)})
                        >= Room(TransportOf(m))}

(* Runtime::tick with RadioSink as its sink. *)
TickAndSubmit ==
    \E failed \in SUBSET Built(sampledAt) :
        LET offered == Built(sampledAt) \ failed
            accepted(t) == {Numbered(m) : m \in {n \in offered \ Refused(offered) : TransportOf(n) = t}}
        IN
        /\ Tick(failed, Refused(offered))
        /\ wifiQueue' = [b \in Bands |-> wifiQueue[b] \union accepted(b)]
        /\ wifiStats' = [b \in Bands |->
                            [wifiStats[b] EXCEPT !["expected"] = @ + Cardinality(accepted(b))]]
        /\ bleQueue' = bleQueue \union accepted("Ble")
        /\ UNCHANGED <<activeBand, currentChannel, dwellStarted, retryAt, configured, hwChannel,
                       pollAgain, polls, sent, lastAir>>

Payload(p) == [epoch |-> p.epoch, deadline |-> p.deadline, expires |-> p.expires]

(* One turn of the loop: a payload of a band that was counted as submitted is on the air. *)
WifiPoll ==
    LET aired(b) == IF wifiStats'[b]["submitted"] # wifiStats[b]["submitted"]
                    THEN wifiQueue[b] \ wifiQueue'[b] ELSE {}
    IN
    /\ phase = "polling" /\ polls < MaxPolls
    /\ Wifi!Poll
    /\ polls' = polls + 1
    /\ sent' = {Payload(p) : p \in aired("Wifi24") \union aired("Wifi58")}
    /\ lastAir' = [b \in Bands |-> IF aired(b) = {} THEN lastAir[b]
                                   ELSE (CHOOSE p \in aired(b) : TRUE).deadline]
    /\ UNCHANGED <<fleetVars, loopVars, now, bleQueue>>

(* The loop has ended; BleTransport::poll, and the end of the round. *)
BlePoll ==
    /\ EndRound
    /\ polls = MaxPolls \/ ~Wifi!PollCalled
    /\ bleQueue' \in SUBSET bleQueue
    /\ \/ sent' = {}
       \/ \E p \in bleQueue \ bleQueue' : sampledAt <= p.expires /\ sent' = {Payload(p)}
    /\ polls' = 0 /\ pollAgain' = TRUE
    /\ UNCHANGED <<coordinatorVars, lastAir>>

Next ==
    \/ TickAndSubmit \/ WifiPoll \/ BlePoll
    \/ ((\E f \in Fleets : Apply(f)) \/ SampleTime \/ Skip \/ TickRefused \/ Advance)
          /\ UNCHANGED airVars

Spec == Init /\ [][Next]_vars

-----------------------------------------------------------------------------
(* The code's transports, with their limits, order and retries, do no more to the tasks than *)
(* the transports of the module Tasks may.                                                    *)
Abstract == INSTANCE Tasks WITH
    queue <- {Payload(p) : p \in wifiQueue["Wifi24"] \union wifiQueue["Wifi58"] \union bleQueue}
ImplementsTasks == Abstract!Spec

(* After config apply the old fleet fades: its payloads are still sent, but each only while *)
(* its own lifetime, counted from the start of the new fleet, lasts.  It rests on the tick  *)
(* refusing the time before the start, and on every queue dropping what has expired.         *)
OldFleetFades ==
    [][\A p \in sent' :
          (sent' # sent /\ p.epoch # epoch) => sampledAt <= started + (p.expires - p.deadline)]_vars

(* On each channel time never runs backwards: the flight states that a receiver sees are in *)
(* order, across retries, dwell switches and the change of fleets, where sequence numbers    *)
(* begin again.                                                                               *)
AirInOrder == [][\A b \in Bands : lastAir'[b] >= lastAir[b]]_vars
=============================================================================
