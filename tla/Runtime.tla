------------------------------ MODULE Runtime ------------------------------
(***************************************************************************)
(* rid::Runtime (components/rid_runtime/runtime.cpp) as its two callers in *)
(* main/app_main.cpp drive it.  rid_runtime samples the clock and only     *)
(* then takes the mutex, to tick and to poll the transports; rid_shell     *)
(* applies a configuration under the same mutex.                           *)
(*                                                                         *)
(* A configuration is the fleet it expands to: for each aircraft its       *)
(* transport, whether it sends packs (OpenDroneID over anything but BLE 4) *)
(* and the effective period of each message kind.  Encoding may fail for   *)
(* any message.  The content of a payload and the message counters in it   *)
(* are left out.  The transports behind RuntimeSink are those of Tasks, or *)
(* of Firmware: the actions here say nothing of them.                      *)
(***************************************************************************)
EXTENDS Integers, FiniteSets, Sequences

CONSTANTS
    KindCount,         \* kMessageKindCount (6)
    Fleets,            \* the fleets that valid configurations expand to
    MaxTime,           \* bound: last instant of the clock
    MaxApplies,        \* bound: configurations applied
    MaxErrors          \* bound: messages of a fleet that are not encoded or not accepted

Kinds == 0 .. KindCount - 1
Location == 1                                \* MessageKind::Location, the kind of a pack
Transports == {"Ble", "Wifi24", "Wifi58"}

Craft == [transport : Transports, packed : BOOLEAN,
          period : [Kinds -> Nat \ {0}], lifetime : Nat \ {0}]

ASSUME ConstantsAssumption ==
    /\ KindCount \in Nat /\ KindCount > Location
    /\ Fleets \subseteq Seq(Craft) \ {<<>>}
    /\ MaxTime \in Nat /\ MaxApplies \in Nat /\ MaxErrors \in Nat

VARIABLES
    fleet,             \* aircraft_ with the periods of config_
    nextDue,           \* next_due_
    stats,             \* stats_
    started,           \* started_ms_
    sequence,          \* sequence_
    running,           \* running_
    epoch,             \* history: configurations applied so far
    lastTick,          \* history: the time of the last tick of this fleet, or Never
    phase,             \* rid_runtime: "asleep", "sampled", or "polling" and holding the mutex
    sampledAt,         \* the time it read last, or Never
    now

fleetVars == <<fleet, nextDue, stats, started, sequence, running, epoch, lastTick>>
loopVars == <<phase, sampledAt>>
runtimeVars == <<fleetVars, loopVars, now>>

Counters == {"expected", "submitted", "submit_errors", "encode_errors"}
Never == -1
NoStats == [c \in Counters |-> 0]

RuntimeInit ==
    /\ fleet = <<>> /\ nextDue = <<>>
    /\ stats = NoStats /\ sequence = 0
    /\ started = 0 /\ lastTick = Never /\ epoch = 0
    /\ running = FALSE
    /\ phase = "asleep" /\ sampledAt = Never
    /\ now = 0

-----------------------------------------------------------------------------
(* Helpers.  Mutant_X is X with a bug; the runs show that a property sees it. *)

(* Messages of a fleet start spread over one period; a packed aircraft has one slot. *)
FirstDue(f, i, k, t) ==
    IF f[i].packed THEN t + (f[i].period[k] * (i - 1)) \div Len(f)
                   ELSE t + (f[i].period[k] * ((i - 1) * KindCount + k)) \div (Len(f) * KindCount)

Schedule(f) == [i \in DOMAIN f |-> [k \in Kinds |-> FirstDue(f, i, k, now)]]

(* advance_due adds the period until the time is past. *)
Mutant_AdvanceDue(due, period, t) == t + period  \* from the time of the tick
AdvanceDue(due, period, t) == due + period * ((t - due) \div period + 1)

Due(i, k, t) == t >= nextDue[i][k]

(* The messages a tick builds: one pack for an aircraft of which any kind is due, or one *)
(* message for each kind that is due.                                                    *)
Built(t) ==
    {m \in (DOMAIN fleet) \X Kinds :
        IF fleet[m[1]].packed THEN m[2] = Location /\ \E k \in Kinds : Due(m[1], k, t)
                              ELSE Due(m[1], m[2], t)}

(* A payload as the transports see it, without the order of its siblings. *)
PayloadOf(m, t) ==
    [epoch |-> epoch, deadline |-> t,
     expires |-> t + (IF fleet[m[1]].packed THEN fleet[m[1]].lifetime
                                            ELSE fleet[m[1]].period[m[2]])]

-----------------------------------------------------------------------------
(* Runtime::apply, from app_main (the first) or from rid_shell.  A configuration that does *)
(* not validate changes nothing.  The queues of the transports are not touched.           *)
Apply(f) ==
    /\ phase # "polling"
    /\ epoch < MaxApplies
    /\ fleet' = f
    /\ nextDue' = Schedule(f)
    /\ stats' = NoStats /\ sequence' = 0
    /\ started' = now /\ lastTick' = Never
    /\ running' = TRUE
    /\ epoch' = epoch + 1
    /\ UNCHANGED <<loopVars, now>>

(* rid_runtime sleeps between two rounds, so that each reads a later time; then it reads    *)
(* running(), also without the mutex, and skips the round when no fleet runs.  A            *)
(* configuration may be applied before, between and after the reads.                        *)
SampleTime ==
    /\ phase = "asleep" /\ now > sampledAt
    /\ phase' = "sampled" /\ sampledAt' = now
    /\ UNCHANGED <<fleetVars, now>>

Skip ==
    /\ phase = "sampled" /\ ~running
    /\ phase' = "asleep"
    /\ UNCHANGED <<fleetVars, sampledAt, now>>

(* tick refuses a time before the start of the fleet. *)
Mutant_Refuses(t) == ~running
Refuses(t) == ~running \/ t < started

(* The statistics of a tick, for the messages it builds, those of them that cannot be *)
(* encoded, and the payloads the transports refuse.                                     *)
Mutant_Counted(built, failed, refused) ==  \* a refused payload is not counted
    [stats EXCEPT !["expected"] = @ + Cardinality(built \ failed),
                  !["submitted"] = @ + Cardinality(built \ (failed \union refused)),
                  !["encode_errors"] = @ + Cardinality(failed)]
Counted(built, failed, refused) ==
    [stats EXCEPT !["expected"] = @ + Cardinality(built \ failed),
                  !["submitted"] = @ + Cardinality(built \ (failed \union refused)),
                  !["submit_errors"] = @ + Cardinality(refused),
                  !["encode_errors"] = @ + Cardinality(failed)]

(* tick, under the mutex, which rid_runtime then keeps for the polls. *)
Tick(failed, refused) ==
    LET t == sampledAt IN
    /\ phase = "sampled" /\ running
    /\ ~Refuses(t)
    /\ nextDue' = [i \in DOMAIN fleet |-> [k \in Kinds |->
                      IF Due(i, k, t) THEN AdvanceDue(nextDue[i][k], fleet[i].period[k], t)
                                      ELSE nextDue[i][k]]]
    /\ sequence' = sequence + Cardinality(Built(t))
    /\ stats' = Counted(Built(t), failed, refused)
    /\ stats'["encode_errors"] + stats'["submit_errors"] <= MaxErrors
    /\ lastTick' = t
    /\ phase' = "polling"
    /\ UNCHANGED <<fleet, started, running, epoch, sampledAt, now>>

TickRefused ==
    /\ phase = "sampled" /\ running
    /\ Refuses(sampledAt)
    /\ phase' = "polling"
    /\ UNCHANGED <<fleetVars, sampledAt, now>>

(* After the polls: the mutex is given, and the task sleeps. *)
EndRound ==
    /\ phase = "polling"
    /\ phase' = "asleep"
    /\ UNCHANGED <<fleetVars, sampledAt, now>>

Advance ==
    /\ now < MaxTime
    /\ now' = now + 1
    /\ UNCHANGED <<fleetVars, loopVars>>

-----------------------------------------------------------------------------
(* Every variable keeps its type. *)
TypeOK ==
    /\ fleet \in Fleets \union {<<>>}
    /\ nextDue \in [DOMAIN fleet -> [Kinds -> Nat]]
    /\ stats \in [Counters -> Nat] /\ sequence \in Nat
    /\ started \in Nat /\ now \in Nat
    /\ epoch \in 0 .. MaxApplies
    /\ running \in BOOLEAN
    /\ phase \in {"asleep", "sampled", "polling"}
    /\ {sampledAt, lastTick} \subseteq Nat \union {Never}

(* Late ticks neither starve a message kind, nor burst, nor shift the schedule: however late a *)
(* tick comes, the next message is due after it, at most one period away, and on the grid that  *)
(* apply laid out, so that the aircraft of a fleet stay spread over the period.                  *)
OnSchedule ==
    \A i \in DOMAIN fleet, k \in Kinds :
        LET period == fleet[i].period[k] IN
        /\ nextDue[i][k] > lastTick
        /\ nextDue[i][k] <= (IF lastTick = Never THEN started ELSE lastTick) + period
        /\ (nextDue[i][k] - FirstDue(fleet, i, k, started)) % period = 0

(* Every message built since the last apply is in exactly one of the columns of the *)
(* statistics, whichever calls failed.                                                *)
EveryMessageCounted ==
    /\ sequence = stats["expected"] + stats["encode_errors"]
    /\ stats["expected"] = stats["submitted"] + stats["submit_errors"]

(* The times a fleet's trajectories are sampled at begin at its start and never go back,  *)
(* although the runtime task may have read the clock before the shell applied the fleet:   *)
(* the unsigned elapsed time never underflows, which TrajectoryClock relies on.            *)
TrajectoryTimeGrows ==
    [][(epoch' = epoch /\ lastTick' # lastTick) =>
          lastTick' >= (IF lastTick = Never THEN started ELSE lastTick)]_runtimeVars
=============================================================================
