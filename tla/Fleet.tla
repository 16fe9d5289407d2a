------------------------------- MODULE Fleet -------------------------------
(***************************************************************************)
(* The staged configuration of the shell (components/rid_shell/shell.cpp), *)
(* edited command by command, and what validate_and_expand and             *)
(* effective_period (components/rid_config/config.cpp) make of it.         *)
(*                                                                         *)
(* The shell stages what it is given; only validate decides what may run.  *)
(* A configuration that comes out of flash may hold what no command sets:  *)
(* periods, modes and trajectories.  A trajectory is valid or not, as is a *)
(* site; an identity is what it is derived from.                           *)
(***************************************************************************)
EXTENDS Integers, Sequences, FiniteSets

CONSTANTS
    Names,             \* group names the user types
    Counts,            \* aircraft counts the user types
    Kinds,             \* message kinds
    Stored,            \* configurations that flash may hold
    MinPeriod, MaxPeriod,  \* kMinPeriodMs (100), kMaxPeriodMs (60000)
    MaxAircraft,       \* kMaxAircraft, 50
    MaxGroups          \* bound: groups the user adds

Protocols == {"Gb46750", "OpenDroneId"}
BleTransports == {"Ble4", "Ble5"}
Transports == BleTransports \cup {"Wifi24", "Wifi58"}
Sites == {"missing", "invalid", "valid"}
None == -1                                  \* std::nullopt, of a period, as flash holds it

(* GroupConfig and SystemConfig, with any values at all. *)
Groups ==
    [name : STRING, count : Nat, protocol : Protocols, transport : Transports,
     wifiMode : {"Beacon", "Nan"}, goodTrajectory : BOOLEAN,
     period : Nat \cup {None}, overrides : [Kinds -> Nat \cup {None}]]
Configurations == [site : Sites, period : Nat, groups : Seq(Groups)]

ASSUME FleetAssumption ==
    /\ Names \subseteq STRING /\ Counts \subseteq Nat /\ Stored \subseteq Configurations
    /\ MinPeriod \in Nat \ {0} /\ MaxPeriod \in Nat /\ MinPeriod <= MaxPeriod
    /\ MaxAircraft \in Nat \ {0} /\ MaxGroups \in Nat

VARIABLE staged

Group(name, count, protocol, transport) ==
    [name |-> name, count |-> count, protocol |-> protocol, transport |-> transport,
     wifiMode |-> "Beacon", goodTrajectory |-> TRUE,
     period |-> None, overrides |-> [k \in Kinds |-> None]]

DefaultConfig == [site |-> "missing", period |-> MinPeriod, groups |-> <<>>]

FleetInit == staged \in Stored \cup {DefaultConfig}

-----------------------------------------------------------------------------
(* config.cpp.  Mutant_X is X with a bug; the runs show that a property sees it. *)
ValidPeriod(p) == MinPeriod <= p /\ p <= MaxPeriod

Mutant_Supported(g) == g.wifiMode = "Beacon"            \* GB 46750 over BLE
Supported(g) ==
    /\ g.wifiMode = "Beacon"
    /\ g.protocol = "Gb46750" => g.transport \notin BleTransports

Aircraft(c, n) ==                           \* in the first n groups
    LET total[i \in 0 .. Len(c.groups)] == IF i = 0 THEN 0 ELSE total[i - 1] + c.groups[i].count
    IN  total[n]

TooMany(c, i) == Aircraft(c, i) > MaxAircraft

Repeats(c, i) == \E j \in 1 .. i - 1 : c.groups[j].name = c.groups[i].name

GoodPeriods(g) ==
    /\ g.period = None \/ ValidPeriod(g.period)
    /\ \A k \in Kinds : g.overrides[k] = None \/ ValidPeriod(g.overrides[k])

GroupVerdict(c, i) ==
    LET g == c.groups[i] IN
    IF g.name = "" THEN "InvalidGroupName"
    ELSE IF g.count = 0 THEN "InvalidGroupCount"
    ELSE IF Repeats(c, i) THEN "DuplicateGroupName"
    ELSE IF ~Supported(g) THEN "UnsupportedCombination"
    ELSE IF ~g.goodTrajectory THEN "InvalidTrajectory"
    ELSE IF ~GoodPeriods(g) THEN "InvalidPeriod"
    ELSE IF TooMany(c, i) THEN "TooManyAircraft"
    ELSE "None"

First(indices) == CHOOSE i \in indices : \A j \in indices : i <= j

(* validate: the first fault in the order of the code *)
Validate(c) ==
    LET faulty == {i \in DOMAIN c.groups : GroupVerdict(c, i) # "None"} IN
    IF c.site = "missing" THEN "MissingSite"
    ELSE IF c.site = "invalid" THEN "InvalidSite"
    ELSE IF ~ValidPeriod(c.period) THEN "InvalidPeriod"
    ELSE IF faulty # {} THEN GroupVerdict(c, First(faulty))
    ELSE IF c.groups = <<>> THEN "NoAircraft"
    ELSE "None"

(* validate_and_expand: the aircraft of a valid configuration *)
Instances(g) == 0 .. g.count - 1
Expand(c) ==
    UNION {{[group |-> i, instance |-> n,
             identity |-> <<c.groups[i].name, n, c.groups[i].protocol>>] :
                n \in Instances(c.groups[i])} : i \in DOMAIN c.groups}

EffectivePeriod(c, g, kind) ==
    CASE g.overrides[kind] # None -> g.overrides[kind]
      [] g.overrides[kind] = None /\ g.period # None -> g.period
      [] g.overrides[kind] = None /\ g.period = None -> c.period

-----------------------------------------------------------------------------
(* Commands of the shell; one that is refused changes nothing. *)
SiteSet ==
    \E site \in {"invalid", "valid"} : staged' = [staged EXCEPT !.site = site]

GroupAdd ==
    /\ Len(staged.groups) < MaxGroups
    /\ \E name \in Names, count \in Counts, protocol \in Protocols, transport \in Transports :
        /\ count # 0
        /\ staged' = [staged EXCEPT !.groups = Append(@, Group(name, count, protocol, transport))]

GroupClear == staged' = [staged EXCEPT !.groups = <<>>]

GroupDelete(name) ==
    LET named == {i \in DOMAIN staged.groups : staged.groups[i].name = name} IN
    /\ named # {}
    /\ staged' = [staged EXCEPT !.groups =
                    SubSeq(@, 1, First(named) - 1) \o SubSeq(@, First(named) + 1, Len(@))]

FleetNext ==
    \/ SiteSet
    \/ GroupAdd
    \/ GroupClear
    \/ \E name \in Names : GroupDelete(name)

FleetSpec == FleetInit /\ [][FleetNext]_staged

-----------------------------------------------------------------------------
(* All that is wrong with a configuration, by the list of section 6 of the design. *)
Faults(c) ==
    LET groups == {c.groups[i] : i \in DOMAIN c.groups}
        periods == {c.period} \cup ({g.period : g \in groups} \ {None})
                        \cup ((UNION {{g.overrides[k] : k \in Kinds} : g \in groups}) \ {None})
        total == Aircraft(c, Len(c.groups))
        Fault(name, present) == IF present THEN {name} ELSE {}
    IN  UNION {
        Fault("MissingSite", c.site = "missing"),
        Fault("InvalidSite", c.site = "invalid"),
        Fault("InvalidPeriod", \E p \in periods : p \notin MinPeriod .. MaxPeriod),
        Fault("InvalidGroupName", \E g \in groups : g.name = ""),
        Fault("InvalidGroupCount", \E g \in groups : g.count = 0),
        Fault("DuplicateGroupName", \E i, j \in DOMAIN c.groups :
                i # j /\ c.groups[i].name = c.groups[j].name),
        Fault("UnsupportedCombination", \E g \in groups :
                g.wifiMode # "Beacon" \/ (g.protocol = "Gb46750" /\ g.transport \in BleTransports)),
        Fault("InvalidTrajectory", \E g \in groups : ~g.goodTrajectory),
        Fault("TooManyAircraft", total > MaxAircraft),
        Fault("NoAircraft", total = 0)}

(* What an accepted configuration must promise Runtime: at least one and at most MaxAircraft *)
(* aircraft, all of different identity, and no period outside the limits, wherever it comes   *)
(* from, because Runtime divides by it.                                                        *)
Fits(c) ==
    /\ Cardinality(Expand(c)) \in 1 .. MaxAircraft
    /\ \A x, y \in Expand(c) : x.identity = y.identity => x = y
    /\ \A i \in DOMAIN c.groups, k \in Kinds : ValidPeriod(EffectivePeriod(c, c.groups[i], k))

(* Whatever sequence of commands led to it, a configuration is accepted exactly if nothing is *)
(* wrong with it, and then it fits the runtime; a fault that is reported is really there,       *)
(* although the checks run in one pass over a growing total (config.cpp:45-104).                *)
VerdictIsRight ==
    LET verdict == Validate(staged) IN
    IF verdict = "None" THEN Faults(staged) = {} /\ Fits(staged)
                        ELSE verdict \in Faults(staged)
=============================================================================
