----------------------------- MODULE Trajectory -----------------------------
(***************************************************************************)
(* rid::TrajectoryEngine whole: Runtime::tick samples each aircraft at a   *)
(* 32-bit time, from which TrajectoryClock rebuilds the true one and       *)
(* Motion computes where the aircraft is.                                  *)
(*                                                                         *)
(* All groups fly the same trajectory.  An aircraft's instance index is    *)
(* its entry of the engine; one tick of Motion's time is one millisecond.  *)
(***************************************************************************)
EXTENDS TrajectoryClock, Motion

(* The engine has an entry for every phase (last_elapsed_.size() is 50 too). *)
ASSUME EntryAssumption == \A a \in Aircraft : Entry[a] \in 0 .. Slots - 1

VARIABLES
    config,            \* the trajectory of the groups
    flight             \* aircraft -> its last two samples, the newer one first

allVars == <<vars, config, flight>>

Milliseconds(time) == time.high * Range + time.low

FlightInit ==
    /\ Init
    /\ config \in Configs
    /\ flight = [a \in Aircraft |-> <<>>]

FlightTick(gap) == Tick(gap) /\ UNCHANGED <<config, flight>>

SampleFlight(a) ==
    LET now == Milliseconds(sampled')
        state == [at |-> now, motion |-> MotionOf(config, Entry[a], now)]
    IN  /\ Sample(a)
        /\ flight' = [flight EXCEPT ![a] = IF @ = <<>> THEN <<state>> ELSE <<state, Head(@)>>]
        /\ UNCHANGED config

FlightNext ==
    \/ \E gap \in 0 .. MaxGap : FlightTick(gap)
    \/ \E a \in Aircraft : SampleFlight(a)

FlightSpec == FlightInit /\ [][FlightNext]_allVars

-----------------------------------------------------------------------------
Sampled == {a \in Aircraft : flight[a] # <<>>}
SampledTwice == {a \in Aircraft : Len(flight[a]) = 2}
Newer(a) == flight[a][1]
Older(a) == flight[a][2]
Gap(a) == Newer(a).at - Older(a).at

Distance(p, q) == Abs(p.east - q.east) + Abs(p.north - q.north)

(* The speed that a trajectory reports, and its climb rates, up or down. *)
TopSpeed(c) == IF c.type \in {"Hover", "TakeoffCruiseLand"} THEN 0 ELSE c.speed
Climbs(c) ==
    CASE c.type = "TakeoffCruiseLand" -> {c.climb}
      [] c.type = "WaypointLoop" ->
            {Abs(DeltaUp(c, i) * c.speed) \div LegLength(c, i) :
                i \in {j \in Legs(c) : LegLength(c, j) > 0}}
      [] OTHER -> {0}

(* No state jumps: between two samples an aircraft covers no more ground than its speed allows, *)
(* and no more height than the climb rates it reports, at turns, corners, landings, at the end   *)
(* of a round, and when the 32-bit time wraps.                                                    *)
NoJump ==
    \A a \in SampledTwice :
        /\ Distance(Older(a).motion, Newer(a).motion) <= TopSpeed(config) * Gap(a)
        /\ \E climb \in Climbs(config) :
            Abs(Newer(a).motion.up - Older(a).motion.up) <= climb * Gap(a)

(* The motion reported is the motion flown: an aircraft that reports the same velocity in two *)
(* successive milliseconds has moved by exactly that velocity in between.                       *)
FliesItsVelocity ==
    \A a \in SampledTwice :
        LET p == Older(a).motion
            q == Newer(a).motion
        IN  Gap(a) = 1 /\ <<p.speed, p.climb, p.heading>> = <<q.speed, q.climb, q.heading>> =>
                /\ q.east - p.east = p.speed * East(p.heading)
                /\ q.north - p.north = p.speed * North(p.heading)
                /\ q.up - p.up = p.climb

(* The phases of the instances keep a group that moves over ground apart: two of them never *)
(* report the same state at the same time.                                                     *)
MovingApart ==
    TopSpeed(config) > 0 =>
        \A a, b \in Sampled :
            Entry[a] # Entry[b] /\ Newer(a).at = Newer(b).at => Newer(a).motion # Newer(b).motion
=============================================================================
