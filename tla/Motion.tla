------------------------------- MODULE Motion -------------------------------
(***************************************************************************)
(* The trajectories of components/rid_trajectory/trajectory.cpp: where an  *)
(* aircraft of a group is, and how it moves, at a time.                    *)
(*                                                                         *)
(* The code computes in floating point.  Here a time is a number of ticks, *)
(* speeds are distances per tick, and the configurations are such that     *)
(* every division is exact (Exact).  Headings are multiples of 90 degrees  *)
(* and legs run along an axis, so that hypot, sin and cos are exact too.   *)
(* The circle and the conversion to WGS-84 are left out.                   *)
(***************************************************************************)
EXTENDS Integers, Sequences

CONSTANTS
    Configs,           \* the trajectories of a group
    Slots              \* phases an instance may start in, 50

(* TrajectoryConfig, of each type what it uses. *)
EnuPoints == [east : Int, north : Int, up : Int]
TrajectoryConfigs ==
    [type : {"Hover"}, altitude : Int]
    \cup [type : {"Line"}, altitude : Int, size : Int, speed : Int, heading : Int]
    \cup [type : {"Rectangle"}, altitude : Int, size : Int, secondary : Int, speed : Int]
    \cup [type : {"WaypointLoop"}, speed : Int, waypoints : Seq(EnuPoints)]
    \cup [type : {"TakeoffCruiseLand"}, altitude : Int, climb : Int, cruise : Nat]

Abs(x) == IF x < 0 THEN -x ELSE x
Headings == {0, 90, 180, 270}
East(heading) == CASE heading = 90 -> 1 [] heading = 270 -> -1 [] OTHER -> 0
North(heading) == CASE heading = 0 -> 1 [] heading = 180 -> -1 [] OTHER -> 0

-----------------------------------------------------------------------------
(* The legs of a waypoint loop: leg i goes from waypoint i to the next one. *)
Legs(c) == DOMAIN c.waypoints
Target(c, i) == c.waypoints[(i % Len(c.waypoints)) + 1]
DeltaEast(c, i) == Target(c, i).east - c.waypoints[i].east
DeltaNorth(c, i) == Target(c, i).north - c.waypoints[i].north
DeltaUp(c, i) == Target(c, i).up - c.waypoints[i].up
LegLength(c, i) == Abs(DeltaEast(c, i)) + Abs(DeltaNorth(c, i))
LengthUpTo(c, i) ==
    LET upTo[n \in 0 .. Len(c.waypoints)] == IF n = 0 THEN 0 ELSE upTo[n - 1] + LegLength(c, n)
    IN  upTo[i]

(* valid(const TrajectoryConfig &), the cases of the types modelled *)
Valid(c) ==
    CASE c.type = "Hover" -> c.altitude >= 0
      [] c.type = "Line" -> c.size > 0 /\ c.speed > 0 /\ c.altitude >= 0 /\ c.heading \in 0 .. 359
      [] c.type = "Rectangle" -> c.size > 0 /\ c.secondary > 0 /\ c.speed > 0 /\ c.altitude >= 0
      [] c.type = "WaypointLoop" ->
            /\ c.speed > 0
            /\ Len(c.waypoints) >= 2
            /\ \A i \in Legs(c) : c.waypoints[i].up >= 0
            /\ \E i \in Legs(c) : LegLength(c, i) > 0
      [] c.type = "TakeoffCruiseLand" -> c.altitude > 0 /\ c.climb > 0

Loop(c) ==                                  \* the length of one round, in distance
    CASE c.type = "Line" -> 2 * c.size
      [] c.type = "Rectangle" -> 2 * (c.size + c.secondary)
      [] c.type = "WaypointLoop" -> LengthUpTo(c, Len(c.waypoints))

Period(c) ==                                \* ticks
    CASE c.type = "Hover" -> 0
      [] c.type = "TakeoffCruiseLand" -> 2 * (c.altitude \div c.climb) + c.cruise
      [] OTHER -> Loop(c) \div c.speed

(* What makes the arithmetic of this module exact; turns are more than a tick apart. *)
Exact(c) ==
    /\ Period(c) % Slots = 0
    /\ CASE c.type = "Hover" -> TRUE
         [] c.type = "TakeoffCruiseLand" -> c.altitude % c.climb = 0 /\ c.altitude > c.climb
         [] c.type = "Line" -> Loop(c) % c.speed = 0 /\ c.heading \in Headings /\ c.size > c.speed
         [] c.type = "Rectangle" -> /\ Loop(c) % c.speed = 0
                                    /\ c.size % 2 = 0 /\ c.secondary % 2 = 0
         [] c.type = "WaypointLoop" ->
                /\ Loop(c) % c.speed = 0
                /\ \A i \in Legs(c) : LegLength(c, i) > 0 =>
                        /\ DeltaEast(c, i) = 0 \/ DeltaNorth(c, i) = 0
                        /\ DeltaUp(c, i) % LegLength(c, i) = 0

ASSUME ConfigsAssumption ==
    /\ Slots \in Nat \ {0, 1}
    /\ Configs \subseteq TrajectoryConfigs
    /\ \A c \in Configs : Valid(c) /\ Exact(c)

-----------------------------------------------------------------------------
Mutant_Phase(c, instance, t) == IF Period(c) = 0 THEN 0 ELSE t % Period(c)  \* no offset
Phase(c, instance, t) ==
    IF Period(c) = 0 THEN 0
    ELSE (t + (Period(c) \div Slots) * (instance % Slots)) % Period(c)

At(east, north, up, speed, climb, heading) ==
    [east |-> east, north |-> north, up |-> up, speed |-> speed, climb |-> climb,
     heading |-> heading, airborne |-> up > 0]

SampleHover(c) == At(0, 0, c.altitude, 0, 0, 0)

(* sample_line: out along the heading and back *)
Mutant_Back(heading) == heading                     \* flies back without turning round
Back(heading) == (heading + 180) % 360

SampleLine(c, phase) ==
    LET travelled == phase * c.speed
        returning == travelled > c.size
        position == IF returning THEN 2 * c.size - travelled ELSE travelled
    IN  At(position * East(c.heading), position * North(c.heading), c.altitude, c.speed, 0,
           IF returning THEN Back(c.heading) ELSE c.heading)

(* sample_rectangle: round the site, counterclockwise from the south-west corner *)
SampleRectangle(c, phase) ==
    LET distance == phase * c.speed
        east == c.size \div 2
        north == c.secondary \div 2
        Side(e, n, heading) == At(e, n, c.altitude, c.speed, 0, heading)
    IN  CASE distance < c.size -> Side(distance - east, -north, 90)
          [] distance >= c.size /\ distance < c.size + c.secondary ->
                Side(east, distance - c.size - north, 0)
          [] distance >= c.size + c.secondary /\ distance < 2 * c.size + c.secondary ->
                Side(east - (distance - c.size - c.secondary), north, 270)
          [] distance >= 2 * c.size + c.secondary ->
                Side(-east, north - (distance - 2 * c.size - c.secondary), 180)

(* sample_waypoints: along the first leg that reaches so far.  A leg without horizontal *)
(* length is skipped, its change of altitude too.                                        *)
SampleWaypoints(c, phase) ==
    LET distance == phase * c.speed
        leg == CHOOSE i \in Legs(c) :
                /\ LegLength(c, i) > 0 /\ distance <= LengthUpTo(c, i)
                /\ \A j \in 1 .. i - 1 : LegLength(c, j) = 0 \/ distance > LengthUpTo(c, j)
        from == c.waypoints[leg]
        length == LegLength(c, leg)
        flown == distance - LengthUpTo(c, leg - 1)
    IN  At(from.east + (DeltaEast(c, leg) * flown) \div length,
           from.north + (DeltaNorth(c, leg) * flown) \div length,
           from.up + (DeltaUp(c, leg) * flown) \div length,
           c.speed,
           (DeltaUp(c, leg) * c.speed) \div length,
           CHOOSE heading \in Headings :
                /\ East(heading) * length = DeltaEast(c, leg)
                /\ North(heading) * length = DeltaNorth(c, leg))

(* sample_mission: up, level, down, above the site *)
Mutant_Landing(c, sinceClimb) == c.altitude - sinceClimb * c.climb  \* forgets the cruise
Landing(c, sinceClimb) == c.altitude - (sinceClimb - c.cruise) * c.climb

SampleMission(c, phase) ==
    LET climbTime == c.altitude \div c.climb IN
    CASE phase < climbTime -> At(0, 0, phase * c.climb, 0, IF phase = 0 THEN 0 ELSE c.climb, 0)
      [] phase >= climbTime /\ phase < climbTime + c.cruise -> At(0, 0, c.altitude, 0, 0, 0)
      [] phase >= climbTime + c.cruise -> At(0, 0, Landing(c, phase - climbTime), 0, -c.climb, 0)

(* sample, at the time t that extend_elapsed returns *)
MotionOf(c, instance, t) ==
    LET phase == Phase(c, instance, t) IN
    CASE c.type = "Hover" -> SampleHover(c)
      [] c.type = "Line" -> SampleLine(c, phase)
      [] c.type = "Rectangle" -> SampleRectangle(c, phase)
      [] c.type = "WaypointLoop" -> SampleWaypoints(c, phase)
      [] c.type = "TakeoffCruiseLand" -> SampleMission(c, phase)
=============================================================================
