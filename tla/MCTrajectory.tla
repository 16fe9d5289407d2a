---------------------------- MODULE MCTrajectory ----------------------------
(* One trajectory of each type, and lines with other headings; the speeds do not divide the   *)
(* legs, so that corners and turning points lie between two samples as well as on them.         *)
EXTENDS Trajectory

(* Two groups: the first has two aircraft, the second one, which shares the entry of the *)
(* first group's first.                                                                    *)
MCAircraft == 1 .. 3
MCEntry == <<0, 2, 0>>

Hover == [type |-> "Hover", altitude |-> 5]
Line(size, speed, heading) ==
    [type |-> "Line", altitude |-> 5, size |-> size, speed |-> speed, heading |-> heading]
Rectangle(size, secondary, speed) ==
    [type |-> "Rectangle", altitude |-> 5, size |-> size, secondary |-> secondary, speed |-> speed]
Mission(altitude, climb, cruise) ==
    [type |-> "TakeoffCruiseLand", altitude |-> altitude, climb |-> climb, cruise |-> cruise]
Waypoints(points, speed) ==
    [type |-> "WaypointLoop", speed |-> speed,
     waypoints |-> [i \in DOMAIN points |->
                        [east |-> points[i][1], north |-> points[i][2], up |-> points[i][3]]]]

(* A slope up, a level leg, a slope down and a level leg; the last with a point given twice. *)
Slopes == <<<<0, 0, 2>>, <<6, 0, 8>>, <<6, 6, 8>>, <<0, 6, 2>>>>
Doubled == <<<<0, 0, 2>>, <<6, 0, 8>>, <<6, 0, 8>>, <<6, 6, 8>>, <<0, 6, 2>>>>

MCSmooth ==
    {Hover, Line(6, 1, 90), Line(6, 2, 0), Line(15, 5, 270), Line(9, 3, 180), Line(6, 1, 180),
     Rectangle(6, 6, 1), Rectangle(8, 10, 4), Rectangle(10, 2, 2),
     Mission(6, 2, 3), Mission(6, 1, 0), Mission(4, 2, 2),
     Waypoints(Slopes, 1), Waypoints(Slopes, 4), Waypoints(Doubled, 2)}

=============================================================================
