----------------------------- MODULE MCEncoding -----------------------------
(* One quantity at a time is taken through the values at, before and after the limits of both *)
(* encoders, the middles between two steps and zero, the others staying as they are.           *)
EXTENDS Encoding

At(units, quarters) == [units |-> units, quarters |-> quarters]
Here == [latitude |-> At(312304000, 0), longitude |-> At(1214737000, 0)]

Plain ==
    [position |-> Here, altitude |-> 988, height |-> 400, speed |-> 246, climb |-> -20,
     heading |-> 1752, airborne |-> TRUE, time |-> 1000, finite |-> TRUE]

Around(values) == UNION {{v - 1, v, v + 1} : v \in values}

AltitudeEdges == Around({-8000, -7998, -7996, 0, 254138, 254140})
HeightEdges == Around({-72000, -71998, -8000, 0, 190140, 254140})
SpeedEdges == Around({0, 2, 1275, 1282, 5085, 5100, 131068})
ClimbEdges == Around({-508, -504, -496, -2, 2, 496, 504, 508})
HeadingEdges == Around({0, 10, 3590, 3600, 7189, 7199})
TimeEdges == Around({0 + 1, 50, 3599950, 3600000})
Limits(limit) == {-limit - 1, -limit, -2, -1, 0, limit - 1, limit}
Edges(limit) == {At(u, q) : u \in Limits(limit), q \in 0 .. 3}

MCStates ==
    {Plain, [Plain EXCEPT !.finite = FALSE], [Plain EXCEPT !.airborne = FALSE]}
    \cup {[Plain EXCEPT !.altitude = v] : v \in AltitudeEdges}
    \cup {[Plain EXCEPT !.height = v] : v \in HeightEdges}
    \cup {[Plain EXCEPT !.speed = v] : v \in SpeedEdges}
    \cup {[Plain EXCEPT !.climb = v] : v \in ClimbEdges}
    \cup {[Plain EXCEPT !.heading = v] : v \in HeadingEdges}
    \cup {[Plain EXCEPT !.time = v] : v \in TimeEdges}
    \cup {[Plain EXCEPT !.position.latitude = v] : v \in Edges(900000000)}
    \cup {[Plain EXCEPT !.position.longitude = v] : v \in Edges(1800000000)}

MCSites ==
    {Here, [latitude |-> At(-900000000, 0), longitude |-> At(-1800000000, 0)],
     [latitude |-> At(-1, 2), longitude |-> At(1799999999, 3)]}
=============================================================================
