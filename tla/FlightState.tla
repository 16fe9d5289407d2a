----------------------------- MODULE FlightState -----------------------------
(***************************************************************************)
(* FlightState of components/rid_model, the state of an aircraft that both *)
(* encoders take, and the arithmetic they share.                           *)
(*                                                                         *)
(* The code computes in floating point.  Here a quantity is a number of    *)
(* ticks finer than any step of either protocol: eighths of a metre (and of *)
(* a metre per second, vertically), twentieths of a degree of heading,     *)
(* twentieths of a metre per second, milliseconds.  A coordinate would not *)
(* fit TLC's integers in such ticks; it is a number of 1e-7 degrees and    *)
(* quarters of one, counted upwards from there.                            *)
(***************************************************************************)
EXTENDS Integers

Metre == 8
HalfMetre == 4
Degree == 20
MetrePerSecond == 20                         \* of horizontal speed
HourMs == 3600000

Coordinates == [units : Int, quarters : 0 .. 3]
Points == [latitude : Coordinates, longitude : Coordinates]

(* "finite" stands for std::isfinite of every number. *)
FlightStates ==
    [position : Points, altitude : Int, height : Int, speed : Int, climb : Int,
     heading : Int, airborne : BOOLEAN, time : Nat, finite : BOOLEAN]

Within(c, limit) ==
    /\ c.units >= -limit
    /\ c.units < limit \/ (c.units = limit /\ c.quarters = 0)

ValidPoint(p) == Within(p.latitude, 900000000) /\ Within(p.longitude, 1800000000)

(* valid(const FlightState &) *)
ValidState(s) ==
    /\ s.finite
    /\ ValidPoint(s.position)
    /\ s.speed >= 0
    /\ s.heading >= 0 /\ s.heading < 360 * Degree

(* lround and round: to the nearest whole number, from the middle away from zero. *)
RoundOf(ticks, step) ==
    IF ticks >= 0 THEN (2 * ticks + step) \div (2 * step)
                  ELSE -((step - 2 * ticks) \div (2 * step))

RoundCoordinate(c) ==
    IF c.quarters > 2 \/ (c.quarters = 2 /\ c.units >= 0) THEN c.units + 1 ELSE c.units

Clamp(value, low, high) == IF value < low THEN low ELSE IF value > high THEN high ELSE value

-----------------------------------------------------------------------------
(* How far what a receiver reads may be from what was the case. *)
Near(read, ticks, step) == 2 * (read - ticks) <= step /\ 2 * (ticks - read) <= step

NearCoordinate(units, c) ==
    (units = c.units /\ c.quarters <= 2) \/ (units = c.units + 1 /\ c.quarters >= 2)
=============================================================================
