----------------------------- MODULE OdidEncoder -----------------------------
(***************************************************************************)
(* OdidEncoder (components/rid_odid/odid_encoder.cpp) over the vendored    *)
(* opendroneid-core-c, with the options Runtime gives it: the defaults and *)
(* the site as the position of the operator.  A message is its kind, its   *)
(* size and its numbers as they are in it; a pack holds the six messages.  *)
(* Identities always have their 20 characters, and the default texts, the  *)
(* authentication data and the area are within their limits.               *)
(***************************************************************************)
EXTENDS FlightState

OdidKinds == {"BasicId", "Location", "Authentication", "SelfId", "System", "OperatorId"}
MessageSize == 25
PackSize == 3 + 6 * MessageSize

MinAltitude == -1000 * Metre
MaxAltitude == 31767 * Metre + HalfMetre
MaxSpeed == 254 * MetrePerSecond + MetrePerSecond \div 4
InvalidSpeed == 255 * MetrePerSecond
MaxClimb == 62 * Metre
InvalidClimb == 63 * Metre

InAltitudeRange(a) == a >= MinAltitude /\ a <= MaxAltitude

(* The ranges encodeLocationMessage checks; a valid state satisfies those of the heading, *)
(* the position and the time of the hour.                                                  *)
CoreAccepts(s) ==
    /\ s.speed <= MaxSpeed \/ s.speed = InvalidSpeed
    /\ s.climb >= -MaxClimb
    /\ s.climb <= MaxClimb \/ s.climb = InvalidClimb
    /\ InAltitudeRange(s.altitude) /\ InAltitudeRange(s.height)

OdidAccepts(kind, s, site) ==
    /\ ValidState(s) /\ ValidPoint(site)
    /\ kind = "Location" => CoreAccepts(s)

PackAccepts(s, site) == \A kind \in OdidKinds : OdidAccepts(kind, s, site)

-----------------------------------------------------------------------------
(* The conversions of the core, each to the integers of its fields. *)
Mutant_WholeDegrees(heading) == RoundOf(heading, Degree)  \* 360 degrees stay what they are
WholeDegrees(heading) == LET d == RoundOf(heading, Degree) IN IF d = 360 THEN 0 ELSE d
EncodeDirection(heading) ==
    LET d == WholeDegrees(heading) IN
    IF d < 180 THEN [angle |-> d, west |-> FALSE]
               ELSE [angle |-> Clamp(d - 180, 0, 255), west |-> TRUE]

SmallStep == MetrePerSecond \div 4
LargeStep == 3 * SmallStep
EncodeSpeedHorizontal(speed) ==
    IF speed <= 255 * SmallStep
    THEN [value |-> RoundOf(speed, SmallStep), large |-> FALSE]
    ELSE [value |-> Clamp(RoundOf(speed - 255 * SmallStep, LargeStep), 0, 255), large |-> TRUE]

EncodeSpeedVertical(climb) == Clamp(RoundOf(climb, HalfMetre), -128, 127)
EncodeLatLon(c) == Clamp(RoundCoordinate(c), -1800000000, 1800000000)
OdidAltitude(altitude) == Clamp(RoundOf(altitude + 1000 * Metre, HalfMetre), 0, 65535)
EncodeTimeStamp(ms) == Clamp(RoundOf(ms, 100), 0, 36000)

OdidLocation(s) ==
    [direction |-> EncodeDirection(s.heading),
     speed |-> EncodeSpeedHorizontal(s.speed),
     vertical |-> EncodeSpeedVertical(s.climb),
     latitude |-> EncodeLatLon(s.position.latitude),
     longitude |-> EncodeLatLon(s.position.longitude),
     barometric |-> OdidAltitude(s.altitude),
     geodetic |-> OdidAltitude(s.altitude),
     height |-> OdidAltitude(s.height),
     time |-> EncodeTimeStamp(s.time % HourMs),
     airborne |-> s.airborne]

OdidSystem(site) ==
    [latitude |-> EncodeLatLon(site.latitude), longitude |-> EncodeLatLon(site.longitude)]

OdidEncode(kind, s, site) ==
    [kind |-> kind, size |-> MessageSize,
     fields |-> CASE kind = "Location" -> OdidLocation(s)
                  [] kind = "System" -> OdidSystem(site)
                  [] OTHER -> [text |-> 0]]

EncodePack(s, site) ==
    [kind |-> "Pack", size |-> PackSize,
     fields |-> [kind \in OdidKinds |-> OdidEncode(kind, s, site)]]

-----------------------------------------------------------------------------
(* The receiver: the decoders of the core, in ticks.  What says nothing is the greatest   *)
(* speed, a climb of 63 m/s and the least altitude.                                       *)
DecodeDirection(d) == (d.angle + (IF d.west THEN 180 ELSE 0)) * Degree
DecodeSpeedHorizontal(v) ==
    IF v.large THEN v.value * LargeStep + 255 * SmallStep ELSE v.value * SmallStep
DecodeSpeedVertical(raw) == raw * (HalfMetre)
DecodeAltitude(raw) == raw * (HalfMetre) - 1000 * Metre
DecodeTimeStamp(raw) == raw * 100
=============================================================================
