------------------------------ MODULE GbEncoder ------------------------------
(***************************************************************************)
(* GbEncoder (components/rid_gb/gb_encoder.cpp), with the options Runtime  *)
(* gives it: the defaults, and the site as the position of the ground      *)
(* station.  A message is its kind, the number of its identifier bytes,    *)
(* the length it declares, and its numbers as they are in it.  Identities  *)
(* always have their 20 characters and the registration mark its 8.        *)
(***************************************************************************)
EXTENDS FlightState

GbKinds == {"BasicId", "Location", "System", "OperatorId"}

GbMinAltitude == -1000 * Metre
GbMaxAltitude == 31767 * Metre + HalfMetre
MinRelativeAltitude == -9000 * Metre
MaxRelativeAltitude == 23767 * Metre + HalfMetre
MaxGroundSpeed == 131068                     \* 6553.4 m/s

U8(value) == value % 256
U16(value) == value % 65536

ValidAltitude(altitude) == altitude > GbMinAltitude /\ altitude <= GbMaxAltitude

(* The conversions of encode_location, each to the integer its field holds. *)
EncodeAltitude(altitude) == U16(RoundOf(altitude + 1000 * Metre, HalfMetre))
EncodeRelativeAltitude(height) == U16(RoundOf(height + 9000 * Metre, HalfMetre))
EncodeHeading(heading) == U16(RoundOf(heading, Degree \div 10))
EncodeGroundSpeed(speed) == U16(RoundOf(speed, MetrePerSecond \div 10))
Magnitude(climb) == U8(RoundOf(IF climb < 0 THEN -climb ELSE climb, HalfMetre))
EncodeVerticalSpeed(climb) ==
    LET m == Magnitude(climb) IN IF climb < 0 /\ m < 128 THEN m + 128 ELSE m   \* m | 0x80

(* The limits of the fields, which validate_inputs and encode_location check. *)
ValidRelative(height) == height > MinRelativeAltitude /\ height <= MaxRelativeAltitude

Mutant_ValidClimb(climb) ==  \* the limits of a magnitude of 7 bits
    climb >= -63 * Metre - HalfMetre /\ climb <= 63 * Metre + HalfMetre
ValidClimb(climb) == climb >= -63 * Metre /\ climb <= 63 * Metre + HalfMetre

InLocationRange(s) ==
    /\ ValidAltitude(s.altitude) /\ ValidRelative(s.height)
    /\ s.speed <= MaxGroundSpeed
    /\ ValidClimb(s.climb)

GbAccepts(kind, s, site) ==
    /\ ValidState(s) /\ ValidPoint(site)
    /\ kind \in GbKinds
    /\ kind = "Location" => InLocationRange(s)
    /\ kind = "System" => ValidAltitude(s.altitude)

GbLocation(s) ==
    [longitude |-> RoundCoordinate(s.position.longitude),
     latitude |-> RoundCoordinate(s.position.latitude),
     heading |-> EncodeHeading(s.heading),
     speed |-> EncodeGroundSpeed(s.speed),
     relative |-> EncodeRelativeAltitude(s.height),
     vertical |-> EncodeVerticalSpeed(s.climb),
     altitude |-> EncodeAltitude(s.altitude),
     barometric |-> EncodeAltitude(s.altitude),
     airborne |-> IF s.airborne THEN 1 ELSE 0]

GbSystem(s, site) ==
    [longitude |-> RoundCoordinate(site.longitude),
     latitude |-> RoundCoordinate(site.latitude),
     altitude |-> EncodeAltitude(s.altitude)]

(* What payload() puts around the content. *)
ContentSize(kind) ==
    CASE kind = "BasicId" -> 20 [] kind = "OperatorId" -> 8
      [] kind = "System" -> 3 + 2 * 4 + 2
      [] kind = "Location" -> 2 * 4 + 2 + 2 + 2 + 1 + 2 + 2 + 1 + 1 + 3 + 6 + 1
Identifiers(kind) == IF kind = "Location" THEN 3 ELSE 1

GbEncode(kind, s, site) ==
    [kind |-> kind,
     size |-> 3 + Identifiers(kind) + ContentSize(kind),
     length |-> U8(ContentSize(kind)),
     fields |-> CASE kind = "Location" -> GbLocation(s)
                  [] kind = "System" -> GbSystem(s, site)
                  [] OTHER -> [text |-> ContentSize(kind)]]

-----------------------------------------------------------------------------
(* The receiver, by the table of docs/protocol/gb46750-mapping.md: what a field says, in *)
(* ticks, and the value of each that says nothing.                                        *)
ReadAltitude(raw) == raw * (HalfMetre) - 1000 * Metre
ReadRelativeAltitude(raw) == raw * (HalfMetre) - 9000 * Metre
ReadHeading(raw) == raw * (Degree \div 10)
ReadGroundSpeed(raw) == raw * (MetrePerSecond \div 10)
ReadVerticalSpeed(raw) ==
    IF raw >= 128 THEN -(raw - 128) * (HalfMetre) ELSE raw * (HalfMetre)

NoCoordinate == -1                           \* 0xFFFFFFFF
NoAltitude == 0
NoHeading == 65535
NoGroundSpeed == 65535
NoVerticalSpeed == 255
=============================================================================
