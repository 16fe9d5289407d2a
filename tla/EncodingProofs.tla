--------------------------- MODULE EncodingProofs ---------------------------
(***************************************************************************)
(* What a receiver reads is what was sampled, for every flight state, not  *)
(* only those at the limits that the run takes.  The arithmetic is proved  *)
(* per step of a field; the invariant says that a message on its way is    *)
(* what the encoder makes of the state it was sampled for.                 *)
(***************************************************************************)
EXTENDS Encoding, TLAPS

(* Rounding to a multiple of any step the protocols have misses by half a step at most. *)
LEMMA RoundIsNear ==
    ASSUME NEW t \in Int
    PROVE  /\ RoundOf(t, 2) \in Int /\ Near(RoundOf(t, 2) * 2, t, 2)
           /\ RoundOf(t, 4) \in Int /\ Near(RoundOf(t, 4) * 4, t, 4)
           /\ RoundOf(t, 5) \in Int /\ Near(RoundOf(t, 5) * 5, t, 5)
           /\ RoundOf(t, 15) \in Int /\ Near(RoundOf(t, 15) * 15, t, 15)
           /\ RoundOf(t, 20) \in Int /\ Near(RoundOf(t, 20) * 20, t, 20)
           /\ RoundOf(t, 100) \in Int /\ Near(RoundOf(t, 100) * 100, t, 100)
<1>1. RoundOf(t, 2) \in Int /\ Near(RoundOf(t, 2) * 2, t, 2)
  BY DEF RoundOf, Near
<1>2. RoundOf(t, 4) \in Int /\ Near(RoundOf(t, 4) * 4, t, 4)
  BY DEF RoundOf, Near
<1>3. RoundOf(t, 5) \in Int /\ Near(RoundOf(t, 5) * 5, t, 5)
  BY DEF RoundOf, Near
<1>4. RoundOf(t, 15) \in Int /\ Near(RoundOf(t, 15) * 15, t, 15)
  BY DEF RoundOf, Near
<1>5. RoundOf(t, 20) \in Int /\ Near(RoundOf(t, 20) * 20, t, 20)
  BY DEF RoundOf, Near
<1>6. RoundOf(t, 100) \in Int /\ Near(RoundOf(t, 100) * 100, t, 100)
  BY DEF RoundOf, Near
<1> QED BY <1>1, <1>2, <1>3, <1>4, <1>5, <1>6

(* So does the rounding of a coordinate, which a valid one does not take past its limit. *)
LEMMA CoordinateIsNear ==
    ASSUME NEW c \in Coordinates
    PROVE  /\ RoundCoordinate(c) \in Int
           /\ NearCoordinate(RoundCoordinate(c), c)
           /\ \A limit \in Int :
                Within(c, limit) =>
                    RoundCoordinate(c) >= -limit /\ RoundCoordinate(c) <= limit
  BY DEF Coordinates, RoundCoordinate, NearCoordinate, Within

(* The state and the site of a behaviour never change. *)
Inputs == job \in Jobs /\ state \in FlightStates /\ site \in Points /\ ValidPoint(site)

(* A message on its way is what the encoder made of the state, which it accepts. *)
FromState ==
    phase \in {"encoded", "framed", "submitted"} => Accepts /\ message = Encoded

IInv == Inputs /\ FromState

(* Nothing is on its way at first. *)
LEMMA InitIInv == Init => IInv
  BY InputsAssumption DEF Init, IInv, Inputs, FromState

(* Encode makes the message, and later steps leave it and the inputs alone. *)
LEMMA StepIInv == IInv /\ [Next]_vars => IInv'
<1> SUFFICES ASSUME IInv, [Next]_vars PROVE IInv'
  OBVIOUS
<1>1. CASE Encode
  BY <1>1 DEF Encode, IInv, Inputs, FromState, Accepts, Encoded
<1>2. CASE BuildFrame
  BY <1>2 DEF BuildFrame, IInv, Inputs, FromState, Accepts, Encoded
<1>3. CASE Submit
  BY <1>3 DEF Submit, IInv, Inputs, FromState, Accepts, Encoded
<1>4. CASE UNCHANGED vars
  BY <1>4 DEF vars, IInv, Inputs, FromState, Accepts, Encoded
<1> QED BY <1>1, <1>2, <1>3, <1>4 DEF Next

(* The invariant: a message on its way is the encoding of the state it was sampled for. *)
THEOREM MessageIsOfState == Spec => []IInv
  BY InitIInv, StepIInv, PTL DEF Spec

(* The position and the numbers of a GB location message, for each state it accepts. *)
LEMMA PointNear ==
    ASSUME NEW p \in Points, ValidPoint(p)
    PROVE  /\ NearCoordinate(RoundCoordinate(p.longitude), p.longitude)
           /\ NearCoordinate(RoundCoordinate(p.latitude), p.latitude)
           /\ EncodeLatLon(p.longitude) = RoundCoordinate(p.longitude)
           /\ EncodeLatLon(p.latitude) = RoundCoordinate(p.latitude)
<1>1. p.longitude \in Coordinates /\ p.latitude \in Coordinates
  BY DEF Points
<1>2. /\ RoundCoordinate(p.longitude) \in Int
      /\ RoundCoordinate(p.longitude) >= -1800000000
      /\ RoundCoordinate(p.longitude) <= 1800000000
  BY <1>1, CoordinateIsNear DEF ValidPoint
<1>3. /\ RoundCoordinate(p.latitude) \in Int
      /\ RoundCoordinate(p.latitude) >= -900000000
      /\ RoundCoordinate(p.latitude) <= 900000000
  BY <1>1, CoordinateIsNear DEF ValidPoint
<1> QED BY <1>1, <1>2, <1>3, CoordinateIsNear DEF EncodeLatLon, Clamp

(* The fields of GB 46750 that are integers, each with its step, its range and its "unknown". *)
LEMMA GbFieldsNear ==
    ASSUME NEW s \in FlightStates, ValidState(s)
    PROVE  /\ Near(ReadHeading(EncodeHeading(s.heading)), s.heading, Degree \div 10)
           /\ EncodeHeading(s.heading) # NoHeading
           /\ ValidAltitude(s.altitude) =>
                /\ Near(ReadAltitude(EncodeAltitude(s.altitude)), s.altitude, HalfMetre)
                /\ EncodeAltitude(s.altitude) = NoAltitude => AtBottom(s.altitude, GbMinAltitude)
           /\ ValidRelative(s.height) =>
                /\ Near(ReadRelativeAltitude(EncodeRelativeAltitude(s.height)), s.height, HalfMetre)
                /\ EncodeRelativeAltitude(s.height) = NoAltitude =>
                        AtBottom(s.height, MinRelativeAltitude)
           /\ s.speed <= MaxGroundSpeed =>
                /\ Near(ReadGroundSpeed(EncodeGroundSpeed(s.speed)), s.speed, MetrePerSecond \div 10)
                /\ EncodeGroundSpeed(s.speed) # NoGroundSpeed
           /\ ValidClimb(s.climb) =>
                /\ Near(ReadVerticalSpeed(EncodeVerticalSpeed(s.climb)), s.climb, HalfMetre)
                /\ EncodeVerticalSpeed(s.climb) # NoVerticalSpeed
<1> /\ s.heading \in Int /\ s.altitude \in Int /\ s.height \in Int
    /\ s.speed \in Int /\ s.climb \in Int
    /\ s.heading >= 0 /\ s.heading < 7200 /\ s.speed >= 0
  BY DEF FlightStates, ValidState, Degree
<1>1. /\ Near(ReadHeading(EncodeHeading(s.heading)), s.heading, Degree \div 10)
      /\ EncodeHeading(s.heading) # NoHeading
  BY DEF Near, ReadHeading, EncodeHeading, NoHeading, U16, RoundOf, Degree
<1>2. ASSUME ValidAltitude(s.altitude)
      PROVE  /\ Near(ReadAltitude(EncodeAltitude(s.altitude)), s.altitude, HalfMetre)
             /\ EncodeAltitude(s.altitude) = NoAltitude => AtBottom(s.altitude, GbMinAltitude)
  BY <1>2 DEF ValidAltitude, Near, ReadAltitude, EncodeAltitude, NoAltitude, AtBottom, U16,
              RoundOf, Metre, HalfMetre, GbMinAltitude, GbMaxAltitude
<1>3. ASSUME ValidRelative(s.height)
      PROVE  /\ Near(ReadRelativeAltitude(EncodeRelativeAltitude(s.height)), s.height, HalfMetre)
             /\ EncodeRelativeAltitude(s.height) = NoAltitude =>
                    AtBottom(s.height, MinRelativeAltitude)
  BY <1>3 DEF ValidRelative, Near, ReadRelativeAltitude, EncodeRelativeAltitude, NoAltitude,
              AtBottom, U16, RoundOf, Metre, HalfMetre, MinRelativeAltitude, MaxRelativeAltitude
<1>4. ASSUME s.speed <= MaxGroundSpeed
      PROVE  /\ Near(ReadGroundSpeed(EncodeGroundSpeed(s.speed)), s.speed, MetrePerSecond \div 10)
             /\ EncodeGroundSpeed(s.speed) # NoGroundSpeed
  BY <1>4 DEF MaxGroundSpeed, Near, ReadGroundSpeed, EncodeGroundSpeed, NoGroundSpeed, U16,
              RoundOf, MetrePerSecond
<1>5. ASSUME ValidClimb(s.climb)
      PROVE  /\ Near(ReadVerticalSpeed(EncodeVerticalSpeed(s.climb)), s.climb, HalfMetre)
             /\ EncodeVerticalSpeed(s.climb) # NoVerticalSpeed
  BY <1>5 DEF ValidClimb, Near, ReadVerticalSpeed, EncodeVerticalSpeed, Magnitude, U8,
              NoVerticalSpeed, RoundOf, Metre, HalfMetre
<1> QED BY <1>1, <1>2, <1>3, <1>4, <1>5

(* The conversions of the core that clamp what they round, each in its range. *)
LEMMA OdidAltitudeNear ==
    ASSUME NEW a \in Int, InAltitudeRange(a)
    PROVE  /\ Near(DecodeAltitude(OdidAltitude(a)), a, HalfMetre)
           /\ DecodeAltitude(OdidAltitude(a)) = MinAltitude => AtBottom(a, MinAltitude)
<1> DEFINE r == RoundOf(a + 8000, 4)
<1>0. MinAltitude = -8000 /\ MaxAltitude = 254140
  BY SMT DEF MinAltitude, MaxAltitude, Metre, HalfMetre
<1>1. a >= -8000 /\ a <= 254140
  BY SMT, <1>0 DEF InAltitudeRange
<1>2. r \in Int /\ r >= 0 /\ r <= 65535 /\ Near(r * 4, a + 8000, 4)
  BY SMT, <1>1 DEF RoundOf, Near
<1>3. OdidAltitude(a) = r
  BY SMT, <1>2 DEF OdidAltitude, Clamp, Metre, HalfMetre
<1> HIDE DEF r
<1>4. DecodeAltitude(OdidAltitude(a)) = r * 4 - 8000
  BY SMT, <1>2, <1>3 DEF DecodeAltitude, Metre, HalfMetre
<1> QED BY SMT, <1>0, <1>1, <1>2, <1>4 DEF Near, AtBottom, Metre, HalfMetre

(* The time stamp of OpenDroneID, in tenths of a second of the hour. *)
LEMMA TimeNear ==
    ASSUME NEW ms \in Int, ms >= 0, ms < HourMs
    PROVE  Near(DecodeTimeStamp(EncodeTimeStamp(ms)), ms, 100)
<1> DEFINE r == RoundOf(ms, 100)
<1>1. r \in Int /\ r >= 0 /\ r <= 36000 /\ Near(r * 100, ms, 100)
  BY SMT DEF RoundOf, Near, HourMs
<1>2. EncodeTimeStamp(ms) = r
  BY SMT, <1>1 DEF EncodeTimeStamp, Clamp
<1> QED BY SMT, <1>1, <1>2 DEF DecodeTimeStamp

(* The speed of OpenDroneID, which has a fine and a coarse range. *)
LEMMA SpeedNear ==
    ASSUME NEW speed \in Int, speed >= 0, speed <= MaxSpeed \/ speed = InvalidSpeed
    PROVE  LET v == EncodeSpeedHorizontal(speed) IN
           /\ Near(DecodeSpeedHorizontal(v), speed, IF v.large THEN LargeStep ELSE SmallStep)
           /\ DecodeSpeedHorizontal(v) = InvalidSpeed => speed = InvalidSpeed
<1> SmallStep = 5 /\ LargeStep = 15
  BY SMT DEF SmallStep, LargeStep, MetrePerSecond
<1>0. InvalidSpeed = 5100 /\ (speed <= 5085 \/ speed = 5100)
  BY SMT DEF MaxSpeed, InvalidSpeed, MetrePerSecond
<1>1. CASE speed <= 1275
  <2> DEFINE r == RoundOf(speed, 5)
  <2>1. r \in Int /\ r <= 255 /\ Near(r * 5, speed, 5)
    BY SMT, <1>1 DEF RoundOf, Near
  <2>2. EncodeSpeedHorizontal(speed) = [value |-> r, large |-> FALSE]
    BY <1>1 DEF EncodeSpeedHorizontal
  <2> HIDE DEF r
  <2>3. DecodeSpeedHorizontal([value |-> r, large |-> FALSE]) = r * 5
    BY DEF DecodeSpeedHorizontal
  <2>4. r * 5 # InvalidSpeed
    BY SMT, <1>0, <2>1
  <2> QED BY <2>1, <2>2, <2>3, <2>4
<1>2. CASE speed > 1275
  <2> DEFINE r == RoundOf(speed - 1275, 15)
  <2>1. r \in Int /\ r >= 0 /\ r <= 255 /\ Near(r * 15, speed - 1275, 15)
    BY SMT, <1>0, <1>2 DEF RoundOf, Near
  <2>2. Clamp(r, 0, 255) = r
    BY SMT, <2>1 DEF Clamp
  <2>3. /\ ~(speed <= 255 * SmallStep)
        /\ Clamp(RoundOf(speed - 255 * SmallStep, LargeStep), 0, 255) = r
    BY SMT, <1>2, <2>2
  <2> HIDE DEF r
  <2>4. EncodeSpeedHorizontal(speed) = [value |-> r, large |-> TRUE]
    BY Zenon, <2>3 DEF EncodeSpeedHorizontal
  <2>5. DecodeSpeedHorizontal([value |-> r, large |-> TRUE]) = r * 15 + 255 * 5
    BY DEF DecodeSpeedHorizontal
  <2>6. /\ Near(r * 15 + 255 * 5, speed, 15)
        /\ r * 15 + 255 * 5 = InvalidSpeed => speed = InvalidSpeed
    BY SMT, <1>0, <2>1 DEF Near
  <2> QED BY <2>4, <2>5, <2>6
<1> QED BY <1>1, <1>2

(* The same of an OpenDroneID location message. *)
LEMMA OdidFieldsNear ==
    ASSUME NEW s \in FlightStates, ValidState(s), CoreAccepts(s)
    PROVE  /\ DecodeDirection(EncodeDirection(s.heading)) < 360 * Degree
           /\ \E turn \in {0, 360 * Degree} :
                Near(DecodeDirection(EncodeDirection(s.heading)) + turn, s.heading, Degree)
           /\ LET v == EncodeSpeedHorizontal(s.speed) IN
                /\ Near(DecodeSpeedHorizontal(v), s.speed,
                        IF v.large THEN LargeStep ELSE SmallStep)
                /\ DecodeSpeedHorizontal(v) = InvalidSpeed => s.speed = InvalidSpeed
           /\ LET v == EncodeSpeedVertical(s.climb) IN
                /\ Near(DecodeSpeedVertical(v), s.climb, HalfMetre)
                /\ DecodeSpeedVertical(v) = InvalidClimb => s.climb = InvalidClimb
           /\ \A a \in {s.altitude, s.height} :
                /\ Near(DecodeAltitude(OdidAltitude(a)), a, HalfMetre)
                /\ DecodeAltitude(OdidAltitude(a)) = MinAltitude => AtBottom(a, MinAltitude)
           /\ Near(DecodeTimeStamp(EncodeTimeStamp(s.time % HourMs)), s.time % HourMs, 100)
<1> /\ s.heading \in Int /\ s.altitude \in Int /\ s.height \in Int
    /\ s.speed \in Int /\ s.climb \in Int /\ s.time \in Nat
    /\ s.heading >= 0 /\ s.heading < 7200 /\ s.speed >= 0
  BY DEF FlightStates, ValidState, Degree
<1>1. /\ DecodeDirection(EncodeDirection(s.heading)) < 360 * Degree
      /\ \E turn \in {0, 360 * Degree} :
            Near(DecodeDirection(EncodeDirection(s.heading)) + turn, s.heading, Degree)
  <2> DEFINE d == RoundOf(s.heading, 20)
  <2>1. d \in 0 .. 360 /\ Near(d * 20, s.heading, 20)
    BY DEF RoundOf, Near
  <2> HIDE DEF d
  <2>2. CASE d = 360
    <3>1. WholeDegrees(s.heading) = 0
      BY <2>2 DEF WholeDegrees, Degree, d
    <3>2. DecodeDirection(EncodeDirection(s.heading)) = 0
      BY <3>1 DEF EncodeDirection, DecodeDirection, Degree
    <3> QED BY <2>1, <2>2, <3>2 DEF Near, Degree
  <2>3. CASE d # 360
    <3>1. WholeDegrees(s.heading) = d
      BY <2>3 DEF WholeDegrees, Degree, d
    <3>2. DecodeDirection(EncodeDirection(s.heading)) = d * 20
      BY <2>1, <2>3, <3>1 DEF EncodeDirection, DecodeDirection, Degree, Clamp
    <3> QED BY <2>1, <2>3, <3>2 DEF Near, Degree
  <2> QED BY <2>2, <2>3
<1>2. LET v == EncodeSpeedHorizontal(s.speed) IN
        /\ Near(DecodeSpeedHorizontal(v), s.speed, IF v.large THEN LargeStep ELSE SmallStep)
        /\ DecodeSpeedHorizontal(v) = InvalidSpeed => s.speed = InvalidSpeed
  BY SpeedNear DEF CoreAccepts
<1>3. LET v == EncodeSpeedVertical(s.climb) IN
        /\ Near(DecodeSpeedVertical(v), s.climb, HalfMetre)
        /\ DecodeSpeedVertical(v) = InvalidClimb => s.climb = InvalidClimb
  BY DEF CoreAccepts, MaxClimb, InvalidClimb, EncodeSpeedVertical, DecodeSpeedVertical, Clamp,
         RoundOf, Near, Metre, HalfMetre
<1>4. \A a \in {s.altitude, s.height} :
        /\ Near(DecodeAltitude(OdidAltitude(a)), a, HalfMetre)
        /\ DecodeAltitude(OdidAltitude(a)) = MinAltitude => AtBottom(a, MinAltitude)
  BY OdidAltitudeNear DEF CoreAccepts
<1>5. Near(DecodeTimeStamp(EncodeTimeStamp(s.time % HourMs)), s.time % HourMs, 100)
  <2>1. s.time % HourMs \in Int /\ s.time % HourMs >= 0 /\ s.time % HourMs < HourMs
    BY SMT DEF HourMs
  <2> QED BY <2>1, TimeNear
<1> QED BY <1>1, <1>2, <1>3, <1>4, <1>5

-----------------------------------------------------------------------------
(* What a message on the air holds, by the protocol and the kind. *)
LEMMA GbOnAir ==
    ASSUME IInv
    PROVE  /\ OnAir("Gb46750", "Location") =>
                FieldsOf("Location") = GbLocation(state) /\ ValidState(state)
                    /\ InLocationRange(state)
           /\ OnAir("Gb46750", "System") =>
                FieldsOf("System") = GbSystem(state, site) /\ ValidAltitude(state.altitude)
  BY DEF IInv, Inputs, Jobs, OdidKinds, FromState, OnAir, FieldsOf, Accepts, Encoded, GbAccepts,
         GbEncode

(* What an OpenDroneID receiver decodes is what the encoder was given, which the core accepts. *)
LEMMA OdidOnAir ==
    ASSUME IInv
    PROVE  /\ OnAir("OpenDroneId", "Location") =>
                FieldsOf("Location") = OdidLocation(state) /\ ValidState(state)
                    /\ CoreAccepts(state)
           /\ OnAir("OpenDroneId", "System") => FieldsOf("System") = OdidSystem(site)
<1>1. OdidEncode("Location", state, site).fields = OdidLocation(state)
  BY DEF OdidEncode
<1>2. OdidEncode("System", state, site).fields = OdidSystem(site)
  BY DEF OdidEncode
<1>3. ASSUME job.kind = "Pack", NEW k \in OdidKinds
      PROVE  EncodePack(state, site).fields[k].fields = OdidEncode(k, state, site).fields
  BY DEF EncodePack
<1>4. ASSUME PackAccepts(state, site) PROVE ValidState(state) /\ CoreAccepts(state)
  BY <1>4 DEF PackAccepts, OdidAccepts, OdidKinds
<1>5. "Location" \in OdidKinds /\ "System" \in OdidKinds /\ "Pack" \notin OdidKinds
  BY DEF OdidKinds
<1>6. CASE job.kind = "Pack"
  BY <1>1, <1>2, <1>3, <1>4, <1>5, <1>6 DEF IInv, FromState, OnAir, FieldsOf, Accepts, Encoded
<1>7. CASE job.kind # "Pack"
  BY <1>1, <1>2, <1>7 DEF IInv, FromState, OnAir, FieldsOf, Accepts, Encoded, OdidAccepts
<1> QED BY <1>6, <1>7

(* A receiver reads from every GB message what was sampled, to half a step of the field. *)
THEOREM GbMessageReadsBack == Spec => []GbReadsBack
<1>1. IInv => GbReadsBack
  <2> SUFFICES ASSUME IInv PROVE GbReadsBack
    OBVIOUS
  <2> state \in FlightStates /\ state.position \in Points /\ site \in Points
    BY DEF IInv, Inputs, FlightStates
  <2>1. ASSUME OnAir("Gb46750", "Location")
        PROVE  GbLocationReadsBack(FieldsOf("Location"), state)
    <3>1. /\ FieldsOf("Location") = GbLocation(state)
          /\ ValidState(state) /\ InLocationRange(state)
      BY <2>1, GbOnAir
    <3>2. PointReadsBack(GbLocation(state), state.position)
      BY <3>1, PointNear DEF PointReadsBack, GbLocation, ValidState
    <3> QED BY <3>1, <3>2, GbFieldsNear DEF GbLocationReadsBack, GbLocation, InLocationRange
  <2>2. ASSUME OnAir("Gb46750", "System")
        PROVE  /\ PointReadsBack(FieldsOf("System"), site)
               /\ Near(ReadAltitude(FieldsOf("System").altitude), state.altitude, HalfMetre)
    <3>1. /\ FieldsOf("System") = GbSystem(state, site)
          /\ ValidAltitude(state.altitude) /\ ValidPoint(site) /\ ValidState(state)
      BY <2>2, GbOnAir DEF IInv, Inputs, FromState, OnAir, Accepts, GbAccepts
    <3> QED BY <3>1, PointNear, GbFieldsNear DEF PointReadsBack, GbSystem
  <2> QED BY <2>1, <2>2 DEF GbReadsBack
<1> QED BY <1>1, MessageIsOfState, PTL

(* The same of every OpenDroneID message, alone or in a pack. *)
THEOREM OdidMessageReadsBack == Spec => []OdidReadsBack
<1>1. IInv => OdidReadsBack
  <2> SUFFICES ASSUME IInv PROVE OdidReadsBack
    OBVIOUS
  <2> state \in FlightStates /\ state.position \in Points /\ site \in Points
    BY DEF IInv, Inputs, FlightStates
  <2>1. ASSUME OnAir("OpenDroneId", "Location")
        PROVE  OdidLocationReadsBack(FieldsOf("Location"), state)
    <3>1. /\ FieldsOf("Location") = OdidLocation(state)
          /\ ValidState(state) /\ CoreAccepts(state)
      BY <2>1, OdidOnAir
    <3>2. PointReadsBack(OdidLocation(state), state.position)
      BY <3>1, PointNear DEF PointReadsBack, OdidLocation, ValidState
    <3> QED BY <3>1, <3>2, OdidFieldsNear DEF OdidLocationReadsBack, OdidLocation
  <2>2. ASSUME OnAir("OpenDroneId", "System")
        PROVE  PointReadsBack(FieldsOf("System"), site)
    BY <2>2, OdidOnAir, PointNear DEF PointReadsBack, OdidSystem, IInv, Inputs
  <2> QED BY <2>1, <2>2 DEF OdidReadsBack
<1> QED BY <1>1, MessageIsOfState, PTL

(* Both protocols: what a receiver reads is what TrajectoryEngine sampled (runtime.cpp:103-197). *)
THEOREM MessageIsRead == Spec => []MessageReadsBack
  BY GbMessageReadsBack, OdidMessageReadsBack, PTL DEF MessageReadsBack

(* No quantity that lies within its range is sent as unknown, but at the very edge. *)
THEOREM SentAsKnown == Spec => []UnknownOnlyAtEdge
<1>1. IInv => UnknownOnlyAtEdge
  <2> SUFFICES ASSUME IInv PROVE UnknownOnlyAtEdge
    OBVIOUS
  <2> state \in FlightStates
    BY DEF IInv, Inputs
  <2>1. ASSUME OnAir("Gb46750", "Location")
        PROVE  LET f == FieldsOf("Location") IN
               /\ f.heading # NoHeading /\ f.speed # NoGroundSpeed
               /\ f.vertical # NoVerticalSpeed
               /\ f.latitude = NoCoordinate => NearCoordinate(-1, state.position.latitude)
               /\ f.longitude = NoCoordinate => NearCoordinate(-1, state.position.longitude)
               /\ f.altitude = NoAltitude => AtBottom(state.altitude, GbMinAltitude)
               /\ f.relative = NoAltitude => AtBottom(state.height, MinRelativeAltitude)
    <3>1. /\ FieldsOf("Location") = GbLocation(state)
          /\ ValidState(state) /\ InLocationRange(state)
      BY <2>1, GbOnAir
    <3>2. PointReadsBack(GbLocation(state), state.position)
      BY <3>1, PointNear DEF PointReadsBack, GbLocation, ValidState, FlightStates
    <3> QED BY <3>1, <3>2, GbFieldsNear
            DEF GbLocation, InLocationRange, PointReadsBack, NoCoordinate
  <2>2. ASSUME OnAir("OpenDroneId", "Location")
        PROVE  LET f == FieldsOf("Location") IN
               /\ DecodeSpeedHorizontal(f.speed) = InvalidSpeed => state.speed = InvalidSpeed
               /\ DecodeSpeedVertical(f.vertical) = InvalidClimb => state.climb = InvalidClimb
               /\ DecodeAltitude(f.geodetic) = MinAltitude =>
                    AtBottom(state.altitude, MinAltitude)
               /\ DecodeAltitude(f.height) = MinAltitude => AtBottom(state.height, MinAltitude)
    BY <2>2, OdidOnAir, OdidFieldsNear DEF OdidLocation
  <2> QED BY <2>1, <2>2 DEF UnknownOnlyAtEdge
<1> QED BY <1>1, MessageIsOfState, PTL

-----------------------------------------------------------------------------
(* A message that is encoded has a size its builder takes, and the frame then one the *)
(* transport takes.                                                                    *)
LEMMA SizesFit ==
    ASSUME IInv, phase = "encoded"
    PROVE  BuilderAccepts /\ Framed.size \in 1 .. Limit[job.carrier]
<1>1. CASE job.protocol = "Gb46750"
  <2>1. job.carrier = "Wifi"
    BY <1>1 DEF IInv, Inputs, Jobs
  <2>2. job.kind \in GbKinds /\ message = GbEncode(job.kind, state, site)
    <3>1. Accepts /\ message = Encoded
      BY DEF IInv, FromState
    <3>2. GbAccepts(job.kind, state, site)
      BY <1>1, <3>1 DEF Accepts
    <3>3. Encoded = GbEncode(job.kind, state, site)
      BY <1>1 DEF Encoded
    <3> QED BY <3>1, <3>2, <3>3 DEF GbAccepts
  <2>3. message.size \in {12, 17, 24, 37}
    BY <2>2 DEF GbEncode, GbKinds, Identifiers, ContentSize
  <2>4. BeaconSize(message.size) = 68 + message.size
    BY <2>3 DEF BeaconSize, BeaconFixedSize, SsidSize, VendorHeaderSize
  <2>5. GbBeaconAccepts(message.size)
    BY <2>3, <2>4 DEF GbBeaconAccepts, SsidSize, MaxGbVendorPayloadSize, MaxWifiFrameSize
  <2>6. Framed.size = 68 + message.size
    BY <2>1, <2>4 DEF Framed, GbBeacon
  <2>7. Limit[job.carrier] = 512
    BY <2>1 DEF Limit, MaxWifiFrameSize
  <2>8. BuilderAccepts
    BY <1>1, <2>5 DEF BuilderAccepts
  <2> QED BY <2>3, <2>6, <2>7, <2>8
<1>2. CASE job.protocol # "Gb46750" /\ job.kind = "Pack"
  <2>1. job.carrier \in {"Ble5", "Wifi"} /\ message.size = 153
    BY <1>2 DEF IInv, Inputs, Jobs, OdidKinds, FromState, Encoded, EncodePack, PackSize,
                MessageSize
  <2> QED BY <1>2, <2>1
      DEF BuilderAccepts, Framed, Limit, OdidBeaconAccepts, IsPackSize, GbBeaconAccepts, GbBeacon,
          BeaconSize, BeaconFixedSize, SsidSize, VendorHeaderSize, MaxGbVendorPayloadSize,
          MaxWifiFrameSize, ServiceDataAccepts, ServiceData, OpenDroneIdMaxEncodedSize,
          BleExtendedMaxPayloadSize
<1>3. CASE job.protocol # "Gb46750" /\ job.kind # "Pack"
  <2>1. job.carrier = "Ble4" /\ message.size = 25
    BY <1>3 DEF IInv, Inputs, Jobs, FromState, Encoded, OdidEncode, MessageSize
  <2> QED BY <1>3, <2>1
      DEF BuilderAccepts, Framed, Limit, ServiceDataAccepts, ServiceData,
          OpenDroneIdMaxEncodedSize, BleLegacyMaxPayloadSize
<1> QED BY <1>1, <1>2, <1>3

FrameFits == phase = "framed" => frame.size \in 1 .. Limit[job.carrier]

(* What an encoder returns is never refused by the builder of the frame or the transport. *)
THEOREM EncodedIsSent == Spec => EncodedFits
<1>1. Init => FrameFits
  BY DEF Init, FrameFits
<1>2. IInv /\ FrameFits /\ [Next]_vars => FrameFits'
  <2> SUFFICES ASSUME IInv, FrameFits, [Next]_vars PROVE FrameFits'
    OBVIOUS
  <2>1. CASE Encode
    BY <2>1 DEF Encode, FrameFits
  <2>2. CASE BuildFrame
    BY <2>2, SizesFit DEF BuildFrame, FrameFits
  <2>3. CASE Submit
    BY <2>3 DEF Submit, FrameFits
  <2>4. CASE UNCHANGED vars
    BY <2>4 DEF vars, FrameFits
  <2> QED BY <2>1, <2>2, <2>3, <2>4 DEF Next
<1>3. IInv /\ FrameFits /\ [Next]_vars =>
        [(phase \in {"encoded", "framed"}) => phase' # "dropped"]_vars
  <2> SUFFICES ASSUME IInv, FrameFits, Next, phase \in {"encoded", "framed"}
               PROVE  phase' # "dropped"
    OBVIOUS
  <2>1. CASE Encode
    BY <2>1 DEF Encode
  <2>2. CASE BuildFrame
    BY <2>2, SizesFit DEF BuildFrame
  <2>3. CASE Submit
    BY <2>3 DEF Submit, FrameFits
  <2> QED BY <2>1, <2>2, <2>3 DEF Next
<1> QED BY <1>1, <1>2, <1>3, MessageIsOfState, PTL DEF Spec, EncodedFits

-----------------------------------------------------------------------------
(* Where the elements of a beacon end, one after the other. *)
LEMMA EndsOfThree ==
    ASSUME NEW beacon, NEW start \in Int, NEW a, NEW b, NEW c,
           beacon.elements = <<a, b, c>>,
           a.length \in Int, b.length \in Int, c.length \in Int
    PROVE  /\ EndOf(beacon, start, 1) = start + 2 + a.length
           /\ EndOf(beacon, start, 2) = start + 4 + a.length + b.length
           /\ EndOf(beacon, start, 3) = start + 6 + a.length + b.length + c.length
<1> DEFINE Unfold(f) == [i \in 0 .. Len(beacon.elements) |->
                            IF i = 0 THEN start ELSE f[i - 1] + 2 + beacon.elements[i].length]
           ends == CHOOSE f : f = Unfold(f)
           g == [i \in 0 .. 3 |-> CASE i = 0 -> start
                                    [] i = 1 -> start + 2 + a.length
                                    [] i = 2 -> start + 4 + a.length + b.length
                                    [] i = 3 -> start + 6 + a.length + b.length + c.length]
<1>1. Len(beacon.elements) = 3
      /\ beacon.elements[1] = a /\ beacon.elements[2] = b /\ beacon.elements[3] = c
  OBVIOUS
<1>2. g = Unfold(g)
  <2>1. \A i \in 0 .. 3 : g[i] = IF i = 0 THEN start ELSE g[i - 1] + 2 + beacon.elements[i].length
    BY <1>1
  <2>2. DOMAIN g = 0 .. 3 /\ g = [i \in 0 .. 3 |-> g[i]]
    OBVIOUS
  <2> HIDE DEF g
  <2>. QED
    BY <1>1, <2>1, <2>2
<1>3. ends = Unfold(ends)
  <2> HIDE DEF g
  <2>. QED
    BY <1>2
<1>4. \A k \in 0 .. 3 : EndOf(beacon, start, k) = ends[k]
  BY DEF EndOf
<1> HIDE DEF ends
<1>5. \A i \in 0 .. 3 : ends[i] = IF i = 0 THEN start ELSE ends[i - 1] + 2 + beacon.elements[i].length
  BY <1>1, <1>3
<1>6. ends[1] = start + 2 + a.length
  BY <1>1, <1>5
<1>7. ends[2] = start + 4 + a.length + b.length
  BY <1>1, <1>5, <1>6
<1>8. ends[3] = start + 6 + a.length + b.length + c.length
  BY <1>1, <1>5, <1>7
<1>. QED
  BY <1>4, <1>6, <1>7, <1>8

(* The sizes that the encoders make, by the carrier. *)
LEMMA MessageSizes ==
    ASSUME IInv, phase \in {"encoded", "framed", "submitted"}
    PROVE  message.size \in {12, 17, 24, 25, 37, 153}
<1>1. Accepts /\ message = Encoded /\ job \in Jobs
  BY DEF IInv, Inputs, FromState
<1>2. CASE job.protocol = "Gb46750"
  <2>1. job.kind \in GbKinds /\ message = GbEncode(job.kind, state, site)
    BY <1>1, <1>2 DEF Accepts, GbAccepts, Encoded
  <2>. QED
    BY <2>1 DEF GbEncode, GbKinds, Identifiers, ContentSize
<1>3. CASE job.protocol # "Gb46750" /\ job.kind = "Pack"
  BY <1>1, <1>3 DEF Encoded, EncodePack, PackSize, MessageSize
<1>4. CASE job.protocol # "Gb46750" /\ job.kind # "Pack"
  BY <1>1, <1>4 DEF Encoded, OdidEncode, MessageSize
<1>. QED
  BY <1>2, <1>3, <1>4

(* A frame on its way was made of the message. *)
FrameOfMessage == phase \in {"framed", "submitted"} => frame = Framed

(* The frame is built of the message, and submitted as it is. *)
LEMMA FrameOfMessageStep == IInv /\ FrameOfMessage /\ [Next]_vars => FrameOfMessage'
<1> SUFFICES ASSUME FrameOfMessage, [Next]_vars PROVE FrameOfMessage'
  OBVIOUS
<1>1. CASE Encode
  BY <1>1 DEF Encode, FrameOfMessage
<1>2. CASE BuildFrame
  BY <1>2 DEF BuildFrame, FrameOfMessage, Framed
<1>3. CASE Submit
  BY <1>3 DEF Submit, FrameOfMessage, Framed
<1>4. CASE UNCHANGED vars
  BY <1>4 DEF vars, FrameOfMessage, Framed
<1> QED BY <1>1, <1>2, <1>3, <1>4 DEF Next

(* A beacon of any payload the builder may take is whole, and none of its beginnings is. *)
LEMMA BeaconHolds ==
    ASSUME NEW payload \in 1 .. MaxGbVendorPayloadSize
    PROVE  LET f == GbBeacon(payload) IN
           /\ ValidBeacon(f, f.size)
           /\ \A size \in 0 .. f.size - 1 : ~ValidBeacon(f, size)
<1> DEFINE f == GbBeacon(payload)
           a == [id |-> Ssid, length |-> SsidSize]
           b == [id |-> Rates, length |-> 1]
           c == [id |-> Vendor, length |-> VendorLength(payload)]
<1>1. payload \in Int /\ 1 <= payload /\ payload <= 249
  BY DEF MaxGbVendorPayloadSize
<1>2. a.length = 20 /\ b.length = 1 /\ c.length = 5 + payload
  <2>1. VendorLength(payload) = 5 + payload
    BY <1>1 DEF VendorLength, VendorHeaderSize
  <2>. QED
    BY <2>1 DEF SsidSize
<1>3. f.elements = <<a, b, c>> /\ f.size = 68 + payload
  <2>1. f.elements = <<a, b, c>> /\ f.size = BeaconSize(payload)
    BY DEF GbBeacon
  <2>2. BeaconSize(payload) = 68 + payload
    BY <1>1 DEF BeaconSize, BeaconFixedSize, SsidSize, VendorHeaderSize
  <2>. QED
    BY <2>1, <2>2
<1>4. a.id = 0 /\ b.id = 1 /\ c.id = 221
  BY DEF Ssid, Rates, Vendor
<1> HIDE DEF f, a, b, c
<1>5. EndOf(f, 36, 1) = 58 /\ EndOf(f, 36, 2) = 61 /\ EndOf(f, 36, 3) = 68 + payload
  BY <1>1, <1>2, <1>3, EndsOfThree
<1>6. DOMAIN f.elements = 1 .. 3 /\ f.elements[1] = a /\ f.elements[2] = b /\ f.elements[3] = c
  BY <1>3
<1>7. ValidBeacon(f, f.size)
  <2>1. f.size >= 38 /\ f.size <= 512 /\ EndOf(f, 36, 3) = f.size
    BY <1>1, <1>3, <1>5
  <2>2. Has(f, 3, Ssid, 0 .. 32) /\ Has(f, 3, Rates, 1 .. 8) /\ Has(f, 3, Vendor, 4 .. 255)
    <3>1. Has(f, 3, Ssid, 0 .. 32)
      BY <1>2, <1>4, <1>6 DEF Has, Ssid
    <3>2. Has(f, 3, Rates, 1 .. 8)
      BY <1>2, <1>4, <1>6 DEF Has, Rates
    <3>3. Has(f, 3, Vendor, 4 .. 255)
      <4>1. c.length \in 4 .. 255
        BY <1>1, <1>2
      <4>. QED
        BY <1>4, <1>6, <4>1 DEF Has, Vendor
    <3>. QED
      BY <3>1, <3>2, <3>3
  <2>. QED
    BY <1>6, <2>1, <2>2 DEF ValidBeacon, BeaconFixedSize, MaxWifiFrameSize
<1>8. ASSUME NEW size \in 0 .. f.size - 1 PROVE ~ValidBeacon(f, size)
  <2>1. ASSUME NEW k \in 1 .. 3, EndOf(f, 36, k) = size PROVE ~Has(f, k, Vendor, 4 .. 255)
    <3>1. k \in 1 .. 2
      BY <1>1, <1>3, <1>5, <2>1
    <3>2. \A i \in 1 .. k : f.elements[i].id # 221
      BY <1>4, <1>6, <3>1
    <3>. QED
      BY <3>2 DEF Has, Vendor
  <2>. QED
    BY <1>6, <2>1 DEF ValidBeacon, BeaconFixedSize
<1>. QED
  BY <1>7, <1>8 DEF f

(* The declared lengths of every frame are the lengths of what is in it. *)
THEOREM LengthsAreTrue == Spec => []FrameHolds
<1>1. Init => FrameOfMessage
  BY DEF Init, FrameOfMessage
<1>2. IInv /\ FrameOfMessage => FrameHolds
  <2> SUFFICES ASSUME IInv, FrameOfMessage, phase \in {"framed", "submitted"}
               PROVE  IF job.carrier = "Wifi"
                      THEN /\ ValidBeacon(frame, frame.size)
                           /\ \A size \in 0 .. frame.size - 1 : ~ValidBeacon(frame, size)
                      ELSE ValidServiceData(frame)
    BY DEF FrameHolds
  <2>1. message.size \in {12, 17, 24, 25, 37, 153} /\ frame = Framed
    BY MessageSizes DEF FrameOfMessage
  <2>2. message.size \in 1 .. MaxGbVendorPayloadSize
    BY <2>1 DEF MaxGbVendorPayloadSize
  <2>3. CASE job.carrier = "Wifi"
    <3>1. frame = GbBeacon(message.size)
      BY <2>1, <2>3 DEF Framed
    <3>. QED
      BY <2>2, <2>3, <3>1, BeaconHolds
  <2>4. CASE job.carrier # "Wifi"
    <3>1. frame = ServiceData(message.size)
      BY <2>1, <2>4 DEF Framed
    <3>2. frame.size = message.size + 5 /\ frame.elements[1].length = (message.size + 4) % 256
      BY <3>1 DEF ServiceData
    <3>3. (message.size + 4) % 256 = message.size + 4
      BY <2>1
    <3>. QED
      BY <2>1, <2>4, <3>2, <3>3 DEF ValidServiceData
  <2>. QED
    BY <2>3, <2>4
<1> QED BY <1>1, <1>2, FrameOfMessageStep, MessageIsOfState, PTL DEF Spec
=============================================================================
