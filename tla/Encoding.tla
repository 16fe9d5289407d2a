------------------------------ MODULE Encoding ------------------------------
(***************************************************************************)
(* The way of one message in Runtime::tick, from the state TrajectoryEngine *)
(* samples to the payload a transport takes: the encoder of the protocol,  *)
(* the frame of the carrier, the size limits of the transport.  Each may   *)
(* refuse what it is given, and then the message is dropped.  Whoever      *)
(* receives the frame reads the numbers in it by the table of the          *)
(* protocol.                                                               *)
(***************************************************************************)
EXTENDS GbEncoder, OdidEncoder, Framing

CONSTANTS
    States,            \* the flight states sampled
    Sites              \* the sites of configurations

ASSUME InputsAssumption ==
    /\ States \subseteq FlightStates
    /\ Sites \subseteq Points /\ \A p \in Sites : ValidPoint(p)

VARIABLES
    job,               \* what is sent: protocol, carrier and message kind
    state,             \* the sample
    site,              \* config_.site
    message,           \* what the encoder returned, or NoMessage
    frame,             \* what the builder made, or NoFrame
    phase              \* "sampled", "encoded", "framed", "submitted" or "dropped"

vars == <<job, state, site, message, frame, phase>>

(* validate lets GB 46750 only onto Wi-Fi; Runtime sends OpenDroneID in packs but over BLE 4. *)
Jobs ==
    {[protocol |-> "Gb46750", carrier |-> "Wifi", kind |-> k] : k \in OdidKinds}
    \cup {[protocol |-> "OpenDroneId", carrier |-> "Ble4", kind |-> k] : k \in OdidKinds}
    \cup {[protocol |-> "OpenDroneId", carrier |-> c, kind |-> "Pack"] : c \in {"Ble5", "Wifi"}}

NoMessage == [kind |-> "none", size |-> 0]

Init ==
    /\ job \in Jobs /\ state \in States /\ site \in Sites
    /\ message = NoMessage /\ frame = NoFrame
    /\ phase = "sampled"

Accepts ==
    IF job.protocol = "Gb46750" THEN GbAccepts(job.kind, state, site)
    ELSE IF job.kind = "Pack" THEN PackAccepts(state, site)
    ELSE OdidAccepts(job.kind, state, site)

Encoded ==
    IF job.protocol = "Gb46750" THEN GbEncode(job.kind, state, site)
    ELSE IF job.kind = "Pack" THEN EncodePack(state, site)
    ELSE OdidEncode(job.kind, state, site)

Encode ==
    /\ phase = "sampled"
    /\ message' = IF Accepts THEN Encoded ELSE NoMessage
    /\ phase' = IF Accepts THEN "encoded" ELSE "dropped"
    /\ UNCHANGED <<job, state, site, frame>>

BuilderAccepts ==
    IF job.protocol = "Gb46750" THEN GbBeaconAccepts(message.size)
    ELSE IF job.carrier = "Wifi" THEN OdidBeaconAccepts(message.size)
    ELSE ServiceDataAccepts(message.size)

Framed ==
    IF job.carrier = "Wifi" THEN GbBeacon(message.size) ELSE ServiceData(message.size)

BuildFrame ==
    /\ phase = "encoded"
    /\ frame' = IF BuilderAccepts THEN Framed ELSE NoFrame
    /\ phase' = IF BuilderAccepts THEN "framed" ELSE "dropped"
    /\ UNCHANGED <<job, state, site, message>>

(* try_copy_from, then the submit of the transport; its queue has room here. *)
Limit == [Wifi |-> MaxWifiFrameSize, Ble4 |-> BleLegacyMaxPayloadSize,
          Ble5 |-> BleExtendedMaxPayloadSize]

Submit ==
    /\ phase = "framed"
    /\ phase' = IF frame.size \in 1 .. Limit[job.carrier] THEN "submitted" ELSE "dropped"
    /\ UNCHANGED <<job, state, site, message, frame>>

Next == Encode \/ BuildFrame \/ Submit

Spec == Init /\ [][Next]_vars

-----------------------------------------------------------------------------
(* What the messages on the air say of the aircraft. *)
OnAir(protocol, kind) ==
    /\ phase = "submitted" /\ job.protocol = protocol
    /\ job.kind \in {kind, "Pack"}

FieldsOf(kind) == IF job.kind = "Pack" THEN message.fields[kind].fields ELSE message.fields

PointReadsBack(f, p) ==
    NearCoordinate(f.longitude, p.longitude) /\ NearCoordinate(f.latitude, p.latitude)

(* Whatever state the GB encoder lets through, a receiver reads each of its quantities   *)
(* within half a step of the field: no range check lets a value through that does not    *)
(* fit its field (gb_encoder.cpp:108-142), whose conversions to 8 and 16 bits would wrap. *)
GbLocationReadsBack(f, s) ==
    /\ PointReadsBack(f, s.position)
    /\ Near(ReadHeading(f.heading), s.heading, Degree \div 10)
    /\ Near(ReadGroundSpeed(f.speed), s.speed, MetrePerSecond \div 10)
    /\ Near(ReadRelativeAltitude(f.relative), s.height, HalfMetre)
    /\ Near(ReadVerticalSpeed(f.vertical), s.climb, HalfMetre)
    /\ Near(ReadAltitude(f.altitude), s.altitude, HalfMetre)
    /\ Near(ReadAltitude(f.barometric), s.altitude, HalfMetre)
GbReadsBack ==
    /\ OnAir("Gb46750", "Location") => GbLocationReadsBack(FieldsOf("Location"), state)
    /\ OnAir("Gb46750", "System") =>
        /\ PointReadsBack(FieldsOf("System"), site)
        /\ Near(ReadAltitude(FieldsOf("System").altitude), state.altitude, HalfMetre)

(* The same of OpenDroneID, alone or in a pack, with the steps of the core: whole degrees, *)
(* which stay below 360, a quarter or three quarters of a metre per second, half a metre  *)
(* and tenths of a second of the hour (odid_encoder.cpp:75-96, opendroneid.c:165-259).    *)
OdidLocationReadsBack(f, s) ==
    /\ PointReadsBack(f, s.position)
    /\ DecodeDirection(f.direction) < 360 * Degree
    /\ \E turn \in {0, 360 * Degree} :
            Near(DecodeDirection(f.direction) + turn, s.heading, Degree)
    /\ Near(DecodeSpeedHorizontal(f.speed), s.speed,
            IF f.speed.large THEN LargeStep ELSE SmallStep)
    /\ Near(DecodeSpeedVertical(f.vertical), s.climb, HalfMetre)
    /\ Near(DecodeAltitude(f.barometric), s.altitude, HalfMetre)
    /\ Near(DecodeAltitude(f.geodetic), s.altitude, HalfMetre)
    /\ Near(DecodeAltitude(f.height), s.height, HalfMetre)
    /\ Near(DecodeTimeStamp(f.time), s.time % HourMs, 100)
OdidReadsBack ==
    /\ OnAir("OpenDroneId", "Location") => OdidLocationReadsBack(FieldsOf("Location"), state)
    /\ OnAir("OpenDroneId", "System") => PointReadsBack(FieldsOf("System"), site)

(* The message a receiver reads says what the sample said, in either protocol. *)
MessageReadsBack == GbReadsBack /\ OdidReadsBack

(* No quantity is sent as "unknown" unless it lies at the very edge of its range: a GB     *)
(* altitude or height less than a quarter of a metre above the least one, whose rounding  *)
(* yields the value that says nothing, and the speed, climb and altitude that the core    *)
(* itself takes for unknown.  GB's unknown coordinate is the bit pattern of -1e-7 degrees,  *)
(* which a position next to the equator or the meridian of Greenwich may round to.          *)
AtBottom(ticks, bottom) == ticks - bottom <= Metre \div 4
UnknownOnlyAtEdge ==
    /\ OnAir("Gb46750", "Location") =>
        LET f == FieldsOf("Location") IN
        /\ f.heading # NoHeading /\ f.speed # NoGroundSpeed /\ f.vertical # NoVerticalSpeed
        /\ f.latitude = NoCoordinate => NearCoordinate(-1, state.position.latitude)
        /\ f.longitude = NoCoordinate => NearCoordinate(-1, state.position.longitude)
        /\ f.altitude = NoAltitude => AtBottom(state.altitude, GbMinAltitude)
        /\ f.relative = NoAltitude => AtBottom(state.height, MinRelativeAltitude)
    /\ OnAir("OpenDroneId", "Location") =>
        LET f == FieldsOf("Location") IN
        /\ DecodeSpeedHorizontal(f.speed) = InvalidSpeed => state.speed = InvalidSpeed
        /\ DecodeSpeedVertical(f.vertical) = InvalidClimb => state.climb = InvalidClimb
        /\ DecodeAltitude(f.geodetic) = MinAltitude => AtBottom(state.altitude, MinAltitude)
        /\ DecodeAltitude(f.height) = MinAltitude => AtBottom(state.height, MinAltitude)

(* The lengths in a frame are those of what is in it, and a beacon is not mistaken for a *)
(* whole one when it is cut anywhere (wifi_transport.cpp:24-41, ble_transport.cpp:48).    *)
FrameHolds ==
    phase \in {"framed", "submitted"} =>
        IF job.carrier = "Wifi"
        THEN /\ ValidBeacon(frame, frame.size)
             /\ \A size \in 0 .. frame.size - 1 : ~ValidBeacon(frame, size)
        ELSE ValidServiceData(frame)

(* What an encoder returns is never refused further on: every message, alone or in a pack, *)
(* fits the frame and the transport the configuration may choose for it.                    *)
EncodedFits ==
    [][(phase \in {"encoded", "framed"}) => phase' # "dropped"]_vars
=============================================================================
