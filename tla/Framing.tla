------------------------------- MODULE Framing -------------------------------
(***************************************************************************)
(* The frames that carry an encoded message: the beacon of                 *)
(* components/rid_radio/wifi_transport.cpp and the service data of         *)
(* ble_transport.cpp.  A beacon is its size and its elements, each the     *)
(* identifier and the length byte it has; an advertisement is its size and *)
(* its length byte.  Addresses and the message counter are left out.       *)
(***************************************************************************)
EXTENDS Integers, Sequences

BeaconFixedSize == 24 + 12                   \* kBeaconHeaderSize + kBeaconFixedBodySize
MaxWifiFrameSize == 512
MaxGbVendorPayloadSize == 249
OpenDroneIdMaxEncodedSize == 153
BleLegacyMaxPayloadSize == 31
BleExtendedMaxPayloadSize == 158
SsidSize == 20                               \* Runtime's SSID is the identity

Ssid == 0
Rates == 1
Vendor == 221
VendorHeaderSize == 5                        \* OUI, OUI type and counter

NoFrame == [size |-> 0, elements |-> <<>>]

Mutant_VendorLength(payload) == payload  \* the bytes before the payload are forgotten
VendorLength(payload) == (VendorHeaderSize + payload) % 256

BeaconSize(payload) == BeaconFixedSize + 2 + SsidSize + 3 + 2 + VendorHeaderSize + payload

(* build_gb_beacon *)
GbBeaconAccepts(payload) ==
    /\ payload # 0
    /\ SsidSize <= 32 /\ payload <= MaxGbVendorPayloadSize
    /\ BeaconSize(payload) <= MaxWifiFrameSize
GbBeacon(payload) ==
    [size |-> BeaconSize(payload),
     elements |-> <<[id |-> Ssid, length |-> SsidSize], [id |-> Rates, length |-> 1],
                    [id |-> Vendor, length |-> VendorLength(payload)]>>]

(* Of what both OpenDroneID builders check of a pack, only the size can be wrong here. *)
IsPackSize(size) == size >= 28 /\ (size - 3) % 25 = 0

(* build_opendroneid_beacon *)
OdidBeaconAccepts(payload) == IsPackSize(payload) /\ GbBeaconAccepts(payload)

(* build_opendroneid_service_data *)
Mutant_ServiceDataAccepts(payload) ==  \* the limit does not count the header of a pack
    /\ payload <= OpenDroneIdMaxEncodedSize - 3
    /\ payload = 25 \/ IsPackSize(payload)
ServiceDataAccepts(payload) ==
    /\ payload <= OpenDroneIdMaxEncodedSize
    /\ payload = 25 \/ IsPackSize(payload)
ServiceData(payload) ==
    [size |-> payload + 5, elements |-> <<[id |-> 22, length |-> (payload + 4) % 256]>>]

-----------------------------------------------------------------------------
(* Where element k of a frame ends by the lengths it declares. *)
EndOf(frame, start, k) ==
    LET end[i \in 0 .. Len(frame.elements)] ==
            IF i = 0 THEN start ELSE end[i - 1] + 2 + frame.elements[i].length
    IN  end[k]

(* validate_opendroneid_beacon of the first "size" bytes: the walk must end with an element, *)
(* having met all three kinds.                                                                *)
Has(frame, k, id, lengths) ==
    \E i \in 1 .. k : frame.elements[i].id = id /\ frame.elements[i].length \in lengths

ValidBeacon(frame, size) ==
    /\ size >= BeaconFixedSize + 2 /\ size <= MaxWifiFrameSize
    /\ \E k \in DOMAIN frame.elements :
        /\ EndOf(frame, BeaconFixedSize, k) = size
        /\ Has(frame, k, Ssid, 0 .. 32)
        /\ Has(frame, k, Rates, 1 .. 8)
        /\ Has(frame, k, Vendor, 4 .. 255)

(* The length byte of service data counts all that follows it. *)
ValidServiceData(frame) == frame.size = 1 + frame.elements[1].length
=============================================================================
