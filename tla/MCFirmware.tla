----------------------------- MODULE MCFirmware -----------------------------
(* Two message kinds.  One fleet has an unpacked aircraft on channel 6 and a packed one on *)
(* channel 149, with different periods; the other a packed one on channel 6 and one on BLE. *)
EXTENDS Firmware, TLC

MCFleets ==
    { << [transport |-> "Wifi24", packed |-> FALSE, period |-> (0 :> 3 @@ 1 :> 2), lifetime |-> 3],
         [transport |-> "Wifi58", packed |-> TRUE, period |-> (0 :> 2 @@ 1 :> 3), lifetime |-> 2] >>,
      << [transport |-> "Wifi24", packed |-> TRUE, period |-> (0 :> 2 @@ 1 :> 2), lifetime |-> 2],
         [transport |-> "Ble", packed |-> FALSE, period |-> (0 :> 2 @@ 1 :> 4), lifetime |-> 2] >> }

(* No guard reads a statistic of the coordinator, so TLC need not tell states apart by them. *)
Relevant == <<runtimeVars, wifiQueue, activeBand, currentChannel, dwellStarted, retryAt,
              configured, hwChannel, pollAgain, polls, bleQueue, sent, lastAir>>
=============================================================================
