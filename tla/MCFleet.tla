------------------------------ MODULE MCFleet ------------------------------
(* Flash may hold a configuration with every fault that no command can make, alone or behind *)
(* a group without fault, one with a period of 0, which is not the same as none, and one with *)
(* periods at the limits.                                                                     *)
EXTENDS Fleet

Plain == Group("a", 1, "OpenDroneId", "Ble5")

StoredGroups ==
    {[Plain EXCEPT !.period = MinPeriod, !.overrides = [k \in Kinds |-> MaxPeriod]],
     [Plain EXCEPT !.period = MaxPeriod + 1],
     [Plain EXCEPT !.period = 0],
     [Plain EXCEPT !.overrides = [k \in Kinds |-> 0]],
     [Plain EXCEPT !.overrides = [k \in Kinds |-> MinPeriod - 1]],
     [Plain EXCEPT !.wifiMode = "Nan"],
     [Plain EXCEPT !.goodTrajectory = FALSE],
     [Plain EXCEPT !.count = 0],
     [Plain EXCEPT !.name = ""]}

MCStored ==
    {[site |-> "valid", period |-> MaxPeriod, groups |-> <<g>>] : g \in StoredGroups}
    \cup {[site |-> "valid", period |-> MaxPeriod,
           groups |-> <<Group("b", 2, "Gb46750", "Wifi24"), g>>] : g \in StoredGroups}
    \cup {[site |-> "valid", period |-> MaxPeriod + 1, groups |-> <<Plain>>]}
=============================================================================
