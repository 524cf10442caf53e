-------------------------- MODULE MC_ClientDashboard --------------------------
EXTENDS ClientDashboard

(* One radio: each handler touches one wifi-iface section. *)
MC_Radios == {"radio0"}
(* A 5 GHz radio at 80 MHz: allowed, allowed only off a gl-b1300, and     *)
(* illegal channels.                                                       *)
MC_Channels == {36, 52, 100}
MC_HtMode == [r \in MC_Radios |-> "VHT80"]
====
