------------------------- MODULE MC_TunnelManager --------------------------
(* Small worlds for TunnelManager: two neighbours, three ports, three wg    *)
(* interface names.                                                         *)
EXTENDS TunnelManager

MC_Ids == {"A", "B"}
\* Two neighbours on their own interfaces; the manual hostname resolves to B.
MC_Links == {<<"ipA", 1>>, <<"ipB", 2>>}
\* Neighbour A also heard from a second address on the same interface.
MC_Links2 == MC_Links \cup {<<"ipA2", 1>>}
MC_ManualIps == {"ipM"}
\* The same neighbour B reached on two addresses of the hostname.
MC_ManualIps2 == {"ipM", "ipN"}
MC_IdOf == [ip \in {"ipA", "ipA2", "ipB", "ipM", "ipN"} |->
              IF ip \in {"ipA", "ipA2"} THEN "A" ELSE "B"]
MC_Ports == {1000, 1001, 1002}
MC_Ports2 == {1000, 1001}
MC_AllActions == {"MembershipConfirmed", "MembershipExpired", "PaidOnTime", "PaymentOverdue"}
MC_PayActions == {"PaidOnTime", "PaymentOverdue"}
MC_RegActions == {"MembershipConfirmed", "MembershipExpired"}
=============================================================================
