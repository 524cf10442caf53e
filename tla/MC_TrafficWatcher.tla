------------------------- MODULE MC_TrafficWatcher -------------------------
(* Two neighbours, each with one tunnel; a destination reached through A,  *)
(* and traffic addressed to ourselves.                                      *)
EXTENDS TrafficWatcher

MC_Ids == {"A", "B"}
MC_Dests == {"X", "Me"}
MC_Ifaces == {"wgA", "wgB"}
MC_IfaceOwner == [i \in MC_Ifaces |-> IF i = "wgA" THEN "A" ELSE "B"]
\* B sends us traffic for X and for ourselves; we forward X traffic to A.
MC_InKeys == {<<"X", "wgB">>, <<"Me", "wgB">>}
MC_OutKeys == {<<"X", "wgA">>}
\* One price under max_fee and one over it.
MC_Prices == {2, 9}
=============================================================================
