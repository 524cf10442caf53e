--------------------------- MODULE MC_ExitSelection ---------------------------
EXTENDS ExitSelection

(* Two nicknames: one exit to switch away from and one to switch to. *)
MC_Exits == {"e1", "e2"}
MC_PostedStates == {"New"}
(* Only Registered is told apart by any step modelled; New stands for   *)
(* every other ExitState.                                               *)
MC_States == {"New", "Registered"}
====
