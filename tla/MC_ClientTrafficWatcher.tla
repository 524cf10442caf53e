--------------------- MODULE MC_ClientTrafficWatcher -----------------------
(* Counters of 3 bits so that a u64 wrap is reachable, and exit figures   *)
(* on both sides of zero.                                                  *)
EXTENDS ClientTrafficWatcher

MC_DebtValues == {-1, 0, 2}
=============================================================================
