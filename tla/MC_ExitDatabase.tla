--------------------------- MODULE MC_ExitDatabase ---------------------------
EXTENDS ExitDatabase

(* c1 and c3 share a mesh_ip under different keys: get_client tells them  *)
(* apart, the table's key does not.                                        *)
MC_Identities == {[mesh |-> "m1", wg |-> "k1", eth |-> "e1"],
                  [mesh |-> "m2", wg |-> "k2", eth |-> "e2"],
                  [mesh |-> "m1", wg |-> "k3", eth |-> "e3"]}
MC_Requests == {"r1", "r2", "r3"}
MC_Requests2 == {"r1", "r2"}
====
