--------------------------- MODULE MCDroneServer ---------------------------
(* Small instances of DroneServer: three connections, two half-open slots.  *)
EXTENDS DroneServer, TLC

Symmetry == Permutations(Conn)
=============================================================================
