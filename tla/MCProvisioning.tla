--------------------------- MODULE MCProvisioning ---------------------------
(* Small instances of Provisioning: two dies whose responses to a challenge *)
(* are complements, three reads of two bits, one drone id and a foreign one. *)
EXTENDS Provisioning, FiniteSets

Silicon == [d \in 1..2 |-> [n \in 1..2 |-> IF d = n THEN {1, 2} ELSE {}]]

\* At most one bit is read wrong, once (mild) or in two reads (too often).
SomeNoise == {z \in Noise : \A b \in Bit : z[b] > 0 => b = 1 /\ z[b] <= 2}
=============================================================================
