-------------------------- MODULE OneShotDelivery --------------------------
(***************************************************************************)
(* What one direction of a LiteZero session promises the application: a   *)
(* frame is handed up only if the peer sealed it, and at most once, in    *)
(* whatever order the network chooses and whatever it duplicates, alters   *)
(* or loses.  ReplayWindow implements this specification.                  *)
(***************************************************************************)
EXTENDS Naturals

CONSTANT Frame            \* the frames a sender can ever seal

VARIABLES sealed,         \* frames the peer has sealed
          delivered       \* how often each frame was handed to the application

vars == <<sealed, delivered>>

Init == /\ sealed = {}
        /\ delivered = [f \in Frame |-> 0]

Seal(f) == /\ f \notin sealed
           /\ sealed' = sealed \cup {f}
           /\ UNCHANGED delivered

Deliver(f) == /\ f \in sealed
              /\ delivered[f] = 0
              /\ delivered' = [delivered EXCEPT ![f] = 1]
              /\ UNCHANGED sealed

Next == \E f \in Frame : Seal(f) \/ Deliver(f)

Spec == Init /\ [][Next]_vars
=============================================================================
