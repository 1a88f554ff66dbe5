---------------------------- MODULE MCTransports ----------------------------
(* Lengths 3 and 4 are the first with two and with eight length bytes. *)
EXTENDS Transports

Texts  == {[i \in 1..n |-> (n + i) % 4] : n \in 2..4}
Keys   == {<<1, 2, 3, 0>>}
Speech == [client |-> Texts, server |-> {t \in Texts : Len(t) = 3}]
Limits == [client |-> 2, server |-> 1]
=============================================================================
