---------------------------- MODULE MCHelloGate ----------------------------
(* Small instances of HelloGate: three nonces, tokens that live two ticks.  *)
EXTENDS HelloGate, TLC

Symmetry == Permutations(Nonce)
=============================================================================
