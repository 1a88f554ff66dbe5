---------------------------- MODULE MCHandshake ----------------------------
(* Small instances of Handshake: two attempts, one half-open slot.          *)
EXTENDS Handshake
=============================================================================
