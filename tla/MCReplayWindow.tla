--------------------------- MODULE MCReplayWindow ---------------------------
(* Small instances of ReplayWindow: a window of two, five frames, a rekey.  *)
EXTENDS ReplayWindow
=============================================================================
