----------------------------- MODULE MCSession -----------------------------
(* Small instances of Session: two rekeys, a few commands, budgets of a few. *)
EXTENDS Session

\* One call at a time with prompt replies; with replies kept for later; and an
\* application that calls on while a rekey is pending.
Sequential  == [overlap |-> FALSE, late |-> FALSE, replies |-> {0, 1}]
Belated     == [overlap |-> FALSE, late |-> TRUE,  replies |-> {0, 2}]
Overlapping == [overlap |-> TRUE,  late |-> TRUE,  replies |-> {0, 2}]
AllApps     == {Sequential, Belated, Overlapping}

\* The flight stack answers every command with three frames.
Telemetry     == [overlap |-> FALSE, late |-> FALSE, replies |-> {3}]
TelemetryOnly == {Telemetry}
=============================================================================
