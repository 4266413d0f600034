--------------------------- MODULE MCModeMonitor ---------------------------
(* Small instances of ModeMonitor for TLC. *)
EXTENDS ModeMonitor
=============================================================================
