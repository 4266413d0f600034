------------------------------ MODULE MCMbimCm ------------------------------
(* Small instances of MbimCm for TLC. *)
EXTENDS MbimCm
=============================================================================
