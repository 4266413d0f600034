---------------------------- MODULE MCCloudCheck ----------------------------
(* Small instances of CloudCheck for TLC. *)
EXTENDS CloudCheck
=============================================================================
