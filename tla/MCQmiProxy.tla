----------------------------- MODULE MCQmiProxy -----------------------------
(* A small instance of QmiProxy for TLC. *)
EXTENDS QmiProxy
=============================================================================
