----------------------------- MODULE MCQmiDial -----------------------------
(* Small instances of QmiDial for TLC. *)
EXTENDS QmiDial

(* Two of the five delays: with LongWords = 2 the index still runs past the *)
(* end of the table and then stops.                                         *)
MCAllowTime == <<5, 10>>
(* The table as it stands in main.c. *)
SourceAllowTime == <<5, 10, 20, 25, 30>>
=============================================================================
