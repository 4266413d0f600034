---------------------------- MODULE MCQmiThread ----------------------------
(* Small instances of QmiThread for TLC. *)
EXTENDS QmiThread

(* Both counters wrap after 2 requests, instead of 255 and 65535, so that a *)
(* third call uses the transaction id of the first again.                   *)
MCMaxTid == [k \in Counters |-> 2]

(* One call for the control client among three of the services, and one of  *)
(* each where the progress of a call is the question.                       *)
MCMaxSend == [k \in Counters |-> IF k = "QMUX" THEN 3 ELSE 1]
MCMaxSendOne == [k \in Counters |-> 1]
=============================================================================
