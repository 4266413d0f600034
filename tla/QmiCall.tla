------------------------------ MODULE QmiCall ------------------------------
(***************************************************************************)
(* What a QMI call promises its caller, without threads, locks and         *)
(* transaction ids: it hands its request to the modem at most once, and    *)
(* returns the modem's one answer to that very request, or none.  Requests *)
(* are told apart by identity.  An answer that comes after its call has    *)
(* returned is never seen by a later call.                                 *)
(***************************************************************************)
CONSTANTS Requests, None

VARIABLES
  phase,    \* "none": no call; "new": not handed over yet; "sent"
  call,     \* the request of the current or last call
  answer,   \* what the last call has returned
  reply,    \* the modem's answer to call, kept for its caller
  modem     \* requests that the modem holds

vars == <<phase, call, answer, reply, modem>>

Init ==
  /\ phase = "none"
  /\ call = None /\ answer = None /\ reply = None
  /\ modem = {}

(* A call starts.  The modem may have forgotten some of the earlier ones. *)
Begin ==
  /\ phase = "none" /\ phase' = "new"
  /\ call' \in Requests
  /\ answer' = None /\ reply' = None
  /\ modem' \in SUBSET modem

(* Its request is handed over, or lost. *)
Send ==
  /\ phase = "new" /\ phase' = "sent"
  /\ modem' \in {modem, modem \cup {call}}
  /\ UNCHANGED <<call, answer, reply>>

(* The modem answers it.  The answer may be lost too. *)
Reply ==
  /\ phase # "new"
  /\ call \in modem /\ modem' = modem \ {call}
  /\ reply' \in {call, None}
  /\ UNCHANGED <<phase, call, answer>>

(* An answer nobody waits for, to an earlier call or to this one. *)
Ignore ==
  /\ \E r \in modem : modem' = modem \ {r}
  /\ UNCHANGED <<phase, call, answer, reply>>

(* The call is given up: an answer that has come is forgotten. *)
GiveUp ==
  /\ phase # "new"
  /\ reply' = None
  /\ UNCHANGED <<phase, call, answer, modem>>

(* The call returns its answer, or none. *)
Return ==
  /\ phase # "none" /\ phase' = "none"
  /\ answer' \in {reply, None}
  /\ reply' \in {reply, None}
  /\ UNCHANGED <<call, modem>>

Next == Begin \/ Send \/ Reply \/ Ignore \/ GiveUp \/ Return

Spec == Init /\ [][Next]_vars
=============================================================================
