----------------------------- MODULE MCGpsRelay -----------------------------
(* Small instances of GpsRelay for TLC. *)
EXTENDS GpsRelay

(* The reader inside the relay itself, and a TCP host for TAIP. *)
MCConnection == <<"internal", "tcp">>
MCOutput == <<"nmea", "taip">>
MCRate == <<0, 1>>

(* A fix alone; no fix that passes, after the end of a sentence whose start *)
(* was lost; and a sentence that lost its end and runs into the next,       *)
(* followed by a damaged one and by more than there is room for.            *)
MCBursts == { <<"$GGA", "*">>, <<"*", "$GGA", "*0", "$", "*">>,
              <<"$GGA", "$GGA", "*", "$", "*bad", "$", "*", "$GGA", "*">> }
MCClockSteps == {-1, 1}
MCMinAge == -1
=============================================================================
