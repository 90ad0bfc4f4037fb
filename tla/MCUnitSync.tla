----------------------------- MODULE MCUnitSync -----------------------------
(***************************************************************************)
(* A mode and two setpoints, the second so that an adoption waits between  *)
(* two units it read together.  A behaviour changes either the mode or the *)
(* setpoints: what they share are the queues, and both sides fill those.   *)
(***************************************************************************)
EXTENDS UnitSync

VARIABLE used

MCInit == Init /\ used \in {Modes, Setpoints} /\ (used = Setpoints => knowsModes)

MCNext ==
    /\ Next
    /\ \A u \in Units \ used : entry'[u] = entry[u] /\ desired'[u] = desired[u]
    /\ UNCHANGED used

MCSpec == MCInit /\ [][MCNext]_<<vars, used>> /\ Fairness
=============================================================================
