---------------------------- MODULE MCDocuments ----------------------------
(***************************************************************************)
(* The two documents a room has: its programme (ScheduleSync) and its      *)
(* limits (ConfigSync).  They share no state, so a run follows one of them *)
(* and leaves the other as it is at the first boot.                        *)
(***************************************************************************)
EXTENDS ScheduleSync, ConfigSync

VARIABLE followed

Wide     == [max |-> 3, min |-> 1]
Inverted == [max |-> 1, min |-> 2]
NoCutout == [max |-> Unset, min |-> 2]
SomeLimits == {Wide, Inverted, NoCutout}

DocumentsInit == followed \in {"programme", "limits"} /\ Init /\ CInit

Programme == followed = "programme" /\ Next /\ UNCHANGED <<followed, cvars>>
LimitsDocument == followed = "limits" /\ CNext /\ UNCHANGED <<followed, vars>>

DocumentsNext == Programme \/ LimitsDocument

(* The fairness is ScheduleSync's; nothing is asked of ConfigSync's.       *)
DocumentsSpec ==
    /\ DocumentsInit
    /\ [][DocumentsNext]_<<followed, vars, cvars>>
    /\ followed = "programme" => Fairness
=============================================================================
