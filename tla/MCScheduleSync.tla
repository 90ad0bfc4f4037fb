--------------------------- MODULE MCScheduleSync ---------------------------
(* The programme alone, for a claim about acknowledgements. *)
EXTENDS ScheduleSync
=============================================================================
