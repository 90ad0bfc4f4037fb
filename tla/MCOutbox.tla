------------------------------ MODULE MCOutbox ------------------------------
(* The outbox with the small caps of its configurations. *)
EXTENDS Outbox
=============================================================================
