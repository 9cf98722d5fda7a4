------------------------------ MODULE MCOutbox ------------------------------
(* A small instance of Outbox.                                             *)
EXTENDS Outbox
=============================================================================
