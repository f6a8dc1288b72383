------------------------------ MODULE MCIntake ------------------------------
(***************************************************************************)
(* Intake for TLC: one message, from any kind of sender on either port, to *)
(* two local recipients and a remote one.                                  *)
(***************************************************************************)
EXTENDS Intake

MCAddressed == [m \in Msgs |-> Rcpts]

=============================================================================
