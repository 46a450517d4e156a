---------------------------- MODULE MCComposite ----------------------------
(* Instances of Composite for TLC.                                         *)
EXTENDS Composite

CONSTANT k

Key == [id |-> k, base64 |-> TRUE, pem |-> FALSE]

Parent == {"parent"}
Hook   == {"hook"}
Driver == {"driver"}
=============================================================================
