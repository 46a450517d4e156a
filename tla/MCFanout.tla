------------------------------ MODULE MCFanout ------------------------------
(* Instances of Fanout for TLC.                                            *)
EXTENDS Fanout

CONSTANTS w1, w2, a, b, p, h, k

Key == [id |-> k, base64 |-> TRUE, pem |-> FALSE]
=============================================================================
