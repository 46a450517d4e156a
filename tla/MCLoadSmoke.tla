---------------------------- MODULE MCLoadSmoke ----------------------------
(* Instances of LoadSmoke for TLC.                                         *)
EXTENDS LoadSmoke

CONSTANTS w1, w2, p, h, k

Key == [id |-> k, base64 |-> TRUE, pem |-> FALSE]

\* One permit for two runs, each waiting for the other to leave; both at once, with the
\* removals.
Lines == {[concurrency |-> 1, keep_defs |-> TRUE], [concurrency |-> 2, keep_defs |-> FALSE]}
=============================================================================
