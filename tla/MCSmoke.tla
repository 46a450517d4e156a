------------------------------ MODULE MCSmoke ------------------------------
(* Instances of Smoke for TLC.                                             *)
EXTENDS Smoke

\* Every verifier, one twice, one that has no case, and none at all.
Lines == {<<"HMAC_BASED", "SIGNATURE_BASED">>, <<"HEADER_BASED", "SLACK_BASED">>,
          <<"STRIPE", "TWITTER">>, <<"HMAC_BASED", "HMAC_BASED">>, <<"SENDGRID">>, <<>>}

Three == 1 .. 3
Four  == 1 .. 4
AllNames == Verifiers \cup {"multi", "replay"}
=============================================================================
