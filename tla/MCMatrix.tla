------------------------------ MODULE MCMatrix ------------------------------
(* Instances of Matrix for TLC.                                            *)
EXTENDS Matrix

CONSTANTS mysql, postgres, oracle

InOrder == <<mysql, oracle, postgres>>
=============================================================================
