---------------------------- MODULE MC_ClosePath ----------------------------
(* Instances of ClosePath for TLC.                                          *)
EXTENDS ClosePath
==============================================================================
