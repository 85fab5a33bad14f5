---------------------------- MODULE MC_Process ----------------------------
(* Instances of Process for TLC.                                            *)
EXTENDS Process

CONSTANTS main, pulse, trader

MC_Agents == {pulse, trader}
MC_Callers == MC_Agents \union {main}
==============================================================================
