---------------------------- MODULE MC_OrderFlow ----------------------------
(* Instances of OrderFlow for TLC.  Proposals 1 and 2 would be filled on one *)
(* expiry and the later ones on another, so that structures both merge and   *)
(* stay apart in the position counts.                                        *)
EXTENDS OrderFlow, TLC

MCExpiryOf == [p \in Ids |-> IF p <= 2 THEN "near" ELSE "far"]

Symmetry == Permutations(Underlyings)
==============================================================================
