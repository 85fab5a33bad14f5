------------------------------ MODULE ClosePath ------------------------------
(***************************************************************************)
(* From a filled entry to the end of its close order.  PositionCache       *)
(* decides what the close believes about its strategy, CloseReprice moves  *)
(* its limit.  The Trader's re-pricing and its reconciliation of the entry *)
(* are steps of one coroutine.                                             *)
(***************************************************************************)
EXTENDS PositionCache, CloseReprice

CONSTANT MaxRestarts  (* bound: restarts of the process                     *)

ASSUME RestartsAssumption == MaxRestarts \in Nat

VARIABLE restarts

vars == <<cacheVars, repriceVars, restarts>>

(* What is bought with a debit is sold: the close receives a credit.        *)
ClosingPaysADebit(strategy) == strategy \notin {"debit", "long"}

Init == CacheInit /\ RepriceInit /\ restarts = 0

Entry ==
  \/ \E s \in Opened : EntryFills(s)
  \/ tpc = "idle" /\ ReconcileEntry

(* An exit fires on the cached row and the Trader places the close.         *)
Exit(isUrgent) ==
  /\ tpc = "idle"
  /\ row.cached
  /\ PlaceClose(ClosingPaysADebit(row.strategy), isUrgent)

(* The close is filled: the position is gone.                               *)
CloseFills ==
  /\ \E id \in OrderIds : CloseTrades(id, "filled")
  /\ PositionCloses

Trader ==
  \/ ReconcileStep
  \/ \E isUrgent \in BOOLEAN : Exit(isUrgent)

CloseMarket ==
  \E id \in OrderIds :
    CloseOpens(id) \/ CloseDies(id) \/ CloseTrades(id, "partially_filled")

Restart ==
  /\ restarts < MaxRestarts
  /\ restarts' = restarts + 1
  /\ RepriceRestart
  /\ PmRestart
  /\ UNCHANGED <<entryVars, position, row>>

Next ==
  \/ (Entry \/ PmStep) /\ UNCHANGED <<repriceVars, restarts>>
  \/ (Trader \/ CloseMarket \/ TimePasses) /\ UNCHANGED <<cacheVars, restarts>>
  \/ CloseFills /\ UNCHANGED restarts
  \/ Restart

Spec == Init /\ [][Next]_vars

(* run_agent repeats the steps of both agents; nothing is assumed of the    *)
(* broker or of the exit rules.                                             *)
FairSpec ==
  /\ Spec
  /\ WF_vars(PmStep /\ UNCHANGED <<repriceVars, restarts>>)
  /\ WF_vars(ReconcileStep /\ UNCHANGED <<cacheVars, restarts>>)

------------------------------------------------------------------------------
(* However old the close gets and whatever ticks are lost, no order of it   *)
(* is priced below its first or beyond its last rung.                       *)
LimitWithinLadder ==
  \A id \in 1..latest :
    IF paysDebit THEN limit[id] \in LimitPrice(0)..LimitPrice(MaxAttempts)
                 ELSE limit[id] \in LimitPrice(MaxAttempts)..LimitPrice(0)

(* Again and again a held position whose entry is recorded as filled is     *)
(* linked to its proposal, although it may have been cached before.         *)
EnrichedEventually == []<>(position /\ entryRow \in Opened => row.linked)

(* Again and again, once the last order of the close is over, its row is    *)
(* not polled any more, whichever order of the chain it points at.          *)
RowSettles ==
  []<>(latest # NoOrder /\ state[latest] \in {"filled", "dead"} => closeRow \in SettledRows)

(* "broker_rejected" means that the broker is done with the close order.    *)
BrokerRejectedMeansDead ==
  closeStatus = "broker_rejected" => state[latest] \in {"filled", "dead"}

(* Each replacement is more marketable for the structure that is held: an   *)
(* exit of bought premium is offered lower, never higher.                   *)
ClosesTowardMarket ==
  [][latest # NoOrder /\ latest' # latest =>
       IF ClosingPaysADebit(family) THEN limit'[latest'] >= limit[latest]
                                    ELSE limit'[latest'] <= limit[latest]]_vars
==============================================================================
