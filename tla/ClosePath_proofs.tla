-------------------------- MODULE ClosePath_proofs --------------------------
(***************************************************************************)
(* Theorems about ClosePath, for any mark, nudge and number of rungs: the  *)
(* ladder of a close bounds every limit it ever sends.                     *)
(***************************************************************************)
EXTENDS ClosePath, TLAPS

(* What of the types the ladder needs.                                      *)
LadderTypes ==
  /\ mark \in Marks
  /\ paysDebit \in BOOLEAN /\ urgent \in BOOLEAN
  /\ latest \in 0..MaxOrders
  /\ limit \in [OrderIds -> Int]
  /\ elapsed \in Nat
  /\ aim \in Int
  /\ tpc \in {"idle", "replace", "write", "release"}

OnLadder(price) ==
  IF paysDebit THEN price \in LimitPrice(0)..LimitPrice(MaxAttempts)
               ELSE price \in LimitPrice(MaxAttempts)..LimitPrice(0)

(* A row or a step of its reconciliation means an order at the broker, and  *)
(* a replacement under way is aimed at a rung.                              *)
LadderInv ==
  /\ LadderTypes
  /\ closeRow # "none" \/ tpc # "idle" => latest > 0
  /\ tpc = "replace" => OnLadder(aim)
  /\ LimitWithinLadder

------------------------------------------------------------------------------
(* Rounding half to even to whole cents keeps the order of two prices.      *)
LEMMA RoundingMonotone ==
  ASSUME NEW x \in Int, NEW y \in Int, x <= y
  PROVE  RoundCents(x) \in Int /\ RoundCents(x) <= RoundCents(y)
<1>1. /\ x \div 100 \in Int /\ x % 100 \in 0..99 /\ x = 100 * (x \div 100) + (x % 100)
      /\ y \div 100 \in Int /\ y % 100 \in 0..99 /\ y = 100 * (y \div 100) + (y % 100)
  OBVIOUS
<1> DEFINE q == x \div 100  r == x % 100  s == y \div 100  t == y % 100
<1>2. q < s \/ (q = s /\ r <= t)
  BY <1>1
<1>3. RoundCents(x) \in {q, q + 1} /\ RoundCents(y) \in {s, s + 1}
  BY DEF RoundCents
<1>4. CASE q < s
  BY <1>1, <1>3, <1>4
<1>5. CASE q = s /\ r <= t
  BY <1>1, <1>3, <1>5 DEF RoundCents
<1> QED
  BY <1>1, <1>2, <1>3, <1>4, <1>5

(* A higher rung asks at least as much, or at most as little.               *)
LEMMA NudgeMonotone ==
  ASSUME NEW m \in Nat, NEW a \in Nat, NEW b \in Nat, a <= b
  PROVE  /\ m * (100 + a * NudgePct) \in Int /\ m * (100 - a * NudgePct) \in Int
         /\ m * (100 + a * NudgePct) <= m * (100 + b * NudgePct)
         /\ m * (100 - b * NudgePct) <= m * (100 - a * NudgePct)
<1>1. NudgePct \in Nat
  BY LadderAssumption DEF LadderAssumption
<1>2. ASSUME NEW i \in Int, NEW j \in Int, NEW k \in Nat, i <= j
      PROVE  i * k \in Int /\ k * i \in Int /\ i * k <= j * k /\ k * i <= k * j
  BY <1>2
<1>3. a * NudgePct \in Int /\ b * NudgePct \in Int /\ a * NudgePct <= b * NudgePct
  BY <1>1, <1>2
<1>4. /\ 100 + a * NudgePct \in Int /\ 100 + b * NudgePct \in Int
      /\ 100 - a * NudgePct \in Int /\ 100 - b * NudgePct \in Int
      /\ 100 + a * NudgePct <= 100 + b * NudgePct
      /\ 100 - b * NudgePct <= 100 - a * NudgePct
  BY <1>3
<1> QED
  BY <1>2, <1>4

(* The ladder is monotone in the rung, in the direction of the structure.   *)
LEMMA LadderMonotone ==
  ASSUME mark \in Marks, paysDebit \in BOOLEAN, urgent \in BOOLEAN,
         NEW a \in Nat, NEW b \in Nat, a <= b
  PROVE  /\ LimitPrice(a) \in Int /\ LimitPrice(b) \in Int
         /\ IF paysDebit THEN LimitPrice(a) <= LimitPrice(b)
                         ELSE LimitPrice(b) <= LimitPrice(a)
<1>1. mark \in Nat /\ Rung(a) \in Nat /\ Rung(b) \in Nat /\ Rung(a) <= Rung(b)
  BY LadderAssumption DEF LadderAssumption, Rung
<1>2. /\ Target(a) \in Int /\ Target(b) \in Int
      /\ IF paysDebit THEN Target(a) <= Target(b) ELSE Target(b) <= Target(a)
  <2>1. /\ mark * (100 + Rung(a) * NudgePct) \in Int /\ mark * (100 - Rung(a) * NudgePct) \in Int
        /\ mark * (100 + Rung(a) * NudgePct) <= mark * (100 + Rung(b) * NudgePct)
        /\ mark * (100 - Rung(b) * NudgePct) <= mark * (100 - Rung(a) * NudgePct)
    BY <1>1, NudgeMonotone
  <2>2. mark * (100 + Rung(b) * NudgePct) \in Int /\ mark * (100 - Rung(b) * NudgePct) \in Int
    BY <1>1, NudgeMonotone
  <2> QED
    BY <2>1, <2>2 DEF Target, AtLeast
<1> QED
  BY <1>2, RoundingMonotone DEF LimitPrice

(* The rung an age calls for is one of the ladder.                          *)
LEMMA DueOnLadder ==
  ASSUME LadderTypes
  PROVE  OnLadder(LimitPrice(DueAttempt)) /\ OnLadder(LimitPrice(0))
<1>1. DueAttempt \in 0..MaxAttempts /\ MaxAttempts \in Nat
  BY LadderAssumption DEF LadderTypes, DueAttempt, LadderAssumption
<1> QED
  BY <1>1, LadderMonotone DEF OnLadder, LadderTypes

------------------------------------------------------------------------------
LEMMA InitLadder == Init => LadderInv
<1> SUFFICES ASSUME Init PROVE LadderInv
  OBVIOUS
<1>1. paysDebit \in BOOLEAN /\ urgent \in BOOLEAN
  BY Zenon DEF Init, RepriceInit
<1>2. LadderTypes /\ latest = 0 /\ closeRow = "none" /\ tpc = "idle"
  BY <1>1, LadderAssumption
  DEF LadderAssumption, Init, RepriceInit, LadderTypes, OrderIds, NoOrder
<1>3. LimitWithinLadder
  BY <1>2 DEF LimitWithinLadder
<1> QED
  BY <1>2, <1>3 DEF LadderInv

(* A step that leaves the ladder's inputs and every limit alone.            *)
LEMMA LadderFrame ==
  ASSUME LadderInv,
         UNCHANGED <<mark, paysDebit, urgent, latest, limit>>,
         elapsed' \in Nat, aim' \in Int, tpc' \in {"idle", "write", "release"},
         closeRow' # "none" \/ tpc' # "idle" => latest > 0
  PROVE  LadderInv'
  BY DEF LadderInv, LadderTypes, LimitWithinLadder, LimitPrice, Target, AtLeast, Rung

(* A step that leaves the aim and the Trader alone too.                     *)
LEMMA LadderKept ==
  ASSUME LadderInv,
         UNCHANGED <<mark, paysDebit, urgent, latest, limit, aim, tpc, closeRow>>, elapsed' \in Nat
  PROVE  LadderInv'
  BY DEF LadderInv, LadderTypes, LimitWithinLadder, OnLadder, LimitPrice, Target, AtLeast, Rung

LEMMA PlacedOnLadder ==
  ASSUME LadderInv, NEW debit \in BOOLEAN, NEW isUrgent \in BOOLEAN,
         tpc = "idle", PlaceClose(debit, isUrgent)
  PROVE  LadderInv'
<1> USE LadderAssumption DEF LadderAssumption, NoOrder, OrderIds
<1>1. LadderTypes /\ latest = 0 /\ latest' = 1 /\ tpc' = "idle" /\ UNCHANGED <<mark, elapsed, aim>>
  BY DEF PlaceClose, LadderInv, readVars
<1>2. mark' \in Marks /\ paysDebit' \in BOOLEAN /\ urgent' \in BOOLEAN
  BY <1>1 DEF PlaceClose, LadderTypes
<1>3. /\ LimitPrice(0)' \in Int /\ LimitPrice(MaxAttempts)' \in Int
      /\ IF paysDebit' THEN LimitPrice(0)' <= LimitPrice(MaxAttempts)'
                       ELSE LimitPrice(MaxAttempts)' <= LimitPrice(0)'
  <2>1. mark' \in Nat /\ Rung(0)' \in Nat /\ Rung(MaxAttempts)' \in Nat
        /\ Rung(0)' <= Rung(MaxAttempts)'
    BY <1>2 DEF Rung
  <2>2. /\ Target(0)' \in Int /\ Target(MaxAttempts)' \in Int
        /\ IF paysDebit' THEN Target(0)' <= Target(MaxAttempts)'
                         ELSE Target(MaxAttempts)' <= Target(0)'
    <3> DEFINE m == mark'  lo == Rung(0)'  hi == Rung(MaxAttempts)'
    <3>1. /\ m * (100 + lo * NudgePct) \in Int /\ m * (100 - lo * NudgePct) \in Int
          /\ m * (100 + lo * NudgePct) <= m * (100 + hi * NudgePct)
          /\ m * (100 - hi * NudgePct) <= m * (100 - lo * NudgePct)
      BY <2>1, NudgeMonotone
    <3>2. m * (100 + hi * NudgePct) \in Int /\ m * (100 - hi * NudgePct) \in Int
      BY <2>1, NudgeMonotone
    <3> QED
      BY <3>1, <3>2 DEF Target, AtLeast
  <2> QED
    BY <2>2, RoundingMonotone DEF LimitPrice
<1>4. limit' \in [OrderIds -> Int] /\ limit'[1] = LimitPrice(0)'
  BY <1>1, <1>3 DEF PlaceClose, LadderTypes
<1>5. LimitWithinLadder'
  BY <1>1, <1>3, <1>4 DEF LimitWithinLadder
<1> QED
  BY <1>1, <1>2, <1>4, <1>5 DEF LadderInv, LadderTypes

LEMMA ReadOnLadder ==
  ASSUME LadderInv, ReadOrder
  PROVE  LadderInv'
<1> USE DEF closeVars, brokerCloseVars
<1>1. LadderTypes /\ latest > 0
  BY DEF LadderInv, ReadOrder, RowPolled
<1>2. CASE WantsReprice(ReadTarget)
  <2>1. /\ tpc' = "replace" /\ aim' = LimitPrice(DueAttempt) /\ OnLadder(aim')
        /\ UNCHANGED <<mark, paysDebit, urgent, latest, limit, elapsed>>
    BY <1>1, <1>2, DueOnLadder DEF ReadOrder
  <2>2. aim' \in Int
    BY <1>1, <2>1, LadderMonotone, LadderAssumption
    DEF OnLadder, LadderTypes, LadderAssumption
  <2> QED
    BY <1>1, <2>1, <2>2
    DEF LadderInv, LadderTypes, LimitWithinLadder, OnLadder, LimitPrice, Target, AtLeast, Rung
<1>3. CASE ~WantsReprice(ReadTarget)
  BY <1>1, <1>3, LadderFrame DEF ReadOrder, LadderTypes
<1> QED
  BY <1>2, <1>3

(* The new order gets the aim, the others keep their limits.                *)
LEMMA SupersededOnLadder ==
  ASSUME LadderInv, tpc = "replace", SupersedeAtBroker,
         UNCHANGED <<closeVars, elapsed>>, aim' = 0, tpc' = "write"
  PROVE  LadderInv'
<1> USE LadderAssumption DEF LadderAssumption, closeVars, OrderIds
<1>1. /\ LadderTypes /\ latest > 0 /\ OnLadder(aim)
      /\ latest + 1 \in OrderIds /\ latest' = latest + 1
      /\ limit' = [limit EXCEPT ![latest + 1] = aim]
  BY DEF LadderInv, LadderTypes, SupersedeAtBroker
<1>2. LadderTypes'
  BY <1>1 DEF LadderTypes
<1>3. \A i \in 1..latest' : limit'[i] = IF i = latest + 1 THEN aim ELSE limit[i]
  BY <1>1 DEF LadderTypes
<1>4. LimitWithinLadder'
  BY <1>1, <1>3 DEF LadderInv, LadderTypes, LimitWithinLadder, OnLadder, LimitPrice, Target,
                    AtLeast, Rung
<1> QED
  BY <1>1, <1>2, <1>4 DEF LadderInv, LadderTypes

LEMMA ReconcileOnLadder ==
  ASSUME LadderInv, ReconcileStep
  PROVE  LadderInv'
<1> USE DEF closeVars, brokerCloseVars
<1>0. LadderTypes
  BY DEF LadderInv
<1>1. CASE ReadOrder
  BY <1>1, ReadOnLadder
<1>2. CASE ReplaceAccepted
  BY <1>2, SupersededOnLadder DEF ReplaceAccepted
<1>3. CASE ReplaceRefused
  BY <1>0, <1>3, LadderFrame DEF ReplaceRefused, LadderTypes, LadderInv
<1>4. CASE ReplaceUnanswered
  BY <1>4, SupersededOnLadder DEF ReplaceUnanswered
<1>5. CASE WriteRow
  BY <1>0, <1>5, LadderFrame DEF WriteRow, Forget, LadderTypes, LadderInv
<1>6. CASE ReleaseClose
  BY <1>0, <1>6, LadderFrame DEF ReleaseClose, readVars, LadderTypes, LadderInv
<1> QED
  BY <1>1, <1>2, <1>3, <1>4, <1>5, <1>6 DEF ReconcileStep

LEMMA NextLadder == LadderInv /\ [Next]_vars => LadderInv'
<1> SUFFICES ASSUME LadderInv, [Next]_vars PROVE LadderInv'
  OBVIOUS
<1> USE DEF closeVars, brokerCloseVars, repriceVars, readVars
<1>0. LadderTypes
  BY DEF LadderInv
<1>1. CASE UNCHANGED repriceVars
  BY <1>0, <1>1, LadderKept DEF LadderTypes
<1>2. CASE Trader
  <2>1. ASSUME NEW isUrgent \in BOOLEAN, Exit(isUrgent) PROVE LadderInv'
    <3>1. ClosingPaysADebit(row.strategy) \in BOOLEAN
      BY DEF ClosingPaysADebit
    <3> QED
      BY <2>1, <3>1, PlacedOnLadder DEF Exit
  <2> QED
    BY <1>2, <2>1, ReconcileOnLadder DEF Trader
<1>3. ASSUME NEW id \in OrderIds,
             CloseOpens(id) \/ CloseDies(id) \/ \E s \in {"partially_filled", "filled"} : CloseTrades(id, s)
      PROVE  LadderInv'
  BY <1>0, <1>3, LadderKept DEF CloseOpens, CloseDies, CloseTrades, LadderTypes
<1>4. CASE TimePasses
  BY <1>0, <1>4, LadderKept DEF TimePasses, LadderTypes
<1>5. CASE Restart
  BY <1>0, <1>5, LadderFrame DEF Restart, RepriceRestart, Forget, LadderTypes, LadderInv
<1>6. CASE CloseFills
  BY <1>3, <1>6 DEF CloseFills
<1>7. CASE CloseMarket
  BY <1>3, <1>7 DEF CloseMarket
<1> QED
  BY <1>1, <1>2, <1>4, <1>5, <1>6, <1>7 DEF Next, vars

(* However old a close gets, whatever answers are lost and wherever the     *)
(* process restarts, _maybe_reprice_close sends no limit that is below the  *)
(* first or beyond the last rung of its ladder.                             *)
THEOREM LimitsStayOnLadder == Spec => []LimitWithinLadder
<1>1. LadderInv => LimitWithinLadder
  BY DEF LadderInv
<1> QED
  BY <1>1, InitLadder, NextLadder, PTL DEF Spec
==============================================================================
