---------------------------- MODULE StrategyMatrix ----------------------------
(***************************************************************************)
(* What to open (matrix.py, earnings.py): the trend and the price of         *)
(* volatility name a structure, the account's trading level may degrade it,  *)
(* and earnings, bought premium and low conviction may turn it into a hold.  *)
(***************************************************************************)
EXTENDS Chain

Matrix ==
  [up   |-> [cheap |-> "call_debit_spread", expensive |-> "put_credit_spread",
             very_expensive |-> "put_credit_spread"],
   flat |-> [cheap |-> "long_strangle", expensive |-> "iron_condor",
             very_expensive |-> "iron_butterfly"],
   down |-> [cheap |-> "put_debit_spread", expensive |-> "call_credit_spread",
             very_expensive |-> "call_credit_spread"]]

Singles == {"long_call", "long_put", "long_strangle"}
BoughtPremium == Singles \union {"call_debit_spread", "put_debit_spread"}
MinLevel(strategy) == IF strategy \in Singles THEN 2 ELSE 3

(* Mutant: what has no cheaper form is kept as it is. *)
FallbackKeepsSold(strategy) ==
  IF strategy = "call_debit_spread" THEN "long_call"
  ELSE IF strategy = "put_debit_spread" THEN "long_put" ELSE strategy

(* Sold structures have no safe downgrade: "hold". *)
Level2Fallback(strategy) ==
  IF strategy = "call_debit_spread" THEN "long_call"
  ELSE IF strategy = "put_debit_spread" THEN "long_put"
       ELSE IF strategy = "long_strangle" THEN "long_strangle" ELSE "hold"

(* is_earnings_blackout: from three days before the print to a day after. *)
EarningsBlackout(daysToPrint) ==
  daysToPrint # None /\ -1 <= daysToPrint /\ daysToPrint <= 3

TrendDirection(t) ==
  IF None \in {t.sma_20, t.sma_50, t.rsi_14} THEN "flat"
  ELSE IF t.sma_20 > t.sma_50 /\ t.rsi_14 > 55 THEN "up"
       ELSE IF t.sma_20 < t.sma_50 /\ t.rsi_14 < 45 THEN "down" ELSE "flat"

IvRegime(o) ==
  IF None \in {o.iv_atm, o.realised_vol_20d} \/ o.realised_vol_20d <= 0 THEN "unknown"
  ELSE IF 100 * o.iv_atm >= 140 * o.realised_vol_20d THEN "very_expensive"
       ELSE IF 100 * o.iv_atm >= 110 * o.realised_vol_20d THEN "expensive" ELSE "cheap"

(* The level is the account's, as cached, under the operator's own cap. *)
EffectiveLevel(cached, s) ==
  IF cached # None /\ cached > 0 /\ cached < s.options_level THEN cached
  ELSE s.options_level

(* The structure to open on this evidence, or "hold". *)
Decided(ev, conviction, s) ==
  LET named == Matrix[TrendDirection(ev.trend)][IvRegime(ev.options)]
      chosen == IF EffectiveLevel(ev.options_trading_level, s) >= MinLevel(named)
                THEN named ELSE Level2Fallback(named)
  IN IF /\ ~EarningsBlackout(ev.days_to_print)
        /\ ev.trend # None /\ ev.options # None
        /\ IvRegime(ev.options) # "unknown"
        /\ ~(chosen \in BoughtPremium /\ ~s.allow_bought_premium)
        /\ conviction >= s.conviction_floor
     THEN chosen ELSE "hold"

(* The wing width the intent pins: none when the builder may size the wings  *)
(* from the expected move.                                                   *)
PinnedWidth(strategy, s) ==
  LET mult == IF strategy = "iron_butterfly"
              THEN s.spread_width_expected_move_mult_atm
              ELSE s.spread_width_expected_move_mult
  IN IF strategy \in Singles \/ mult > 0 THEN None ELSE s.spread_width_default

(* The StrategyIntent of a decision to open; the model wrote only the words. *)
IntentOf(ev, conviction, s) ==
  LET strategy == Decided(ev, conviction, s)
  IN [strategy |-> strategy, underlying |-> ev.symbol,
      target_delta |-> s.short_delta_default,
      spread_width |-> PinnedWidth(strategy, s),
      dte_min |-> s.dte_target_min, dte_max |-> s.dte_target_max,
      conviction |-> conviction]
==============================================================================
