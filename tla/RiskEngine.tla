------------------------------ MODULE RiskEngine ------------------------------
(***************************************************************************)
(* The account-wide limits one plan is held against (risk.py).  The engine   *)
(* collects every reason; a plan is approved when there is none.  An          *)
(* unreadable equity or buying power cannot approve; an unknown exposure      *)
(* skips its cap.  `plan` is the OrderPlan, `p` the PortfolioSnapshot and     *)
(* `s` the limits, which are read from the Settings.                          *)
(***************************************************************************)
EXTENDS Chain

MaxLoss(plan) == plan.max_loss * plan.qty

LegsOf(plan, side, type) ==
  {n \in DOMAIN plan.legs : plan.legs[n].side = side /\ plan.legs[n].type = type}

WingProtectedStrategies ==
  {"debit_call_spread", "debit_put_spread", "put_credit_spread",
   "call_credit_spread", "iron_condor", "iron_butterfly"}

(* Per option type, not in aggregate: a put wing does nothing for a call.    *)
DefinedRisk(plan) ==
  \/ \A n \in DOMAIN plan.legs : plan.legs[n].side = "buy"
  \/ /\ plan.strategy \in WingProtectedStrategies
     /\ \A type \in {"call", "put"} :
          Cardinality(LegsOf(plan, "buy", type)) >= Cardinality(LegsOf(plan, "sell", type))
  \/ plan.strategy \in {"covered_call", "cash_secured_put"}

LegsTradable(plan, s) ==
  \A n \in DOMAIN plan.legs : LET l == plan.legs[n] IN
    /\ s.risk_dte_min <= l.dte /\ l.dte <= s.risk_dte_max
    /\ l.oi # None /\ l.oi >= s.min_open_interest
    /\ Quoted(l)
    /\ 200 * Spread(l) <= s.max_spread_pct * (l.bid + l.ask) \/ Spread(l) <= s.max_spread_abs

PremiumPerTradeOk(plan, p, s) ==
  p.equity # None /\ 100 * MaxLoss(plan) <= s.max_premium_pct_per_trade * p.equity

TotalPremiumOk(plan, p, s) ==
  /\ p.equity # None
  /\ 100 * (p.total_open_option_premium + MaxLoss(plan))
       <= s.max_total_premium_pct * p.equity

BuyingPowerOk(plan, p, s) ==
  /\ p.options_buying_power # None
  /\ 100 * MaxLoss(plan) <= s.buying_power_utilization_cap * p.options_buying_power

ExposureOk(p, s) ==
  /\ p.equity # None
  /\ p.projected_beta_weighted_delta # None =>
       100 * AbsOf(p.projected_beta_weighted_delta)
         <= s.max_beta_weighted_delta_pct * p.equity
  /\ p.projected_net_vega # None =>
       10000 * AbsOf(p.projected_net_vega) <= s.max_net_vega_pct * p.equity

PositionsOk(p, s) ==
  /\ p.concurrent_option_positions < s.max_concurrent_positions
  /\ p.positions_in_underlying < s.max_positions_per_underlying

(* The breakers compare with yesterday's close and with the recorded peak;   *)
(* without a baseline they are silent.                                       *)
NoDailyLossHalt(p, s) ==
  \/ p.equity = None \/ p.start_of_day_equity = None \/ p.start_of_day_equity <= 0
  \/ 100 * (p.equity - p.start_of_day_equity)
       > -s.daily_loss_halt_pct * p.start_of_day_equity

NoDrawdownHalt(p, s) ==
  \/ p.equity = None \/ p.high_water_mark = None \/ p.high_water_mark <= 0
  \/ 100 * (p.equity - p.high_water_mark) > -s.drawdown_halt_pct * p.high_water_mark

SessionOk(p, s) ==
  /\ p.market_is_open
  /\ p.minutes_to_close = None \/ p.minutes_to_close > s.minutes_before_close_blackout

Approved(plan, p, s) ==
  /\ ~p.kill_switch_engaged
  /\ ~p.already_submitted
  /\ SessionOk(p, s)
  /\ DefinedRisk(plan)
  /\ LegsTradable(plan, s)
  /\ PremiumPerTradeOk(plan, p, s)
  /\ TotalPremiumOk(plan, p, s)
  /\ BuyingPowerOk(plan, p, s)
  /\ ExposureOk(p, s)
  /\ PositionsOk(p, s)
  /\ NoDailyLossHalt(p, s)
  /\ NoDrawdownHalt(p, s)
==============================================================================
