---------------------------- MODULE PositionSizing ----------------------------
(***************************************************************************)
(* How many contracts one trade gets (sizing.py): a base fraction of the    *)
(* equity, scaled by what the account has been through and by conviction,   *)
(* clamped to the ceiling the risk engine enforces, and capped by what the  *)
(* broker would let the account carry.                                      *)
(*                                                                         *)
(* Fractions of equity are in basis points, every other ratio in percent,   *)
(* rounded down at each step.  `s` is the Settings record, with             *)
(* base_risk_pct_per_trade in basis points, and `st` the SizingState record. *)
(***************************************************************************)
EXTENDS Chain

BasisPoints == 10000

(* The Settings as config.py bounds them.                                   *)
IsSizingSettings(s) ==
  /\ s.base_risk_pct_per_trade \in Nat
  /\ s.max_premium_pct_per_trade \in Nat
  /\ s.buying_power_utilization_cap \in Nat
  /\ s.drawdown_size_floor \in 0..100
  /\ s.drawdown_halt_pct \in Nat \ {0}
  /\ s.daily_loss_halt_pct \in Nat \ {0}
  /\ s.gain_size_cap \in Nat /\ s.gain_size_cap >= 100
  /\ s.gain_size_reference_pct \in Nat \ {0}
  /\ s.conviction_floor \in Int
  /\ s.conviction_size_min_mult \in Nat
  /\ s.conviction_size_max_mult \in Nat
  /\ s.conviction_reliability_prior \in Nat
  /\ s.campaign_start \in MaybeInt
  /\ s.campaign_days \in Nat
  /\ s.campaign_min_sessions_to_hold \in Nat
  /\ s.campaign_front_load_mult \in Nat

ClosedTrades == [conviction : Int, pnl : Int]

IsAccount(a) ==
  /\ a.equity \in MaybeInt /\ a.last_equity \in MaybeInt /\ a.cash \in MaybeInt
  /\ a.options_buying_power \in MaybeInt
  /\ a.non_marginable_buying_power \in MaybeInt

(* resolve_options_buying_power: the first field that holds a number. *)
OptionsBuyingPower(account) ==
  IF account.options_buying_power # None THEN account.options_buying_power
  ELSE IF account.non_marginable_buying_power # None
       THEN account.non_marginable_buying_power
       ELSE account.cash

(* collateral_per_contract: None when it cannot be computed. *)
Collateral(strategy, loss, strike) ==
  IF strategy = "covered_call" THEN 0
  ELSE IF strategy = "cash_secured_put" THEN strike
       ELSE IF loss > 0 THEN loss ELSE None

(* _taper: in full at no loss, down to the floor where the breaker fires. *)
Taper(lost, base, halt, floor) ==
  IF lost <= 0 THEN 100
  ELSE LET reached == MinOf(100, (lost * 100 * 100) \div (base * halt))
       IN MaxOf(floor, 100 - (reached * (100 - floor)) \div 100)

(* Mutant: the loss with its sign turned over. *)
TaperOnGain(base, equity, halt, s) ==
  IF base = None \/ base <= 0 THEN 100
  ELSE Taper(equity - base, base, halt, s.drawdown_size_floor)

TaperFrom(base, equity, halt, s) ==
  IF base = None \/ base <= 0 THEN 100
  ELSE Taper(base - equity, base, halt, s.drawdown_size_floor)

(* The worse of the fall from the peak and the fall since yesterday's close. *)
DrawdownScalar(st, s) ==
  IF st.equity = None \/ st.equity <= 0 THEN 100
  ELSE MinOf(TaperFrom(st.high_water_mark, st.equity, s.drawdown_halt_pct, s),
             TaperFrom(st.start_of_day_equity, st.equity, s.daily_loss_halt_pct, s))

GainScalar(st, s) ==
  LET base == IF st.campaign_start_equity # None
              THEN st.campaign_start_equity ELSE st.start_of_day_equity
  IN IF st.equity = None \/ base = None \/ base <= 0 \/ st.equity <= base THEN 100
     ELSE LET gained == st.equity - base
              reached == MinOf(100, (gained * 100 * 100) \div (base * s.gain_size_reference_pct))
          IN 100 + (reached * (s.gain_size_cap - 100)) \div 100

(* conviction_reliability: the correlation of conviction and result, never   *)
(* negative, and the prior while there are too few trades or one of the two   *)
(* does not vary.                                                            *)
Reliability(outcomes, s) ==
  LET n == Len(outcomes)
      X(o) == o.conviction
      Y(o) == o.pnl
      Covariance(F(_), G(_)) ==
        n * Total(Each(outcomes, LAMBDA o : F(o) * G(o)))
          - Total(Each(outcomes, F)) * Total(Each(outcomes, G))
  IN IF \/ n < s.conviction_calibration_min_samples
        \/ Covariance(X, X) <= 0 \/ Covariance(Y, Y) <= 0
     THEN s.conviction_reliability_prior
     ELSE MaxOf(0, MinOf(100, (100 * Covariance(X, Y))
                                \div (Root(Covariance(X, X)) * Root(Covariance(Y, Y)))))

(* The live band of conviction onto the range of multipliers, shrunk toward  *)
(* one by how little conviction has predicted.                               *)
ConvictionScalar(conviction, s, reliability) ==
  LET span == 100 - s.conviction_floor
      low == s.conviction_size_min_mult
      high == s.conviction_size_max_mult
      reached == IF span <= 0 THEN 100
                 ELSE MinOf(100, MaxOf(0, ((conviction - s.conviction_floor) * 100) \div span))
      raw == low + (reached * (high - low)) \div 100
  IN 100 + (MinOf(100, MaxOf(0, reliability)) * (raw - 100)) \div 100

(* Mutant: the last session the minimum allows is one too late. *)
HorizonUpToTheEnd(st, s) ==
  IF st.sessions_remaining = None THEN 100
  ELSE IF st.sessions_remaining < s.campaign_min_sessions_to_hold THEN 0 ELSE 100

HorizonScalar(st, s) ==
  IF st.sessions_remaining = None THEN 100
  ELSE IF st.sessions_remaining <= s.campaign_min_sessions_to_hold THEN 0
       ELSE IF st.is_first_session THEN s.campaign_front_load_mult ELSE 100

(* The fraction of equity the trade may lose, scaled and clamped. *)
ScaledFraction(conviction, st, s) ==
  LET base == s.base_risk_pct_per_trade
      drawn == (base * DrawdownScalar(st, s)) \div 100
      gained == (drawn * GainScalar(st, s)) \div 100
      believed == (gained * ConvictionScalar(conviction, s, st.conviction_reliability)) \div 100
  IN (believed * HorizonScalar(st, s)) \div 100

(* Mutant: the scalars are trusted to stay inside the ceiling. *)
UnclampedFraction(conviction, st, s) == ScaledFraction(conviction, st, s)

RiskFraction(conviction, st, s) ==
  MinOf(ScaledFraction(conviction, st, s), 100 * s.max_premium_pct_per_trade)

(* What the account may still tie up; a put is also capped by its cash. *)
BuyingPowerCap(st, s, collateral) ==
  (MaxOf(0, st.options_buying_power) * s.buying_power_utilization_cap)
    \div (100 * collateral)

(* The contracts one trade gets; zero when it is blocked or does not fit. *)
Sized(strategy, conviction, loss, strike, st, s) ==
  LET collateral == Collateral(strategy, loss, strike)
      put == strategy = "cash_secured_put"
      budget == (RiskFraction(conviction, st, s) * st.equity) \div (BasisPoints * loss)
      power == IF collateral = 0 THEN budget ELSE BuyingPowerCap(st, s, collateral)
      cash == IF put THEN MaxOf(0, st.cash) \div strike ELSE budget
      blocked == \/ HorizonScalar(st, s) <= 0
                 \/ st.equity = None \/ st.equity <= 0
                 \/ loss <= 0
                 \/ collateral = None
                 \/ collateral # 0 /\ st.options_buying_power = None
                 \/ put /\ st.cash = None
  IN IF blocked THEN 0 ELSE MaxOf(0, MinOf(budget, MinOf(power, cash)))

(* build_sizing_state: capacity read from the broker, the rest from history. *)
(* `history` is the equity seen so far, newest first, with the session day.  *)
SizingState(account, history, campaign, outcomes, s) ==
  LET marks == {history[i].equity : i \in DOMAIN history} \ {None}
      since == {i \in DOMAIN history : /\ history[i].equity # None
                                      /\ history[i].day >= campaign.start}
      elapsed == MaxOf(1, campaign.elapsed)
  IN [equity |-> account.equity,
      options_buying_power |-> OptionsBuyingPower(account),
      cash |-> account.cash,
      start_of_day_equity |-> account.last_equity,
      high_water_mark |->
        IF marks = {} THEN None ELSE Largest(marks),
      campaign_start_equity |->
        IF campaign.start = None \/ since = {} THEN None ELSE history[Largest(since)].equity,
      sessions_remaining |->
        IF campaign.start = None THEN None ELSE MaxOf(0, s.campaign_days - elapsed + 1),
      is_first_session |-> campaign.start # None /\ elapsed <= 1,
      conviction_reliability |-> Reliability(outcomes, s)]
==============================================================================
