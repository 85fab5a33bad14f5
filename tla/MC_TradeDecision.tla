---------------------------- MODULE MC_TradeDecision ----------------------------
(* One underlying at 100 dollars with listed strikes around it, and an account  *)
(* of about 100000 dollars.  The chains hold what makes structures come out     *)
(* wrong: an uneven ladder, stale deltas, missing greeks, wide or thin wings.   *)
EXTENDS TradeDecision

MCEquities == {94000, 100000, 102000, 104000}

Base ==
  [max_spread_pct |-> 10, max_spread_abs |-> 5, min_open_interest |-> 100,
   limit_price_spread_nudge_pct |-> 25, standard_monthly_expiry_preference |-> TRUE,
   base_risk_pct_per_trade |-> 150, max_premium_pct_per_trade |-> 2,
   max_total_premium_pct |-> 15, buying_power_utilization_cap |-> 50,
   drawdown_size_floor |-> 35, drawdown_halt_pct |-> 8, daily_loss_halt_pct |-> 3,
   gain_size_cap |-> 160, gain_size_reference_pct |-> 4,
   conviction_floor |-> 55, conviction_size_min_mult |-> 60, conviction_size_max_mult |-> 150,
   conviction_reliability_prior |-> 50, conviction_calibration_min_samples |-> 3,
   campaign_start |-> 1, campaign_days |-> 2, campaign_min_sessions_to_hold |-> 1,
   campaign_front_load_mult |-> 120,
   options_level |-> 3, allow_bought_premium |-> TRUE,
   spread_width_expected_move_mult |-> 45, spread_width_expected_move_mult_atm |-> 125,
   spread_width_default |-> 500, short_delta_default |-> 25,
   dte_target_min |-> 7, dte_target_max |-> 14, risk_dte_min |-> 7, risk_dte_max |-> 45,
   min_credit_width_pct |-> 12, max_credit_width_pct |-> 70, max_debit_width_pct |-> 45,
   min_reward_risk |-> 100, max_beta_weighted_delta_pct |-> 100, max_net_vega_pct |-> 75,
   max_concurrent_positions |-> 2, max_positions_per_underlying |-> 1,
   minutes_before_close_blackout |-> 15]

NoCampaign ==
  [Base EXCEPT !.campaign_start = None, !.allow_bought_premium = FALSE,
               !.spread_width_expected_move_mult = 0,
               !.base_risk_pct_per_trade = 1200, !.max_premium_pct_per_trade = 20,
               !.max_total_premium_pct = 25, !.buying_power_utilization_cap = 90]

Trends == [up   |-> [sma_20 |-> 101, sma_50 |-> 100, rsi_14 |-> 60],
           flat |-> [sma_20 |-> 101, sma_50 |-> 100, rsi_14 |-> 50],
           down |-> [sma_20 |-> 99, sma_50 |-> 100, rsi_14 |-> 40]]

Pack(t, iv, level, days) ==
  [symbol |-> "NVDA", trend |-> Trends[t], options |-> [iv_atm |-> iv, realised_vol_20d |-> 20],
   options_trading_level |-> level, days_to_print |-> days]

MCEvidences ==
  {Pack(t, iv, 3, None) : t \in {"up", "flat", "down"}, iv \in {20, 24, 30}}
    \union {Pack(t, iv, 2, 9) : t \in {"up", "down"}, iv \in {20, 24}}
    \union {Pack("flat", 30, 3, 2), [Pack("up", 24, 3, None) EXCEPT !.trend = None],
            Pack("up", None, 3, None)}

MCConvictions == {50, 60, 90}

Ask(strategy, delta, width) ==
  [strategy |-> strategy, underlying |-> "NVDA", target_delta |-> delta,
   spread_width |-> width, dte_min |-> 7, dte_max |-> 14, conviction |-> 100]

MCRequests ==
  {Ask("covered_call", 25, None), Ask("covered_call", 70, None),
   Ask("cash_secured_put", 25, None), Ask("debit_put_spread", 50, 200),
   Ask("iron_condor", 25, 1000), Ask("iron_condor", 40, 800)}

(* Values over intrinsic by distance from the spot, and deltas to match.        *)
Spot == 10000
TimeValue(k) == LET d == AbsOf(k - Spot) IN
  IF d < 250 THEN 300 ELSE IF d < 700 THEN 180 ELSE IF d < 1100 THEN 110 ELSE 60
CallDelta(k) == IF k >= 11000 THEN 12 ELSE IF k >= 10500 THEN 28 ELSE IF k >= 10000 THEN 52
                ELSE IF k >= 9500 THEN 70 ELSE 88

Row(t, k, d) == [symbol |-> <<t, k, d>>, type |-> t, strike |-> k, dte |-> d,
                 monthly |-> d = 10, tradable |-> TRUE, active |-> TRUE, oi |-> 500]
Rows(calls, puts, d) ==
  [n \in DOMAIN calls |-> Row("call", calls[n], d)]
    \o [n \in DOMAIN puts |-> Row("put", puts[n], d)]

Quote(x) ==
  LET t == x[1]  k == x[2]
      p == Intrinsic(t, k, Spot) + TimeValue(k)
  IN [delta |-> IF t = "call" THEN CallDelta(k) ELSE CallDelta(k) - 100,
      iv |-> 30, bid |-> p - 2, ask |-> p + 2]

Symbols(rows) == {rows[n].symbol : n \in DOMAIN rows}
ChainOf(rows, Snap(_)) ==
  [contracts |-> rows, snapshots |-> [x \in Symbols(rows) |-> Snap(x)], shares |-> 100,
   snapshot |-> [trade |-> Spot, quote |-> [bid |-> None, ask |-> None]]]

Even == <<9000, 9500, 10000, 10500, 11000>>
Uneven == <<8800, 9500, 10000, 10500, 11000>>

(* A paper feed: no greeks, no volatility, and no snapshot for one wing.         *)
Bare(x) == [Quote(x) EXCEPT !.delta = None, !.iv = None]
BareChain == LET c == ChainOf(Rows(Even, Even, 10), Bare)
             IN [c EXCEPT !.snapshots = [x \in DOMAIN c.snapshots \ {<<"put", 9000, 10>>}
                                            |-> c.snapshots[x]]]

(* Deltas left over from before a move: the 25-delta strikes have crossed.        *)
Stale(x) ==
  [Quote(x) EXCEPT !.delta = IF x[2] = 9500 /\ x[1] = "call" THEN 25
                             ELSE IF x[2] = 10000 /\ x[1] = "put" THEN -25 ELSE @]

(* One wing too wide, one contract too thin, one of unknown depth. *)
Thin == [n \in 1..10 |-> IF n = 5 THEN [Rows(Even, Even, 10)[n] EXCEPT !.oi = 10]
                         ELSE Rows(Even, Even, 10)[n]]
Unknown == [n \in 1..10 |-> IF n = 6 THEN [Rows(Even, Even, 10)[n] EXCEPT !.oi = None]
                            ELSE Rows(Even, Even, 10)[n]]
WideQuote(x) == IF x[2] = 9000 THEN [Quote(x) EXCEPT !.bid = 60, !.ask = 100] ELSE Quote(x)

Expiries == Rows(Even, Even, 5) \o Rows(Even, Even, 8) \o Rows(Uneven, Uneven, 10) \o Rows(Even, Even, 30)

(* Shares for two covered calls, everywhere else for one.                        *)
Owned == [ChainOf(Expiries, Quote) EXCEPT !.shares = 200]

MCChains ==
  {ChainOf(Rows(Even, Even, 10), Quote), Owned, BareChain,
   ChainOf(Rows(Even, Even, 10), Stale), ChainOf(Thin, WideQuote),
   [ChainOf(Unknown, Quote) EXCEPT !.snapshot = [trade |-> None, quote |-> [bid |-> 9990, ask |-> 10010]]],
   [ChainOf(Rows(Even, Even, 20), Quote) EXCEPT !.shares = None],
   [ChainOf(Rows(Even, Even, 10), Quote) EXCEPT !.snapshot.trade = None]}

FullAccount ==
  [e \in MCEquities |-> [l \in MCEquities |->
     [equity |-> e, last_equity |-> l, options_buying_power |-> e \div 4,
      non_marginable_buying_power |-> e, cash |-> e \div 2]]]

MCAccounts ==
  {FullAccount,
   [e \in MCEquities |-> [l \in MCEquities |->
      [equity |-> e, last_equity |-> None, options_buying_power |-> None,
       non_marginable_buying_power |-> None, cash |-> 6000]]],
   [e \in MCEquities |-> [l \in MCEquities |->
      [equity |-> None, last_equity |-> l, options_buying_power |-> None,
       non_marginable_buying_power |-> None, cash |-> None]]]}

HeldLeg(root, type, strike, qty) ==
  [root |-> root, symbol |-> <<root, type, strike>>, strike |-> strike, dte |-> 10,
   type |-> type, qty |-> qty, value |-> 900]

Packs == [last |-> None, day_close |-> 10000, mid |-> 10010, iv_atm |-> 30]
Held(legs, greeks) ==
  [legs |-> legs, greeks |-> greeks,
   market |-> [r \in {"NVDA", "XYZ"} |->
                 IF r = "NVDA" THEN MarketFromEvidence(Packs) ELSE MarketFromEvidence(None)]]

Ratio23 == <<HeldLeg("XYZ", "call", 9500, 4), HeldLeg("XYZ", "call", 10000, -6)>>
Spread5 == <<HeldLeg("XYZ", "put", 9500, -5), HeldLeg("XYZ", "put", 9000, 5)>>
MCHoldings ==
  {Held(<< >>, << >>), Held(Spread5, << >>),
   Held(Spread5, [x \in {l.symbol : l \in {Spread5[1], Spread5[2]}} |-> [delta |-> -25, vega |-> None]]),
   Held(<<HeldLeg("NVDA", "call", 10000, 2)>>, << >>), Held(Ratio23, << >>)}

MCOutcomes ==
  {<< >>, <<[conviction |-> 60, pnl |-> 5], [conviction |-> 80, pnl |-> -5],
            [conviction |-> 90, pnl |-> -2]>>,
   <<[conviction |-> 60, pnl |-> -5], [conviction |-> 80, pnl |-> 5],
     [conviction |-> 90, pnl |-> 5]>>}

MCBetas == [NVDA |-> 190]

(* The structures: every chain and every request, at one equity.                *)
Structure(settings) ==
  [settings |-> settings, evidences |-> MCEvidences, convictions |-> {50, 90},
   requests |-> MCRequests, chains |-> MCChains, accounts |-> MCAccounts,
   holdings |-> MCHoldings, outcomes |-> {<< >>}, equities |-> {100000}, recent_rows |-> 2, last_day |-> 1]

(* The sizes: one structure, over what an account and a campaign go through.    *)
Size(settings) ==
  [settings |-> settings, evidences |-> {Pack("up", 30, 3, None)}, convictions |-> MCConvictions,
   requests |-> {Ask("covered_call", 25, None)}, chains |-> {ChainOf(Rows(Even, Even, 10), Quote)},
   accounts |-> MCAccounts, holdings |-> {Held(<< >>, << >>)}, outcomes |-> MCOutcomes,
   equities |-> MCEquities \ {100000}, recent_rows |-> 2, last_day |-> 2]

MCWorlds == [structure |-> Structure(Base), structureNoCampaign |-> Structure(NoCampaign),
             size |-> Size(Base), sizeNoCampaign |-> Size(NoCampaign)]

(* The equity curve gets a row a minute; here a row a session, and two of them    *)
(* are read back.                                                                *)
PeakWorlds == [peak |-> [Size(Base) EXCEPT !.convictions = {90}, !.requests = {},
                           !.equities = {94000, 104000}, !.accounts = {FullAccount}, !.outcomes = {<< >>},
                           !.settings.campaign_start = None]]

(* The worlds meet every hypothesis of the theorems about TradeDecision.          *)
ASSUME HypothesesMet ==
  NudgeAtMostHalf /\ NudgeUnderHalf /\ QuotesNotCrossed /\ WindowsInside
================================================================================
