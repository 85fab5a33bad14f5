----------------------------- MODULE TradeDecision -----------------------------
(***************************************************************************)
(* How one entry is decided, built, sized and judged.  The Strategist turns   *)
(* cached evidence into an intent (or an operator asks for one with `plan`);  *)
(* later the Trader reads the account, then the chain and the shares, builds   *)
(* and sizes a plan, and, after more reads, lets the risk engine judge it      *)
(* against the account it read at first.  Meanwhile the market moves, the      *)
(* pulse records equity, and sessions pass.                                   *)
(*                                                                          *)
(* One proposal at a time: the Trader drains its batch in order.  Sharing of   *)
(* positions, orders and proposals between agents is OrderFlow's.             *)
(***************************************************************************)
EXTENDS StrategyMatrix, StrategyBuilder, RiskEngine, Exposure, Requests

CONSTANTS
  Worlds,    (* by name, what a deployment meets, [settings, evidences, convictions,    *)
             (* requests, chains, accounts, holdings, outcomes, equities,      *)
             (* recent_rows, last_day]: its Settings, the packs and the answers of the       *)
             (* model, what an operator asks to plan, what the broker answers   *)
             (* for the chain, the account (a function of the equity) and the   *)
             (* positions, the closed trades, how many rows of the equity curve *)
             (* an agent reads back (500 in the code), and two bounds          *)
  Betas      (* hand-maintained betas by underlying                            *)

VARIABLES
  world,        (* the name of the world, fixed                               *)
  day,          (* session number; 0 is before the campaign                  *)
  equity,       (* at the broker                                             *)
  lastEquity,   (* equity at the previous close                              *)
  history,      (* account snapshots, newest first                           *)
  stage,        (* "idle", "intent", "reading", "built" or "approved"        *)
  evidence,     (* the pack the intent came from, None for an operator's     *)
  intent,
  read,         (* the account as the Trader read it                         *)
  spot,         (* the spot as the Trader read it                            *)
  shares,       (* the shares of the underlying as the Trader read them      *)
  plan

vars ==
  <<world, day, equity, lastEquity, history, stage, evidence, intent, read, spot, shares, plan>>

w == Worlds[world]
s == w.settings

trade == <<stage, evidence, intent, read, spot, shares, plan>>

IsSettings(x) ==
  /\ IsSizingSettings(x) /\ IsBuilderSettings(x)
  /\ x.options_level \in Int /\ x.short_delta_default \in Int
  /\ x.spread_width_default \in Nat \ {0}
  /\ x.dte_target_min \in Nat /\ x.dte_target_max \in Nat

IsPrice(p) == p = None \/ p \in Nat \ {0}

(* What the broker answers about one underlying.                              *)
IsChain(c) ==
  /\ DOMAIN c.contracts \subseteq Nat
  /\ \A n \in DOMAIN c.contracts : IsListed(c.contracts[n])
  /\ \A x \in DOMAIN c.snapshots : IsSnapshot(c.snapshots[x])
  /\ IsPrice(c.snapshot.trade)
  /\ c.snapshot.quote.bid \in MaybeInt /\ c.snapshot.quote.ask \in MaybeInt
  /\ c.shares \in MaybeInt

(* Settings as config.py declares them, intents as models.py does, levels as   *)
(* Alpaca numbers them, and prices, strikes and quantities that are numbers:   *)
(* of contracts, a position holds some.                                       *)
ASSUME WorldsAssumption ==
  \A n \in DOMAIN Worlds : LET x == Worlds[n] IN
    /\ IsSettings(x.settings)
    /\ \A ev \in x.evidences : ev.symbol \in STRING /\ ev.options_trading_level \in MaybeInt
    /\ x.convictions \subseteq Int
    /\ x.requests \subseteq Intents
    /\ \A chain \in x.chains : IsChain(chain)
    /\ x.equities \subseteq Int
    /\ \A account \in x.accounts, e, l \in x.equities : IsAccount(account[e][l])
    /\ \A held \in x.holdings : \A k \in DOMAIN held.legs : held.legs[k].qty \in Int \ {0}
    /\ \A outcomes \in x.outcomes : outcomes \in Seq(ClosedTrades)
    /\ x.recent_rows \in Nat

(* What the strongest of the properties below ask besides, of a deployment or a *)
(* feed: settings admit a nudge up to the whole spread (config.py:111, a quarter *)
(* by default), any window may be asked for, and a stale quote may be crossed.   *)
NudgeAtMostHalf ==
  \A n \in DOMAIN Worlds : Worlds[n].settings.limit_price_spread_nudge_pct <= 50

NudgeUnderHalf ==
  \A n \in DOMAIN Worlds : Worlds[n].settings.limit_price_spread_nudge_pct < 50

QuotesNotCrossed ==
  \A n \in DOMAIN Worlds : \A chain \in Worlds[n].chains :
    \A x \in DOMAIN chain.snapshots :
      Quoted(chain.snapshots[x]) => chain.snapshots[x].bid <= chain.snapshots[x].ask

WindowsInside ==
  \A n \in DOMAIN Worlds : LET x == Worlds[n].settings IN
    /\ x.risk_dte_min \in Int /\ x.risk_dte_max \in Int
    /\ x.risk_dte_min <= x.dte_target_min /\ x.dte_target_max <= x.risk_dte_max
    /\ \A i \in Worlds[n].requests : x.risk_dte_min <= i.dte_min /\ i.dte_max <= x.risk_dte_max

NoTrade ==
  /\ stage' = "idle" /\ evidence' = None /\ intent' = None
  /\ read' = None /\ spot' = None /\ shares' = None /\ plan' = None

DecisionInit ==
  /\ world \in DOMAIN Worlds
  /\ day = 0
  /\ equity \in w.equities
  /\ lastEquity = equity
  /\ history = << >>
  /\ stage = "idle" /\ evidence = None /\ intent = None
  /\ read = None /\ spot = None /\ shares = None /\ plan = None

------------------------------------------------------------------------------
(* The account, whatever a decision under way has read of it. *)

(* The book gains or loses.                                                   *)
EquityMoves ==
  /\ equity' \in w.equities \ {equity}
  /\ UNCHANGED <<world, day, lastEquity, history, trade>>

(* append_equity: the pulse records what it read (bounds: once per session, and *)
(* not between the verdict and the order, which reads no equity).              *)
PulseRecords ==
  /\ stage # "approved"
  /\ ~(history # << >> /\ history[1].day = day)
  /\ history' = <<[equity |-> equity, day |-> day]>> \o history
  /\ UNCHANGED <<world, day, equity, lastEquity, trade>>

(* Proposals wait in the Store overnight; a tick of the Trader does not.      *)
NextSession ==
  /\ stage \in {"idle", "intent"}
  /\ day < w.last_day
  /\ day' = day + 1
  /\ lastEquity' = equity
  /\ UNCHANGED <<world, equity, history, trade>>

------------------------------------------------------------------------------
(* The Strategist, once per interval: a hold leaves nothing behind but a row. *)
Propose ==
  /\ stage = "idle"
  /\ \E ev \in w.evidences, c \in w.convictions :
       /\ Decided(ev, c, s) # "hold"
       /\ evidence' = ev
       /\ intent' = IntentOf(ev, c, s)
  /\ stage' = "intent"
  /\ UNCHANGED <<world, day, equity, lastEquity, history, read, spot, shares, plan>>

(* An operator's `plan`: any structure the intent's schema knows.             *)
AskToPlan ==
  /\ stage = "idle"
  /\ intent' \in w.requests
  /\ stage' = "intent"
  /\ UNCHANGED <<world, day, equity, lastEquity, history, evidence, read, spot, shares, plan>>

(* recent_equity: the newest rows; what is older is not read. *)
RecentEquity == SubSeq(history, 1, MinOf(w.recent_rows, Len(history)))

Campaign == [start |-> s.campaign_start, elapsed |-> day]

SizingNow(account, outcomes) == SizingState(account, RecentEquity, Campaign, outcomes, s)

(* The Trader takes the oldest intent and reads the account first.            *)
ReadAccount ==
  /\ stage = "intent"
  /\ stage' = "reading"
  /\ \E account \in w.accounts : read' = account[equity][lastEquity]
  /\ UNCHANGED <<world, day, equity, lastEquity, history, evidence, intent, spot, shares, plan>>

(* A Rejection ends the trade.                                                *)
TakePlan(built, seen, held) ==
  IF built = Rejected
  THEN NoTrade
  ELSE /\ stage' = "built" /\ plan' = built
       /\ spot' = seen /\ shares' = held
       /\ UNCHANGED <<evidence, intent, read>>

(* After the account the spot, the chain, the shares and the equity curve: the  *)
(* plan is built and sized on the account that was read.                       *)
BuildPlan ==
  /\ stage = "reading"
  /\ \E chain \in w.chains, outcomes \in w.outcomes :
       LET seen == IF evidence = None THEN chain.snapshot.trade
                   ELSE SpotFromSnapshot(chain.snapshot)
       IN TakePlan(IF seen = None THEN Rejected
                   ELSE Build(intent, FetchedContracts(chain.contracts, intent, seen),
                              chain.snapshots, seen, chain.shares,
                              SizingNow(read, outcomes), s),
                   seen, chain.shares)
  /\ UNCHANGED <<world, day, equity, lastEquity, history>>

(* Mutant: the account is read again for the risk engine. *)
AccountReadAgain == [read EXCEPT !.equity = equity]

(* The account that is judged is the one that was sized on.                    *)
JudgedAccount == read

(* build_portfolio_snapshot: that account, and positions, equity history and    *)
(* the clock read after.                                                       *)
Snapshot(held, minutes) ==
  LET marks == {RecentEquity[n].equity : n \in DOMAIN RecentEquity}
      exposure == ProjectedExposure(held.legs, plan, spot, held.market, held.greeks, Betas)
  IN [equity |-> JudgedAccount.equity,
      options_buying_power |-> OptionsBuyingPower(JudgedAccount),
      start_of_day_equity |-> JudgedAccount.last_equity,
      high_water_mark |-> IF marks = {} THEN None ELSE Largest(marks),
      total_open_option_premium |-> OpenPremium(held.legs),
      projected_beta_weighted_delta |-> exposure.delta,
      projected_net_vega |-> exposure.vega,
      concurrent_option_positions |-> Cardinality(Structures(held.legs)),
      positions_in_underlying |->
        Cardinality({k \in Structures(held.legs) : k[1] = plan.underlying}),
      market_is_open |-> minutes # None, minutes_to_close |-> minutes,
      kill_switch_engaged |-> FALSE, already_submitted |-> FALSE]

AnyPlanSubmitted == TRUE                                                \* mutant

(* Only the Strategist's intents are: `plan` prints the verdict and ends.       *)
SubmittedIfApproved == evidence # None

(* The verdict.                                                                *)
Judge ==
  /\ stage = "built"
  /\ \E held \in w.holdings, minutes \in {None, 10, 60} :
       IF Approved(plan, Snapshot(held, minutes), s) /\ SubmittedIfApproved
       THEN stage' = "approved" /\ UNCHANGED <<evidence, intent, read, spot, shares, plan>>
       ELSE NoTrade
  /\ UNCHANGED <<world, day, equity, lastEquity, history>>

Submit ==
  /\ stage = "approved"
  /\ NoTrade
  /\ UNCHANGED <<world, day, equity, lastEquity, history>>

DecisionNext ==
  \/ EquityMoves \/ PulseRecords \/ NextSession
  \/ Propose \/ AskToPlan \/ ReadAccount \/ BuildPlan \/ Judge \/ Submit

DecisionSpec == DecisionInit /\ [][DecisionNext]_vars

------------------------------------------------------------------------------
Built == stage \in {"built", "approved"}

(* A single short leg's limit is what it collects, a multi-leg limit what is    *)
(* paid.                                                                       *)
CashIn(p) == IF p.strategy \in ShortOnlyStrategies THEN p.limit_price ELSE -p.limit_price

Worth(l, x) ==
  IF l.side = "buy" THEN Intrinsic(l.type, l.strike, x) ELSE -Intrinsic(l.type, l.strike, x)

(* What the legs of one contract have made when the underlying ends at x,        *)
(* filled at their limit.                                                       *)
LegsMake(p, x) == Total(Each(p.legs, LAMBDA l : Worth(l, x))) + CashIn(p)

(* How many of its contracts have a hundred of the held shares behind them: the  *)
(* position a covered call is part of holds no more.                            *)
Covered(p, held) ==
  IF p.strategy = "covered_call" THEN MinOf(p.qty, held \div 100) ELSE 0

(* What the whole plan has made at x, with the shares that stand behind it,       *)
(* which were worth `paid`.                                                     *)
Payoff(p, paid, held, x) == p.qty * LegsMake(p, x) + Covered(p, held) * (x - paid)

(* The payoff is straight between strikes, so its extremes are at these.       *)
Kinks(p, paid) == Strikes(p.legs) \union {0, paid, 2 * Largest(Strikes(p.legs))}

LosesMaxLoss(p, paid, held) ==
  /\ \A x \in Kinks(p, paid) : Payoff(p, paid, held, x) >= -(p.max_loss * p.qty)
  /\ \E x \in Kinks(p, paid) : Payoff(p, paid, held, x) = -(p.max_loss * p.qty)

MakesMaxProfit(p, paid, held) ==
  /\ p.max_profit # None =>
       /\ \A x \in Kinks(p, paid) : Payoff(p, paid, held, x) <= p.max_profit * p.qty
       /\ \E x \in Kinks(p, paid) : Payoff(p, paid, held, x) = p.max_profit * p.qty
  /\ p.breakeven # None => Payoff(p, paid, held, p.breakeven) = 0

(* Every contract of a covered call has its hundred shares.                     *)
CallsHaveShares == plan.strategy = "covered_call" => 100 * plan.qty <= shares

(* "Covered by shares / cash by construction", the risk engine trusts            *)
(* (risk.py:189).  The builder compares the shares with a hundred at any quantity: *)
(* an operator may be shown a plan of more calls than they cover, whose loss has   *)
(* no bound.  What is sent is held to what it states without exception.           *)
HeldToItsWord == Built /\ (stage = "approved" \/ CallsHaveShares)

(* Whatever the underlying does, a plan loses no more than the max_loss it was   *)
(* sized and approved on, and can lose that much: wings that snapped to another  *)
(* strike, unequal wings and shorts that cross are all accounted for.            *)
WorstCaseIsMaxLoss == HeldToItsWord => LosesMaxLoss(plan, spot, shares)

(* A stated max_profit is the best end there is, and a stated breakeven is one.    *)
(* Not so for a call sold below the spot: its max_profit leaves out the loss on   *)
(* the shares (strategy_builder.py:1316).                                       *)
StatedProfitIsReal ==
  HeldToItsWord /\ ~(plan.strategy = "covered_call" /\ plan.legs[1].strike < spot)
    => MakesMaxProfit(plan, spot, shares)

(* What the legs cost at one of their prices: bought legs are paid for.         *)
Cost(l, paid, got) == IF l.side = "buy" THEN paid ELSE -got

PricedInside(p) ==
  /\ Total(Each(p.legs, LAMBDA l : Cost(l, Mid(l), Mid(l)))) <= -CashIn(p)
  /\ -CashIn(p) <= Total(Each(p.legs, LAMBDA l : Cost(l, l.ask, l.bid)))

(* Every limit lies between the middle of the market and the far side of it:    *)
(* the nudge pays up when buying and gives up credit when selling, and the sign  *)
(* turns over once.                                                             *)
LimitBetweenMidAndTouch == Built => PricedInside(plan)

(* Sizing and the risk engine judge by one account, however the book moves and    *)
(* what the pulse records between the two: a plan that was built passes, in       *)
(* whatever snapshot it is judged by, the checks of its premium and of the buying *)
(* power.  A covered call may fail the second: sizing knows that it needs none.   *)
SizeFitsCeilings ==
  Built => \A held \in w.holdings : LET p == Snapshot(held, None) IN
    /\ PremiumPerTradeOk(plan, p, s)
    /\ plan.strategy # "covered_call" => BuyingPowerOk(plan, p, s)

StructurePasses == Built => DefinedRisk(plan) /\ LegsTradable(plan, s)

(* No leg is sold on an account that is below level 3.                           *)
SoldOnlyAtLevel3 ==
  Built /\ evidence # None =>
    \/ EffectiveLevel(evidence.options_trading_level, s) >= 3
    \/ \A n \in DOMAIN plan.legs : plan.legs[n].side = "buy"

(* An approved entry has, after its own session, at least the sessions the        *)
(* campaign asks a position to be held, however long its proposal waited.        *)
HoldsASession ==
  stage = "approved" /\ s.campaign_start # None =>
    s.campaign_days - day >= s.campaign_min_sessions_to_hold

(* The legs of a plan that has filled, as positions.                            *)
Opened(p) ==
  Each(OrderRequest(p).legs, LAMBDA l :
    [symbol |-> l.symbol,
     qty |-> (IF l.side = "buy" THEN 1 ELSE -1) * l.ratio_qty * p.qty])

Flattens(legs) ==
  /\ \A n \in DOMAIN legs : AfterClose(legs, n) = 0
  /\ ~\E d \in 2..9 : /\ DOMAIN legs # {}
                      /\ \A n \in DOMAIN legs : Divides(d, ClosingLegs(legs)[n].ratio_qty)

(* What an order to close a structure asks for is what is held, leg by leg and    *)
(* with the sides turned over, in ratios the broker takes: without a common       *)
(* divisor.                                                                      *)
CloseFlattens ==
  Built => Flattens(Opened(plan)) /\ \A held \in w.holdings : Flattens(held.legs)

(* "If the account is down more than 8% from its peak, no new trades are opened"  *)
(* (architecture/business.md:393): the peak of every equity the pulse recorded.   *)
HaltsBelowPeak ==
  stage = "approved" =>
    \A n \in DOMAIN history :
      100 * (history[n].equity - read.equity) < s.drawdown_halt_pct * history[n].equity

(* Exposure is reported of the whole book or not at all: while one held leg has   *)
(* neither a live delta nor a cached market, no sum that leaves it out is held     *)
(* against the cap.                                                              *)
NoPartialExposure ==
  Built => \A held \in w.holdings :
    LET exposure == ProjectedExposure(held.legs, plan, spot, held.market, held.greeks, Betas)
    IN (\E n \in DOMAIN held.legs : LegDelta(held.legs[n], held.market, held.greeks) = None)
         => exposure.delta = None

(* Within a session, less equity never makes the next trade bigger: neither the   *)
(* peak, nor yesterday's close, nor the campaign's opening mark turns a loss into *)
(* more risk.                                                                    *)
RiskAt(conviction, eq, outcomes) ==
  eq * RiskFraction(conviction,
         SizingNow([equity |-> eq, last_equity |-> lastEquity, cash |-> eq,
                    options_buying_power |-> eq, non_marginable_buying_power |-> None],
                   outcomes), s)

NoMartingale ==
  stage = "idle" =>
    \A c \in w.convictions, outcomes \in w.outcomes, a, b \in w.equities :
      a < b => RiskAt(c, a, outcomes) <= RiskAt(c, b, outcomes)
==============================================================================
