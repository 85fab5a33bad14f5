--------------------------- MODULE StrategyBuilder ---------------------------
(***************************************************************************)
(* From an intent to a priced order plan (strategy_builder.py).  The intent *)
(* names a structure, a delta and a window of expiries, never a contract;   *)
(* the builder picks listed contracts, prices them, and refuses unless the   *)
(* worst case is a finite number.  Each early return of the code is a        *)
(* conjunct, in its order; which one refused is not kept.                   *)
(*                                                                         *)
(* `i` is the intent, `cs` the normalized contracts, `st` the sizing state. *)
(***************************************************************************)
EXTENDS PositionSizing

Rejected == None     \* any Rejection

(* StrategyIntent, and the settings that the builder reads.                 *)
Intents ==
  [strategy : STRING, underlying : STRING, target_delta : Int,
   spread_width : (Nat \ {0}) \union {None},
   dte_min : Nat, dte_max : Nat, conviction : Int]

IsBuilderSettings(s) ==
  /\ s.max_spread_pct \in Nat /\ s.max_spread_abs \in Nat
  /\ s.limit_price_spread_nudge_pct \in 0..100
  /\ s.standard_monthly_expiry_preference \in BOOLEAN
  /\ s.spread_width_expected_move_mult \in Nat
  /\ s.spread_width_expected_move_mult_atm \in Nat

Aliases(strategy) ==
  IF strategy = "call_debit_spread" THEN "debit_call_spread"
  ELSE IF strategy = "put_debit_spread" THEN "debit_put_spread" ELSE strategy

CallStrategies == {"long_call", "debit_call_spread", "covered_call"}
VerticalStrategies == {"debit_call_spread", "debit_put_spread"}
ShortOnlyStrategies == {"covered_call", "cash_secured_put"}
CreditStrategies ==
  {"put_credit_spread", "call_credit_spread", "iron_condor", "iron_butterfly"}
SupportedStrategies ==
  CallStrategies \union VerticalStrategies \union ShortOnlyStrategies
    \union CreditStrategies \union {"long_put", "long_strangle"}

LegOf(c, side, spot) ==
  [symbol |-> c.symbol, side |-> side, strike |-> c.strike, dte |-> c.dte,
   type |-> c.type, delta |-> EffectiveDelta(c, spot), bid |-> c.bid,
   ask |-> c.ask, oi |-> c.oi]

(* The plan of a structure that has a size.  max_loss is per contract here   *)
(* and for the whole order in the code: loss times qty.                     *)
Plan(i, legs, limit, loss, profit, breakeven, strike, st, s) ==
  LET qty == Sized(i.strategy, i.conviction, loss, strike, st, s)
  IN IF qty = 0 THEN Rejected
     ELSE [underlying |-> i.underlying, strategy |-> i.strategy, legs |-> legs,
           qty |-> qty, limit_price |-> limit, max_loss |-> loss,
           max_profit |-> profit, breakeven |-> breakeven]

Nudged(cs, s) ==
  (s.limit_price_spread_nudge_pct * Total(Each(cs, Spread))) \div 100

------------------------------------------------------------------------------
(* The width of the wings: as pinned, or a multiple of the expected move.    *)

MoveMult(strategy, s) ==
  IF strategy = "iron_butterfly" THEN s.spread_width_expected_move_mult_atm
  ELSE s.spread_width_expected_move_mult

TargetWidth(i, cs, spot, days, s) ==
  LET iv == AtmImpliedVol(cs, spot)
      move == ExpectedMove(spot, iv, days)
  IN IF i.spread_width # None THEN i.spread_width
     ELSE IF MoveMult(i.strategy, s) <= 0 \/ iv = None \/ move = None THEN None
          ELSE (move * MoveMult(i.strategy, s)) \div 100

Positive(n) == n # None /\ n > 0

------------------------------------------------------------------------------
(* Debit and single-leg structures: one contract picked by delta, with a      *)
(* short partner of the same type and expiry for a vertical.                  *)

(* Nearest delta; on equal deltas a standard monthly expiry goes first.       *)
Primary(i, cs, spot, s) ==
  LET scored == RestrictValues(cs, LAMBDA c : EffectiveDelta(c, spot) # None)
  IN First(scored, Each(scored, LAMBDA c :
       2 * AbsOf(AbsOf(EffectiveDelta(c, spot)) - i.target_delta)
         + (IF s.standard_monthly_expiry_preference /\ c.monthly THEN 0 ELSE 1)))

(* The other leg of a vertical: further out of the money by the width, within *)
(* one increment of the ladder, and None when there is none.                  *)
Secondary(i, cs, primary, width) ==
  LET others == RestrictValues(cs, LAMBDA c : c.strike # primary.strike)
      target == IF i.strategy = "debit_call_spread"
                THEN primary.strike + width ELSE primary.strike - width
      off == Smallest({AbsOf(k - target) : k \in Strikes(others)})
      strike == Smallest({k \in Strikes(others) : AbsOf(k - target) = off})
  IN IF DOMAIN others = {} \/ off > Increment(cs)
     THEN None ELSE Earliest(RestrictValues(others, LAMBDA c : c.strike = strike))

(* _price: what is paid, or collected by a short-only structure. *)
EntryPrice(strategy, primary, secondary, s) ==
  IF secondary # None
  THEN Mid(primary) - Mid(secondary) + Nudged(<<primary, secondary>>, s)
  ELSE IF strategy \in ShortOnlyStrategies
       THEN Mid(primary) - Nudged(<<primary>>, s)
       ELSE Mid(primary) + Nudged(<<primary>>, s)

(* _risk_profile: the plan of each kind, per contract. *)
SinglePlan(i, primary, entry, spot, st, s) ==
  Plan(i, <<LegOf(primary, "buy", spot)>>, entry, entry, None,
       IF i.strategy = "long_call" THEN primary.strike + entry ELSE primary.strike - entry,
       primary.strike, st, s)

VerticalPlan(i, primary, secondary, entry, spot, st, s) ==
  LET width == AbsOf(primary.strike - secondary.strike)
  IN IF /\ Mid(primary) > Mid(secondary)
        /\ entry < width
        /\ 100 * entry <= s.max_debit_width_pct * width
        /\ 100 * (width - entry) >= s.min_reward_risk * entry
     THEN Plan(i, <<LegOf(primary, "buy", spot), LegOf(secondary, "sell", spot)>>,
               entry, entry, width - entry,
               IF i.strategy = "debit_call_spread"
               THEN primary.strike + entry ELSE primary.strike - entry,
               primary.strike, st, s)
     ELSE Rejected

CoveredCallPlan(i, primary, premium, spot, shares, st, s) ==
  IF shares # None /\ shares >= 100 /\ spot > premium
  THEN Plan(i, <<LegOf(primary, "sell", spot)>>, premium, spot - premium,
            MaxOf(0, primary.strike - spot) + premium, spot - premium,
            primary.strike, st, s)
  ELSE Rejected

CashSecuredPutPlan(i, primary, premium, spot, st, s) ==
  IF primary.strike > premium
  THEN Plan(i, <<LegOf(primary, "sell", spot)>>, premium, primary.strike - premium,
            premium, primary.strike - premium, primary.strike, st, s)
  ELSE Rejected

SingleTypePlan(i, universe, spot, shares, st, s) ==
  LET type == IF i.strategy \in CallStrategies THEN "call" ELSE "put"
      cs == OfType(InWindow(universe, i.dte_min, i.dte_max), type)
      primary == Primary(i, cs, spot, s)
      ladder == OfExpiry(cs, primary.dte)
      width == TargetWidth(i, ladder, spot, primary.dte, s)
      vertical == i.strategy \in VerticalStrategies
      secondary == IF vertical THEN Secondary(i, ladder, primary, width) ELSE None
      entry == EntryPrice(i.strategy, primary, secondary, s)
  IN IF /\ \E n \in DOMAIN cs : EffectiveDelta(cs[n], spot) # None
        /\ Liquid(primary, s)
        /\ vertical => /\ Positive(width)
                       /\ secondary # None
                       /\ Liquid(secondary, s)
     THEN IF vertical THEN VerticalPlan(i, primary, secondary, entry, spot, st, s)
          ELSE IF i.strategy = "covered_call"
               THEN CoveredCallPlan(i, primary, entry, spot, shares, st, s)
          ELSE IF i.strategy = "cash_secured_put"
               THEN CashSecuredPutPlan(i, primary, entry, spot, st, s)
               ELSE SinglePlan(i, primary, entry, spot, st, s)
     ELSE Rejected

------------------------------------------------------------------------------
(* Structures of several types share one expiry, so the expiry is chosen      *)
(* first: the one whose legs sit closest to the intent, a standard monthly    *)
(* being preferred among equals and the earlier one among the rest.           *)

ExpiriesOf(cs) == {cs[n].dte : n \in DOMAIN cs}

(* legsOf[e] are the legs found in expiry e, or None; None in no expiry.      *)
BestLegs(legsOf, cs, Miss(_), s) ==
  LET expiries == {e \in DOMAIN legsOf : legsOf[e] # None}
      monthly(e) == \E n \in DOMAIN cs : cs[n].dte = e /\ cs[n].monthly
      key(e) == 2 * Total(Each(legsOf[e], Miss))
                + (IF s.standard_monthly_expiry_preference /\ ~monthly(e) THEN 1 ELSE 0)
      best == Smallest({e \in expiries : \A f \in expiries : key(e) <= key(f)})
  IN IF expiries = {} THEN None ELSE legsOf[best]

StranglePair(i, cs, spot) ==
  LET call == ClosestToDelta(cs, "call", i.target_delta, spot)
      put == ClosestToDelta(cs, "put", i.target_delta, spot)
  IN IF call # None /\ put # None /\ call.strike > put.strike
     THEN <<call, put>> ELSE None

DeltaMiss(i, c, spot) == AbsOf(AbsOf(EffectiveDelta(c, spot)) - i.target_delta)

BestStrangle(i, cs, spot, s) ==
  BestLegs([e \in ExpiriesOf(cs) |-> StranglePair(i, OfExpiry(cs, e), spot)],
           cs, LAMBDA c : DeltaMiss(i, c, spot), s)

PricedStrangle(i, pair, spot, st, s) ==
  LET entry == Mid(pair[1]) + Mid(pair[2]) + Nudged(pair, s)
  IN IF pair # None /\ Liquid(pair[1], s) /\ Liquid(pair[2], s)
     THEN Plan(i, <<LegOf(pair[1], "buy", spot), LegOf(pair[2], "buy", spot)>>,
               entry, entry, None, None, None, st, s)
     ELSE Rejected

StranglePlan(i, universe, spot, st, s) ==
  PricedStrangle(i, BestStrangle(i, InWindow(universe, i.dte_min, i.dte_max), spot, s),
                 spot, st, s)

------------------------------------------------------------------------------
(* Credit structures: one or two verticals, each a short anchor and the long  *)
(* wing that protects it, strictly further out of the money.                  *)

WingSide(cs, short) ==
  RestrictValues(cs, LAMBDA c : IF short.type = "put" THEN c.strike < short.strike
                                ELSE c.strike > short.strike)

CreditVertical(i, cs, type, width, increment, spot, anchor) ==
  LET side == OfType(cs, type)
      anchored == RestrictValues(side, LAMBDA c : c.strike = anchor)
      short == IF anchor = None THEN ClosestToDelta(side, type, i.target_delta, spot)
               ELSE IF DOMAIN anchored = {} THEN None ELSE Earliest(anchored)
      target == IF type = "put" THEN short.strike - width ELSE short.strike + width
      wing == NearestListed(WingSide(side, short), target, increment)
  IN IF short = None \/ wing = None THEN None
     ELSE [short |-> short, long |-> wing,
           score |-> IF anchor = None THEN DeltaMiss(i, short, spot)
                     ELSE (100 * AbsOf(short.strike - spot)) \div spot]

VerticalWidth(v) == AbsOf(v.short.strike - v.long.strike)

(* An iron butterfly's shorts share the listed strike nearest the spot.      *)
SharedStrike(cs, spot) ==
  LET shared == Strikes(OfType(cs, "call")) \intersect Strikes(OfType(cs, "put"))
      off == Smallest({AbsOf(k - spot) : k \in shared})
  IN IF shared = {} THEN None ELSE Smallest({k \in shared : AbsOf(k - spot) = off})

(* Mutant: nothing says that the two shorts of a condor must not cross.      *)
CrossedShortsAllowed(i, put, call) == put # None /\ call # None

Pairs(i, put, call) ==
  /\ put # None /\ call # None
  /\ i.strategy = "iron_condor" => put.short.strike < call.short.strike

AssembleVerticals(i, cs, spot, days, s) ==
  LET increment == Increment(cs)
      width == TargetWidth(i, cs, spot, days, s)
      anchor == IF i.strategy = "iron_butterfly" THEN SharedStrike(cs, spot) ELSE None
      put == CreditVertical(i, cs, "put", width, increment, spot, anchor)
      call == CreditVertical(i, cs, "call", width, increment, spot, anchor)
  IN IF increment = None \/ ~Positive(width) THEN None
     ELSE IF i.strategy = "put_credit_spread"
          THEN IF put = None THEN None ELSE <<put>>
     ELSE IF i.strategy = "call_credit_spread"
          THEN IF call = None THEN None ELSE <<call>>
     ELSE IF i.strategy = "iron_butterfly" /\ anchor = None THEN None
     ELSE IF Pairs(i, put, call) THEN <<put, call>> ELSE None

(* Mutant: a credit is nudged up, the way a debit is. *)
CreditNudgedUp(vs, s) ==
  LET contracts == Each(vs, LAMBDA v : v.short) \o Each(vs, LAMBDA v : v.long)
  IN Total(Each(vs, LAMBDA v : Mid(v.short) - Mid(v.long))) + Nudged(contracts, s)

(* The net is carried positive and its sign inverted once, in the plan.      *)
NetCredit(vs, s) ==
  LET contracts == Each(vs, LAMBDA v : v.short) \o Each(vs, LAMBDA v : v.long)
  IN Total(Each(vs, LAMBDA v : Mid(v.short) - Mid(v.long))) - Nudged(contracts, s)

(* Mutant: both wings are taken to be as wide as the last one.               *)
WingOfTheCall(vs) == VerticalWidth(vs[Len(vs)])

(* Only one side of an iron can be breached: the widest wing is at risk.     *)
WidestWing(vs) ==
  Largest({VerticalWidth(vs[n]) : n \in DOMAIN vs})

BestVerticals(i, cs, spot, s) ==
  BestLegs([e \in ExpiriesOf(cs) |-> AssembleVerticals(i, OfExpiry(cs, e), spot, e, s)],
           cs, LAMBDA v : v.score, s)

CreditLegs(v, spot) == <<LegOf(v.short, "sell", spot), LegOf(v.long, "buy", spot)>>

PricedCredit(i, vs, spot, st, s) ==
  LET credit == NetCredit(vs, s)
      width == WidestWing(vs)
      short == vs[1].short.strike
  IN IF /\ i.spread_width # None \/ MoveMult(i.strategy, s) > 0
        /\ vs # None
        /\ \A n \in DOMAIN vs : Liquid(vs[n].short, s) /\ Liquid(vs[n].long, s)
        /\ credit > 0
        /\ credit < width
        /\ 100 * credit >= s.min_credit_width_pct * width
        /\ 100 * credit <= s.max_credit_width_pct * width
     THEN Plan(i, IF Len(vs) = 1 THEN CreditLegs(vs[1], spot)
                  ELSE CreditLegs(vs[1], spot) \o CreditLegs(vs[2], spot),
               -credit, width - credit, credit,
               IF i.strategy = "put_credit_spread" THEN short - credit
               ELSE IF i.strategy = "call_credit_spread" THEN short + credit ELSE None,
               None, st, s)
     ELSE Rejected

CreditPlan(i, universe, spot, st, s) ==
  PricedCredit(i, BestVerticals(i, InWindow(universe, i.dte_min, i.dte_max), spot, s),
               spot, st, s)

------------------------------------------------------------------------------
(* build: the intent under its canonical name goes to the builder of its kind. *)
Build(intent, contracts, snapshots, spot, shares, st, s) ==
  LET i == [intent EXCEPT !.strategy = Aliases(@)]
      universe == Normalize(contracts, snapshots, spot)
  IN IF i.strategy \notin SupportedStrategies THEN Rejected
     ELSE IF i.strategy = "long_strangle" THEN StranglePlan(i, universe, spot, st, s)
     ELSE IF i.strategy \in CreditStrategies THEN CreditPlan(i, universe, spot, st, s)
          ELSE SingleTypePlan(i, universe, spot, shares, st, s)
==============================================================================
