------------------------------- MODULE Exposure -------------------------------
(***************************************************************************)
(* What the open book and a new plan add up to (exposure.py and the reads    *)
(* around it in execution.py): index-equivalent dollars of delta, and        *)
(* dollars per point of volatility.  A field that cannot be computed for one  *)
(* leg is unknown for the whole book, never zero.                            *)
(*                                                                          *)
(* A held leg is [root, symbol, strike, dte, type, qty, value]; `qty` is      *)
(* negative when short.  `market` gives spot and volatility by underlying,    *)
(* from the cached evidence; `greeks` is the live snapshot by symbol.         *)
(***************************************************************************)
EXTENDS Chain

(* beta_for, in percent: hand-maintained, and above the index when unlisted. *)
BetaFor(betas, root) == IF root \in DOMAIN betas THEN betas[root] ELSE 150

(* market_from_evidence: last, then day_close, then mid; no pack or no usable *)
(* price is no market.                                                        *)
MarketFromEvidence(pack) ==
  LET usable(n) == n # None /\ n > 0
      spot == IF usable(pack.last) THEN pack.last
              ELSE IF usable(pack.day_close) THEN pack.day_close
              ELSE IF usable(pack.mid) THEN pack.mid ELSE None
  IN IF pack = None \/ spot = None THEN None
     ELSE [spot |-> spot, iv |-> pack.iv_atm]

(* bs_vega: largest at the money, growing with the days left; dollars per     *)
(* contract and point, the density as a triangle.                             *)
BsVega(spot, strike, days, iv) ==
  IF spot <= 0 \/ strike <= 0 \/ iv = None \/ iv <= 0 \/ days <= 0 THEN None
  ELSE LET off == AbsOf(spot - strike) \div MaxOf(1, ExpectedMove(spot, iv, days))
       IN (spot * Root(days) * MaxOf(0, 3 - off)) \div (3 * 4800)

(* A greek of one leg, from the snapshot first and the model second.          *)
LegDelta(l, market, greeks) ==
  LET live == IF l.symbol \in DOMAIN greeks THEN greeks[l.symbol].delta ELSE None
  IN IF live # None THEN live
     ELSE IF market[l.root] = None THEN None
     ELSE BsDelta(market[l.root].spot, l.strike, l.dte, market[l.root].iv, l.type)

LegVega(l, market, greeks) ==
  LET live == IF l.symbol \in DOMAIN greeks THEN greeks[l.symbol].vega ELSE None
  IN IF live # None THEN live
     ELSE IF market[l.root] = None THEN None
     ELSE BsVega(market[l.root].spot, l.strike, l.dte, market[l.root].iv)

DollarDelta(delta, qty, spot, beta) == (((delta * qty * spot) \div 100) * beta) \div 100

(* Mutant: a leg without a greek contributes nothing.                         *)
SumSkipping(terms) == Total(SelectSeq(terms, LAMBDA x : x # None))

(* Unknown as soon as one term is unknown.                                    *)
SumKnown(terms) ==
  IF \E n \in DOMAIN terms : terms[n] = None THEN None ELSE Total(terms)

BookExposure(legs, market, greeks, betas) ==
  LET Delta(l) ==
        LET d == LegDelta(l, market, greeks)
        IN IF d = None \/ market[l.root] = None THEN None
           ELSE DollarDelta(d, l.qty, market[l.root].spot, BetaFor(betas, l.root))
      Vega(l) ==
        LET v == LegVega(l, market, greeks) IN IF v = None THEN None ELSE v * l.qty
  IN [delta |-> SumKnown(Each(legs, Delta)), vega |-> SumKnown(Each(legs, Vega))]

(* The plan's delta is the one its legs were chosen on; its volatility comes   *)
(* from the same cache as the book's.                                          *)
PlanExposure(plan, spot, iv, betas) ==
  LET signed(l) == IF l.side = "buy" THEN plan.qty ELSE -plan.qty
      Delta(l) == IF l.delta = None THEN None
                  ELSE DollarDelta(l.delta, signed(l), spot, BetaFor(betas, plan.underlying))
      Vega(l) == LET v == BsVega(spot, l.strike, l.dte, iv)
                 IN IF v = None THEN None ELSE v * signed(l)
  IN [delta |-> SumKnown(Each(plan.legs, Delta)), vega |-> SumKnown(Each(plan.legs, Vega))]

CombinedWith(a, b) ==
  [delta |-> SumKnown(<<a.delta, b.delta>>), vega |-> SumKnown(<<a.vega, b.vega>>)]

(* _projected_exposure: the book with the plan in it.                          *)
ProjectedExposure(legs, plan, spot, market, greeks, betas) ==
  LET pack == market[plan.underlying]
  IN CombinedWith(BookExposure(legs, market, greeks, betas),
                  PlanExposure(plan, spot, IF pack = None THEN None ELSE pack.iv, betas))

(* _group_into_structures: the legs of one structure share root and expiry.    *)
Structures(legs) == {<<legs[n].root, legs[n].dte>> : n \in DOMAIN legs}

(* total_open_option_premium: what the filled legs would trade for, in all.    *)
OpenPremium(legs) == Total(Each(legs, LAMBDA l : AbsOf(l.value)))
==============================================================================
