-------------------------------- MODULE Chain --------------------------------
(***************************************************************************)
(* The option chain of one underlying, as the order builder and the risk   *)
(* engine read it: contracts joined with their quotes, deltas recovered     *)
(* when the feed has none, the liquidity gate and the strike ladder.        *)
(*                                                                         *)
(* Units.  Prices, strikes and the spot are in cents, so that a price is    *)
(* also the dollars one contract of 100 shares costs; deltas, volatilities  *)
(* and ratios are in percent; an expiry is its days to expiry.  Division    *)
(* rounds down where the code keeps a float.                                *)
(*                                                                         *)
(* A selection of contracts keeps each one at its place in the chain: it is *)
(* a function on the places kept, and the broker's order is theirs.          *)
(***************************************************************************)
EXTENDS Integers, FiniteSets, Sequences, Functions

CONSTANT None     (* a field the feed or the caller did not give *)

ASSUME NoneIsNoNumber == None \notin Int

MaybeInt == Int \union {None}

MaxOf(a, b) == IF a >= b THEN a ELSE b
MinOf(a, b) == IF a <= b THEN a ELSE b
AbsOf(n) == IF n < 0 THEN -n ELSE n
Total(f) == LET sum[i \in 0..Len(f)] == IF i = 0 THEN 0 ELSE sum[i - 1] + f[i]
            IN sum[Len(f)]
Each(cs, F(_)) == [i \in DOMAIN cs |-> F(cs[i])]

Smallest(ns) == CHOOSE n \in ns : \A m \in ns : n <= m
Largest(ns) == CHOOSE n \in ns : \A m \in ns : m <= n

(* The first of the elements with the smallest key, as min() and a stable   *)
(* sort pick it: the broker's order breaks ties.                            *)
Earliest(cs) == cs[Smallest(DOMAIN cs)]

First(cs, key) ==
  LET best == Smallest({key[n] : n \in DOMAIN cs})
  IN Earliest(RestrictDomain(cs, LAMBDA n : key[n] = best))

(* Largest whole number whose square is at most n. *)
Root(n) == CHOOSE k \in 0..n : k * k <= n /\ (k + 1) * (k + 1) > n

(* One standard deviation of the underlying over the days left: spot times   *)
(* iv times the root of days / 365.                                          *)
ExpectedMove(spot, iv, days) ==
  IF spot <= 0 \/ iv <= 0 \/ days <= 0 THEN None
  ELSE (spot * iv * Root(days)) \div 1900

(* Black-Scholes, with the normal distribution as a straight line between 1 *)
(* and 99 percent: the builder only compares deltas with each other and with *)
(* a target.                                                                 *)
BsDelta(spot, strike, days, iv, type) ==
  IF spot <= 0 \/ strike <= 0 \/ iv = None \/ iv <= 0 \/ days <= 0 THEN None
  ELSE LET d == (40 * (spot - strike)) \div MaxOf(1, ExpectedMove(spot, iv, days))
           n == MaxOf(1, MinOf(99, 50 + d))
       IN IF type = "call" THEN n ELSE n - 100

(* What an option is worth when the underlying ends at price x. *)
Intrinsic(type, strike, x) ==
  MaxOf(0, IF type = "call" THEN x - strike ELSE strike - x)

(* The volatility that explains a quote, None outside the no-arbitrage band. *)
ImpliedVol(mid, spot, strike, days, type) ==
  LET value == mid - Intrinsic(type, strike, spot)
      most == IF type = "call" THEN spot ELSE strike
  IN IF value <= 0 \/ mid >= most \/ days <= 0 THEN None
     ELSE MaxOf(1, (4750 * value) \div (spot * Root(days)))

Mid(c) == (c.bid + c.ask) \div 2
Spread(c) == c.ask - c.bid
Quoted(c) == c.bid # None /\ c.ask # None /\ c.bid > 0 /\ c.ask > 0

(* A contract without a snapshot keeps its row, with nothing known of it. *)
NoSnapshot == [delta |-> None, iv |-> None, bid |-> None, ask |-> None]

(* A listed contract and its snapshot, as the broker answers them.          *)
IsListed(k) ==
  /\ k.type \in {"call", "put"}
  /\ k.strike \in Nat \ {0}
  /\ k.dte \in Int
  /\ k.oi \in MaybeInt

IsSnapshot(q) ==
  /\ q.delta \in MaybeInt /\ q.iv \in MaybeInt
  /\ q.bid \in MaybeInt /\ q.ask \in MaybeInt

(* normalize_contracts: join by symbol, drop what cannot be traded, solve   *)
(* the volatility from the quote when the feed has none.                    *)
Normalize(contracts, snapshots, spot) ==
  LET Join(k) ==
        LET q == IF k.symbol \in DOMAIN snapshots
                 THEN snapshots[k.symbol] ELSE NoSnapshot
            solved == IF q.iv = None /\ Quoted(q)
                      THEN ImpliedVol(Mid(q), spot, k.strike, k.dte, k.type)
                      ELSE q.iv
        IN [symbol |-> k.symbol, type |-> k.type, strike |-> k.strike,
            dte |-> k.dte, monthly |-> k.monthly, oi |-> k.oi,
            delta |-> q.delta, iv |-> solved, bid |-> q.bid, ask |-> q.ask]
  IN Each(RestrictValues(contracts, LAMBDA k : k.tradable /\ k.active), Join)

EffectiveDelta(c, spot) ==
  IF c.delta # None THEN c.delta
  ELSE BsDelta(spot, c.strike, c.dte, c.iv, c.type)

(* _liquidity_rejection: wide means wide in percent and in cents. *)
Wide(c, s) ==
  /\ 200 * Spread(c) > s.max_spread_pct * (c.bid + c.ask)
  /\ Spread(c) > s.max_spread_abs

(* Mutant: an open interest the feed does not give is taken to be enough. *)
UnknownIsDeep(c, s) == c.oi = None \/ c.oi >= s.min_open_interest

DeepEnough(c, s) == c.oi # None /\ c.oi >= s.min_open_interest
Liquid(c, s) == Quoted(c) /\ ~Wide(c, s) /\ DeepEnough(c, s)

Strikes(cs) == {cs[i].strike : i \in DOMAIN cs}
OfType(cs, type) == RestrictValues(cs, LAMBDA c : c.type = type)
OfExpiry(cs, dte) == RestrictValues(cs, LAMBDA c : c.dte = dte)

(* Mutant: every expiry up to the last one. *)
UpTo(cs, lo, hi) == RestrictValues(cs, LAMBDA c : c.dte <= hi)

(* The expiries the intent asks for. *)
InWindow(cs, lo, hi) == RestrictValues(cs, LAMBDA c : lo <= c.dte /\ c.dte <= hi)

(* _strike_increment: the smallest gap of the ladder, of two strikes or more. *)
Increment(cs) ==
  LET gaps == {n \in {a - b : a, b \in Strikes(cs)} : n > 0}
  IN IF gaps = {} THEN None ELSE Smallest(gaps)

(* _nearest_listed_strike: within one increment of the target, else none. *)
NearestListed(cs, target, increment) ==
  LET near == First(cs, Each(cs, LAMBDA c : AbsOf(c.strike - target)))
  IN IF DOMAIN cs = {} \/ AbsOf(near.strike - target) > increment THEN None ELSE near

(* _atm_implied_vol: the volatility quoted nearest the spot; of two at the   *)
(* same distance the lower, as min() orders the pairs.                       *)
AtmImpliedVol(cs, spot) ==
  LET known == RestrictValues(cs, LAMBDA c : c.iv # None /\ c.iv > 0)
  IN IF DOMAIN known = {} THEN None
     ELSE First(known, Each(known, LAMBDA c : AbsOf(c.strike - spot) * 10000 + c.iv)).iv

(* _closest_to_delta: the contract of a type whose delta is nearest a target. *)
ClosestToDelta(cs, type, target, spot) ==
  LET scored == RestrictValues(cs, LAMBDA c : c.type = type /\ EffectiveDelta(c, spot) # None)
  IN IF DOMAIN scored = {} THEN None
     ELSE First(scored, Each(scored, LAMBDA c : AbsOf(AbsOf(EffectiveDelta(c, spot)) - target)))
==============================================================================
