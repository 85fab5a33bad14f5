------------------------- MODULE TradeDecision_proofs -------------------------
(* For every chain, account, portfolio, history and setting: a plan that is *)
(* built can lose its max_loss and no more, its profit and breakeven are    *)
(* real, it stays under the ceilings it is judged by, its limit is inside   *)
(* the market and its short legs are covered; nothing is sold below level 3;*)
(* an approved entry has the sessions left that it must be held; closing    *)
(* takes out what is held; and exposure is of the whole book.               *)
EXTENDS TradeDecision, PositionSizing_proofs, SequenceTheorems, TLAPS

------------------------------------------------------------------------------
(* What the worlds promise, of the one the program runs in.                 *)

(* The assumption on the worlds, for the one that runs.                     *)
LEMMA WorldTyped ==
  ASSUME world \in DOMAIN Worlds
  PROVE  /\ IsSettings(s)
         /\ \A ev \in w.evidences : ev.symbol \in STRING /\ ev.options_trading_level \in MaybeInt
         /\ w.convictions \subseteq Int
         /\ w.requests \subseteq Intents
         /\ \A chain \in w.chains : IsChain(chain)
         /\ w.equities \subseteq Int
         /\ \A account \in w.accounts, e, l \in w.equities : IsAccount(account[e][l])
         /\ \A held \in w.holdings : \A k \in DOMAIN held.legs : held.legs[k].qty \in Int \ {0}
         /\ \A outcomes \in w.outcomes : outcomes \in Seq(ClosedTrades)
         /\ w.recent_rows \in Nat
<1> USE DEF WorldsAssumption, w, s
<1> QED BY WorldsAssumption

(* The settings that the horizon and the level are compared with.           *)
LEMMA SettingsTyped ==
  ASSUME world \in DOMAIN Worlds
  PROVE  /\ s.campaign_days \in Int
         /\ s.campaign_min_sessions_to_hold \in Nat
         /\ s.options_level \in Int
         /\ \A ev \in w.evidences :
              EffectiveLevel(ev.options_trading_level, s) \in Int
<1>1. IsSettings(s) /\ \A ev \in w.evidences : ev.options_trading_level \in MaybeInt
  BY WorldTyped
<1>2. /\ s.campaign_days \in Int
      /\ s.campaign_min_sessions_to_hold \in Nat
      /\ s.options_level \in Int
  BY <1>1 DEF IsSettings, IsSizingSettings
<1> QED BY <1>1, <1>2 DEF EffectiveLevel, MinOf, MaybeInt

(* The intent under the name the builders know it by.                       *)
Canonical(i) == [i EXCEPT !.strategy = Aliases(@)]

------------------------------------------------------------------------------
(* Contracts.  A selection is a function from places in the listing to      *)
(* contracts; every filter keeps a part of it, and what a search finds is in*)
(* it.                                                                      *)

(* Prices that are numbers, if known; QuotesNotCrossed is a hypothesis of   *)
(* some theorems only.                                                      *)
IsQuote(q) ==
  /\ q.bid \in MaybeInt /\ q.ask \in MaybeInt
  /\ QuotesNotCrossed /\ Quoted(q) => q.bid <= q.ask

(* A normalized contract.                                                   *)
IsContract(c) ==
  /\ c.type \in {"call", "put"}
  /\ c.strike \in Nat \ {0}
  /\ c.dte \in Int
  /\ c.oi \in MaybeInt /\ c.delta \in MaybeInt /\ c.iv \in MaybeInt
  /\ IsQuote(c)

(* Some of the normalized contracts, by their place in the listing.         *)
IsSelection(cs) ==
  /\ DOMAIN cs \subseteq Nat
  /\ \A n \in DOMAIN cs : IsContract(cs[n])

(* A filter keeps places and changes no contract.                           *)
Within(part, cs) ==
  /\ DOMAIN part \subseteq DOMAIN cs
  /\ \A n \in DOMAIN part : part[n] = cs[n]

(* What a filter leaves of a selection is a selection.                      *)
LEMMA PartOfSelection ==
  ASSUME NEW cs, IsSelection(cs), NEW part, Within(part, cs)
  PROVE  IsSelection(part)
BY DEF IsSelection, Within

(* The four filters of the builder (strategy_builder.py), each with what it *)
(* leaves.                                                                  *)
LEMMA OfTypeIs ==
  ASSUME NEW cs, NEW type
  PROVE  Within(OfType(cs, type), cs) /\ \A n \in DOMAIN OfType(cs, type) : cs[n].type = type
BY DEF Within, OfType, RestrictValues, Restrict

(* One expiry of it.                                                        *)
LEMMA OfExpiryIs ==
  ASSUME NEW cs, NEW dte
  PROVE  Within(OfExpiry(cs, dte), cs) /\ \A n \in DOMAIN OfExpiry(cs, dte) : cs[n].dte = dte
BY DEF Within, OfExpiry, RestrictValues, Restrict

(* The window of expiries that an intent asks for.                          *)
LEMMA InWindowIs ==
  ASSUME NEW cs, NEW lo, NEW hi
  PROVE  /\ Within(InWindow(cs, lo, hi), cs)
         /\ \A n \in DOMAIN InWindow(cs, lo, hi) : lo <= cs[n].dte /\ cs[n].dte <= hi
BY DEF Within, InWindow, RestrictValues, Restrict

(* What lies beyond a short.                                                *)
LEMMA WingSideIs ==
  ASSUME NEW cs, NEW short
  PROVE  /\ Within(WingSide(cs, short), cs)
         /\ \A n \in DOMAIN WingSide(cs, short) :
              IF short.type = "put" THEN cs[n].strike < short.strike
              ELSE cs[n].strike > short.strike
BY DEF Within, WingSide, RestrictValues, Restrict

(* The middle of two positive prices is positive, and rounds down by half a *)
(* cent at most.                                                            *)
LEMMA QuotedIs ==
  ASSUME NEW c, IsQuote(c), Quoted(c)
  PROVE  /\ c.bid \in Nat \ {0} /\ c.ask \in Nat \ {0}
         /\ Mid(c) \in Nat \ {0} /\ Spread(c) \in Int
         /\ 2 * Mid(c) <= c.bid + c.ask /\ c.bid + c.ask <= 2 * Mid(c) + 1
BY DEF IsQuote, Quoted, Mid, Spread, MaybeInt

(* Greeks and moves that a feed leaves out are computed to a number or to   *)
(* nothing.                                                                 *)
LEMMA MoveIs ==
  ASSUME NEW x \in Int, NEW iv \in Int, NEW days \in Int
  PROVE  ExpectedMove(x, iv, days) \in MaybeInt /\ (x > 0 /\ iv > 0 /\ days > 0 => ExpectedMove(x, iv, days) \in Int)
<1>1. CASE x <= 0 \/ iv <= 0 \/ days <= 0
  BY <1>1 DEF ExpectedMove, MaybeInt
<1>2. CASE x > 0 /\ iv > 0 /\ days > 0
  <2>1. ExpectedMove(x, iv, days) = (x * iv * Root(days)) \div 1900
    BY <1>2 DEF ExpectedMove
  <2>2. Root(days) \in Int
    BY <1>2, RootIs
  <2> DEFINE n == x * iv * Root(days)
  <2>3. n \in Int
    <3>1. x * iv \in Int
      OBVIOUS
    <3> QED BY <3>1, <2>2
  <2> HIDE DEF n
  <2>4. n \div 1900 \in Int
    BY <2>3
  <2> QED BY <2>1, <2>4 DEF n, MaybeInt
<1> QED BY <1>1, <1>2

(* The delta of a contract, from the feed or from its volatility, is a      *)
(* number or nothing.                                                       *)
LEMMA DeltaIs ==
  ASSUME NEW c, IsContract(c), NEW x \in Nat \ {0}
  PROVE  EffectiveDelta(c, x) \in MaybeInt
<1>0. c.strike \in Nat \ {0} /\ c.dte \in Int /\ c.iv \in MaybeInt /\ c.delta \in MaybeInt
  BY DEF IsContract
<1>1. CASE c.delta # None
  BY <1>0, <1>1 DEF EffectiveDelta
<1>2. CASE c.delta = None /\ (c.iv = None \/ c.iv <= 0 \/ c.dte <= 0)
  BY <1>0, <1>2 DEF EffectiveDelta, BsDelta, MaybeInt
<1>3. CASE c.delta = None /\ ~(c.iv = None \/ c.iv <= 0 \/ c.dte <= 0)
  <2> DEFINE room == MaxOf(1, ExpectedMove(x, c.iv, c.dte))
             d == (40 * (x - c.strike)) \div room
             n == MaxOf(1, MinOf(99, 50 + d))
  <2>1. EffectiveDelta(c, x) = IF c.type = "call" THEN n ELSE n - 100
    <3>1. ~(x <= 0 \/ c.strike <= 0)
      BY <1>0
    <3> QED BY <1>3, <3>1 DEF EffectiveDelta, BsDelta
  <2>2. room \in Nat \ {0}
    <3>1. ExpectedMove(x, c.iv, c.dte) \in Int
      BY <1>0, <1>3, MoveIs DEF MaybeInt
    <3> QED BY <3>1 DEF MaxOf
  <2>3. d \in Int
    <3>1. 40 * (x - c.strike) \in Int
      BY <1>0
    <3> HIDE DEF room
    <3> QED BY <2>2, <3>1
  <2> HIDE DEF d
  <2>4. n \in Int
    BY <2>3 DEF MaxOf, MinOf
  <2> HIDE DEF n
  <2> QED BY <2>1, <2>4 DEF MaybeInt
<1> QED BY <1>1, <1>2, <1>3

(* The volatility that a quote implies is a number or nothing.              *)
LEMMA VolIs ==
  ASSUME NEW q, IsQuote(q), Quoted(q), NEW x \in Nat \ {0}, NEW strike \in Nat \ {0},
         NEW days \in Int, NEW type
  PROVE  ImpliedVol(Mid(q), x, strike, days, type) \in MaybeInt
<1> DEFINE value == Mid(q) - Intrinsic(type, strike, x)
           v == (4750 * value) \div (x * Root(days))
           solved == ImpliedVol(Mid(q), x, strike, days, type)
<1>1. value \in Int
  BY QuotedIs DEF Intrinsic, MaxOf
<1>2. \/ solved = None
      \/ value > 0 /\ days > 0 /\ solved = MaxOf(1, v)
  BY <1>1 DEF ImpliedVol
<1>3. ASSUME value > 0 /\ days > 0 PROVE MaxOf(1, v) \in MaybeInt
  <2>1. Root(days) \in Nat \ {0}
    BY <1>3, RootIs
  <2>2. x * Root(days) \in Nat \ {0}
    BY <2>1
  <2> DEFINE room == x * Root(days)
  <2> HIDE DEF room, value
  <2>3. (4750 * value) \div room \in Int
    BY <1>1, <2>2 DEF room
  <2>4. v \in Int
    BY <2>3 DEF room
  <2> HIDE DEF v
  <2> QED BY <2>4 DEF MaxOf, MaybeInt
<1> HIDE DEF solved, value, v
<1>4. solved \in MaybeInt
  BY <1>2, <1>3 DEF MaybeInt
<1> QED BY <1>4 DEF solved

(* Contracts as the broker lists them.                                      *)
IsListing(cs) ==
  /\ DOMAIN cs \subseteq Nat
  /\ \A n \in DOMAIN cs : IsListed(cs[n])

(* The window of strikes that is fetched keeps listed contracts.            *)
LEMMA FetchedIs ==
  ASSUME NEW cs, IsListing(cs), NEW i, NEW x
  PROVE  IsListing(FetchedContracts(cs, i, x))
BY DEF IsListing, FetchedContracts, RestrictValues, Restrict

(* Listed contracts that trade, joined with their snapshots, are a          *)
(* selection.                                                               *)
LEMMA NormalizeIs ==
  ASSUME NEW cs, IsListing(cs), NEW snapshots,
         \A k \in DOMAIN snapshots : IsSnapshot(snapshots[k]) /\ IsQuote(snapshots[k]),
         NEW x \in Nat \ {0}
  PROVE  IsSelection(Normalize(cs, snapshots, x))
<1> DEFINE kept == RestrictValues(cs, LAMBDA k : k.tradable /\ k.active)
           Snap(k) == IF k.symbol \in DOMAIN snapshots THEN snapshots[k.symbol] ELSE NoSnapshot
           Solved(k) == IF Snap(k).iv = None /\ Quoted(Snap(k))
                        THEN ImpliedVol(Mid(Snap(k)), x, k.strike, k.dte, k.type)
                        ELSE Snap(k).iv
           joined == Normalize(cs, snapshots, x)
<1>1. DOMAIN kept \subseteq DOMAIN cs /\ \A n \in DOMAIN kept : kept[n] = cs[n]
  BY DEF RestrictValues, Restrict
<1>2. /\ DOMAIN joined = DOMAIN kept
      /\ \A n \in DOMAIN kept : LET k == kept[n]  q == Snap(k) IN
           joined[n] = [symbol |-> k.symbol, type |-> k.type, strike |-> k.strike,
                        dte |-> k.dte, monthly |-> k.monthly, oi |-> k.oi,
                        delta |-> q.delta, iv |-> Solved(k), bid |-> q.bid, ask |-> q.ask]
  BY DEF Normalize, Each
<1> HIDE DEF kept, joined
<1>3. ASSUME NEW n \in DOMAIN kept PROVE IsContract(joined[n])
  <2> DEFINE k == kept[n]
             q == Snap(k)
  <2>1. IsListed(k)
    BY <1>1 DEF IsListing
  <2>2. IsQuote(q) /\ q.delta \in MaybeInt /\ q.iv \in MaybeInt
    <3>1. IsQuote(NoSnapshot) /\ NoSnapshot.delta \in MaybeInt /\ NoSnapshot.iv \in MaybeInt
      BY DEF NoSnapshot, IsQuote, Quoted, MaybeInt
    <3> QED BY <3>1 DEF IsSnapshot
  <2>3. Solved(k) \in MaybeInt
    <3>1. k.strike \in Nat \ {0} /\ k.dte \in Int
      BY <2>1 DEF IsListed
    <3>2. CASE q.iv = None /\ Quoted(q)
      <4>1. Solved(k) = ImpliedVol(Mid(q), x, k.strike, k.dte, k.type)
        BY <3>2
      <4> HIDE DEF q, k
      <4> QED BY <2>2, <3>1, <3>2, <4>1, VolIs
    <3> QED BY <2>2, <3>2
  <2> DEFINE solved == Solved(k)
  <2>4. joined[n] = [symbol |-> k.symbol, type |-> k.type, strike |-> k.strike,
                     dte |-> k.dte, monthly |-> k.monthly, oi |-> k.oi,
                     delta |-> q.delta, iv |-> solved, bid |-> q.bid, ask |-> q.ask]
    BY <1>2
  <2> HIDE DEF k, q, solved
  <2>5. solved \in MaybeInt
    BY <2>3 DEF solved
  <2>6. /\ joined[n].type = k.type /\ joined[n].strike = k.strike /\ joined[n].dte = k.dte
        /\ joined[n].oi = k.oi /\ joined[n].delta = q.delta /\ joined[n].iv = solved
        /\ joined[n].bid = q.bid /\ joined[n].ask = q.ask
    BY <2>4
  <2> QED BY <2>1, <2>2, <2>5, <2>6 DEF IsContract, IsListed, IsQuote, Quoted
<1>4. DOMAIN joined \subseteq Nat
  BY <1>1, <1>2 DEF IsListing
<1>5. IsSelection(joined)
  BY <1>2, <1>3, <1>4 DEF IsSelection
<1> QED BY <1>5 DEF joined

(* One of the contracts of a selection. *)
Among(c, cs) == \E n \in DOMAIN cs : c = cs[n]

(* A search that finds something finds a contract of the selection it was   *)
(* given.                                                                   *)
LEMMA AmongIs ==
  ASSUME NEW cs, IsSelection(cs), NEW c, Among(c, cs)
  PROVE  IsContract(c)
BY DEF Among, IsSelection

(* What a part holds, the whole does.                                       *)
LEMMA AmongPart ==
  ASSUME NEW cs, NEW part, Within(part, cs), NEW c, Among(c, part)
  PROVE  Among(c, cs)
BY DEF Among, Within

(* The first by a key is one of those that have it.                         *)
LEMMA FirstAmong ==
  ASSUME NEW cs, IsSelection(cs), DOMAIN cs # {},
         NEW key, key = [n \in DOMAIN cs |-> key[n]], \A n \in DOMAIN cs : key[n] \in Nat
  PROVE  Among(First(cs, key), cs)
<1>1. key \in [DOMAIN cs -> Nat] /\ DOMAIN cs \in SUBSET Nat
  BY DEF IsSelection
<1>2. \E n \in DOMAIN cs : First(cs, key) = cs[n]
  BY <1>1, FirstIs
<1> QED BY <1>2 DEF Among

(* The contract nearest a delta, if there is one, is of the type asked for. *)
LEMMA ClosestIs ==
  ASSUME NEW cs, IsSelection(cs), NEW type, NEW target \in Int, NEW x \in Nat \ {0},
         ClosestToDelta(cs, type, target, x) # None
  PROVE  LET c == ClosestToDelta(cs, type, target, x)
         IN Among(c, cs) /\ c.type = type /\ EffectiveDelta(c, x) \in Int
<1> DEFINE scored == RestrictValues(cs, LAMBDA c : c.type = type /\ EffectiveDelta(c, x) # None)
           key == [n \in DOMAIN scored |-> AbsOf(AbsOf(EffectiveDelta(scored[n], x)) - target)]
           c == ClosestToDelta(cs, type, target, x)
<1>1. /\ Within(scored, cs)
      /\ \A n \in DOMAIN scored : scored[n].type = type /\ EffectiveDelta(scored[n], x) # None
  BY DEF RestrictValues, Restrict, Within
<1>2. c = IF DOMAIN scored = {} THEN None ELSE First(scored, key)
  BY DEF ClosestToDelta, Each
<1>3. c # None
  OBVIOUS
<1> HIDE DEF scored, c
<1>4. IsSelection(scored)
  BY <1>1, PartOfSelection
<1>5. \A n \in DOMAIN scored : EffectiveDelta(scored[n], x) \in Int
  BY <1>1, <1>4, DeltaIs DEF IsSelection, MaybeInt
<1>6. \A n \in DOMAIN scored : key[n] \in Nat
  BY <1>5 DEF AbsOf
<1>7. Among(c, scored)
  <2>1. DOMAIN scored # {} /\ c = First(scored, key)
    BY <1>2, <1>3
  <2>2. key = [n \in DOMAIN scored |-> key[n]]
    OBVIOUS
  <2> HIDE DEF key
  <2> QED BY <1>4, <1>6, <2>1, <2>2, FirstAmong
<1>8. Among(c, cs) /\ c.type = type /\ EffectiveDelta(c, x) \in Int
  BY <1>1, <1>5, <1>7, AmongPart DEF Among
<1> QED BY <1>8 DEF c

(* The listed strike nearest a target, if one is near enough.               *)
LEMMA NearestIs ==
  ASSUME NEW cs, IsSelection(cs), NEW target \in Int, NEW increment,
         NearestListed(cs, target, increment) # None
  PROVE  Among(NearestListed(cs, target, increment), cs)
<1> DEFINE key == [n \in DOMAIN cs |-> AbsOf(cs[n].strike - target)]
           c == NearestListed(cs, target, increment)
<1>1. DOMAIN cs # {} /\ c = First(cs, key)
  BY DEF NearestListed, Each
<1> HIDE DEF c
<1>2. \A n \in DOMAIN cs : key[n] \in Nat
  BY DEF IsSelection, IsContract, AbsOf
<1>3. key = [n \in DOMAIN cs |-> key[n]]
  OBVIOUS
<1> HIDE DEF key
<1>4. Among(c, cs)
  BY <1>1, <1>2, <1>3, FirstAmong
<1> QED BY <1>4 DEF c

(* The volatility at the money, and the width that follows from it, are     *)
(* numbers or nothing.                                                      *)
LEMMA AtmIs ==
  ASSUME NEW cs, IsSelection(cs), NEW x \in Nat \ {0}
  PROVE  AtmImpliedVol(cs, x) \in MaybeInt
<1> DEFINE known == RestrictValues(cs, LAMBDA c : c.iv # None /\ c.iv > 0)
           key == [n \in DOMAIN known |-> AbsOf(known[n].strike - x) * 10000 + known[n].iv]
           iv == AtmImpliedVol(cs, x)
<1>1. /\ Within(known, cs)
      /\ \A n \in DOMAIN known : known[n].iv # None /\ known[n].iv > 0
  BY DEF RestrictValues, Restrict, Within
<1>2. iv = IF DOMAIN known = {} THEN None ELSE First(known, key).iv
  BY DEF AtmImpliedVol, Each
<1> HIDE DEF known, iv
<1>3. IsSelection(known)
  BY <1>1, PartOfSelection
<1>4. \A n \in DOMAIN known : key[n] \in Nat
  <2> SUFFICES ASSUME NEW n \in DOMAIN known PROVE key[n] \in Nat
    OBVIOUS
  <2>1. known[n].iv \in Nat /\ known[n].strike \in Nat
    BY <1>1, <1>3 DEF IsSelection, IsContract, MaybeInt
  <2>2. AbsOf(known[n].strike - x) \in Nat
    BY <2>1 DEF AbsOf
  <2> QED BY <2>1, <2>2
<1>5. key = [n \in DOMAIN known |-> key[n]]
  OBVIOUS
<1> HIDE DEF key
<1>6. DOMAIN known # {} => Among(First(known, key), known)
  BY <1>3, <1>4, <1>5, FirstAmong
<1>7. DOMAIN known # {} => First(known, key).iv \in MaybeInt
  BY <1>3, <1>6, AmongIs DEF IsContract
<1>8. iv \in MaybeInt
  BY <1>2, <1>7 DEF MaybeInt
<1> QED BY <1>8 DEF iv

(* The width of the wings is a number or nothing.                           *)
LEMMA WidthIs ==
  ASSUME NEW i, i.spread_width \in (Nat \ {0}) \union {None}, NEW cs, IsSelection(cs),
         NEW x \in Nat \ {0}, NEW days \in Int, NEW settings, IsBuilderSettings(settings)
  PROVE  TargetWidth(i, cs, x, days, settings) \in MaybeInt
<1> DEFINE iv == AtmImpliedVol(cs, x)
           move == ExpectedMove(x, iv, days)
           mult == MoveMult(i.strategy, settings)
           width == TargetWidth(i, cs, x, days, settings)
<1>1. width = IF i.spread_width # None THEN i.spread_width
              ELSE IF mult <= 0 \/ iv = None \/ move = None THEN None
              ELSE (move * mult) \div 100
  BY DEF TargetWidth
<1>2. iv \in MaybeInt
  BY AtmIs
<1>3. mult \in Nat
  BY DEF IsBuilderSettings, MoveMult
<1>4. iv # None => move \in MaybeInt
  <2> HIDE DEF iv
  <2> QED BY <1>2, MoveIs DEF MaybeInt
<1> HIDE DEF iv, move, mult, width
<1>5. CASE iv # None /\ move # None
  <2>1. (move * mult) \div 100 \in Int
    BY <1>3, <1>4, <1>5 DEF MaybeInt
  <2> QED BY <1>1, <2>1 DEF MaybeInt, width
<1>6. width \in MaybeInt
  BY <1>1, <1>5 DEF MaybeInt, width
<1> QED BY <1>6 DEF width

(* The increment of a ladder is no more than the distance of any two of its *)
(* strikes.                                                                 *)
LEMMA IncrementIs ==
  ASSUME NEW cs, IsSelection(cs), NEW a \in Strikes(cs), NEW b \in Strikes(cs), a > b
  PROVE  Increment(cs) \in Nat \ {0} /\ Increment(cs) <= a - b
<1> DEFINE gaps == {n \in {c - d : c, d \in Strikes(cs)} : n > 0}
<1>1. Strikes(cs) \subseteq Nat
  BY DEF Strikes, IsSelection, IsContract
<1>2. gaps \in SUBSET (Nat \ {0}) /\ a - b \in gaps
  BY <1>1
<1>3. Increment(cs) = IF gaps = {} THEN None ELSE Smallest(gaps)
  BY DEF Increment
<1> HIDE DEF gaps
<1>4. Smallest(gaps) \in gaps /\ \A m \in gaps : Smallest(gaps) <= m
  <2>1. gaps \in SUBSET Nat /\ gaps # {}
    BY <1>2
  <2> QED BY <2>1, SmallestIn
<1> QED BY <1>2, <1>3, <1>4

------------------------------------------------------------------------------
(* Which contracts a structure takes: a primary and its partner, a pair, one*)
(* or two verticals.  A wing is always beyond its short.                    *)

(* The first leg is one of the contracts that have a delta.                 *)
LEMMA PrimaryIs ==
  ASSUME NEW cs, IsSelection(cs), NEW i, i.target_delta \in Int, NEW x \in Nat \ {0},
         NEW settings, \E n \in DOMAIN cs : EffectiveDelta(cs[n], x) # None
  PROVE  Among(Primary(i, cs, x, settings), cs)
<1> DEFINE scored == RestrictValues(cs, LAMBDA c : EffectiveDelta(c, x) # None)
           key == [n \in DOMAIN scored |->
                     2 * AbsOf(AbsOf(EffectiveDelta(scored[n], x)) - i.target_delta)
                       + (IF settings.standard_monthly_expiry_preference /\ scored[n].monthly
                          THEN 0 ELSE 1)]
           c == Primary(i, cs, x, settings)
<1>1. /\ Within(scored, cs) /\ DOMAIN scored # {}
      /\ \A n \in DOMAIN scored : EffectiveDelta(scored[n], x) # None
  BY DEF RestrictValues, Restrict, Within
<1>2. c = First(scored, key)
  BY DEF Primary, Each
<1> HIDE DEF scored, c
<1>4. IsSelection(scored)
  BY <1>1, PartOfSelection
<1>5. \A n \in DOMAIN scored : EffectiveDelta(scored[n], x) \in Int
  BY <1>1, <1>4, DeltaIs DEF IsSelection, MaybeInt
<1>6. \A n \in DOMAIN scored : key[n] \in Nat
  BY <1>5 DEF AbsOf
<1>7. Among(c, scored)
  <2>1. key = [n \in DOMAIN scored |-> key[n]]
    OBVIOUS
  <2> HIDE DEF key
  <2> QED BY <1>1, <1>2, <1>4, <1>6, <2>1, FirstAmong
<1>8. Among(c, cs)
  BY <1>1, <1>7, AmongPart
<1> QED BY <1>8 DEF c

(* No listed strike is nearer to the primary's than one increment, and the   *)
(* partner is within one increment of a target beyond it: so it is beyond it. *)
LEMMA SecondaryIs ==
  ASSUME NEW cs, IsSelection(cs), NEW i, i.strategy \in VerticalStrategies,
         NEW primary, Among(primary, cs), NEW width \in Int, width > 0,
         Secondary(i, cs, primary, width) # None
  PROVE  LET c == Secondary(i, cs, primary, width)
         IN /\ Among(c, cs)
            /\ IF i.strategy = "debit_call_spread" THEN c.strike > primary.strike
               ELSE c.strike < primary.strike
<1> DEFINE others == RestrictValues(cs, LAMBDA c : c.strike # primary.strike)
           target == IF i.strategy = "debit_call_spread"
                     THEN primary.strike + width ELSE primary.strike - width
           misses == {AbsOf(k - target) : k \in Strikes(others)}
           off == Smallest(misses)
           near == {k \in Strikes(others) : AbsOf(k - target) = off}
           strike == Smallest(near)
           placed == RestrictValues(others, LAMBDA c : c.strike = strike)
           c == Secondary(i, cs, primary, width)
<1>1. /\ Within(others, cs)
      /\ \A n \in DOMAIN others : others[n].strike # primary.strike
  BY DEF RestrictValues, Restrict, Within
<1>2. c = IF DOMAIN others = {} \/ off > Increment(cs) THEN None ELSE Earliest(placed)
  BY DEF Secondary
<1>3. DOMAIN others # {} /\ ~(off > Increment(cs)) /\ c = Earliest(placed)
  BY <1>2
<1>4. /\ Within(placed, others)
      /\ \A n \in DOMAIN placed : placed[n].strike = strike
      /\ \A n \in DOMAIN others : others[n].strike = strike => n \in DOMAIN placed
  BY DEF RestrictValues, Restrict, Within
<1> HIDE DEF others, placed, c
<1>5. IsSelection(others)
  BY <1>1, PartOfSelection
<1>6. Strikes(others) \in SUBSET (Nat \ {0}) /\ Strikes(others) # {}
  BY <1>3, <1>5 DEF Strikes, IsSelection, IsContract
<1>7. primary.strike \in Nat \ {0} /\ primary.strike \in Strikes(cs)
  BY AmongIs DEF IsContract, Among, Strikes
<1>8. target \in Int
  BY <1>7
<1>9. off \in misses
  <2>1. misses \in SUBSET Nat /\ misses # {}
    BY <1>6, <1>8 DEF AbsOf
  <2> HIDE DEF misses
  <2> QED BY <2>1, SmallestIn
<1>10. strike \in near
  <2>1. near \in SUBSET Nat /\ near # {}
    BY <1>6, <1>9
  <2> HIDE DEF near
  <2> QED BY <2>1, SmallestIn
<1>11. strike \in Strikes(others) /\ AbsOf(strike - target) = off
  BY <1>10
<1> HIDE DEF strike, near, off, misses
<1>12. strike \in Strikes(cs) /\ strike \in Nat \ {0} /\ strike # primary.strike
  BY <1>1, <1>6, <1>11 DEF Strikes, Within
<1>13. Among(c, placed)
  <2>1. DOMAIN placed # {}
    BY <1>4, <1>11 DEF Strikes
  <2>2. DOMAIN placed \in SUBSET Nat
    BY <1>4, <1>5 DEF Within, IsSelection
  <2> QED BY <1>3, <2>1, <2>2, EarliestIs DEF Among
<1>14. Among(c, cs) /\ c.strike = strike
  BY <1>1, <1>4, <1>13, AmongPart DEF Among
<1>15. CASE i.strategy = "debit_call_spread"
  <2>1. SUFFICES ASSUME strike < primary.strike PROVE FALSE
    BY <1>7, <1>12, <1>14, <1>15 DEF c
  <2>2. Increment(cs) \in Nat \ {0} /\ Increment(cs) <= primary.strike - strike
    BY <1>7, <1>12, <2>1, IncrementIs
  <2>3. off = primary.strike + width - strike
    BY <1>7, <1>11, <1>12, <1>15, <2>1 DEF AbsOf
  <2> QED BY <1>3, <1>7, <1>12, <2>2, <2>3
<1>16. CASE i.strategy # "debit_call_spread"
  <2>1. SUFFICES ASSUME strike > primary.strike PROVE FALSE
    BY <1>7, <1>12, <1>14, <1>16 DEF c
  <2>2. Increment(cs) \in Nat \ {0} /\ Increment(cs) <= strike - primary.strike
    BY <1>7, <1>12, <2>1, IncrementIs
  <2>3. off = strike - (primary.strike - width)
    BY <1>7, <1>11, <1>12, <1>16, <2>1 DEF AbsOf
  <2> QED BY <1>3, <1>7, <1>12, <2>2, <2>3
<1> QED BY <1>15, <1>16

(* Among the expiries with legs one has the smallest key, and the first of   *)
(* those is found.                                                           *)
LEMMA BestIn ==
  ASSUME NEW E \in SUBSET Nat, E # {}, NEW key \in [E -> Nat]
  PROVE  Smallest({e \in E : \A f \in E : key[e] <= key[f]}) \in E
<1> DEFINE keys == {key[e] : e \in E}
           best == {e \in E : \A f \in E : key[e] <= key[f]}
<1>1. Smallest(keys) \in keys /\ \A k \in keys : Smallest(keys) <= k
  <2>1. keys \in SUBSET Nat /\ keys # {}
    OBVIOUS
  <2> HIDE DEF keys
  <2> QED BY <2>1, SmallestIn
<1>2. best \in SUBSET Nat /\ best # {} /\ best \subseteq E
  <2>1. PICK e \in E : key[e] = Smallest(keys)
    BY <1>1
  <2>2. e \in best
    BY <1>1, <2>1
  <2> QED BY <2>2
<1> HIDE DEF best
<1>3. Smallest(best) \in best
  BY <1>2, SmallestIn
<1> QED BY <1>2, <1>3 DEF best

(* The legs of a strangle: the call above the put.                          *)
IsPair(pair, cs) ==
  /\ pair = <<pair[1], pair[2]>>
  /\ Among(pair[1], cs) /\ Among(pair[2], cs)
  /\ pair[1].type = "call" /\ pair[2].type = "put"
  /\ pair[1].strike > pair[2].strike

(* In one expiry, and in the best of them.                                  *)
LEMMA StranglePairIs ==
  ASSUME NEW cs, IsSelection(cs), NEW i, i.target_delta \in Int, NEW x \in Nat \ {0},
         StranglePair(i, cs, x) # None
  PROVE  LET pair == StranglePair(i, cs, x)
         IN /\ IsPair(pair, cs)
            /\ EffectiveDelta(pair[1], x) \in Int /\ EffectiveDelta(pair[2], x) \in Int
<1> DEFINE call == ClosestToDelta(cs, "call", i.target_delta, x)
           put == ClosestToDelta(cs, "put", i.target_delta, x)
           pair == StranglePair(i, cs, x)
<1>1. call # None /\ put # None /\ call.strike > put.strike /\ pair = <<call, put>>
  BY DEF StranglePair
<1>2. /\ Among(call, cs) /\ call.type = "call" /\ EffectiveDelta(call, x) \in Int
      /\ Among(put, cs) /\ put.type = "put" /\ EffectiveDelta(put, x) \in Int
  BY <1>1, ClosestIs
<1> HIDE DEF call, put, pair
<1>3. pair[1] = call /\ pair[2] = put
  BY <1>1
<1>4. IsPair(pair, cs) /\ EffectiveDelta(pair[1], x) \in Int /\ EffectiveDelta(pair[2], x) \in Int
  BY <1>1, <1>2, <1>3 DEF IsPair
<1> QED BY <1>4 DEF pair

(* The pair of the best expiry is a pair of the whole selection.            *)
LEMMA BestStrangleIs ==
  ASSUME NEW cs, IsSelection(cs), NEW i, i.target_delta \in Int, NEW x \in Nat \ {0},
         NEW settings, \A n \in DOMAIN cs : cs[n].dte \in Nat,
         BestStrangle(i, cs, x, settings) # None
  PROVE  IsPair(BestStrangle(i, cs, x, settings), cs)
<1> DEFINE legsOf == [e \in ExpiriesOf(cs) |-> StranglePair(i, OfExpiry(cs, e), x)]
           E == {e \in DOMAIN legsOf : legsOf[e] # None}
           monthly(e) == \E n \in DOMAIN cs : cs[n].dte = e /\ cs[n].monthly
           miss(e) == Total([k \in DOMAIN legsOf[e] |-> DeltaMiss(i, legsOf[e][k], x)])
           late(e) == IF settings.standard_monthly_expiry_preference /\ ~monthly(e) THEN 1 ELSE 0
           Key(e) == 2 * miss(e) + late(e)
           key == [e \in E |-> Key(e)]
           best == Smallest({e \in E : \A f \in E : key[e] <= key[f]})
           pair == BestStrangle(i, cs, x, settings)
<1>1. pair = IF E = {} THEN None
             ELSE legsOf[Smallest({e \in E : \A f \in E : Key(e) <= Key(f)})]
  BY DEF BestStrangle, BestLegs, Each
<1>2. E # {} /\ pair = legsOf[best]
  <2>1. {e \in E : \A f \in E : key[e] <= key[f]} = {e \in E : \A f \in E : Key(e) <= Key(f)}
    <3> HIDE DEF Key, E
    <3> QED OBVIOUS
  <2> HIDE DEF key, Key, E, legsOf
  <2> QED BY <1>1, <2>1
<1>3. \A e \in E : legsOf[e] = StranglePair(i, OfExpiry(cs, e), x) /\ legsOf[e] # None
  OBVIOUS
<1>4. E \in SUBSET Nat
  BY DEF ExpiriesOf
<1> HIDE DEF legsOf, E, pair
<1>5. \A e \in E : /\ IsPair(legsOf[e], cs)
                   /\ EffectiveDelta(legsOf[e][1], x) \in Int
                   /\ EffectiveDelta(legsOf[e][2], x) \in Int
  <2> SUFFICES ASSUME NEW e \in E
               PROVE  /\ IsPair(legsOf[e], cs)
                      /\ EffectiveDelta(legsOf[e][1], x) \in Int
                      /\ EffectiveDelta(legsOf[e][2], x) \in Int
    OBVIOUS
  <2>1. Within(OfExpiry(cs, e), cs) /\ IsSelection(OfExpiry(cs, e))
    BY OfExpiryIs, PartOfSelection
  <2>2. /\ IsPair(legsOf[e], OfExpiry(cs, e))
        /\ EffectiveDelta(legsOf[e][1], x) \in Int
        /\ EffectiveDelta(legsOf[e][2], x) \in Int
    BY <1>3, <2>1, StranglePairIs
  <2> QED BY <2>1, <2>2, AmongPart DEF IsPair
<1>6. \A e \in E : key[e] \in Nat
  <2> SUFFICES ASSUME NEW e \in E PROVE key[e] \in Nat
    OBVIOUS
  <2> DEFINE misses == [k \in DOMAIN legsOf[e] |-> DeltaMiss(i, legsOf[e][k], x)]
             a == DeltaMiss(i, legsOf[e][1], x)
             b == DeltaMiss(i, legsOf[e][2], x)
  <2>1. a \in Nat /\ b \in Nat
    BY <1>5 DEF DeltaMiss, AbsOf
  <2>2. misses = <<a, b>>
    <3>1. legsOf[e] = <<legsOf[e][1], legsOf[e][2]>>
      BY <1>5 DEF IsPair
    <3>2. DOMAIN legsOf[e] = 1..2
      BY <3>1
    <3> QED BY <3>2
  <2>3. Total(misses) = a + b
    <3> HIDE DEF misses, a, b
    <3> QED BY <2>1, <2>2, TotalOfTwo
  <2>4. miss(e) \in Nat
    BY <2>1, <2>3
  <2>5. late(e) \in Nat
    OBVIOUS
  <2> HIDE DEF miss, late
  <2>6. key[e] = 2 * miss(e) + late(e)
    OBVIOUS
  <2> QED BY <2>4, <2>5, <2>6
<1>7. best \in E
  <2>1. key \in [E -> Nat]
    BY <1>6
  <2> HIDE DEF key
  <2> QED BY <1>2, <1>4, <2>1, BestIn
<1>8. IsPair(pair, cs)
  BY <1>2, <1>5, <1>7
<1> QED BY <1>8 DEF pair

(* A vertical of a credit structure: the wing is strictly beyond the short. *)
IsVertical(v, type, cs) ==
  /\ Among(v.short, cs) /\ Among(v.long, cs)
  /\ v.short.type = type /\ v.long.type = type
  /\ IF type = "put" THEN v.long.strike < v.short.strike
     ELSE v.long.strike > v.short.strike
  /\ v.score \in Nat

(* A vertical that is found is one, and its short sits at the anchor if     *)
(* there is one (strategy_builder.py, _credit_vertical).                    *)
LEMMA CreditVerticalIs ==
  ASSUME NEW cs, IsSelection(cs), NEW i, i.target_delta \in Int, NEW x \in Nat \ {0},
         NEW type \in {"call", "put"}, NEW width \in Int, NEW increment, NEW anchor \in MaybeInt,
         CreditVertical(i, cs, type, width, increment, x, anchor) # None
  PROVE  LET v == CreditVertical(i, cs, type, width, increment, x, anchor)
         IN IsVertical(v, type, cs) /\ (anchor # None => v.short.strike = anchor)
<1> DEFINE side == OfType(cs, type)
           anchored == RestrictValues(side, LAMBDA c : c.strike = anchor)
           short == IF anchor = None THEN ClosestToDelta(side, type, i.target_delta, x)
                    ELSE IF DOMAIN anchored = {} THEN None ELSE Earliest(anchored)
           target == IF type = "put" THEN short.strike - width ELSE short.strike + width
           wing == NearestListed(WingSide(side, short), target, increment)
           score == IF anchor = None THEN DeltaMiss(i, short, x)
                    ELSE (100 * AbsOf(short.strike - x)) \div x
           v == CreditVertical(i, cs, type, width, increment, x, anchor)
<1>1. /\ short # None /\ wing # None
      /\ v = [short |-> short, long |-> wing, score |-> score]
  BY DEF CreditVertical
<1>2. /\ Within(side, cs) /\ IsSelection(side)
      /\ \A n \in DOMAIN side : side[n].type = type
  BY OfTypeIs, PartOfSelection DEF Within
<1>3. /\ Within(anchored, side)
      /\ \A n \in DOMAIN anchored : anchored[n].strike = anchor
  BY DEF RestrictValues, Restrict, Within
<1> HIDE DEF side, anchored, v
<1>4. /\ Among(short, side)
      /\ anchor = None => EffectiveDelta(short, x) \in Int
      /\ anchor # None => short.strike = anchor
  <2>1. CASE anchor = None
    BY <1>1, <1>2, <2>1, ClosestIs
  <2>2. CASE anchor # None
    <3>1. DOMAIN anchored # {} /\ short = Earliest(anchored)
      BY <1>1, <2>2
    <3>2. DOMAIN anchored \in SUBSET Nat
      BY <1>2, <1>3 DEF Within, IsSelection
    <3>3. PICK n \in DOMAIN anchored : short = anchored[n]
      BY <3>1, <3>2, EarliestIs
    <3> HIDE DEF short
    <3> QED BY <1>3, <2>2, <3>3, AmongPart DEF Among
  <2> QED BY <2>1, <2>2
<1> HIDE DEF short
<1>5. IsContract(short) /\ short.type = type /\ Among(short, cs)
  BY <1>2, <1>4, AmongIs, AmongPart DEF Among
<1>6. target \in Int
  BY <1>5 DEF IsContract
<1> HIDE DEF target
<1>7. /\ Among(wing, WingSide(side, short))
      /\ Within(WingSide(side, short), side)
      /\ \A n \in DOMAIN WingSide(side, short) :
           IF short.type = "put" THEN side[n].strike < short.strike
           ELSE side[n].strike > short.strike
  BY <1>1, <1>2, <1>6, WingSideIs, PartOfSelection, NearestIs
<1> HIDE DEF wing
<1>8. /\ Among(wing, cs) /\ wing.type = type
      /\ IF type = "put" THEN wing.strike < short.strike ELSE wing.strike > short.strike
  BY <1>2, <1>5, <1>7, AmongPart DEF Among, Within
<1>9. score \in Nat
  <2>1. DeltaMiss(i, short, x) \in Nat \/ anchor # None
    BY <1>4 DEF DeltaMiss, AbsOf
  <2>2. (100 * AbsOf(short.strike - x)) \div x \in Nat
    <3>1. 100 * AbsOf(short.strike - x) \in Nat
      BY <1>5 DEF IsContract, AbsOf
    <3> QED BY <3>1, DivNat
  <2> QED BY <2>1, <2>2
<1> HIDE DEF score
<1>10. IsVertical(v, type, cs) /\ (anchor # None => v.short.strike = anchor)
  BY <1>1, <1>4, <1>5, <1>8, <1>9 DEF IsVertical
<1> QED BY <1>10 DEF v

(* The strike that both shorts of a butterfly share.                        *)
LEMMA SharedStrikeIs ==
  ASSUME NEW cs, IsSelection(cs), NEW x \in Nat \ {0}
  PROVE  SharedStrike(cs, x) \in MaybeInt
<1> DEFINE shared == Strikes(OfType(cs, "call")) \intersect Strikes(OfType(cs, "put"))
           misses == {AbsOf(k - x) : k \in shared}
           off == Smallest(misses)
           near == {k \in shared : AbsOf(k - x) = off}
<1>1. SharedStrike(cs, x) = IF shared = {} THEN None ELSE Smallest(near)
  BY DEF SharedStrike
<1>2. shared \in SUBSET Nat
  <2>1. shared \subseteq Strikes(OfType(cs, "call"))
    OBVIOUS
  <2>2. IsSelection(OfType(cs, "call"))
    BY OfTypeIs, PartOfSelection
  <2>3. Strikes(OfType(cs, "call")) \subseteq Nat
    BY <2>2 DEF IsSelection, Strikes, IsContract
  <2> HIDE DEF shared
  <2> QED BY <2>1, <2>3
<1> HIDE DEF shared
<1>3. ASSUME shared # {} PROVE Smallest(near) \in Int
  <2>1. off \in misses
    <3>1. misses # {}
      BY <1>3
    <3>2. \A k \in shared : AbsOf(k - x) \in Nat
      BY <1>2 DEF AbsOf
    <3>3. misses \in SUBSET Nat
      BY <3>2
    <3> HIDE DEF misses
    <3> QED BY <3>1, <3>3, SmallestIn
  <2>2. near \in SUBSET Nat /\ near # {}
    BY <1>2, <2>1
  <2> HIDE DEF near
  <2> DEFINE k == Smallest(near)
  <2>3. k \in near
    BY <2>2, SmallestIn
  <2>4. near \subseteq Nat
    BY <2>2
  <2> HIDE DEF k
  <2>5. k \in Nat
    BY <2>3, <2>4
  <2> QED BY <2>5 DEF k
<1> QED BY <1>1, <1>3 DEF MaybeInt

(* One vertical, or a put and a call that do not cross.                      *)
IsCredit(vs, strategy, cs) ==
  \/ /\ strategy = "put_credit_spread"
     /\ vs = <<vs[1]>> /\ IsVertical(vs[1], "put", cs)
  \/ /\ strategy = "call_credit_spread"
     /\ vs = <<vs[1]>> /\ IsVertical(vs[1], "call", cs)
  \/ /\ strategy \in {"iron_condor", "iron_butterfly"}
     /\ vs = <<vs[1], vs[2]>>
     /\ IsVertical(vs[1], "put", cs) /\ IsVertical(vs[2], "call", cs)
     /\ vs[1].short.strike <= vs[2].short.strike

(* The verticals of one expiry are those that the strategy names, and two of*)
(* them never cross.                                                        *)
LEMMA AssembledIs ==
  ASSUME NEW cs, IsSelection(cs), NEW i, i.target_delta \in Int,
         i.spread_width \in (Nat \ {0}) \union {None}, i.strategy \in CreditStrategies,
         NEW x \in Nat \ {0}, NEW days \in Int, NEW settings, IsBuilderSettings(settings),
         AssembleVerticals(i, cs, x, days, settings) # None
  PROVE  IsCredit(AssembleVerticals(i, cs, x, days, settings), i.strategy, cs)
<1> DEFINE increment == Increment(cs)
           width == TargetWidth(i, cs, x, days, settings)
           anchor == IF i.strategy = "iron_butterfly" THEN SharedStrike(cs, x) ELSE None
           put == CreditVertical(i, cs, "put", width, increment, x, anchor)
           call == CreditVertical(i, cs, "call", width, increment, x, anchor)
           vs == AssembleVerticals(i, cs, x, days, settings)
<1>1. /\ Positive(width)
      /\ \/ i.strategy = "put_credit_spread" /\ put # None /\ vs = <<put>>
         \/ i.strategy = "call_credit_spread" /\ call # None /\ vs = <<call>>
         \/ /\ i.strategy \in {"iron_condor", "iron_butterfly"}
            /\ i.strategy = "iron_butterfly" => anchor # None
            /\ Pairs(i, put, call) /\ vs = <<put, call>>
  BY DEF AssembleVerticals, CreditStrategies
<1>2. width \in Int /\ anchor \in MaybeInt
  BY <1>1, WidthIs, SharedStrikeIs DEF Positive, MaybeInt
<1> HIDE DEF width, anchor, increment
<1>3. put # None => IsVertical(put, "put", cs) /\ (anchor # None => put.short.strike = anchor)
  BY <1>2, CreditVerticalIs
<1>4. call # None => IsVertical(call, "call", cs) /\ (anchor # None => call.short.strike = anchor)
  BY <1>2, CreditVerticalIs
<1> HIDE DEF put, call, vs
<1>5. CASE i.strategy = "put_credit_spread" /\ put # None /\ vs = <<put>>
  <2>1. vs[1] = put
    BY <1>5
  <2> QED BY <1>3, <1>5, <2>1 DEF IsCredit, vs
<1>6. CASE i.strategy = "call_credit_spread" /\ call # None /\ vs = <<call>>
  <2>1. vs[1] = call
    BY <1>6
  <2> QED BY <1>4, <1>6, <2>1 DEF IsCredit, vs
<1>7. CASE /\ i.strategy \in {"iron_condor", "iron_butterfly"}
           /\ i.strategy = "iron_butterfly" => anchor # None
           /\ Pairs(i, put, call) /\ vs = <<put, call>>
  <2>1. vs[1] = put /\ vs[2] = call
    BY <1>7
  <2>2. put # None /\ call # None
    BY <1>7 DEF Pairs
  <2>3. put.short.strike \in Int /\ call.short.strike \in Int
    BY <1>3, <1>4, <2>2, AmongIs DEF IsVertical, IsContract
  <2>4. put.short.strike <= call.short.strike
    <3>1. CASE i.strategy = "iron_condor"
      BY <1>7, <2>3, <3>1 DEF Pairs
    <3>2. CASE i.strategy = "iron_butterfly"
      BY <1>3, <1>4, <1>7, <2>2, <2>3, <3>2
    <3> QED BY <1>7, <3>1, <3>2
  <2> QED BY <1>3, <1>4, <1>7, <2>1, <2>2, <2>4 DEF IsCredit, vs
<1> QED BY <1>1, <1>5, <1>6, <1>7

(* Verticals of one expiry are verticals of the whole selection.            *)
LEMMA CreditPart ==
  ASSUME NEW cs, NEW part, Within(part, cs), NEW vs, NEW strategy, IsCredit(vs, strategy, part)
  PROVE  IsCredit(vs, strategy, cs)
BY AmongPart DEF IsCredit, IsVertical

(* The verticals of the best expiry are such.                               *)
LEMMA BestVerticalsIs ==
  ASSUME NEW cs, IsSelection(cs), NEW i, i.target_delta \in Int,
         i.spread_width \in (Nat \ {0}) \union {None}, i.strategy \in CreditStrategies,
         NEW x \in Nat \ {0}, NEW settings, IsBuilderSettings(settings),
         \A n \in DOMAIN cs : cs[n].dte \in Nat,
         BestVerticals(i, cs, x, settings) # None
  PROVE  IsCredit(BestVerticals(i, cs, x, settings), i.strategy, cs)
<1> DEFINE legsOf == [e \in ExpiriesOf(cs) |->
                        AssembleVerticals(i, OfExpiry(cs, e), x, e, settings)]
           E == {e \in DOMAIN legsOf : legsOf[e] # None}
           monthly(e) == \E n \in DOMAIN cs : cs[n].dte = e /\ cs[n].monthly
           miss(e) == Total([k \in DOMAIN legsOf[e] |-> legsOf[e][k].score])
           late(e) == IF settings.standard_monthly_expiry_preference /\ ~monthly(e) THEN 1 ELSE 0
           Key(e) == 2 * miss(e) + late(e)
           key == [e \in E |-> Key(e)]
           best == Smallest({e \in E : \A f \in E : key[e] <= key[f]})
           vs == BestVerticals(i, cs, x, settings)
<1>1. vs = IF E = {} THEN None
           ELSE legsOf[Smallest({e \in E : \A f \in E : Key(e) <= Key(f)})]
  BY DEF BestVerticals, BestLegs, Each
<1>2. E # {} /\ vs = legsOf[best]
  <2>1. {e \in E : \A f \in E : key[e] <= key[f]} = {e \in E : \A f \in E : Key(e) <= Key(f)}
    <3> HIDE DEF Key, E
    <3> QED OBVIOUS
  <2> HIDE DEF key, Key, E, legsOf
  <2> QED BY <1>1, <2>1
<1>3. \A e \in E : /\ legsOf[e] = AssembleVerticals(i, OfExpiry(cs, e), x, e, settings)
                   /\ legsOf[e] # None
  OBVIOUS
<1>4. E \in SUBSET Nat
  BY DEF ExpiriesOf
<1> HIDE DEF legsOf, E, vs
<1>5. \A e \in E : IsCredit(legsOf[e], i.strategy, cs)
  <2> SUFFICES ASSUME NEW e \in E PROVE IsCredit(legsOf[e], i.strategy, cs)
    OBVIOUS
  <2>1. Within(OfExpiry(cs, e), cs) /\ IsSelection(OfExpiry(cs, e)) /\ e \in Int
    BY <1>4, OfExpiryIs, PartOfSelection
  <2>2. IsCredit(legsOf[e], i.strategy, OfExpiry(cs, e))
    BY <1>3, <2>1, AssembledIs
  <2> QED BY <2>1, <2>2, CreditPart
<1>6. \A e \in E : key[e] \in Nat
  <2> SUFFICES ASSUME NEW e \in E PROVE key[e] \in Nat
    OBVIOUS
  <2> DEFINE f == legsOf[e]
             scores == [k \in DOMAIN f |-> f[k].score]
  <2>1. IsCredit(f, i.strategy, cs)
    BY <1>5
  <2>2. miss(e) = Total(scores)
    OBVIOUS
  <2> HIDE DEF f
  <2>3. Total(scores) \in Nat
    <3>1. CASE f = <<f[1]>> /\ f[1].score \in Nat
      <4>1. scores = <<f[1].score>>
        <5>1. DOMAIN f = 1..1
          BY <3>1
        <5> QED BY <5>1
      <4> HIDE DEF scores
      <4> QED BY <3>1, <4>1, TotalOfOne
    <3>2. CASE f = <<f[1], f[2]>> /\ f[1].score \in Nat /\ f[2].score \in Nat
      <4>1. scores = <<f[1].score, f[2].score>>
        <5>1. DOMAIN f = 1..2
          BY <3>2
        <5> QED BY <5>1
      <4> HIDE DEF scores
      <4>2. Total(scores) = f[1].score + f[2].score
        BY <3>2, <4>1, TotalOfTwo
      <4> QED BY <3>2, <4>2
    <3> QED BY <2>1, <3>1, <3>2 DEF IsCredit, IsVertical
  <2>4. late(e) \in Nat
    OBVIOUS
  <2> HIDE DEF miss, late
  <2>5. key[e] = 2 * miss(e) + late(e)
    OBVIOUS
  <2> QED BY <2>2, <2>3, <2>4, <2>5
<1>7. best \in E
  <2>1. key \in [E -> Nat]
    BY <1>6
  <2> HIDE DEF key
  <2> QED BY <1>2, <1>4, <2>1, BestIn
<1>8. IsCredit(vs, i.strategy, cs)
  BY <1>2, <1>5, <1>7
<1> QED BY <1>8 DEF vs

------------------------------------------------------------------------------
(* What a structure has made at the end.                                    *)

(* The legs of a plan are finitely many.                                    *)
LEMMA FirstsFinite ==
  ASSUME NEW n \in Nat PROVE IsFiniteSet(1..n)
BY FS_Interval

(* The ends that are looked at hold zero, every strike and a price far above*)
(* them.                                                                    *)
LEMMA KinksAre ==
  ASSUME NEW p, IsFiniteSet(DOMAIN p.legs), DOMAIN p.legs # {},
         \A k \in DOMAIN p.legs : p.legs[k].strike \in Nat \ {0}, NEW paid \in Nat \ {0}
  PROVE  LET top == 2 * Largest(Strikes(p.legs))
         IN /\ Kinks(p, paid) \subseteq Nat
            /\ 0 \in Kinks(p, paid) /\ top \in Kinks(p, paid) /\ top \in Nat
            /\ \A k \in DOMAIN p.legs : p.legs[k].strike \in Kinks(p, paid) /\ top >= 2 * p.legs[k].strike
<1> DEFINE strikes == Strikes(p.legs)
           places == DOMAIN p.legs
           most == Largest(strikes)
<1>1. strikes = {p.legs[k].strike : k \in places}
  BY DEF Strikes
<1>2. IsFiniteSet(places)
  OBVIOUS
<1>3. places # {}
  OBVIOUS
<1>4. strikes \in SUBSET Nat /\ strikes # {}
  BY <1>1, <1>3
<1> HIDE DEF places, strikes
<1>5. IsFiniteSet(strikes)
  <2> DEFINE f == [k \in places |-> p.legs[k].strike]
  <2>1. f \in Surjection(places, strikes)
    BY <1>1 DEF Surjection
  <2> QED BY <1>2, <2>1, FS_Surjection
<1>6. most \in strikes /\ \A k \in strikes : k <= most
  BY <1>4, <1>5, LargestIn
<1> HIDE DEF most
<1>7. most \in Nat
  BY <1>4, <1>6
<1>8. Kinks(p, paid) = strikes \union {0, paid, 2 * most}
  BY DEF Kinks, strikes, most
<1>9. \A k \in DOMAIN p.legs : p.legs[k].strike \in strikes
  BY <1>1 DEF places
<1>10. \A k \in DOMAIN p.legs : p.legs[k].strike \in Nat /\ 2 * most >= 2 * p.legs[k].strike
  BY <1>6, <1>7, <1>9
<1>11. Kinks(p, paid) \subseteq Nat
  BY <1>4, <1>7, <1>8
<1>12. 2 * most \in Nat /\ 2 * most \in Kinks(p, paid) /\ 0 \in Kinks(p, paid)
  BY <1>7, <1>8
<1>13. \A k \in DOMAIN p.legs : p.legs[k].strike \in Kinks(p, paid)
  BY <1>8, <1>9
<1> QED BY <1>10, <1>11, <1>12, <1>13 DEF most, strikes

(* The hundred shares of a covered call, one contract's.                     *)
Shares(p, paid, x) == IF p.strategy = "covered_call" THEN x - paid ELSE 0

(* What one contract has made, with the shares it is covered by, and what it *)
(* loses and makes at most.                                                  *)
LotPayoff(p, paid, x) == LegsMake(p, x) + Shares(p, paid, x)

LotLosesMaxLoss(p, paid) ==
  /\ \A x \in Kinks(p, paid) : LotPayoff(p, paid, x) >= -p.max_loss
  /\ \E x \in Kinks(p, paid) : LotPayoff(p, paid, x) = -p.max_loss

LotMakesMaxProfit(p, paid) ==
  /\ p.max_profit # None =>
       /\ \A x \in Kinks(p, paid) : LotPayoff(p, paid, x) <= p.max_profit
       /\ \E x \in Kinks(p, paid) : LotPayoff(p, paid, x) = p.max_profit
  /\ p.breakeven # None => LotPayoff(p, paid, p.breakeven) = 0

(* A leg is worth a number at every price.                                  *)
LEMMA WorthIs ==
  ASSUME NEW l, l.strike \in Nat \ {0}, NEW x \in Int
  PROVE  Worth(l, x) \in Int
BY DEF Worth, Intrinsic, MaxOf

(* The payoff of one, two and four legs, leg by leg.                        *)
LEMMA PayoffOfOne ==
  ASSUME NEW p, NEW a, p.legs = <<a>>, a.strike \in Nat \ {0}, NEW x \in Int, NEW paid
  PROVE  LotPayoff(p, paid, x) = Worth(a, x) + CashIn(p) + Shares(p, paid, x)
<1> DEFINE f == Each(p.legs, LAMBDA l : Worth(l, x))
           u == Worth(a, x)
<1>1. f = <<u>>
  BY DEF Each
<1>2. u \in Int
  BY WorthIs
<1> HIDE DEF f, u
<1>3. Total(f) = u
  BY <1>1, <1>2, TotalOfOne
<1>4. LotPayoff(p, paid, x) = Total(f) + CashIn(p) + Shares(p, paid, x)
  BY DEF LotPayoff, LegsMake, f
<1> QED BY <1>3, <1>4 DEF u

(* Of two legs.                                                             *)
LEMMA PayoffOfTwo ==
  ASSUME NEW p, NEW a, NEW b, p.legs = <<a, b>>,
         a.strike \in Nat \ {0}, b.strike \in Nat \ {0}, NEW x \in Int, NEW paid
  PROVE  LotPayoff(p, paid, x) = Worth(a, x) + Worth(b, x) + CashIn(p) + Shares(p, paid, x)
<1> DEFINE f == Each(p.legs, LAMBDA l : Worth(l, x))
           u == Worth(a, x)
           v == Worth(b, x)
<1>1. f = <<u, v>>
  BY DEF Each
<1>2. u \in Int /\ v \in Int
  BY WorthIs
<1> HIDE DEF f, u, v
<1>3. Total(f) = u + v
  BY <1>1, <1>2, TotalOfTwo
<1>4. LotPayoff(p, paid, x) = Total(f) + CashIn(p) + Shares(p, paid, x)
  BY DEF LotPayoff, LegsMake, f
<1> QED BY <1>3, <1>4 DEF u, v

(* Of four.                                                                 *)
LEMMA PayoffOfFour ==
  ASSUME NEW p, NEW a, NEW b, NEW c, NEW d, p.legs = <<a, b, c, d>>,
         a.strike \in Nat \ {0}, b.strike \in Nat \ {0},
         c.strike \in Nat \ {0}, d.strike \in Nat \ {0}, NEW x \in Int, NEW paid
  PROVE  LotPayoff(p, paid, x)
           = Worth(a, x) + Worth(b, x) + Worth(c, x) + Worth(d, x)
               + CashIn(p) + Shares(p, paid, x)
<1> DEFINE f == Each(p.legs, LAMBDA l : Worth(l, x))
           u == Worth(a, x)
           v == Worth(b, x)
           y == Worth(c, x)
           z == Worth(d, x)
<1>1. f = <<u, v, y, z>>
  BY DEF Each
<1>2. u \in Int /\ v \in Int /\ y \in Int /\ z \in Int
  BY WorthIs
<1> HIDE DEF f, u, v, y, z
<1>3. Total(f) = u + v + y + z
  BY <1>1, <1>2, TotalOfFour
<1>4. LotPayoff(p, paid, x) = Total(f) + CashIn(p) + Shares(p, paid, x)
  BY DEF LotPayoff, LegsMake, f
<1> QED BY <1>3, <1>4 DEF u, v, y, z

(* The ends of one, two and four legs.                                      *)
LEMMA KinksOfOne ==
  ASSUME NEW p, NEW a, p.legs = <<a>>, a.strike \in Nat \ {0}, NEW paid \in Nat \ {0}
  PROVE  LET top == 2 * Largest(Strikes(p.legs))
         IN /\ Kinks(p, paid) \subseteq Nat
            /\ {0, top, a.strike} \subseteq Kinks(p, paid)
            /\ top >= 2 * a.strike
<1>1. DOMAIN p.legs = 1..1 /\ p.legs[1] = a
  OBVIOUS
<1>2. \A k \in DOMAIN p.legs : p.legs[k].strike \in Nat \ {0}
  <2>1. \A k \in 1..1 : k = 1
    OBVIOUS
  <2> QED BY <1>1, <2>1
<1> DEFINE places == DOMAIN p.legs
           top == 2 * Largest(Strikes(p.legs))
           kinks == Kinks(p, paid)
<1>6. IsFiniteSet(places) /\ places # {}
  <2>1. 1 \in Nat
    OBVIOUS
  <2>2. IsFiniteSet(1..1)
    BY <2>1, FirstsFinite, Zenon
  <2>3. places = 1..1 /\ 1 \in 1..1
    BY <1>1
  <2> HIDE DEF places
  <2> QED BY <2>2, <2>3, Zenon
<1>3. /\ kinks \subseteq Nat /\ 0 \in kinks /\ top \in kinks
      /\ \A k \in places : p.legs[k].strike \in kinks /\ top >= 2 * p.legs[k].strike
  BY <1>2, <1>6, KinksAre
<1>4. {1} \subseteq places
  BY <1>1
<1> HIDE DEF places, top, kinks
<1>5. /\ kinks \subseteq Nat
      /\ {0, top, a.strike} \subseteq kinks
      /\ top >= 2 * a.strike
  BY <1>1, <1>3, <1>4
<1> QED BY <1>5 DEF top, kinks

(* Of two legs.                                                             *)
LEMMA KinksOfTwo ==
  ASSUME NEW p, NEW a, NEW b, p.legs = <<a, b>>,
         a.strike \in Nat \ {0}, b.strike \in Nat \ {0}, NEW paid \in Nat \ {0}
  PROVE  LET top == 2 * Largest(Strikes(p.legs))
         IN /\ Kinks(p, paid) \subseteq Nat
            /\ {0, top, a.strike, b.strike} \subseteq Kinks(p, paid)
            /\ top >= 2 * a.strike /\ top >= 2 * b.strike
<1>1. DOMAIN p.legs = 1..2 /\ p.legs[1] = a /\ p.legs[2] = b
  OBVIOUS
<1>2. \A k \in DOMAIN p.legs : p.legs[k].strike \in Nat \ {0}
  <2>1. \A k \in 1..2 : k = 1 \/ k = 2
    OBVIOUS
  <2> QED BY <1>1, <2>1
<1> DEFINE places == DOMAIN p.legs
           top == 2 * Largest(Strikes(p.legs))
           kinks == Kinks(p, paid)
<1>6. IsFiniteSet(places) /\ places # {}
  <2>1. 2 \in Nat
    OBVIOUS
  <2>2. IsFiniteSet(1..2)
    BY <2>1, FirstsFinite, Zenon
  <2>3. places = 1..2 /\ 1 \in 1..2
    BY <1>1
  <2> HIDE DEF places
  <2> QED BY <2>2, <2>3, Zenon
<1>3. /\ kinks \subseteq Nat /\ 0 \in kinks /\ top \in kinks
      /\ \A k \in places : p.legs[k].strike \in kinks /\ top >= 2 * p.legs[k].strike
  BY <1>2, <1>6, KinksAre
<1>4. {1, 2} \subseteq places
  BY <1>1
<1> HIDE DEF places, top, kinks
<1>5. /\ kinks \subseteq Nat
      /\ {0, top, a.strike, b.strike} \subseteq kinks
      /\ top >= 2 * a.strike /\ top >= 2 * b.strike
  BY <1>1, <1>3, <1>4
<1> QED BY <1>5 DEF top, kinks

(* Of four.                                                                 *)
LEMMA KinksOfFour ==
  ASSUME NEW p, NEW a, NEW b, NEW c, NEW d, p.legs = <<a, b, c, d>>,
         a.strike \in Nat \ {0}, b.strike \in Nat \ {0},
         c.strike \in Nat \ {0}, d.strike \in Nat \ {0}, NEW paid \in Nat \ {0}
  PROVE  LET top == 2 * Largest(Strikes(p.legs))
         IN /\ Kinks(p, paid) \subseteq Nat
            /\ {0, top, a.strike, b.strike, c.strike, d.strike} \subseteq Kinks(p, paid)
            /\ top >= 2 * a.strike /\ top >= 2 * b.strike
            /\ top >= 2 * c.strike /\ top >= 2 * d.strike
<1>1. /\ DOMAIN p.legs = 1..4
      /\ p.legs[1] = a /\ p.legs[2] = b /\ p.legs[3] = c /\ p.legs[4] = d
  OBVIOUS
<1>2. \A k \in DOMAIN p.legs : p.legs[k].strike \in Nat \ {0}
  <2>1. \A k \in 1..4 : k = 1 \/ k = 2 \/ k = 3 \/ k = 4
    OBVIOUS
  <2> QED BY <1>1, <2>1
<1> DEFINE places == DOMAIN p.legs
           top == 2 * Largest(Strikes(p.legs))
           kinks == Kinks(p, paid)
<1>6. IsFiniteSet(places) /\ places # {}
  <2>1. 4 \in Nat
    OBVIOUS
  <2>2. IsFiniteSet(1..4)
    BY <2>1, FirstsFinite, Zenon
  <2>3. places = 1..4 /\ 1 \in 1..4
    BY <1>1
  <2> HIDE DEF places
  <2> QED BY <2>2, <2>3, Zenon
<1>3. /\ kinks \subseteq Nat /\ 0 \in kinks /\ top \in kinks
      /\ \A k \in places : p.legs[k].strike \in kinks /\ top >= 2 * p.legs[k].strike
  BY <1>2, <1>6, KinksAre
<1>4. {1, 2, 3, 4} \subseteq places
  BY <1>1
<1> HIDE DEF places, top, kinks
<1>5. /\ kinks \subseteq Nat
      /\ {0, top, a.strike, b.strike, c.strike, d.strike} \subseteq kinks
      /\ top >= 2 * a.strike /\ top >= 2 * b.strike /\ top >= 2 * c.strike /\ top >= 2 * d.strike
  BY <1>1, <1>3, <1>4
<1> QED BY <1>5 DEF top, kinks

(* The sums of a plan are numbers.                                           *)
Whole(p) ==
  /\ p.max_loss \in Int /\ p.max_profit \in MaybeInt /\ p.breakeven \in MaybeInt
  /\ \A x \in Int : LegsMake(p, x) \in Int

(* At every price of the underlying, in cents, and not only at the ends.    *)
LossIsKnown(p, paid) ==
  /\ Whole(p)
  /\ Kinks(p, paid) \subseteq Nat
  /\ LotLosesMaxLoss(p, paid)
  /\ \A x \in Nat : LotPayoff(p, paid, x) >= -p.max_loss

(* They are when its legs have strikes, its limit is one and the rest are.   *)
LEMMA WholeIs ==
  ASSUME NEW p, NEW n \in Nat, DOMAIN p.legs = 1..n,
         \A k \in 1..n : p.legs[k].strike \in Nat \ {0},
         p.limit_price \in Int, p.max_loss \in Int,
         p.max_profit \in MaybeInt, p.breakeven \in MaybeInt
  PROVE  Whole(p)
<1> SUFFICES ASSUME NEW x \in Int PROVE LegsMake(p, x) \in Int
  BY DEF Whole
<1> DEFINE f == Each(p.legs, LAMBDA l : Worth(l, x))
<1>1. f = [k \in 1..n |-> Worth(p.legs[k], x)]
  BY DEF Each
<1>2. \A k \in 1..n : Worth(p.legs[k], x) \in Int
  BY WorthIs
<1> HIDE DEF f
<1>3. f \in [1..n -> Int]
  BY <1>1, <1>2
<1>4. f \in Seq(Int)
  BY <1>3, SeqDef
<1>5. Total(f) \in Int
  BY <1>4, TotalInt
<1>6. CashIn(p) \in Int
  BY DEF CashIn
<1> QED BY <1>5, <1>6 DEF LegsMake, f

(* A leg by side and type.                                                  *)
Option(l, side, type) ==
  l.side = side /\ l.type = type /\ l.strike \in Nat \ {0}

(* The case that StatedProfitIsReal leaves out is the call sold below the   *)
(* spot.                                                                    *)
Profits(p, paid) ==
  ~(p.strategy = "covered_call" /\ p.legs[1].strike < paid) => LotMakesMaxProfit(p, paid)

(* A bought option loses its price, and breaks even that far from its       *)
(* strike.                                                                  *)
LEMMA SingleEnds ==
  ASSUME NEW p, NEW a, NEW paid \in Nat \ {0}, NEW e \in Nat \ {0},
         p.legs = <<a>>, NEW type \in {"call", "put"}, Option(a, "buy", type),
         p.strategy = IF type = "call" THEN "long_call" ELSE "long_put",
         p.limit_price = e, p.max_loss = e, p.max_profit = None,
         p.breakeven = IF type = "call" THEN a.strike + e ELSE a.strike - e
  PROVE  LossIsKnown(p, paid) /\ LotMakesMaxProfit(p, paid)
<1> DEFINE kinks == Kinks(p, paid)
           top == 2 * Largest(Strikes(p.legs))
           K == a.strike
           pay(x) == LotPayoff(p, paid, x)
<1>1. K \in Nat \ {0}
  BY DEF Option
<1>2. kinks \subseteq Nat /\ {0, top, K} \subseteq kinks /\ top >= 2 * K
  BY <1>1, KinksOfOne
<1>3. ASSUME NEW x \in Int PROVE pay(x) = Intrinsic(type, K, x) - e
  <2>1. pay(x) = Worth(a, x) + CashIn(p) + Shares(p, paid, x)
    BY <1>1, PayoffOfOne
  <2>2. Worth(a, x) = Intrinsic(type, K, x)
    BY DEF Worth, Option
  <2>3. CashIn(p) = -e /\ Shares(p, paid, x) = 0
    BY DEF CashIn, Shares, ShortOnlyStrategies
  <2>4. Intrinsic(type, K, x) \in Int
    BY <1>1 DEF Intrinsic, MaxOf
  <2> HIDE DEF pay, K
  <2> QED BY <2>1, <2>2, <2>3, <2>4
<1>30. Whole(p)
  <2>1. DOMAIN p.legs = 1..1 /\ \A k \in 1..1 : p.legs[k].strike \in Nat \ {0}
    BY DEF Option
  <2>2. /\ p.limit_price \in Int /\ p.max_loss \in Int
        /\ p.max_profit \in MaybeInt /\ p.breakeven \in MaybeInt
    BY DEF Option, MaybeInt, AbsOf, MaxOf
  <2> QED BY <2>1, <2>2, WholeIs
<1> HIDE DEF kinks, top, pay, K
<1>4. \A x \in Nat : pay(x) >= -e
  BY <1>1, <1>3 DEF Intrinsic, MaxOf
<1>5. LossIsKnown(p, paid)
  <2>1. CASE type = "call"
    <3>1. pay(0) = -e
      BY <1>1, <1>3, <2>1 DEF Intrinsic, MaxOf
    <3> QED BY <1>2, <1>4, <3>1, <1>30 DEF LossIsKnown, LotLosesMaxLoss, pay, kinks
  <2>2. CASE type = "put"
    <3>1. top \in Nat
      BY <1>2
    <3>2. pay(top) = -e
      BY <1>1, <1>2, <1>3, <2>2, <3>1 DEF Intrinsic, MaxOf
    <3> QED BY <1>2, <1>4, <3>2, <1>30 DEF LossIsKnown, LotLosesMaxLoss, pay, kinks
  <2> QED BY <2>1, <2>2
<1>6. LotMakesMaxProfit(p, paid)
  <2> SUFFICES pay(p.breakeven) = 0
    BY DEF LotMakesMaxProfit, pay
  <2> DEFINE b == p.breakeven
  <2>1. b \in Int /\ b = (IF type = "call" THEN K + e ELSE K - e)
    BY <1>1 DEF K
  <2> HIDE DEF b
  <2>2. pay(b) = 0
    BY <1>1, <1>3, <2>1 DEF Intrinsic, MaxOf
  <2> QED BY <2>2 DEF b
<1> QED BY <1>5, <1>6

(* A debit vertical: bought nearer the money than sold.                      *)
LEMMA VerticalEnds ==
  ASSUME NEW p, NEW a, NEW b, NEW paid \in Nat \ {0}, NEW e \in Nat \ {0},
         p.legs = <<a, b>>, NEW type \in {"call", "put"},
         Option(a, "buy", type), Option(b, "sell", type),
         IF type = "call" THEN b.strike > a.strike ELSE b.strike < a.strike,
         e < AbsOf(a.strike - b.strike),
         p.strategy = IF type = "call" THEN "debit_call_spread" ELSE "debit_put_spread",
         p.limit_price = e, p.max_loss = e,
         p.max_profit = AbsOf(a.strike - b.strike) - e,
         p.breakeven = IF type = "call" THEN a.strike + e ELSE a.strike - e
  PROVE  LossIsKnown(p, paid) /\ LotMakesMaxProfit(p, paid)
<1> DEFINE kinks == Kinks(p, paid)
           top == 2 * Largest(Strikes(p.legs))
           K == a.strike
           S == b.strike
           pay(x) == LotPayoff(p, paid, x)
           width == AbsOf(K - S)
<1>1. /\ K \in Nat \ {0} /\ S \in Nat \ {0} /\ e < width
      /\ IF type = "call" THEN S > K ELSE S < K
  BY DEF Option
<1>2. kinks \subseteq Nat /\ {0, top, K, S} \subseteq kinks /\ top >= 2 * K /\ top >= 2 * S
  BY <1>1, KinksOfTwo
<1>3. ASSUME NEW x \in Int PROVE pay(x) = Intrinsic(type, K, x) - Intrinsic(type, S, x) - e
  <2>1. pay(x) = Worth(a, x) + Worth(b, x) + CashIn(p) + Shares(p, paid, x)
    BY <1>1, PayoffOfTwo
  <2>2. Worth(a, x) = Intrinsic(type, K, x) /\ Worth(b, x) = -Intrinsic(type, S, x)
    BY DEF Worth, Option
  <2>3. CashIn(p) = -e /\ Shares(p, paid, x) = 0
    BY DEF CashIn, Shares, ShortOnlyStrategies
  <2>4. Intrinsic(type, K, x) \in Int /\ Intrinsic(type, S, x) \in Int
    BY <1>1 DEF Intrinsic, MaxOf
  <2> HIDE DEF pay, K, S
  <2> QED BY <2>1, <2>2, <2>3, <2>4
<1>10. p.max_profit = width - e
  OBVIOUS
<1> DEFINE even == p.breakeven
<1>11. even = IF type = "call" THEN K + e ELSE K - e
  OBVIOUS
<1>30. Whole(p)
  <2>1. DOMAIN p.legs = 1..2 /\ \A k \in 1..2 : p.legs[k].strike \in Nat \ {0}
    BY DEF Option
  <2>2. /\ p.limit_price \in Int /\ p.max_loss \in Int
        /\ p.max_profit \in MaybeInt /\ p.breakeven \in MaybeInt
    BY DEF Option, MaybeInt, AbsOf, MaxOf
  <2> QED BY <2>1, <2>2, WholeIs
<1> HIDE DEF kinks, top, pay, K, S, even
<1>4. \A x \in Nat : pay(x) >= -e /\ pay(x) <= width - e
  BY <1>1, <1>3 DEF Intrinsic, MaxOf, AbsOf
<1>5. /\ pay(IF type = "call" THEN 0 ELSE top) = -e
      /\ pay(IF type = "call" THEN top ELSE 0) = width - e
  <2>1. top \in Nat
    BY <1>2
  <2> QED BY <1>1, <1>2, <1>3, <2>1 DEF Intrinsic, MaxOf, AbsOf
<1>6. even \in Int /\ pay(even) = 0
  BY <1>1, <1>3, <1>11 DEF Intrinsic, MaxOf, AbsOf
<1>7. LossIsKnown(p, paid)
  BY <1>2, <1>4, <1>5, <1>30 DEF LossIsKnown, LotLosesMaxLoss, pay, kinks
<1>8. LotMakesMaxProfit(p, paid)
  <2> HIDE DEF width
  <2>1. \A x \in kinks : pay(x) <= p.max_profit
    BY <1>2, <1>4, <1>10
  <2>2. \E x \in kinks : pay(x) = p.max_profit
    <3> DEFINE far == IF type = "call" THEN top ELSE 0
    <3>1. far \in kinks /\ pay(far) = p.max_profit
      BY <1>2, <1>5, <1>10
    <3> QED BY <3>1
  <2> QED BY <1>6, <2>1, <2>2 DEF LotMakesMaxProfit, pay, kinks, even
<1> QED BY <1>7, <1>8

(* A call sold on shares: the worst is that they end worth nothing.          *)
LEMMA CoveredCallEnds ==
  ASSUME NEW p, NEW a, NEW paid \in Nat \ {0}, NEW e \in Int,
         p.legs = <<a>>, Option(a, "sell", "call"), p.strategy = "covered_call",
         p.limit_price = e, p.max_loss = paid - e,
         p.max_profit = MaxOf(0, a.strike - paid) + e, p.breakeven = paid - e
  PROVE  LossIsKnown(p, paid) /\ (e >= 0 => Profits(p, paid))
<1> DEFINE kinks == Kinks(p, paid)
           K == a.strike
           pay(x) == LotPayoff(p, paid, x)
<1>1. K \in Nat \ {0}
  BY DEF Option
<1>2. kinks \subseteq Nat /\ {0, K} \subseteq kinks
  BY <1>1, KinksOfOne
<1>3. ASSUME NEW x \in Int PROVE pay(x) = e + x - paid - Intrinsic("call", K, x)
  <2>1. pay(x) = Worth(a, x) + CashIn(p) + Shares(p, paid, x)
    BY <1>1, PayoffOfOne
  <2>2. Worth(a, x) = -Intrinsic("call", K, x)
    BY DEF Worth, Option
  <2>3. CashIn(p) = e /\ Shares(p, paid, x) = x - paid
    BY DEF CashIn, Shares, ShortOnlyStrategies
  <2>4. Intrinsic("call", K, x) \in Int
    BY <1>1 DEF Intrinsic, MaxOf
  <2> HIDE DEF pay, K
  <2> QED BY <2>1, <2>2, <2>3, <2>4
<1>10. p.legs[1].strike = K /\ p.max_profit = MaxOf(0, K - paid) + e
  OBVIOUS
<1>30. Whole(p)
  <2>1. DOMAIN p.legs = 1..1 /\ \A k \in 1..1 : p.legs[k].strike \in Nat \ {0}
    BY DEF Option
  <2>2. /\ p.limit_price \in Int /\ p.max_loss \in Int
        /\ p.max_profit \in MaybeInt /\ p.breakeven \in MaybeInt
    BY DEF Option, MaybeInt, AbsOf, MaxOf
  <2> QED BY <2>1, <2>2, WholeIs
<1> HIDE DEF kinks, pay, K
<1>4. \A x \in Nat : pay(x) >= -(paid - e)
  BY <1>1, <1>3 DEF Intrinsic, MaxOf
<1>5. pay(0) = -(paid - e)
  BY <1>1, <1>3 DEF Intrinsic, MaxOf
<1>7. LossIsKnown(p, paid)
  BY <1>2, <1>4, <1>5, <1>30 DEF LossIsKnown, LotLosesMaxLoss, pay, kinks
<1>8. ASSUME e >= 0, ~(K < paid) PROVE LotMakesMaxProfit(p, paid)
  <2>1. p.max_profit = K - paid + e
    BY <1>1, <1>8, <1>10 DEF MaxOf
  <2>2. pay(K) = K - paid + e /\ \A x \in Nat : pay(x) <= K - paid + e
    BY <1>1, <1>3 DEF Intrinsic, MaxOf
  <2>3. pay(paid - e) = 0
    BY <1>1, <1>3, <1>8 DEF Intrinsic, MaxOf
  <2>4. \A x \in kinks : pay(x) <= p.max_profit
    BY <1>2, <2>1, <2>2
  <2>5. K \in kinks /\ pay(K) = p.max_profit
    BY <1>2, <2>1, <2>2
  <2> QED BY <2>3, <2>4, <2>5 DEF LotMakesMaxProfit, pay, kinks
<1> QED BY <1>7, <1>8, <1>10 DEF Profits

(* A put sold against cash: the worst is that the shares end worth nothing. *)
LEMMA CashSecuredPutEnds ==
  ASSUME NEW p, NEW a, NEW paid \in Nat \ {0}, NEW e \in Int,
         p.legs = <<a>>, Option(a, "sell", "put"), p.strategy = "cash_secured_put",
         p.limit_price = e, p.max_loss = a.strike - e,
         p.max_profit = e, p.breakeven = a.strike - e
  PROVE  LossIsKnown(p, paid) /\ (e >= 0 => LotMakesMaxProfit(p, paid))
<1> DEFINE kinks == Kinks(p, paid)
           K == a.strike
           pay(x) == LotPayoff(p, paid, x)
<1>1. K \in Nat \ {0}
  BY DEF Option
<1>2. kinks \subseteq Nat /\ {0, K} \subseteq kinks
  BY <1>1, KinksOfOne
<1>3. ASSUME NEW x \in Int PROVE pay(x) = e - Intrinsic("put", K, x)
  <2>1. pay(x) = Worth(a, x) + CashIn(p) + Shares(p, paid, x)
    BY <1>1, PayoffOfOne
  <2>2. Worth(a, x) = -Intrinsic("put", K, x)
    BY DEF Worth, Option
  <2>3. CashIn(p) = e /\ Shares(p, paid, x) = 0
    BY DEF CashIn, Shares, ShortOnlyStrategies
  <2>4. Intrinsic("put", K, x) \in Int
    BY <1>1 DEF Intrinsic, MaxOf
  <2> HIDE DEF pay, K
  <2> QED BY <2>1, <2>2, <2>3, <2>4
<1>10. p.max_loss = K - e /\ p.breakeven = K - e
  OBVIOUS
<1>30. Whole(p)
  <2>1. DOMAIN p.legs = 1..1 /\ \A k \in 1..1 : p.legs[k].strike \in Nat \ {0}
    BY DEF Option
  <2>2. /\ p.limit_price \in Int /\ p.max_loss \in Int
        /\ p.max_profit \in MaybeInt /\ p.breakeven \in MaybeInt
    BY DEF Option, MaybeInt, AbsOf, MaxOf
  <2> QED BY <2>1, <2>2, WholeIs
<1> HIDE DEF kinks, pay, K
<1>4. \A x \in Nat : pay(x) >= -(K - e) /\ pay(x) <= e
  BY <1>1, <1>3 DEF Intrinsic, MaxOf
<1>5. pay(0) = -(K - e) /\ pay(K) = e
  BY <1>1, <1>3 DEF Intrinsic, MaxOf
<1>6. e >= 0 => pay(K - e) = 0
  BY <1>1, <1>3 DEF Intrinsic, MaxOf
<1>7. LossIsKnown(p, paid)
  BY <1>2, <1>4, <1>5, <1>10, <1>30 DEF LossIsKnown, LotLosesMaxLoss, pay, kinks
<1>8. e >= 0 => LotMakesMaxProfit(p, paid)
  BY <1>2, <1>4, <1>5, <1>6, <1>10 DEF LotMakesMaxProfit, pay, kinks
<1> QED BY <1>7, <1>8

(* A bought call and a bought put lose both prices between their strikes.   *)
LEMMA StrangleEnds ==
  ASSUME NEW p, NEW a, NEW b, NEW paid \in Nat \ {0}, NEW e \in Nat \ {0},
         p.legs = <<a, b>>, Option(a, "buy", "call"), Option(b, "buy", "put"),
         a.strike > b.strike, p.strategy = "long_strangle",
         p.limit_price = e, p.max_loss = e, p.max_profit = None, p.breakeven = None
  PROVE  LossIsKnown(p, paid) /\ LotMakesMaxProfit(p, paid)
<1> DEFINE kinks == Kinks(p, paid)
           K == a.strike
           S == b.strike
           pay(x) == LotPayoff(p, paid, x)
<1>1. K \in Nat \ {0} /\ S \in Nat \ {0} /\ S < K
  BY DEF Option
<1>2. kinks \subseteq Nat /\ K \in kinks
  BY <1>1, KinksOfTwo
<1>3. ASSUME NEW x \in Int
      PROVE pay(x) = Intrinsic("call", K, x) + Intrinsic("put", S, x) - e
  <2>1. pay(x) = Worth(a, x) + Worth(b, x) + CashIn(p) + Shares(p, paid, x)
    BY <1>1, PayoffOfTwo
  <2>2. Worth(a, x) = Intrinsic("call", K, x) /\ Worth(b, x) = Intrinsic("put", S, x)
    BY DEF Worth, Option
  <2>3. CashIn(p) = -e /\ Shares(p, paid, x) = 0
    BY DEF CashIn, Shares, ShortOnlyStrategies
  <2>4. Intrinsic("call", K, x) \in Int /\ Intrinsic("put", S, x) \in Int
    BY <1>1 DEF Intrinsic, MaxOf
  <2> HIDE DEF pay, K, S
  <2> QED BY <2>1, <2>2, <2>3, <2>4
<1>30. Whole(p)
  <2>1. DOMAIN p.legs = 1..2 /\ \A k \in 1..2 : p.legs[k].strike \in Nat \ {0}
    BY DEF Option
  <2>2. /\ p.limit_price \in Int /\ p.max_loss \in Int
        /\ p.max_profit \in MaybeInt /\ p.breakeven \in MaybeInt
    BY DEF Option, MaybeInt, AbsOf, MaxOf
  <2> QED BY <2>1, <2>2, WholeIs
<1> HIDE DEF kinks, pay, K, S
<1>4. pay(K) = -e /\ \A x \in Nat : pay(x) >= -e
  BY <1>1, <1>3 DEF Intrinsic, MaxOf
<1>7. LossIsKnown(p, paid)
  BY <1>2, <1>4, <1>30 DEF LossIsKnown, LotLosesMaxLoss, pay, kinks
<1> QED BY <1>7 DEF LotMakesMaxProfit

(* A credit vertical: sold nearer the money than bought.                     *)
LEMMA CreditEnds ==
  ASSUME NEW p, NEW a, NEW b, NEW paid \in Nat \ {0}, NEW c \in Nat \ {0},
         p.legs = <<a, b>>, NEW type \in {"call", "put"},
         Option(a, "sell", type), Option(b, "buy", type),
         IF type = "call" THEN b.strike > a.strike ELSE b.strike < a.strike,
         NEW width, width = AbsOf(a.strike - b.strike), c < width,
         p.strategy = IF type = "call" THEN "call_credit_spread" ELSE "put_credit_spread",
         p.limit_price = -c, p.max_loss = width - c, p.max_profit = c,
         p.breakeven = IF type = "call" THEN a.strike + c ELSE a.strike - c
  PROVE  LossIsKnown(p, paid) /\ LotMakesMaxProfit(p, paid)
<1> DEFINE kinks == Kinks(p, paid)
           top == 2 * Largest(Strikes(p.legs))
           K == a.strike
           S == b.strike
           pay(x) == LotPayoff(p, paid, x)
<1>1. /\ K \in Nat \ {0} /\ S \in Nat \ {0} /\ width = AbsOf(K - S) /\ c < width
      /\ IF type = "call" THEN S > K ELSE S < K
  BY DEF Option
<1>2. kinks \subseteq Nat /\ {0, top, K, S} \subseteq kinks /\ top >= 2 * K /\ top >= 2 * S
  BY <1>1, KinksOfTwo
<1>3. ASSUME NEW x \in Int PROVE pay(x) = Intrinsic(type, S, x) - Intrinsic(type, K, x) + c
  <2>1. pay(x) = Worth(a, x) + Worth(b, x) + CashIn(p) + Shares(p, paid, x)
    BY <1>1, PayoffOfTwo
  <2>2. Worth(b, x) = Intrinsic(type, S, x) /\ Worth(a, x) = -Intrinsic(type, K, x)
    BY DEF Worth, Option
  <2>3. CashIn(p) = c /\ Shares(p, paid, x) = 0
    BY DEF CashIn, Shares, ShortOnlyStrategies
  <2>4. Intrinsic(type, K, x) \in Int /\ Intrinsic(type, S, x) \in Int
    BY <1>1 DEF Intrinsic, MaxOf
  <2> HIDE DEF pay, K, S
  <2> QED BY <2>1, <2>2, <2>3, <2>4
<1> DEFINE even == p.breakeven
<1>11. even = IF type = "call" THEN K + c ELSE K - c
  OBVIOUS
<1>30. Whole(p)
  <2>1. DOMAIN p.legs = 1..2 /\ \A k \in 1..2 : p.legs[k].strike \in Nat \ {0}
    BY DEF Option
  <2>2. /\ p.limit_price \in Int /\ p.max_loss \in Int
        /\ p.max_profit \in MaybeInt /\ p.breakeven \in MaybeInt
    BY DEF Option, MaybeInt, AbsOf, MaxOf
  <2> QED BY <2>1, <2>2, WholeIs
<1> HIDE DEF kinks, top, pay, K, S, even
<1>12. width = (IF type = "call" THEN S - K ELSE K - S) /\ width \in Int
  BY <1>1 DEF AbsOf
<1>13. ASSUME NEW x \in Int
       PROVE  /\ Intrinsic("call", S, x) = (IF x >= S THEN x - S ELSE 0)
              /\ Intrinsic("call", K, x) = (IF x >= K THEN x - K ELSE 0)
              /\ Intrinsic("put", S, x) = (IF S >= x THEN S - x ELSE 0)
              /\ Intrinsic("put", K, x) = (IF K >= x THEN K - x ELSE 0)
  BY <1>1 DEF Intrinsic, MaxOf
<1> DEFINE worst == IF type = "call" THEN top ELSE 0
<1>4. \A x \in Nat : pay(x) >= -(width - c) /\ pay(x) <= c
  <2> SUFFICES ASSUME NEW x \in Nat PROVE pay(x) >= -(width - c) /\ pay(x) <= c
    OBVIOUS
  <2> DEFINE up == Intrinsic(type, S, x)
             down == Intrinsic(type, K, x)
  <2>1. /\ up \in Int /\ down \in Int /\ up <= down
        /\ down - up <= width
    <3>1. CASE type = "call"
      BY <1>1, <1>12, <1>13, <3>1
    <3>2. CASE type = "put"
      BY <1>1, <1>12, <1>13, <3>2
    <3> QED BY <3>1, <3>2
  <2>2. pay(x) = up - down + c
    BY <1>3
  <2> HIDE DEF up, down
  <2> QED BY <1>12, <2>1, <2>2
<1>5. worst \in kinks /\ pay(worst) = -(width - c) /\ pay(K) = c
  <2>1. top \in Int /\ 0 \in Int /\ K \in Int
    <3>1. top \in Nat
      BY <1>2
    <3> QED BY <1>1, <3>1
  <2>2. CASE type = "call"
    <3>1. Intrinsic(type, K, K) = 0 /\ Intrinsic(type, S, K) = 0
      BY <1>1, <1>13, <2>1, <2>2
    <3>2. Intrinsic(type, K, top) = top - K /\ Intrinsic(type, S, top) = top - S
      BY <1>1, <1>2, <1>13, <2>1, <2>2
    <3>3. pay(K) = c /\ pay(top) = -(width - c)
      BY <1>1, <1>3, <1>12, <2>1, <2>2, <3>1, <3>2
    <3> QED BY <1>2, <2>2, <3>3
  <2>3. CASE type = "put"
    <3>1. Intrinsic(type, K, K) = 0 /\ Intrinsic(type, S, K) = 0
      BY <1>1, <1>13, <2>1, <2>3
    <3>2. Intrinsic(type, K, 0) = K /\ Intrinsic(type, S, 0) = S
      BY <1>1, <1>2, <1>13, <2>1, <2>3
    <3>3. pay(K) = c /\ pay(0) = -(width - c)
      BY <1>1, <1>3, <1>12, <2>1, <2>3, <3>1, <3>2
    <3> QED BY <1>2, <2>3, <3>3
  <2> QED BY <2>2, <2>3
<1> HIDE DEF worst
<1>6. even \in Int /\ pay(even) = 0
  BY <1>1, <1>3, <1>11 DEF Intrinsic, MaxOf, AbsOf
<1>7. LossIsKnown(p, paid)
  BY <1>2, <1>4, <1>5, <1>30 DEF LossIsKnown, LotLosesMaxLoss, pay, kinks
<1>8. LotMakesMaxProfit(p, paid)
  BY <1>2, <1>4, <1>5, <1>6 DEF LotMakesMaxProfit, pay, kinks, even
<1> QED BY <1>7, <1>8

(* A put and a call vertical that do not cross: only one can end badly.       *)
LEMMA IronEnds ==
  ASSUME NEW p, NEW a, NEW b, NEW d, NEW g, NEW paid \in Nat \ {0}, NEW c \in Nat \ {0},
         p.legs = <<a, b, d, g>>,
         Option(a, "sell", "put"), Option(b, "buy", "put"),
         Option(d, "sell", "call"), Option(g, "buy", "call"),
         b.strike < a.strike, a.strike <= d.strike, d.strike < g.strike,
         NEW width, width = MaxOf(a.strike - b.strike, g.strike - d.strike),
         p.strategy \in {"iron_condor", "iron_butterfly"},
         p.limit_price = -c, p.max_loss = width - c, p.max_profit = c, p.breakeven = None
  PROVE  LossIsKnown(p, paid) /\ LotMakesMaxProfit(p, paid)
<1> DEFINE kinks == Kinks(p, paid)
           top == 2 * Largest(Strikes(p.legs))
           A == a.strike
           B == b.strike
           D == d.strike
           G == g.strike
           pay(x) == LotPayoff(p, paid, x)
<1>1. /\ A \in Nat \ {0} /\ B \in Nat \ {0} /\ D \in Nat \ {0} /\ G \in Nat \ {0}
      /\ B < A /\ A <= D /\ D < G /\ width = MaxOf(A - B, G - D)
  BY DEF Option
<1>2. kinks \subseteq Nat /\ {0, top, A} \subseteq kinks /\ top >= 2 * A /\ top >= 2 * G
  BY <1>1, KinksOfFour
<1>3. ASSUME NEW x \in Int
      PROVE pay(x) = Intrinsic("put", B, x) - Intrinsic("put", A, x)
                       + Intrinsic("call", G, x) - Intrinsic("call", D, x) + c
  <2>1. pay(x) = Worth(a, x) + Worth(b, x) + Worth(d, x) + Worth(g, x)
                   + CashIn(p) + Shares(p, paid, x)
    BY <1>1, PayoffOfFour
  <2>2. /\ Worth(a, x) = -Intrinsic("put", A, x) /\ Worth(b, x) = Intrinsic("put", B, x)
        /\ Worth(d, x) = -Intrinsic("call", D, x) /\ Worth(g, x) = Intrinsic("call", G, x)
    BY DEF Worth, Option
  <2>3. CashIn(p) = c /\ Shares(p, paid, x) = 0
    BY DEF CashIn, Shares, ShortOnlyStrategies
  <2>4. /\ Intrinsic("put", A, x) \in Int /\ Intrinsic("put", B, x) \in Int
        /\ Intrinsic("call", D, x) \in Int /\ Intrinsic("call", G, x) \in Int
    BY <1>1 DEF Intrinsic, MaxOf
  <2> HIDE DEF pay, A, B, D, G
  <2> QED BY <2>1, <2>2, <2>3, <2>4
<1>30. Whole(p)
  <2>1. DOMAIN p.legs = 1..4 /\ \A k \in 1..4 : p.legs[k].strike \in Nat \ {0}
    BY DEF Option
  <2>2. width \in Int
    BY <1>1 DEF MaxOf
  <2>3. /\ p.limit_price \in Int /\ p.max_loss \in Int
        /\ p.max_profit \in MaybeInt /\ p.breakeven \in MaybeInt
    BY <2>2 DEF MaybeInt
  <2> QED BY <2>1, <2>3, WholeIs
<1> HIDE DEF kinks, top, pay, A, B, D, G
<1>4. \A x \in Nat : pay(x) >= -(width - c) /\ pay(x) <= c
  BY <1>1, <1>3 DEF Intrinsic, MaxOf
<1> DEFINE worst == IF A - B >= G - D THEN 0 ELSE top
<1>5. worst \in kinks /\ pay(worst) = -(width - c)
  <2>1. top \in Nat
    BY <1>2
  <2>2. CASE A - B >= G - D
    <3>1. pay(0) = -(width - c)
      BY <1>1, <1>3, <2>2 DEF Intrinsic, MaxOf
    <3> QED BY <1>2, <2>2, <3>1
  <2>3. CASE ~(A - B >= G - D)
    <3>1. /\ Intrinsic("put", A, top) = 0 /\ Intrinsic("put", B, top) = 0
          /\ Intrinsic("call", G, top) = top - G /\ Intrinsic("call", D, top) = top - D
      BY <1>1, <1>2, <2>1 DEF Intrinsic, MaxOf
    <3>2. width = G - D
      BY <1>1, <2>3 DEF MaxOf
    <3>3. pay(top) = -(width - c)
      BY <1>1, <1>3, <2>1, <3>1, <3>2
    <3> QED BY <1>2, <2>3, <3>3
  <2> QED BY <2>2, <2>3
<1> HIDE DEF worst
<1>6. pay(A) = c
  BY <1>1, <1>3 DEF Intrinsic, MaxOf
<1>7. LossIsKnown(p, paid)
  BY <1>2, <1>4, <1>5, <1>30 DEF LossIsKnown, LotLosesMaxLoss, pay, kinks
<1>8. LotMakesMaxProfit(p, paid)
  BY <1>2, <1>4, <1>6 DEF LotMakesMaxProfit, pay, kinks
<1> QED BY <1>7, <1>8

------------------------------------------------------------------------------
(* Prices.  A nudge of less than half the spread stays inside it.             *)

(* The two sides between which a limit must lie.                            *)
MidCost(p) == Total(Each(p.legs, LAMBDA l : Cost(l, Mid(l), Mid(l))))
(* At the far side of every quote.                                          *)
FarCost(p) == Total(Each(p.legs, LAMBDA l : Cost(l, l.ask, l.bid)))

(* The costs of one, two and four legs, leg by leg.                         *)
LEMMA CostsOfOne ==
  ASSUME NEW p, NEW a, p.legs = <<a>>, IsQuote(a), Quoted(a)
  PROVE  /\ MidCost(p) = Cost(a, Mid(a), Mid(a))
         /\ FarCost(p) = Cost(a, a.ask, a.bid)
<1> DEFINE f == Each(p.legs, LAMBDA l : Cost(l, Mid(l), Mid(l)))
           g == Each(p.legs, LAMBDA l : Cost(l, l.ask, l.bid))
           u == Cost(a, Mid(a), Mid(a))
           v == Cost(a, a.ask, a.bid)
<1>1. f = <<u>> /\ g = <<v>>
  BY DEF Each
<1>2. u \in Int /\ v \in Int
  BY QuotedIs DEF Cost
<1> HIDE DEF f, g, u, v
<1>3. Total(f) = u /\ Total(g) = v
  BY <1>1, <1>2, TotalOfOne
<1> QED BY <1>3 DEF f, g, u, v, MidCost, FarCost

(* Of two legs.                                                             *)
LEMMA CostsOfTwo ==
  ASSUME NEW p, NEW a, NEW b, p.legs = <<a, b>>,
         IsQuote(a), Quoted(a), IsQuote(b), Quoted(b)
  PROVE  /\ MidCost(p)
              = Cost(a, Mid(a), Mid(a)) + Cost(b, Mid(b), Mid(b))
         /\ FarCost(p)
              = Cost(a, a.ask, a.bid) + Cost(b, b.ask, b.bid)
<1> DEFINE f == Each(p.legs, LAMBDA l : Cost(l, Mid(l), Mid(l)))
           g == Each(p.legs, LAMBDA l : Cost(l, l.ask, l.bid))
           u == Cost(a, Mid(a), Mid(a))
           v == Cost(a, a.ask, a.bid)
           y == Cost(b, Mid(b), Mid(b))
           z == Cost(b, b.ask, b.bid)
<1>1. f = <<u, y>> /\ g = <<v, z>>
  BY DEF Each
<1>2. u \in Int /\ v \in Int /\ y \in Int /\ z \in Int
  BY QuotedIs DEF Cost
<1> HIDE DEF f, g, u, v, y, z
<1>3. Total(f) = u + y /\ Total(g) = v + z
  BY <1>1, <1>2, TotalOfTwo
<1> QED BY <1>3 DEF f, g, u, v, y, z, MidCost, FarCost

(* Of four.                                                                 *)
LEMMA CostsOfFour ==
  ASSUME NEW p, NEW a, NEW b, NEW c, NEW d, p.legs = <<a, b, c, d>>,
         IsQuote(a), Quoted(a), IsQuote(b), Quoted(b),
         IsQuote(c), Quoted(c), IsQuote(d), Quoted(d)
  PROVE  /\ MidCost(p)
              = Cost(a, Mid(a), Mid(a)) + Cost(b, Mid(b), Mid(b))
                  + Cost(c, Mid(c), Mid(c)) + Cost(d, Mid(d), Mid(d))
         /\ FarCost(p)
              = Cost(a, a.ask, a.bid) + Cost(b, b.ask, b.bid)
                  + Cost(c, c.ask, c.bid) + Cost(d, d.ask, d.bid)
<1> DEFINE f == Each(p.legs, LAMBDA l : Cost(l, Mid(l), Mid(l)))
           g == Each(p.legs, LAMBDA l : Cost(l, l.ask, l.bid))
           M(l) == Cost(l, Mid(l), Mid(l))
           F(l) == Cost(l, l.ask, l.bid)
<1>1. f = <<M(a), M(b), M(c), M(d)>> /\ g = <<F(a), F(b), F(c), F(d)>>
  BY DEF Each
<1>2. /\ M(a) \in Int /\ M(b) \in Int /\ M(c) \in Int /\ M(d) \in Int
      /\ F(a) \in Int /\ F(b) \in Int /\ F(c) \in Int /\ F(d) \in Int
  BY QuotedIs DEF Cost
<1> HIDE DEF f, g, M, F
<1>3. Total(f) = M(a) + M(b) + M(c) + M(d) /\ Total(g) = F(a) + F(b) + F(c) + F(d)
  BY <1>1, <1>2, TotalOfFour
<1> QED BY <1>3 DEF f, g, M, F, MidCost, FarCost

(* Of a total spread, less than half.                                         *)
LEMMA NudgeIs ==
  ASSUME NEW nudge \in 0..100, NEW total \in Int
  PROVE  /\ (nudge * total) \div 100 \in Int
         /\ nudge <= 50 /\ total >= 0 => 2 * ((nudge * total) \div 100) <= total
         /\ nudge < 50 /\ total > 0 => 2 * ((nudge * total) \div 100) < total
         /\ total >= 0 => (nudge * total) \div 100 >= 0
         /\ total < 0 => (nudge * total) \div 100 <= 0
<1> DEFINE m == nudge * total
           q == m \div 100
<1>1. m \in Int
  OBVIOUS
<1>2. /\ nudge <= 50 /\ total >= 0 => 2 * m <= 100 * total
      /\ nudge < 50 /\ total > 0 => 2 * m < 100 * total
      /\ total >= 0 => m >= 0
      /\ total < 0 => m <= 0
  <2>1. ASSUME total >= 0 PROVE m >= 0 /\ (nudge <= 50 => m <= 50 * total)
    <3>1. (50 - nudge) * total = 50 * total - m
      OBVIOUS
    <3>2. nudge <= 50 => (50 - nudge) * total >= 0
      BY <2>1
    <3>3. m >= 0
      BY <2>1
    <3> QED BY <3>1, <3>2, <3>3
  <2>2. ASSUME total > 0, nudge < 50 PROVE m < 50 * total
    <3>1. (50 - nudge) * total = 50 * total - m
      OBVIOUS
    <3>2. (50 - nudge) * total > 0
      BY <2>2
    <3> QED BY <3>1, <3>2
  <2>3. ASSUME total < 0 PROVE m <= 0
    BY <2>3
  <2> HIDE DEF m
  <2> QED BY <1>1, <2>1, <2>2, <2>3
<1> HIDE DEF m
<1>3. q \in Int /\ 100 * q <= m /\ m < 100 * q + 100
  BY <1>1, DivBounds
<1> HIDE DEF q
<1>4. /\ q \in Int
      /\ nudge <= 50 /\ total >= 0 => 2 * q <= total
      /\ nudge < 50 /\ total > 0 => 2 * q < total
      /\ total >= 0 => q >= 0
      /\ total < 0 => q <= 0
  BY <1>1, <1>2, <1>3
<1> QED BY <1>4 DEF q, m

------------------------------------------------------------------------------
(* Limits.  What the nudge adds, against what crossing the spread costs.    *)

(* What crossing the spread of a leg costs over its middle: half of it, less  *)
(* a cent that rounding the middle down takes from a sold leg.                *)
LEMMA HalfTheSpread ==
  ASSUME NEW l, IsQuote(l), Quoted(l), l.bid <= l.ask, l.side \in {"buy", "sell"}
  PROVE  LET more == Cost(l, l.ask, l.bid) - Cost(l, Mid(l), Mid(l))
         IN /\ more \in Nat /\ Spread(l) \in Nat
            /\ Cost(l, Mid(l), Mid(l)) \in Int /\ Cost(l, l.ask, l.bid) \in Int
            /\ l.side = "buy" => 2 * more >= Spread(l)
            /\ l.side = "sell" => 2 * more >= Spread(l) - 1
<1>1. /\ l.bid \in Nat /\ l.ask \in Nat /\ Mid(l) \in Nat
      /\ 2 * Mid(l) <= l.bid + l.ask /\ l.bid + l.ask <= 2 * Mid(l) + 1
  BY QuotedIs
<1> DEFINE m == Mid(l)
<1>2. m \in Nat /\ 2 * m <= l.bid + l.ask /\ l.bid + l.ask <= 2 * m + 1
  BY <1>1
<1> HIDE DEF m
<1>3. CASE l.side = "buy"
  <2>1. Cost(l, l.ask, l.bid) = l.ask /\ Cost(l, m, m) = m
    BY <1>3 DEF Cost
  <2> QED BY <1>1, <1>2, <1>3, <2>1 DEF m, Spread
<1>4. CASE l.side = "sell"
  <2>1. Cost(l, l.ask, l.bid) = -l.bid /\ Cost(l, m, m) = -m
    BY <1>4 DEF Cost
  <2>2. l.side # "buy"
    BY <1>4
  <2> QED BY <1>1, <1>2, <1>4, <2>1, <2>2 DEF m, Spread
<1> QED BY <1>3, <1>4

(* A leg with a market that is not crossed.                                 *)
IsPriced(l) ==
  IsQuote(l) /\ Quoted(l) /\ l.bid <= l.ask /\ l.side \in {"buy", "sell"}

(* What the limit adds to the middle of the market: less than half.           *)
Small(q, total) ==
  /\ q \in Int /\ q >= 0
  /\ 2 * q <= total
  /\ total > 0 => 2 * q < total

(* A limit that adds less than half of the spreads stays inside the market: *)
(* one leg, two, and four of which two are bought.                          *)
LEMMA InsideOne ==
  ASSUME NEW p, NEW a, p.legs = <<a>>, IsPriced(a), NEW q, Small(q, Spread(a)),
         -CashIn(p) = Cost(a, Mid(a), Mid(a)) + q
  PROVE  PricedInside(p)
<1> DEFINE mid == Cost(a, Mid(a), Mid(a))
           far == Cost(a, a.ask, a.bid)
           wide == Spread(a)
<1>1. /\ mid \in Int /\ far \in Int /\ far - mid >= 0 /\ wide \in Nat
      /\ 2 * (far - mid) >= wide - 1
  BY HalfTheSpread DEF IsPriced
<1>2. /\ MidCost(p) = mid
      /\ FarCost(p) = far
  BY CostsOfOne DEF IsPriced
<1> HIDE DEF mid, far, wide
<1>3. q \in Int /\ q >= 0 /\ 2 * q <= wide /\ (wide > 0 => 2 * q < wide)
  BY DEF Small, wide
<1>4. mid <= mid + q /\ mid + q <= far
  BY <1>1, <1>3
<1> QED BY <1>2, <1>4 DEF PricedInside, MidCost, FarCost, mid

(* Of two legs.                                                             *)
LEMMA InsideTwo ==
  ASSUME NEW p, NEW a, NEW b, p.legs = <<a, b>>, IsPriced(a), IsPriced(b),
         NEW q, Small(q, Spread(a) + Spread(b)),
         -CashIn(p) = Cost(a, Mid(a), Mid(a)) + Cost(b, Mid(b), Mid(b)) + q
  PROVE  PricedInside(p)
<1> DEFINE mid(l) == Cost(l, Mid(l), Mid(l))
           far(l) == Cost(l, l.ask, l.bid)
           wide(l) == Spread(l)
<1>1. \A l \in {a, b} : /\ mid(l) \in Int /\ far(l) \in Int /\ far(l) - mid(l) >= 0
                        /\ wide(l) \in Nat /\ 2 * (far(l) - mid(l)) >= wide(l) - 1
  BY HalfTheSpread DEF IsPriced
<1>2. /\ MidCost(p) = mid(a) + mid(b)
      /\ FarCost(p) = far(a) + far(b)
  BY CostsOfTwo DEF IsPriced
<1>5. -CashIn(p) = mid(a) + mid(b) + q
  OBVIOUS
<1>3. /\ q \in Int /\ q >= 0 /\ 2 * q <= wide(a) + wide(b)
      /\ (wide(a) + wide(b) > 0 => 2 * q < wide(a) + wide(b))
  BY DEF Small
<1> HIDE DEF mid, far, wide
<1>4. mid(a) + mid(b) <= mid(a) + mid(b) + q /\ mid(a) + mid(b) + q <= far(a) + far(b)
  BY <1>1, <1>3
<1> QED BY <1>2, <1>4, <1>5 DEF PricedInside, MidCost, FarCost, mid, far

(* Of four, the wings being bought.                                         *)
LEMMA InsideFour ==
  ASSUME NEW p, NEW a, NEW b, NEW c, NEW d, p.legs = <<a, b, c, d>>,
         IsPriced(a), IsPriced(b), IsPriced(c), IsPriced(d),
         b.side = "buy", d.side = "buy",
         NEW q, Small(q, Spread(a) + Spread(b) + Spread(c) + Spread(d)),
         -CashIn(p) = Cost(a, Mid(a), Mid(a)) + Cost(b, Mid(b), Mid(b))
                        + Cost(c, Mid(c), Mid(c)) + Cost(d, Mid(d), Mid(d)) + q
  PROVE  PricedInside(p)
<1> DEFINE mid(l) == Cost(l, Mid(l), Mid(l))
           far(l) == Cost(l, l.ask, l.bid)
           wide(l) == Spread(l)
<1>1. \A l \in {a, b, c, d} :
        /\ mid(l) \in Int /\ far(l) \in Int /\ far(l) - mid(l) >= 0
        /\ wide(l) \in Nat /\ 2 * (far(l) - mid(l)) >= wide(l) - 1
        /\ l.side = "buy" => 2 * (far(l) - mid(l)) >= wide(l)
  BY HalfTheSpread DEF IsPriced
<1>2. /\ MidCost(p) = mid(a) + mid(b) + mid(c) + mid(d)
      /\ FarCost(p) = far(a) + far(b) + far(c) + far(d)
  <2>1. /\ IsQuote(a) /\ Quoted(a) /\ IsQuote(b) /\ Quoted(b)
        /\ IsQuote(c) /\ Quoted(c) /\ IsQuote(d) /\ Quoted(d)
    BY DEF IsPriced
  <2> QED BY <2>1, CostsOfFour
<1>5. -CashIn(p) = mid(a) + mid(b) + mid(c) + mid(d) + q
  OBVIOUS
<1>3. /\ q \in Int /\ q >= 0 /\ 2 * q <= wide(a) + wide(b) + wide(c) + wide(d)
      /\ (wide(a) + wide(b) + wide(c) + wide(d) > 0
            => 2 * q < wide(a) + wide(b) + wide(c) + wide(d))
  BY DEF Small
<1>6. b.side = "buy" /\ d.side = "buy"
  OBVIOUS
<1> HIDE DEF mid, far, wide
<1> DEFINE mids == mid(a) + mid(b) + mid(c) + mid(d)
           fars == far(a) + far(b) + far(c) + far(d)
           total == wide(a) + wide(b) + wide(c) + wide(d)
<1>7. /\ mids \in Int /\ fars \in Int /\ total \in Nat /\ fars - mids >= 0
      /\ 2 * (fars - mids) >= total - 2
  BY <1>1, <1>6
<1>8. q \in Int /\ q >= 0 /\ 2 * q <= total /\ (total > 0 => 2 * q < total)
  BY <1>3
<1> HIDE DEF mids, fars, total
<1>4. mids <= mids + q /\ mids + q <= fars
  BY <1>7, <1>8
<1> QED BY <1>2, <1>4, <1>5 DEF PricedInside, MidCost, FarCost, mids, fars, mid, far

(* The nudge is such an addition while it is under half.                    *)
LEMMA SmallNudge ==
  ASSUME NEW nudge \in 0..100, nudge < 50, NEW total \in Nat
  PROVE  Small((nudge * total) \div 100, total)
BY NudgeIs DEF Small

------------------------------------------------------------------------------
(* The nudge of one, two and four legs is of the sum of their spreads.      *)
LEMMA NudgedOfOne ==
  ASSUME NEW a, Spread(a) \in Int, NEW settings
  PROVE  Nudged(<<a>>, settings)
           = (settings.limit_price_spread_nudge_pct * Spread(a)) \div 100
<1> DEFINE f == Each(<<a>>, Spread)
           u == Spread(a)
<1>1. f = <<u>>
  BY DEF Each
<1>2. u \in Int
  OBVIOUS
<1>3. Nudged(<<a>>, settings) = (settings.limit_price_spread_nudge_pct * Total(f)) \div 100
  BY DEF Nudged
<1> HIDE DEF f, u
<1> QED BY <1>1, <1>2, <1>3, TotalOfOne DEF u

(* Of two contracts.                                                        *)
LEMMA NudgedOfTwo ==
  ASSUME NEW a, NEW b, Spread(a) \in Int, Spread(b) \in Int, NEW settings
  PROVE  Nudged(<<a, b>>, settings)
           = (settings.limit_price_spread_nudge_pct * (Spread(a) + Spread(b))) \div 100
<1> DEFINE f == Each(<<a, b>>, Spread)
           u == Spread(a)
           v == Spread(b)
<1>1. f = <<u, v>>
  BY DEF Each
<1>2. u \in Int /\ v \in Int
  OBVIOUS
<1>3. Nudged(<<a, b>>, settings) = (settings.limit_price_spread_nudge_pct * Total(f)) \div 100
  BY DEF Nudged
<1> HIDE DEF f, u, v
<1>4. Total(f) = u + v
  BY <1>1, <1>2, TotalOfTwo
<1> QED BY <1>3, <1>4 DEF u, v

(* Of four.                                                                 *)
LEMMA NudgedOfFour ==
  ASSUME NEW a, NEW b, NEW c, NEW d, NEW settings,
         Spread(a) \in Int, Spread(b) \in Int, Spread(c) \in Int, Spread(d) \in Int
  PROVE  Nudged(<<a, b, c, d>>, settings)
           = (settings.limit_price_spread_nudge_pct
                * (Spread(a) + Spread(b) + Spread(c) + Spread(d))) \div 100
<1> DEFINE f == Each(<<a, b, c, d>>, Spread)
           u == Spread(a)
           v == Spread(b)
           y == Spread(c)
           z == Spread(d)
<1>1. f = <<u, v, y, z>>
  BY DEF Each
<1>2. u \in Int /\ v \in Int /\ y \in Int /\ z \in Int
  OBVIOUS
<1>3. Nudged(<<a, b, c, d>>, settings)
        = (settings.limit_price_spread_nudge_pct * Total(f)) \div 100
  BY DEF Nudged
<1> HIDE DEF f, u, v, y, z
<1>4. Total(f) = u + v + y + z
  BY <1>1, <1>2, TotalOfFour
<1> QED BY <1>3, <1>4 DEF u, v, y, z

(* Sequences of contracts, written out.                                     *)
LEMMA JoinOnes ==
  ASSUME NEW a, NEW b
  PROVE  <<a>> \o <<b>> = <<a, b>>
<1> DEFINE S == {a, b}
           s1 == <<a>>
           s2 == <<b>>
           s3 == <<a, b>>
<1>1. s1 \in Seq(S) /\ s2 \in Seq(S) /\ Len(s1) = 1 /\ Len(s2) = 1
  OBVIOUS
<1>2. s3 \in Seq(S) /\ Len(s3) = 2 /\ s3[1] = a /\ s3[2] = b
  OBVIOUS
<1>3. s1[1] = a /\ s2[1] = b
  OBVIOUS
<1> HIDE DEF s1, s2, s3, S
<1>4. s1 \o s2 \in Seq(S) /\ Len(s1 \o s2) = 2
  BY <1>1
<1>5. (s1 \o s2)[1] = a /\ (s1 \o s2)[2] = b
  BY <1>1, <1>3
<1>6. \A i \in 1..2 : (s1 \o s2)[i] = s3[i]
  <2>1. \A i \in 1..2 : i = 1 \/ i = 2
    OBVIOUS
  <2> QED BY <1>2, <1>5, <2>1
<1>7. s1 \o s2 = s3
  BY <1>2, <1>4, <1>6, SeqEqual
<1> QED BY <1>7 DEF s1, s2, s3

(* And of two verticals, leg by leg.                                        *)
LEMMA JoinTwos ==
  ASSUME NEW a, NEW b, NEW c, NEW d
  PROVE  <<a, b>> \o <<c, d>> = <<a, b, c, d>>
<1> DEFINE S == {a, b, c, d}
           s1 == <<a, b>>
           s2 == <<c, d>>
           s3 == <<a, b, c, d>>
<1>1. s1 \in Seq(S) /\ s2 \in Seq(S) /\ Len(s1) = 2 /\ Len(s2) = 2
  OBVIOUS
<1>2. s3 \in Seq(S) /\ Len(s3) = 4 /\ s3[1] = a /\ s3[2] = b /\ s3[3] = c /\ s3[4] = d
  OBVIOUS
<1>3. s1[1] = a /\ s1[2] = b /\ s2[1] = c /\ s2[2] = d
  OBVIOUS
<1> HIDE DEF s1, s2, s3, S
<1>4. /\ s1 \o s2 \in Seq(S) /\ Len(s1 \o s2) = 4
      /\ \A i \in 1..4 : (s1 \o s2)[i] = IF i <= 2 THEN s1[i] ELSE s2[i - 2]
  <2>1. /\ s1 \o s2 \in Seq(S) /\ Len(s1 \o s2) = Len(s1) + Len(s2)
        /\ \A i \in 1..(Len(s1) + Len(s2)) :
             (s1 \o s2)[i] = IF i <= Len(s1) THEN s1[i] ELSE s2[i - Len(s1)]
    BY <1>1, ConcatProperties, Zenon
  <2>2. Len(s1) = 2 /\ Len(s1) + Len(s2) = 4
    BY <1>1
  <2> QED BY <2>1, <2>2
<1>5. /\ (s1 \o s2)[1] = a /\ (s1 \o s2)[2] = b
      /\ (s1 \o s2)[3] = c /\ (s1 \o s2)[4] = d
  BY <1>3, <1>4
<1>6. \A i \in 1..4 : (s1 \o s2)[i] = s3[i]
  <2>1. \A i \in 1..4 : i = 1 \/ i = 2 \/ i = 3 \/ i = 4
    OBVIOUS
  <2> QED BY <1>2, <1>5, <2>1
<1>7. s1 \o s2 = s3
  BY <1>2, <1>4, <1>6, SeqEqual
<1> QED BY <1>7 DEF s1, s2, s3

(* The net of one vertical, and of two.                                       *)
LEMMA NetOfOne ==
  ASSUME NEW v, NEW settings, Mid(v.short) \in Int, Mid(v.long) \in Int
  PROVE  /\ NetCredit(<<v>>, settings)
              = Mid(v.short) - Mid(v.long) - Nudged(<<v.short, v.long>>, settings)
         /\ WidestWing(<<v>>) = VerticalWidth(v) \/ VerticalWidth(v) \notin Int
<1> DEFINE f == Each(<<v>>, LAMBDA u : Mid(u.short) - Mid(u.long))
           net == Mid(v.short) - Mid(v.long)
           contracts == Each(<<v>>, LAMBDA u : u.short) \o Each(<<v>>, LAMBDA u : u.long)
           wide == VerticalWidth(v)
<1>1. f = <<net>>
  BY DEF Each
<1>2. contracts = <<v.short, v.long>>
  <2>1. /\ Each(<<v>>, LAMBDA u : u.short) = <<v.short>>
        /\ Each(<<v>>, LAMBDA u : u.long) = <<v.long>>
    BY DEF Each
  <2>2. <<v.short>> \o <<v.long>> = <<v.short, v.long>>
    BY JoinOnes
  <2> QED BY <2>1, <2>2
<1>3. net \in Int
  OBVIOUS
<1>4. NetCredit(<<v>>, settings) = Total(f) - Nudged(contracts, settings)
  BY DEF NetCredit
<1>5. WidestWing(<<v>>) = Largest({wide})
  <2>1. {VerticalWidth(<<v>>[n]) : n \in DOMAIN <<v>>} = {wide}
    <3>1. DOMAIN <<v>> = {1} /\ <<v>>[1] = v
      OBVIOUS
    <3> QED BY <3>1
  <2> QED BY <2>1 DEF WidestWing
<1> HIDE DEF f, net, contracts, wide
<1>6. Total(f) = net
  BY <1>1, <1>3, TotalOfOne
<1>7. wide \in Int => Largest({wide}) = wide
  <2> SUFFICES ASSUME wide \in Int PROVE Largest({wide}) = wide
    OBVIOUS
  <2>1. wide \in {wide} /\ \A m \in {wide} : m <= wide
    OBVIOUS
  <2> QED BY <2>1 DEF Largest
<1> QED BY <1>2, <1>4, <1>5, <1>6, <1>7 DEF net, wide

(* Of two verticals, the wider wing is at risk.                             *)
LEMMA NetOfTwo ==
  ASSUME NEW u, NEW v, NEW settings,
         Mid(u.short) \in Int, Mid(u.long) \in Int, Mid(v.short) \in Int, Mid(v.long) \in Int,
         VerticalWidth(u) \in Int, VerticalWidth(v) \in Int
  PROVE  /\ NetCredit(<<u, v>>, settings)
              = (Mid(u.short) - Mid(u.long) + Mid(v.short) - Mid(v.long))
                  - Nudged(<<u.short, v.short, u.long, v.long>>, settings)
         /\ WidestWing(<<u, v>>) = MaxOf(VerticalWidth(u), VerticalWidth(v))
<1> DEFINE f == Each(<<u, v>>, LAMBDA y : Mid(y.short) - Mid(y.long))
           net(y) == Mid(y.short) - Mid(y.long)
           contracts == Each(<<u, v>>, LAMBDA y : y.short) \o Each(<<u, v>>, LAMBDA y : y.long)
           wu == VerticalWidth(u)
           wv == VerticalWidth(v)
           most == MaxOf(wu, wv)
<1>1. f = <<net(u), net(v)>>
  BY DEF Each
<1>2. contracts = <<u.short, v.short, u.long, v.long>>
  <2>1. /\ Each(<<u, v>>, LAMBDA y : y.short) = <<u.short, v.short>>
        /\ Each(<<u, v>>, LAMBDA y : y.long) = <<u.long, v.long>>
    BY DEF Each
  <2>2. <<u.short, v.short>> \o <<u.long, v.long>> = <<u.short, v.short, u.long, v.long>>
    BY JoinTwos
  <2> QED BY <2>1, <2>2
<1>3. net(u) \in Int /\ net(v) \in Int
  OBVIOUS
<1>4. NetCredit(<<u, v>>, settings) = Total(f) - Nudged(contracts, settings)
  BY DEF NetCredit
<1>5. WidestWing(<<u, v>>) = Largest({wu, wv})
  <2>1. {VerticalWidth(<<u, v>>[n]) : n \in DOMAIN <<u, v>>} = {wu, wv}
    <3>1. DOMAIN <<u, v>> = {1, 2} /\ <<u, v>>[1] = u /\ <<u, v>>[2] = v
      OBVIOUS
    <3> QED BY <3>1
  <2> QED BY <2>1 DEF WidestWing
<1>8. Largest({wu, wv}) = most
  <2> HIDE DEF wu, wv
  <2>1. wu \in Int /\ wv \in Int
    BY DEF wu, wv
  <2>2. most \in {wu, wv} /\ \A m \in {wu, wv} : m <= most
    BY <2>1 DEF MaxOf
  <2>3. \A k \in {wu, wv} : (\A m \in {wu, wv} : m <= k) => k = most
    BY <2>1, <2>2
  <2> HIDE DEF most
  <2> QED BY <2>2, <2>3 DEF Largest
<1> DEFINE n1 == net(u)
           n2 == net(v)
           less == Nudged(contracts, settings)
           credit == NetCredit(<<u, v>>, settings)
<1>6. n1 + n2 = Mid(u.short) - Mid(u.long) + Mid(v.short) - Mid(v.long)
  OBVIOUS
<1>7. less = Nudged(<<u.short, v.short, u.long, v.long>>, settings)
  <2> HIDE DEF contracts
  <2> QED BY <1>2
<1>10. f = <<n1, n2>> /\ n1 \in Int /\ n2 \in Int /\ credit = Total(f) - less
  BY <1>1, <1>3, <1>4
<1> HIDE DEF f, contracts, most, less, n1, n2, credit
<1>9. WidestWing(<<u, v>>) = MaxOf(VerticalWidth(u), VerticalWidth(v))
  BY <1>5, <1>8 DEF most
<1> HIDE DEF net, wu, wv
<1>11. Total(f) = n1 + n2
  BY <1>10, TotalOfTwo
<1>12. credit = (n1 + n2) - less
  BY <1>10, <1>11
<1>13. NetCredit(<<u, v>>, settings)
         = (Mid(u.short) - Mid(u.long) + Mid(v.short) - Mid(v.long))
             - Nudged(<<u.short, v.short, u.long, v.long>>, settings)
  BY <1>6, <1>7, <1>12 DEF credit
<1> QED BY <1>9, <1>13

------------------------------------------------------------------------------
(* Size, and what a builder is given and returns.                           *)

(* What a trade is sized on, while the account's equity may be unknown.       *)
IsCapacity(st) ==
  /\ st.equity \in MaybeInt
  /\ st.equity \in Int => IsSizingState(st)
  /\ st.options_buying_power \in MaybeInt /\ st.cash \in MaybeInt

(* A size is a whole number of contracts, of something that can lose.         *)
LEMMA SizedIs ==
  ASSUME NEW settings, IsSizingSettings(settings), NEW st, IsCapacity(st),
         NEW strategy, NEW conviction \in Int, NEW loss \in Int, NEW strike,
         strategy = "cash_secured_put" => strike \in Nat \ {0},
         Sized(strategy, conviction, loss, strike, st, settings) # 0
  PROVE  /\ Sized(strategy, conviction, loss, strike, st, settings) \in Nat \ {0}
         /\ loss > 0 /\ IsSizingState(st)
<1> DEFINE n == Sized(strategy, conviction, loss, strike, st, settings)
           collateral == Collateral(strategy, loss, strike)
           put == strategy = "cash_secured_put"
           money == RiskFraction(conviction, st, settings) * st.equity
           budget == money \div (BasisPoints * loss)
           power == IF collateral = 0 THEN budget ELSE BuyingPowerCap(st, settings, collateral)
           cash == IF put THEN MaxOf(0, st.cash) \div strike ELSE budget
<1>1. /\ loss > 0 /\ collateral # None /\ (collateral # 0 => st.options_buying_power # None)
      /\ (put => st.cash # None) /\ n = MaxOf(0, MinOf(budget, MinOf(power, cash)))
      /\ st.equity # None /\ ~(st.equity <= 0)
  BY DEF Sized
<1>2. /\ st.equity \in Nat /\ Solvent(st)
      /\ settings.buying_power_utilization_cap \in Nat
  BY <1>1 DEF IsCapacity, MaybeInt, Solvent, IsSizingSettings
<1>3. budget \in Int
  <2>1. money \in Nat
    BY <1>2, RiskFractionBounds
  <2>2. BasisPoints * loss \in Nat \ {0}
    BY <1>1 DEF BasisPoints
  <2> HIDE DEF money
  <2> QED BY <2>1, <2>2, DivNat
<1>4. power \in Int
  <2>1. CASE collateral = 0
    BY <1>3, <2>1
  <2>2. CASE collateral # 0
    <3>1. collateral \in Nat \ {0}
      BY <1>1, <2>2 DEF Collateral
    <3>2. st.options_buying_power \in Int
      BY <1>1, <2>2 DEF IsCapacity, MaybeInt
    <3> HIDE DEF collateral
    <3>3. MaxOf(0, st.options_buying_power) * settings.buying_power_utilization_cap \in Nat
      BY <1>2, <3>2 DEF MaxOf
    <3> QED BY <2>2, <3>1, <3>3, DivNat DEF BuyingPowerCap
  <2> QED BY <2>1, <2>2
<1>5. cash \in Int
  <2>1. CASE put
    <3>1. st.cash \in Int /\ strike \in Nat \ {0}
      BY <1>1, <2>1 DEF IsCapacity, MaybeInt
    <3>2. MaxOf(0, st.cash) \in Nat
      BY <3>1 DEF MaxOf
    <3> QED BY <2>1, <3>1, <3>2, DivNat
  <2>2. CASE ~put
    BY <1>3, <2>2
  <2> QED BY <2>1, <2>2
<1>6. n # 0
  OBVIOUS
<1> HIDE DEF n, budget, power, cash
<1>7. n \in Nat \ {0}
  BY <1>1, <1>3, <1>4, <1>5, <1>6 DEF MaxOf, MinOf
<1> QED BY <1>1, <1>2, <1>7 DEF n, Solvent

------------------------------------------------------------------------------
(* What a builder reads of an intent.                                         *)
IsRequest(i) ==
  /\ i.target_delta \in Int /\ i.conviction \in Int
  /\ i.spread_width \in (Nat \ {0}) \union {None}
  /\ i.dte_min \in Nat /\ i.dte_max \in Nat

(* What a builder is given: an intent, an account and a spot.                 *)
Ready(i, st, x, settings) ==
  /\ IsSettings(settings) /\ IsRequest(i) /\ x \in Nat \ {0} /\ IsCapacity(st)

(* A contract the builder may pick.                                           *)
Usable(c, i, settings) ==
  /\ IsContract(c) /\ Liquid(c, settings)
  /\ i.dte_min <= c.dte /\ c.dte <= i.dte_max

(* What a leg keeps of its contract.                                          *)
IsLeg(l, side, c, i, settings) ==
  /\ Option(l, side, c.type) /\ l.strike = c.strike
  /\ IsQuote(l) /\ Liquid(l, settings) /\ Quoted(l)
  /\ l.dte \in Int /\ i.dte_min <= l.dte /\ l.dte <= i.dte_max
  /\ Mid(l) = Mid(c) /\ Spread(l) = Spread(c)

(* A leg has the strike, the quotes and the expiry of its contract.         *)
LEMMA LegIs ==
  ASSUME NEW c, NEW i, NEW settings, Usable(c, i, settings),
         NEW side \in {"buy", "sell"}, NEW x
  PROVE  IsLeg(LegOf(c, side, x), side, c, i, settings)
<1> DEFINE l == LegOf(c, side, x)
<1>1. /\ l.side = side /\ l.type = c.type /\ l.strike = c.strike /\ l.dte = c.dte
      /\ l.bid = c.bid /\ l.ask = c.ask /\ l.oi = c.oi
  BY DEF LegOf
<1> HIDE DEF l
<1>2. IsQuote(l)
  BY <1>1 DEF Usable, IsContract, IsQuote, Quoted
<1>3. Liquid(l, settings) /\ Quoted(l)
  BY <1>1 DEF Usable, Liquid, Quoted, Wide, Spread, DeepEnough
<1>4. Mid(l) = Mid(c) /\ Spread(l) = Spread(c)
  BY <1>1 DEF Mid, Spread
<1>5. IsLeg(l, side, c, i, settings)
  BY <1>1, <1>2, <1>3, <1>4 DEF IsLeg, Option, Usable, IsContract
<1> QED BY <1>5 DEF l

(* The fields of a plan that has a size.                                      *)
LEMMA PlanIs ==
  ASSUME NEW i, NEW legs, NEW limit, NEW loss, NEW profit, NEW breakeven, NEW strike,
         NEW st, NEW settings,
         Plan(i, legs, limit, loss, profit, breakeven, strike, st, settings) # Rejected
  PROVE  LET p == Plan(i, legs, limit, loss, profit, breakeven, strike, st, settings)
             qty == Sized(i.strategy, i.conviction, loss, strike, st, settings)
         IN /\ p.underlying = i.underlying /\ p.strategy = i.strategy /\ p.legs = legs
            /\ p.qty = qty /\ qty # 0 /\ p.limit_price = limit /\ p.max_loss = loss
            /\ p.max_profit = profit /\ p.breakeven = breakeven
<1> DEFINE qty == Sized(i.strategy, i.conviction, loss, strike, st, settings)
           p == Plan(i, legs, limit, loss, profit, breakeven, strike, st, settings)
<1>1. qty # 0
  BY DEF Plan
<1>2. p = [underlying |-> i.underlying, strategy |-> i.strategy, legs |-> legs,
           qty |-> qty, limit_price |-> limit, max_loss |-> loss,
           max_profit |-> profit, breakeven |-> breakeven]
  BY <1>1 DEF Plan
<1> HIDE DEF qty, p
<1>3. /\ p.underlying = i.underlying /\ p.strategy = i.strategy /\ p.legs = legs
      /\ p.qty = qty /\ p.limit_price = limit /\ p.max_loss = loss
      /\ p.max_profit = profit /\ p.breakeven = breakeven
  BY <1>2
<1> QED BY <1>1, <1>3 DEF p, qty

(* The size of a plan, and the ceilings it stays under.                       *)
Fits(p, st, settings) ==
  /\ p.max_loss \in Int /\ p.qty \in Int /\ st.equity \in Int
  /\ p.strategy # "covered_call" => st.options_buying_power # None
  /\ 100 * p.max_loss * p.qty <= settings.max_premium_pct_per_trade * st.equity
  /\ p.strategy # "covered_call" =>
       100 * p.max_loss * p.qty
         <= settings.buying_power_utilization_cap * st.options_buying_power

(* A plan with a size stays under the ceilings, but for a put whose premium *)
(* is negative.                                                             *)
LEMMA PlanFits ==
  ASSUME NEW i, NEW st, NEW x, NEW settings, Ready(i, st, x, settings),
         NEW legs, NEW limit, NEW loss \in Int, NEW profit, NEW breakeven, NEW strike,
         i.strategy = "cash_secured_put" => strike \in Nat \ {0},
         NEW p, p = Plan(i, legs, limit, loss, profit, breakeven, strike, st, settings),
         p # Rejected
  PROVE  /\ p.qty \in Nat \ {0} /\ loss > 0
         /\ (i.strategy = "cash_secured_put" /\ loss > strike) \/ Fits(p, st, settings)
<1> DEFINE qty == Sized(i.strategy, i.conviction, loss, strike, st, settings)
<1>1. p.strategy = i.strategy /\ p.qty = qty /\ qty # 0 /\ p.max_loss = loss
  BY PlanIs
<1>2. IsSizingSettings(settings) /\ i.conviction \in Int /\ IsCapacity(st)
  BY DEF Ready, IsSettings, IsRequest
<1>3. qty \in Nat \ {0} /\ loss > 0 /\ IsSizingState(st)
  BY <1>1, <1>2, SizedIs
<1>4. /\ st.options_buying_power \in MaybeInt /\ st.cash \in MaybeInt
  BY <1>2 DEF IsCapacity
<1>5. ASSUME ~(i.strategy = "cash_secured_put" /\ loss > strike)
      PROVE  /\ 100 * loss * qty <= settings.max_premium_pct_per_trade * st.equity
             /\ i.strategy # "covered_call" =>
                  100 * loss * qty <= settings.buying_power_utilization_cap * st.options_buying_power
  <2>1. i.strategy = "cash_secured_put" => strike \in Nat \ {0} /\ loss <= strike
    BY <1>5
  <2> QED BY <1>1, <1>2, <1>3, <1>4, <2>1, SizeFitsTheCeilings
<1>6. i.strategy # "covered_call" => st.options_buying_power # None
  <2> DEFINE collateral == Collateral(i.strategy, loss, strike)
  <2>1. i.strategy # "covered_call" => collateral # 0
    BY <1>3 DEF Collateral
  <2>2. collateral # 0 => st.options_buying_power # None
    BY <1>1 DEF Sized
  <2> QED BY <2>1, <2>2
<1>7. st.equity \in Int
  BY <1>3 DEF IsSizingState
<1> HIDE DEF qty
<1> QED BY <1>1, <1>3, <1>5, <1>6, <1>7 DEF Fits

------------------------------------------------------------------------------
(* Each builder refuses or returns a sound plan.                            *)

(* A leg that the risk engine must be able to trade (risk.py:194-232).      *)
Taken(l, i, settings) ==
  /\ IsQuote(l) /\ Liquid(l, settings)
  /\ l.dte \in Int /\ i.dte_min <= l.dte /\ l.dte <= i.dte_max

(* What every plan that is built is.                                          *)
Sound(p, i, st, x, settings) ==
  /\ p.qty \in Nat \ {0}
  /\ LossIsKnown(p, x)
  /\ settings.limit_price_spread_nudge_pct <= 50 => Profits(p, x) /\ Fits(p, st, settings)
  /\ settings.limit_price_spread_nudge_pct < 50 /\ QuotesNotCrossed => PricedInside(p)
  /\ DefinedRisk(p)
  /\ \A n \in DOMAIN p.legs : Taken(p.legs[n], i, settings)

(* Every leg of a usable contract is one.                                   *)
LEMMA TakenIs ==
  ASSUME NEW l, NEW side \in {"buy", "sell"}, NEW c, NEW i, NEW settings,
         IsLeg(l, side, c, i, settings)
  PROVE  /\ Taken(l, i, settings) /\ l.side = side /\ l.type = c.type
         /\ Option(l, side, c.type) /\ l.strike = c.strike
         /\ Mid(l) \in Nat \ {0} /\ Spread(l) \in Int /\ Mid(l) = Mid(c) /\ Spread(l) = Spread(c)
         /\ IsQuote(l) /\ Quoted(l)
         /\ QuotesNotCrossed => IsPriced(l) /\ Spread(l) \in Nat
<1>1. /\ IsQuote(l) /\ Quoted(l) /\ l.side = side
  BY DEF IsLeg, Option
<1>2. Mid(l) \in Nat \ {0} /\ Spread(l) \in Int /\ l.bid \in Nat /\ l.ask \in Nat
  BY <1>1, QuotedIs
<1>3. QuotesNotCrossed => IsPriced(l) /\ Spread(l) \in Nat
  BY <1>1, <1>2 DEF IsPriced, IsQuote, Spread
<1> QED BY <1>1, <1>2, <1>3 DEF IsLeg, Taken, Option

(* What the builder adds to the middle of the market.                         *)
Added(total, settings) == (settings.limit_price_spread_nudge_pct * total) \div 100

(* What is added has the sign of the spread, and is no more than half of it.*)
LEMMA AddedIs ==
  ASSUME NEW settings, IsSettings(settings), NEW total \in Int
  PROVE  /\ Added(total, settings) \in Int
         /\ settings.limit_price_spread_nudge_pct <= 50 /\ total >= 0
              => 2 * Added(total, settings) <= total
         /\ total <= 0 => Added(total, settings) <= 0
         /\ settings.limit_price_spread_nudge_pct < 50 /\ total \in Nat
              => Small(Added(total, settings), total)
<1>1. settings.limit_price_spread_nudge_pct \in 0..100
  BY DEF IsSettings, IsBuilderSettings
<1> DEFINE nudge == settings.limit_price_spread_nudge_pct
<1>2. nudge \in 0..100 /\ Added(total, settings) = (nudge * total) \div 100
  BY <1>1 DEF Added
<1>3. ASSUME nudge < 50, total \in Nat PROVE Small((nudge * total) \div 100, total)
  BY <1>2, <1>3, SmallNudge
<1>4. total = 0 => Added(total, settings) <= 0
  <2> SUFFICES ASSUME total = 0 PROVE Added(total, settings) = 0
    OBVIOUS
  <2> HIDE DEF nudge
  <2>1. nudge * total = 0
    BY <1>2
  <2> QED BY <1>2, <2>1
<1> HIDE DEF nudge
<1>5. total < 0 => (nudge * total) \div 100 <= 0
  BY <1>2, NudgeIs
<1>6. nudge <= 50 /\ total >= 0 => 2 * ((nudge * total) \div 100) <= total
  BY <1>2, NudgeIs
<1>7. (nudge * total) \div 100 \in Int
  BY <1>2, NudgeIs
<1> QED BY <1>2, <1>3, <1>4, <1>5, <1>6, <1>7 DEF nudge

(* Giving up no more than half the spread, a sold option still brings money   *)
(* in, whatever its quotes.                                                   *)
LEMMA PremiumIs ==
  ASSUME NEW settings, IsSettings(settings), settings.limit_price_spread_nudge_pct <= 50,
         NEW l, IsQuote(l), Quoted(l)
  PROVE  Mid(l) - Added(Spread(l), settings) >= 0
<1>1. /\ l.bid \in Nat \ {0} /\ l.ask \in Nat \ {0} /\ Mid(l) \in Nat \ {0}
      /\ l.bid + l.ask <= 2 * Mid(l) + 1
  BY QuotedIs
<1> DEFINE d == Spread(l)
<1>2. d \in Int /\ d = l.ask - l.bid
  BY <1>1 DEF Spread
<1> HIDE DEF d
<1> DEFINE q == Added(d, settings)
<1>3. q \in Int /\ (d >= 0 => 2 * q <= d) /\ (d <= 0 => q <= 0)
  BY <1>2, AddedIs
<1> DEFINE m == Mid(l)
<1>4. m \in Nat \ {0} /\ l.bid + l.ask <= 2 * m + 1
  BY <1>1
<1> HIDE DEF q, m
<1>5. m - q >= 0
  BY <1>1, <1>2, <1>3, <1>4
<1> QED BY <1>5 DEF q, m, d

------------------------------------------------------------------------------
(* Every sold leg has its wing, in a vertical and in an iron.                 *)
LEMMA VerticalIsCovered ==
  ASSUME NEW p, NEW a, NEW b, p.legs = <<a, b>>, p.strategy \in WingProtectedStrategies,
         a.type = b.type, NEW bought \in {1, 2}, NEW sold \in {1, 2}, bought # sold,
         p.legs[bought].side = "buy", p.legs[sold].side = "sell"
  PROVE  DefinedRisk(p)
<1>1. DOMAIN p.legs = {1, 2} /\ p.legs[1] = a /\ p.legs[2] = b
  OBVIOUS
<1>2. \A n \in {1, 2} : (p.legs[n].side = "buy" <=> n = bought)
                       /\ (p.legs[n].side = "sell" <=> n = sold)
  OBVIOUS
<1>3. Cardinality({bought}) = 1 /\ Cardinality({sold}) = 1 /\ Cardinality({}) = 0
  BY FS_Singleton, FS_EmptySet
<1>5. ASSUME NEW type \in {"call", "put"}
      PROVE  Cardinality(LegsOf(p, "buy", type)) >= Cardinality(LegsOf(p, "sell", type))
  <2>1. CASE a.type = type
    <3>1. \A n \in {1, 2} : p.legs[n].type = type
      BY <1>1, <2>1
    <3>2. LegsOf(p, "buy", type) = {bought} /\ LegsOf(p, "sell", type) = {sold}
      BY <1>1, <1>2, <3>1 DEF LegsOf
    <3>3. Cardinality(LegsOf(p, "buy", type)) = 1 /\ Cardinality(LegsOf(p, "sell", type)) = 1
      BY <1>3, <3>2
    <3> QED BY <3>3
  <2>2. CASE a.type # type
    <3>1. \A n \in {1, 2} : p.legs[n].type # type
      BY <1>1, <2>2
    <3>2. LegsOf(p, "buy", type) = {} /\ LegsOf(p, "sell", type) = {}
      BY <1>1, <3>1 DEF LegsOf
    <3>3. Cardinality(LegsOf(p, "buy", type)) = 0 /\ Cardinality(LegsOf(p, "sell", type)) = 0
      BY <1>3, <3>2
    <3> QED BY <3>3
  <2> QED BY <2>1, <2>2
<1> QED BY <1>5 DEF DefinedRisk

(* In an iron, one wing for each of the two.                                *)
LEMMA IronIsCovered ==
  ASSUME NEW p, NEW a, NEW b, NEW d, NEW g, p.legs = <<a, b, d, g>>,
         p.strategy \in WingProtectedStrategies,
         a.type = "put", b.type = "put", d.type = "call", g.type = "call",
         a.side = "sell", b.side = "buy", d.side = "sell", g.side = "buy"
  PROVE  DefinedRisk(p)
<1>1. /\ DOMAIN p.legs = {1, 2, 3, 4}
      /\ p.legs[1] = a /\ p.legs[2] = b /\ p.legs[3] = d /\ p.legs[4] = g
  OBVIOUS
<1>2. \A side, type : LegsOf(p, side, type)
         = {n \in {1, 2, 3, 4} : p.legs[n].side = side /\ p.legs[n].type = type}
  BY <1>1 DEF LegsOf
<1>3. /\ LegsOf(p, "buy", "put") = {2} /\ LegsOf(p, "sell", "put") = {1}
      /\ LegsOf(p, "buy", "call") = {4} /\ LegsOf(p, "sell", "call") = {3}
  BY <1>1, <1>2
<1>4. \A k \in {1, 2, 3, 4} : Cardinality({k}) = 1
  BY FS_Singleton
<1>5. /\ Cardinality(LegsOf(p, "buy", "put")) = 1 /\ Cardinality(LegsOf(p, "sell", "put")) = 1
      /\ Cardinality(LegsOf(p, "buy", "call")) = 1 /\ Cardinality(LegsOf(p, "sell", "call")) = 1
  BY <1>3, <1>4
<1>6. \A type \in {"call", "put"} :
        Cardinality(LegsOf(p, "buy", type)) >= Cardinality(LegsOf(p, "sell", type))
  BY <1>5
<1> QED BY <1>6 DEF DefinedRisk

------------------------------------------------------------------------------
(* The builders of one type: a single option, and a debit vertical          *)
(* (strategy_builder.py, _price and _risk_profile).                         *)
LEMMA SingleIsSound ==
  ASSUME NEW i, NEW st, NEW x, NEW settings, Ready(i, st, x, settings),
         NEW c, Usable(c, i, settings), NEW entry,
         entry = Mid(c) + Nudged(<<c>>, settings),
         NEW type \in {"call", "put"}, c.type = type,
         i.strategy = IF type = "call" THEN "long_call" ELSE "long_put",
         SinglePlan(i, c, entry, x, st, settings) # Rejected
  PROVE  Sound(SinglePlan(i, c, entry, x, st, settings), i, st, x, settings)
<1> DEFINE p == SinglePlan(i, c, entry, x, st, settings)
           a == LegOf(c, "buy", x)
           breakeven == IF type = "call" THEN c.strike + entry ELSE c.strike - entry
<1>1. p = Plan(i, <<a>>, entry, entry, None, breakeven, c.strike, st, settings) /\ p # Rejected
  BY DEF SinglePlan
<1>2. IsLeg(a, "buy", c, i, settings)
  BY LegIs
<1> HIDE DEF p, a
<1>3. /\ Taken(a, i, settings) /\ a.side = "buy" /\ Option(a, "buy", type)
      /\ a.strike = c.strike /\ Mid(a) \in Nat \ {0} /\ Spread(a) \in Int
      /\ Mid(a) = Mid(c) /\ Spread(a) = Spread(c)
      /\ QuotesNotCrossed => IsPriced(a) /\ Spread(a) \in Nat
  BY <1>2, TakenIs
<1> DEFINE q == Added(Spread(a), settings)
<1>4. Nudged(<<c>>, settings) = q
  BY <1>3, NudgedOfOne DEF Added
<1>5. /\ q \in Int
      /\ settings.limit_price_spread_nudge_pct < 50 /\ Spread(a) \in Nat => Small(q, Spread(a))
  BY <1>3, AddedIs DEF Ready
<1> HIDE DEF q
<1>6. entry \in Int /\ entry = Mid(a) + q
  BY <1>3, <1>4, <1>5
<1> HIDE DEF breakeven
<1>7. /\ p.strategy = i.strategy /\ p.legs = <<a>> /\ p.limit_price = entry /\ p.max_loss = entry
      /\ p.max_profit = None /\ p.breakeven = breakeven
  BY <1>1, PlanIs
<1>8. p.qty \in Nat \ {0} /\ entry > 0 /\ Fits(p, st, settings)
  BY <1>1, <1>6, PlanFits
<1>9. LossIsKnown(p, x) /\ LotMakesMaxProfit(p, x)
  <2>1. x \in Nat \ {0} /\ entry \in Nat \ {0}
    BY <1>6, <1>8 DEF Ready
  <2> QED BY <1>3, <1>7, <2>1, SingleEnds DEF breakeven
<1>10. ASSUME settings.limit_price_spread_nudge_pct < 50, QuotesNotCrossed
       PROVE  PricedInside(p)
  <2>1. -CashIn(p) = entry
    BY <1>6, <1>7 DEF CashIn, ShortOnlyStrategies
  <2>2. Cost(a, Mid(a), Mid(a)) = Mid(a)
    BY <1>3 DEF Cost
  <2>3. IsPriced(a) /\ Small(q, Spread(a))
    BY <1>3, <1>5, <1>10
  <2> QED BY <1>6, <1>7, <2>1, <2>2, <2>3, InsideOne
<1>11. DefinedRisk(p) /\ \A n \in DOMAIN p.legs : Taken(p.legs[n], i, settings)
  BY <1>3, <1>7 DEF DefinedRisk
<1> QED BY <1>8, <1>9, <1>10, <1>11 DEF Sound, Profits, p

(* A debit vertical pays less than its width.                               *)
LEMMA VerticalIsSound ==
  ASSUME NEW i, NEW st, NEW x, NEW settings, Ready(i, st, x, settings),
         NEW c, NEW e, Usable(c, i, settings), Usable(e, i, settings), NEW entry,
         entry = Mid(c) - Mid(e) + Nudged(<<c, e>>, settings),
         NEW type \in {"call", "put"}, c.type = type, e.type = type,
         i.strategy = IF type = "call" THEN "debit_call_spread" ELSE "debit_put_spread",
         IF type = "call" THEN e.strike > c.strike ELSE e.strike < c.strike,
         VerticalPlan(i, c, e, entry, x, st, settings) # Rejected
  PROVE  Sound(VerticalPlan(i, c, e, entry, x, st, settings), i, st, x, settings)
<1> DEFINE p == VerticalPlan(i, c, e, entry, x, st, settings)
           a == LegOf(c, "buy", x)
           b == LegOf(e, "sell", x)
           width == AbsOf(c.strike - e.strike)
           breakeven == IF type = "call" THEN c.strike + entry ELSE c.strike - entry
<1>1. /\ p = Plan(i, <<a, b>>, entry, entry, width - entry, breakeven, c.strike, st, settings)
      /\ p # Rejected /\ entry < width
  BY DEF VerticalPlan
<1>2. IsLeg(a, "buy", c, i, settings) /\ IsLeg(b, "sell", e, i, settings)
  BY LegIs
<1> HIDE DEF p, a, b
<1>3. /\ Taken(a, i, settings) /\ a.side = "buy" /\ a.type = type /\ Option(a, "buy", type)
      /\ a.strike = c.strike /\ Mid(a) \in Nat \ {0} /\ Spread(a) \in Int
      /\ Mid(a) = Mid(c) /\ Spread(a) = Spread(c)
      /\ QuotesNotCrossed => IsPriced(a) /\ Spread(a) \in Nat
  BY <1>2, TakenIs
<1>4. /\ Taken(b, i, settings) /\ b.side = "sell" /\ b.type = type /\ Option(b, "sell", type)
      /\ b.strike = e.strike /\ Mid(b) \in Nat \ {0} /\ Spread(b) \in Int
      /\ Mid(b) = Mid(e) /\ Spread(b) = Spread(e)
      /\ QuotesNotCrossed => IsPriced(b) /\ Spread(b) \in Nat
  BY <1>2, TakenIs
<1> DEFINE total == Spread(a) + Spread(b)
           q == Added(total, settings)
<1>5. total \in Int /\ Nudged(<<c, e>>, settings) = q
  BY <1>3, <1>4, NudgedOfTwo DEF Added
<1>6. /\ q \in Int
      /\ settings.limit_price_spread_nudge_pct < 50 /\ total \in Nat => Small(q, total)
  <2> HIDE DEF total
  <2> QED BY <1>5, AddedIs DEF Ready
<1> HIDE DEF q
<1>7. entry \in Int /\ entry = Mid(a) - Mid(b) + q
  BY <1>3, <1>4, <1>5, <1>6
<1> HIDE DEF breakeven, width
<1>8. /\ p.strategy = i.strategy /\ p.legs = <<a, b>> /\ p.limit_price = entry
      /\ p.max_loss = entry /\ p.max_profit = width - entry /\ p.breakeven = breakeven
  BY <1>1, PlanIs
<1>9. p.qty \in Nat \ {0} /\ entry > 0 /\ Fits(p, st, settings)
  BY <1>1, <1>7, PlanFits
<1>10. LossIsKnown(p, x) /\ LotMakesMaxProfit(p, x)
  <2>1. x \in Nat \ {0} /\ entry \in Nat \ {0}
    BY <1>7, <1>9 DEF Ready
  <2>2. width = AbsOf(a.strike - b.strike)
    BY <1>3, <1>4 DEF width
  <2>3. IF type = "call" THEN b.strike > a.strike ELSE b.strike < a.strike
    BY <1>3, <1>4
  <2>4. breakeven = IF type = "call" THEN a.strike + entry ELSE a.strike - entry
    BY <1>3 DEF breakeven
  <2> QED BY <1>1, <1>3, <1>4, <1>8, <2>1, <2>2, <2>3, <2>4, VerticalEnds
<1>11. ASSUME settings.limit_price_spread_nudge_pct < 50, QuotesNotCrossed
       PROVE  PricedInside(p)
  <2>1. -CashIn(p) = entry
    BY <1>7, <1>8 DEF CashIn, ShortOnlyStrategies
  <2>2. Cost(a, Mid(a), Mid(a)) = Mid(a) /\ Cost(b, Mid(b), Mid(b)) = -Mid(b)
    BY <1>3, <1>4 DEF Cost
  <2>3. IsPriced(a) /\ IsPriced(b) /\ Small(q, Spread(a) + Spread(b))
    BY <1>3, <1>4, <1>6, <1>11
  <2>4. -CashIn(p) = Cost(a, Mid(a), Mid(a)) + Cost(b, Mid(b), Mid(b)) + q
    BY <1>3, <1>4, <1>6, <1>7, <2>1, <2>2
  <2> QED BY <1>8, <2>3, <2>4, InsideTwo
<1>12. \A n \in DOMAIN p.legs : Taken(p.legs[n], i, settings)
  BY <1>3, <1>4, <1>8
<1>13. DefinedRisk(p)
  <2>1. p.strategy \in WingProtectedStrategies
    BY <1>8 DEF WingProtectedStrategies
  <2>2. a.type = b.type /\ p.legs = <<a, b>>
    BY <1>3, <1>4, <1>8
  <2>3. p.legs[1].side = "buy" /\ p.legs[2].side = "sell"
    BY <1>3, <1>4, <1>8
  <2>4. 1 \in {1, 2} /\ 2 \in {1, 2} /\ 1 # 2
    OBVIOUS
  <2> QED BY <2>1, <2>2, <2>3, <2>4, VerticalIsCovered
<1> QED BY <1>9, <1>10, <1>11, <1>12, <1>13 DEF Sound, Profits, p

(* A call on shares that are held, and a put against cash.                  *)
LEMMA CoveredCallIsSound ==
  ASSUME NEW i, NEW st, NEW x, NEW settings, Ready(i, st, x, settings),
         NEW c, Usable(c, i, settings), c.type = "call", NEW premium,
         premium = Mid(c) - Nudged(<<c>>, settings), i.strategy = "covered_call",
         NEW held, CoveredCallPlan(i, c, premium, x, held, st, settings) # Rejected
  PROVE  Sound(CoveredCallPlan(i, c, premium, x, held, st, settings), i, st, x, settings)
<1> DEFINE p == CoveredCallPlan(i, c, premium, x, held, st, settings)
           a == LegOf(c, "sell", x)
           loss == x - premium
           profit == MaxOf(0, c.strike - x) + premium
<1>1. p = Plan(i, <<a>>, premium, loss, profit, loss, c.strike, st, settings) /\ p # Rejected
  BY DEF CoveredCallPlan
<1>2. IsLeg(a, "sell", c, i, settings)
  BY LegIs
<1> HIDE DEF p, a
<1>3. /\ Taken(a, i, settings) /\ a.side = "sell" /\ Option(a, "sell", "call")
      /\ a.strike = c.strike /\ Mid(a) \in Nat \ {0} /\ Spread(a) \in Int
      /\ Mid(a) = Mid(c) /\ Spread(a) = Spread(c) /\ IsQuote(a) /\ Quoted(a)
      /\ QuotesNotCrossed => IsPriced(a) /\ Spread(a) \in Nat
  BY <1>2, TakenIs
<1> DEFINE q == Added(Spread(a), settings)
<1>4. Nudged(<<c>>, settings) = q
  BY <1>3, NudgedOfOne DEF Added
<1>5. /\ q \in Int
      /\ settings.limit_price_spread_nudge_pct < 50 /\ Spread(a) \in Nat => Small(q, Spread(a))
  BY <1>3, AddedIs DEF Ready
<1>6. settings.limit_price_spread_nudge_pct <= 50 => Mid(a) - q >= 0
  BY <1>3, PremiumIs DEF Ready
<1> HIDE DEF q
<1>7. /\ premium \in Int /\ premium = Mid(a) - q
      /\ settings.limit_price_spread_nudge_pct <= 50 => premium >= 0
  BY <1>3, <1>4, <1>5, <1>6
<1>8. x \in Nat \ {0} /\ loss \in Int /\ profit = MaxOf(0, a.strike - x) + premium
  BY <1>3, <1>7 DEF Ready
<1> HIDE DEF profit
<1>9. /\ p.strategy = i.strategy /\ p.legs = <<a>> /\ p.limit_price = premium /\ p.max_loss = loss
      /\ p.max_profit = profit /\ p.breakeven = loss
  BY <1>1, PlanIs
<1>10. p.qty \in Nat \ {0} /\ Fits(p, st, settings)
  BY <1>1, <1>8, PlanFits
<1>11. LossIsKnown(p, x) /\ (premium >= 0 => Profits(p, x))
  BY <1>3, <1>7, <1>8, <1>9, CoveredCallEnds
<1>12. ASSUME settings.limit_price_spread_nudge_pct < 50, QuotesNotCrossed
       PROVE  PricedInside(p)
  <2>1. -CashIn(p) = -premium
    BY <1>9 DEF CashIn, ShortOnlyStrategies
  <2>2. Cost(a, Mid(a), Mid(a)) = -Mid(a)
    BY <1>3 DEF Cost
  <2>3. IsPriced(a) /\ Small(q, Spread(a))
    BY <1>3, <1>5, <1>12
  <2>4. -CashIn(p) = Cost(a, Mid(a), Mid(a)) + q
    BY <1>3, <1>5, <1>7, <2>1, <2>2
  <2> QED BY <1>9, <2>3, <2>4, InsideOne
<1>13. DefinedRisk(p) /\ \A n \in DOMAIN p.legs : Taken(p.legs[n], i, settings)
  BY <1>3, <1>9 DEF DefinedRisk
<1> QED BY <1>7, <1>10, <1>11, <1>12, <1>13 DEF Sound, p

(* A put against cash is sized on its strike.                               *)
LEMMA CashSecuredPutIsSound ==
  ASSUME NEW i, NEW st, NEW x, NEW settings, Ready(i, st, x, settings),
         NEW c, Usable(c, i, settings), c.type = "put", NEW premium,
         premium = Mid(c) - Nudged(<<c>>, settings), i.strategy = "cash_secured_put",
         CashSecuredPutPlan(i, c, premium, x, st, settings) # Rejected
  PROVE  Sound(CashSecuredPutPlan(i, c, premium, x, st, settings), i, st, x, settings)
<1> DEFINE p == CashSecuredPutPlan(i, c, premium, x, st, settings)
           a == LegOf(c, "sell", x)
           loss == c.strike - premium
<1>1. p = Plan(i, <<a>>, premium, loss, premium, loss, c.strike, st, settings) /\ p # Rejected
  BY DEF CashSecuredPutPlan
<1>2. IsLeg(a, "sell", c, i, settings)
  BY LegIs
<1> HIDE DEF p, a
<1>3. /\ Taken(a, i, settings) /\ a.side = "sell" /\ Option(a, "sell", "put")
      /\ a.strike = c.strike /\ a.strike \in Nat \ {0}
      /\ Mid(a) \in Nat \ {0} /\ Spread(a) \in Int
      /\ Mid(a) = Mid(c) /\ Spread(a) = Spread(c) /\ IsQuote(a) /\ Quoted(a)
      /\ QuotesNotCrossed => IsPriced(a) /\ Spread(a) \in Nat
  BY <1>2, TakenIs DEF Option
<1> DEFINE q == Added(Spread(a), settings)
<1>4. Nudged(<<c>>, settings) = q
  BY <1>3, NudgedOfOne DEF Added
<1>5. /\ q \in Int
      /\ settings.limit_price_spread_nudge_pct < 50 /\ Spread(a) \in Nat => Small(q, Spread(a))
  BY <1>3, AddedIs DEF Ready
<1>6. settings.limit_price_spread_nudge_pct <= 50 => Mid(a) - q >= 0
  BY <1>3, PremiumIs DEF Ready
<1> HIDE DEF q
<1>7. /\ premium \in Int /\ premium = Mid(a) - q
      /\ settings.limit_price_spread_nudge_pct <= 50 => premium >= 0
  BY <1>3, <1>4, <1>5, <1>6
<1>8. x \in Nat \ {0} /\ loss \in Int /\ loss = a.strike - premium
  BY <1>3, <1>7 DEF Ready
<1>9. /\ p.strategy = i.strategy /\ p.legs = <<a>> /\ p.limit_price = premium /\ p.max_loss = loss
      /\ p.max_profit = premium /\ p.breakeven = loss
  BY <1>1, PlanIs
<1>10. p.qty \in Nat \ {0} /\ (premium >= 0 => Fits(p, st, settings))
  <2>1. c.strike \in Nat \ {0}
    BY <1>3
  <2>2. p.qty \in Nat \ {0} /\ (loss > c.strike \/ Fits(p, st, settings))
    BY <1>1, <1>8, <2>1, PlanFits
  <2> QED BY <1>7, <2>1, <2>2
<1>11. LossIsKnown(p, x) /\ (premium >= 0 => LotMakesMaxProfit(p, x))
  BY <1>3, <1>7, <1>8, <1>9, CashSecuredPutEnds
<1>12. ASSUME settings.limit_price_spread_nudge_pct < 50, QuotesNotCrossed
       PROVE  PricedInside(p)
  <2>1. -CashIn(p) = -premium
    BY <1>9 DEF CashIn, ShortOnlyStrategies
  <2>2. Cost(a, Mid(a), Mid(a)) = -Mid(a)
    BY <1>3 DEF Cost
  <2>3. IsPriced(a) /\ Small(q, Spread(a))
    BY <1>3, <1>5, <1>12
  <2>4. -CashIn(p) = Cost(a, Mid(a), Mid(a)) + q
    BY <1>3, <1>5, <1>7, <2>1, <2>2
  <2> QED BY <1>9, <2>3, <2>4, InsideOne
<1>13. DefinedRisk(p) /\ \A n \in DOMAIN p.legs : Taken(p.legs[n], i, settings)
  BY <1>3, <1>9 DEF DefinedRisk
<1> QED BY <1>7, <1>10, <1>11, <1>12, <1>13 DEF Sound, Profits, p

(* A strangle, from the pair that was found.                                *)
LEMMA StrangleIsSound ==
  ASSUME NEW i, NEW st, NEW x, NEW settings, Ready(i, st, x, settings),
         NEW pair, NEW cs, pair # None => IsPair(pair, cs),
         \A c : Among(c, cs) /\ Liquid(c, settings) => Usable(c, i, settings),
         i.strategy = "long_strangle",
         PricedStrangle(i, pair, x, st, settings) # Rejected
  PROVE  Sound(PricedStrangle(i, pair, x, st, settings), i, st, x, settings)
<1> DEFINE p == PricedStrangle(i, pair, x, st, settings)
           c == pair[1]
           e == pair[2]
           a == LegOf(c, "buy", x)
           b == LegOf(e, "buy", x)
           entry == Mid(c) + Mid(e) + Nudged(pair, settings)
<1>1. /\ p = Plan(i, <<a, b>>, entry, entry, None, None, None, st, settings)
      /\ p # Rejected /\ pair # None /\ Liquid(c, settings) /\ Liquid(e, settings)
  BY DEF PricedStrangle
<1>2. /\ Usable(c, i, settings) /\ Usable(e, i, settings) /\ pair = <<c, e>>
      /\ c.type = "call" /\ e.type = "put" /\ c.strike > e.strike
  BY <1>1 DEF IsPair
<1>3. IsLeg(a, "buy", c, i, settings) /\ IsLeg(b, "buy", e, i, settings)
  BY <1>2, LegIs
<1>4. entry = Mid(c) + Mid(e) + Nudged(<<c, e>>, settings)
  BY <1>2
<1> HIDE DEF p, a, b, c, e, entry
<1>5. /\ Taken(a, i, settings) /\ a.side = "buy" /\ Option(a, "buy", "call")
      /\ a.strike = c.strike /\ Mid(a) \in Nat \ {0} /\ Spread(a) \in Int
      /\ Mid(a) = Mid(c) /\ Spread(a) = Spread(c)
      /\ QuotesNotCrossed => IsPriced(a) /\ Spread(a) \in Nat
  BY <1>2, <1>3, TakenIs
<1>6. /\ Taken(b, i, settings) /\ b.side = "buy" /\ Option(b, "buy", "put")
      /\ b.strike = e.strike /\ Mid(b) \in Nat \ {0} /\ Spread(b) \in Int
      /\ Mid(b) = Mid(e) /\ Spread(b) = Spread(e)
      /\ QuotesNotCrossed => IsPriced(b) /\ Spread(b) \in Nat
  BY <1>2, <1>3, TakenIs
<1> DEFINE total == Spread(a) + Spread(b)
           q == Added(total, settings)
<1>7. total \in Int /\ Nudged(<<c, e>>, settings) = q
  BY <1>5, <1>6, NudgedOfTwo DEF Added
<1>8. /\ q \in Int
      /\ settings.limit_price_spread_nudge_pct < 50 /\ total \in Nat => Small(q, total)
  <2> HIDE DEF total
  <2> QED BY <1>7, AddedIs DEF Ready
<1> HIDE DEF q
<1>9. entry \in Int /\ entry = Mid(a) + Mid(b) + q
  BY <1>4, <1>5, <1>6, <1>7, <1>8
<1>10. /\ p.strategy = i.strategy /\ p.legs = <<a, b>> /\ p.limit_price = entry
       /\ p.max_loss = entry /\ p.max_profit = None /\ p.breakeven = None
  BY <1>1, PlanIs
<1>11. p.qty \in Nat \ {0} /\ entry > 0 /\ Fits(p, st, settings)
  BY <1>1, <1>9, PlanFits
<1>12. LossIsKnown(p, x) /\ LotMakesMaxProfit(p, x)
  <2>1. x \in Nat \ {0} /\ entry \in Nat \ {0}
    BY <1>9, <1>11 DEF Ready
  <2>2. a.strike > b.strike
    BY <1>2, <1>5, <1>6
  <2> QED BY <1>5, <1>6, <1>10, <2>1, <2>2, StrangleEnds
<1>13. ASSUME settings.limit_price_spread_nudge_pct < 50, QuotesNotCrossed
       PROVE  PricedInside(p)
  <2>1. -CashIn(p) = entry
    BY <1>9, <1>10 DEF CashIn, ShortOnlyStrategies
  <2>2. Cost(a, Mid(a), Mid(a)) = Mid(a) /\ Cost(b, Mid(b), Mid(b)) = Mid(b)
    BY <1>5, <1>6 DEF Cost
  <2>3. IsPriced(a) /\ IsPriced(b) /\ Small(q, Spread(a) + Spread(b))
    BY <1>5, <1>6, <1>8, <1>13
  <2>4. -CashIn(p) = Cost(a, Mid(a), Mid(a)) + Cost(b, Mid(b), Mid(b)) + q
    BY <1>5, <1>6, <1>8, <1>9, <2>1, <2>2
  <2> QED BY <1>10, <2>3, <2>4, InsideTwo
<1>14. DefinedRisk(p) /\ \A n \in DOMAIN p.legs : Taken(p.legs[n], i, settings)
  BY <1>5, <1>6, <1>10 DEF DefinedRisk
<1> QED BY <1>11, <1>12, <1>13, <1>14 DEF Sound, Profits, p

(* One vertical for a credit, and two (strategy_builder.py,                 *)
(* _build_credit_structure).                                                *)
LEMMA CreditSpreadIsSound ==
  ASSUME NEW i, NEW st, NEW x, NEW settings, Ready(i, st, x, settings),
         NEW vs, NEW v, vs = <<v>>, NEW cs, NEW type \in {"call", "put"},
         IsVertical(v, type, cs),
         \A c : Among(c, cs) /\ Liquid(c, settings) => Usable(c, i, settings),
         i.strategy = IF type = "call" THEN "call_credit_spread" ELSE "put_credit_spread",
         PricedCredit(i, vs, x, st, settings) # Rejected
  PROVE  Sound(PricedCredit(i, vs, x, st, settings), i, st, x, settings)
<1> DEFINE p == PricedCredit(i, vs, x, st, settings)
           c == v.short
           e == v.long
           a == LegOf(c, "sell", x)
           b == LegOf(e, "buy", x)
           credit == NetCredit(vs, settings)
           width == WidestWing(vs)
           breakeven == IF i.strategy = "put_credit_spread" THEN c.strike - credit
                        ELSE IF i.strategy = "call_credit_spread" THEN c.strike + credit ELSE None
<1>0. Len(vs) = 1 /\ vs[1] = v /\ 1 \in DOMAIN vs
  OBVIOUS
<1>1. /\ p = Plan(i, <<a, b>>, -credit, width - credit, credit, breakeven, None, st, settings)
      /\ p # Rejected /\ Liquid(c, settings) /\ Liquid(e, settings)
      /\ credit > 0 /\ credit < width
  BY <1>0 DEF PricedCredit, CreditLegs
<1>2. /\ Usable(c, i, settings) /\ Usable(e, i, settings)
      /\ c.type = type /\ e.type = type
      /\ IF type = "put" THEN e.strike < c.strike ELSE e.strike > c.strike
  BY <1>1 DEF IsVertical
<1>3. IsLeg(a, "sell", c, i, settings) /\ IsLeg(b, "buy", e, i, settings)
  BY <1>2, LegIs
<1> HIDE DEF p, a, b
<1>5. /\ Taken(a, i, settings) /\ a.side = "sell" /\ a.type = type /\ Option(a, "sell", type)
      /\ a.strike = c.strike /\ a.strike \in Nat /\ Mid(a) \in Nat \ {0} /\ Spread(a) \in Int
      /\ Mid(a) = Mid(c) /\ Spread(a) = Spread(c)
      /\ QuotesNotCrossed => IsPriced(a) /\ Spread(a) \in Nat
  BY <1>2, <1>3, TakenIs DEF Option
<1>6. /\ Taken(b, i, settings) /\ b.side = "buy" /\ b.type = type /\ Option(b, "buy", type)
      /\ b.strike = e.strike /\ b.strike \in Nat /\ Mid(b) \in Nat \ {0} /\ Spread(b) \in Int
      /\ Mid(b) = Mid(e) /\ Spread(b) = Spread(e)
      /\ QuotesNotCrossed => IsPriced(b) /\ Spread(b) \in Nat
  BY <1>2, <1>3, TakenIs DEF Option
<1> DEFINE total == Spread(a) + Spread(b)
           q == Added(total, settings)
<1>7. total \in Int /\ Nudged(<<c, e>>, settings) = q
  BY <1>5, <1>6, NudgedOfTwo DEF Added
<1>8. /\ q \in Int
      /\ settings.limit_price_spread_nudge_pct < 50 /\ total \in Nat => Small(q, total)
  <2> HIDE DEF total
  <2> QED BY <1>7, AddedIs DEF Ready
<1> HIDE DEF q
<1>9. /\ credit \in Int /\ credit = Mid(a) - Mid(b) - q
      /\ width \in Int /\ width = AbsOf(a.strike - b.strike)
  <2>1. VerticalWidth(v) = AbsOf(a.strike - b.strike)
    BY <1>5, <1>6 DEF VerticalWidth
  <2>2. VerticalWidth(v) \in Int
    BY <1>5, <1>6, <2>1 DEF AbsOf
  <2>3. Mid(v.short) \in Int /\ Mid(v.long) \in Int
    BY <1>5, <1>6
  <2>4. /\ credit = Mid(v.short) - Mid(v.long) - Nudged(<<v.short, v.long>>, settings)
        /\ width = VerticalWidth(v)
    BY <2>2, <2>3, NetOfOne
  <2> QED BY <1>5, <1>6, <1>7, <1>8, <2>1, <2>2, <2>4
<1> HIDE DEF c, e, credit, width
<1> DEFINE loss == width - credit
<1>10. /\ p.strategy = i.strategy /\ p.legs = <<a, b>> /\ p.limit_price = -credit
       /\ p.max_loss = loss /\ p.max_profit = credit
       /\ p.breakeven = IF type = "call" THEN a.strike + credit ELSE a.strike - credit
  <2>1. breakeven = IF type = "call" THEN a.strike + credit ELSE a.strike - credit
    BY <1>5
  <2> HIDE DEF breakeven, loss
  <2>2. /\ p.strategy = i.strategy /\ p.legs = <<a, b>> /\ p.limit_price = -credit
        /\ p.max_loss = width - credit /\ p.max_profit = credit /\ p.breakeven = breakeven
    BY <1>1, PlanIs
  <2> QED BY <2>1, <2>2 DEF loss
<1>11. p.qty \in Nat \ {0} /\ Fits(p, st, settings)
  <2>1. loss \in Int
    BY <1>9
  <2> HIDE DEF breakeven
  <2> QED BY <1>1, <2>1, PlanFits
<1>12. LossIsKnown(p, x) /\ LotMakesMaxProfit(p, x)
  <2>1. x \in Nat \ {0} /\ credit \in Nat \ {0}
    BY <1>1, <1>9 DEF Ready
  <2>2. IF type = "call" THEN b.strike > a.strike ELSE b.strike < a.strike
    BY <1>2, <1>5, <1>6
  <2>3. p.strategy = IF type = "call" THEN "call_credit_spread" ELSE "put_credit_spread"
    BY <1>10
  <2> HIDE DEF breakeven
  <2> QED BY <1>1, <1>5, <1>6, <1>9, <1>10, <2>1, <2>2, <2>3, CreditEnds
<1>13. ASSUME settings.limit_price_spread_nudge_pct < 50, QuotesNotCrossed
       PROVE  PricedInside(p)
  <2>1. -CashIn(p) = -credit
    BY <1>9, <1>10 DEF CashIn, ShortOnlyStrategies
  <2>2. Cost(a, Mid(a), Mid(a)) = -Mid(a) /\ Cost(b, Mid(b), Mid(b)) = Mid(b)
    BY <1>5, <1>6 DEF Cost
  <2>3. IsPriced(a) /\ IsPriced(b) /\ Small(q, Spread(a) + Spread(b))
    BY <1>5, <1>6, <1>8, <1>13
  <2>4. -CashIn(p) = Cost(a, Mid(a), Mid(a)) + Cost(b, Mid(b), Mid(b)) + q
    BY <1>5, <1>6, <1>8, <1>9, <2>1, <2>2
  <2> QED BY <1>10, <2>3, <2>4, InsideTwo
<1>14. DefinedRisk(p)
  <2>1. p.strategy \in WingProtectedStrategies
    BY <1>10 DEF WingProtectedStrategies
  <2>2. a.type = b.type /\ p.legs = <<a, b>>
    BY <1>5, <1>6, <1>10
  <2>3. p.legs[2].side = "buy" /\ p.legs[1].side = "sell"
    BY <1>5, <1>6, <1>10
  <2>4. 1 \in {1, 2} /\ 2 \in {1, 2} /\ 1 # 2
    OBVIOUS
  <2> QED BY <2>1, <2>2, <2>3, <2>4, VerticalIsCovered
<1>15. \A n \in DOMAIN p.legs : Taken(p.legs[n], i, settings)
  BY <1>5, <1>6, <1>10
<1> QED BY <1>11, <1>12, <1>13, <1>14, <1>15 DEF Sound, Profits, p

(* Two verticals that do not cross: only the wider wing is at risk.         *)
LEMMA IronIsSound ==
  ASSUME NEW i, NEW st, NEW x, NEW settings, Ready(i, st, x, settings),
         NEW vs, NEW u, NEW v, vs = <<u, v>>, NEW cs,
         IsVertical(u, "put", cs), IsVertical(v, "call", cs), u.short.strike <= v.short.strike,
         \A c : Among(c, cs) /\ Liquid(c, settings) => Usable(c, i, settings),
         i.strategy \in {"iron_condor", "iron_butterfly"},
         PricedCredit(i, vs, x, st, settings) # Rejected
  PROVE  Sound(PricedCredit(i, vs, x, st, settings), i, st, x, settings)
<1> DEFINE p == PricedCredit(i, vs, x, st, settings)
           a == LegOf(u.short, "sell", x)
           b == LegOf(u.long, "buy", x)
           d == LegOf(v.short, "sell", x)
           g == LegOf(v.long, "buy", x)
           credit == NetCredit(vs, settings)
           width == WidestWing(vs)
<1>0. Len(vs) # 1 /\ vs[1] = u /\ vs[2] = v /\ 1 \in DOMAIN vs /\ 2 \in DOMAIN vs
  OBVIOUS
<1>1. /\ p = Plan(i, <<a, b, d, g>>, -credit, width - credit, credit, None, None, st, settings)
      /\ p # Rejected /\ credit > 0 /\ credit < width
      /\ Liquid(u.short, settings) /\ Liquid(u.long, settings)
      /\ Liquid(v.short, settings) /\ Liquid(v.long, settings)
  <2>1. <<a, b>> \o <<d, g>> = <<a, b, d, g>>
    BY JoinTwos
  <2>2. CreditLegs(vs[1], x) \o CreditLegs(vs[2], x) = <<a, b, d, g>>
    BY <1>0, <2>1 DEF CreditLegs
  <2>3. /\ i.strategy # "put_credit_spread" /\ i.strategy # "call_credit_spread"
    OBVIOUS
  <2> HIDE DEF a, b, d, g, credit, width
  <2>4. p # Rejected
    OBVIOUS
  <2>5. /\ \A n \in DOMAIN vs : Liquid(vs[n].short, settings) /\ Liquid(vs[n].long, settings)
        /\ credit > 0 /\ credit < width
        /\ p = Plan(i, CreditLegs(vs[1], x) \o CreditLegs(vs[2], x),
                    -credit, width - credit, credit, None, None, st, settings)
    BY <1>0, <2>3 DEF PricedCredit, credit, width
  <2> HIDE DEF p
  <2> QED BY <1>0, <2>2, <2>4, <2>5
<1>2. /\ Usable(u.short, i, settings) /\ Usable(u.long, i, settings)
      /\ Usable(v.short, i, settings) /\ Usable(v.long, i, settings)
      /\ u.short.type = "put" /\ u.long.type = "put" /\ u.long.strike < u.short.strike
      /\ v.short.type = "call" /\ v.long.type = "call" /\ v.long.strike > v.short.strike
  BY <1>1 DEF IsVertical
<1>3. /\ IsLeg(a, "sell", u.short, i, settings) /\ IsLeg(b, "buy", u.long, i, settings)
      /\ IsLeg(d, "sell", v.short, i, settings) /\ IsLeg(g, "buy", v.long, i, settings)
  BY <1>2, LegIs
<1> HIDE DEF p, a, b, d, g
<1>4. /\ Taken(a, i, settings) /\ a.side = "sell" /\ a.type = "put" /\ Option(a, "sell", "put")
      /\ a.strike = u.short.strike /\ a.strike \in Nat /\ Mid(a) \in Nat \ {0} /\ Spread(a) \in Int
      /\ Mid(a) = Mid(u.short) /\ Spread(a) = Spread(u.short)
      /\ QuotesNotCrossed => IsPriced(a) /\ Spread(a) \in Nat
  BY <1>2, <1>3, TakenIs DEF Option
<1>5. /\ Taken(b, i, settings) /\ b.side = "buy" /\ b.type = "put" /\ Option(b, "buy", "put")
      /\ b.strike = u.long.strike /\ b.strike \in Nat /\ Mid(b) \in Nat \ {0} /\ Spread(b) \in Int
      /\ Mid(b) = Mid(u.long) /\ Spread(b) = Spread(u.long)
      /\ QuotesNotCrossed => IsPriced(b) /\ Spread(b) \in Nat
  BY <1>2, <1>3, TakenIs DEF Option
<1>6. /\ Taken(d, i, settings) /\ d.side = "sell" /\ d.type = "call" /\ Option(d, "sell", "call")
      /\ d.strike = v.short.strike /\ d.strike \in Nat /\ Mid(d) \in Nat \ {0} /\ Spread(d) \in Int
      /\ Mid(d) = Mid(v.short) /\ Spread(d) = Spread(v.short)
      /\ QuotesNotCrossed => IsPriced(d) /\ Spread(d) \in Nat
  BY <1>2, <1>3, TakenIs DEF Option
<1>7. /\ Taken(g, i, settings) /\ g.side = "buy" /\ g.type = "call" /\ Option(g, "buy", "call")
      /\ g.strike = v.long.strike /\ g.strike \in Nat /\ Mid(g) \in Nat \ {0} /\ Spread(g) \in Int
      /\ Mid(g) = Mid(v.long) /\ Spread(g) = Spread(v.long)
      /\ QuotesNotCrossed => IsPriced(g) /\ Spread(g) \in Nat
  BY <1>2, <1>3, TakenIs DEF Option
<1> DEFINE total == Spread(a) + Spread(b) + Spread(d) + Spread(g)
           q == Added(total, settings)
<1>8. total \in Int /\ Nudged(<<u.short, v.short, u.long, v.long>>, settings) = q
  <2>1. Nudged(<<u.short, v.short, u.long, v.long>>, settings)
          = (settings.limit_price_spread_nudge_pct
               * (Spread(u.short) + Spread(v.short) + Spread(u.long) + Spread(v.long))) \div 100
    BY <1>4, <1>5, <1>6, <1>7, NudgedOfFour
  <2>2. total \in Int
    BY <1>4, <1>5, <1>6, <1>7
  <2>3. Spread(u.short) + Spread(v.short) + Spread(u.long) + Spread(v.long) = total
    BY <1>4, <1>5, <1>6, <1>7
  <2> HIDE DEF total
  <2> QED BY <2>1, <2>2, <2>3 DEF Added
<1>9. /\ q \in Int
      /\ settings.limit_price_spread_nudge_pct < 50 /\ total \in Nat => Small(q, total)
  <2> HIDE DEF total
  <2> QED BY <1>8, AddedIs DEF Ready
<1> HIDE DEF q
<1>10. /\ credit \in Int /\ credit = (Mid(a) - Mid(b) + Mid(d) - Mid(g)) - q
       /\ width \in Int /\ width = MaxOf(a.strike - b.strike, g.strike - d.strike)
  <2>1. VerticalWidth(u) = a.strike - b.strike /\ VerticalWidth(v) = g.strike - d.strike
    BY <1>2, <1>4, <1>5, <1>6, <1>7 DEF VerticalWidth, AbsOf
  <2>2. VerticalWidth(u) \in Int /\ VerticalWidth(v) \in Int
    BY <1>4, <1>5, <1>6, <1>7, <2>1
  <2>3. /\ Mid(u.short) \in Int /\ Mid(u.long) \in Int
        /\ Mid(v.short) \in Int /\ Mid(v.long) \in Int
    BY <1>4, <1>5, <1>6, <1>7
  <2>4. /\ credit = (Mid(u.short) - Mid(u.long) + Mid(v.short) - Mid(v.long))
                      - Nudged(<<u.short, v.short, u.long, v.long>>, settings)
        /\ width = MaxOf(VerticalWidth(u), VerticalWidth(v))
    BY <2>2, <2>3, NetOfTwo
  <2> HIDE DEF credit, width
  <2>5. credit = (Mid(a) - Mid(b) + Mid(d) - Mid(g)) - q
    BY <1>4, <1>5, <1>6, <1>7, <1>8, <2>4
  <2>6. credit \in Int
    BY <1>4, <1>5, <1>6, <1>7, <1>9, <2>5
  <2>7. width \in Int
    BY <2>2, <2>4 DEF MaxOf
  <2> QED BY <2>1, <2>4, <2>5, <2>6, <2>7
<1> HIDE DEF credit, width
<1> DEFINE loss == width - credit
<1>11. /\ p.strategy = i.strategy /\ p.legs = <<a, b, d, g>> /\ p.limit_price = -credit
       /\ p.max_loss = loss /\ p.max_profit = credit /\ p.breakeven = None
  BY <1>1, PlanIs
<1>12. p.qty \in Nat \ {0} /\ Fits(p, st, settings)
  <2>1. loss \in Int
    BY <1>10
  <2> QED BY <1>1, <2>1, PlanFits
<1>13. LossIsKnown(p, x) /\ LotMakesMaxProfit(p, x)
  <2>1. x \in Nat \ {0} /\ credit \in Nat \ {0}
    BY <1>1, <1>10 DEF Ready
  <2>2. b.strike < a.strike /\ a.strike <= d.strike /\ d.strike < g.strike
    BY <1>2, <1>4, <1>5, <1>6, <1>7
  <2>3. p.strategy \in {"iron_condor", "iron_butterfly"}
    BY <1>11
  <2> QED BY <1>4, <1>5, <1>6, <1>7, <1>10, <1>11, <2>1, <2>2, <2>3, IronEnds
<1>14. ASSUME settings.limit_price_spread_nudge_pct < 50, QuotesNotCrossed
       PROVE  PricedInside(p)
  <2>1. -CashIn(p) = -credit
    BY <1>10, <1>11 DEF CashIn, ShortOnlyStrategies
  <2>2. /\ Cost(a, Mid(a), Mid(a)) = -Mid(a) /\ Cost(b, Mid(b), Mid(b)) = Mid(b)
        /\ Cost(d, Mid(d), Mid(d)) = -Mid(d) /\ Cost(g, Mid(g), Mid(g)) = Mid(g)
    BY <1>4, <1>5, <1>6, <1>7 DEF Cost
  <2>3. /\ IsPriced(a) /\ IsPriced(b) /\ IsPriced(d) /\ IsPriced(g)
        /\ Small(q, Spread(a) + Spread(b) + Spread(d) + Spread(g))
    BY <1>4, <1>5, <1>6, <1>7, <1>9, <1>14
  <2>4. -CashIn(p) = Cost(a, Mid(a), Mid(a)) + Cost(b, Mid(b), Mid(b))
                       + Cost(d, Mid(d), Mid(d)) + Cost(g, Mid(g), Mid(g)) + q
    BY <1>4, <1>5, <1>6, <1>7, <1>9, <1>10, <2>1, <2>2
  <2>5. b.side = "buy" /\ g.side = "buy" /\ q \in Int /\ p.legs = <<a, b, d, g>>
    BY <1>5, <1>7, <1>9, <1>11
  <2> HIDE DEF total
  <2> QED BY <2>3, <2>4, <2>5, InsideFour
<1>15. DefinedRisk(p)
  <2>1. p.strategy \in WingProtectedStrategies
    BY <1>11 DEF WingProtectedStrategies
  <2> QED BY <1>4, <1>5, <1>6, <1>7, <1>11, <2>1, IronIsCovered
<1>16. \A n \in DOMAIN p.legs : Taken(p.legs[n], i, settings)
  BY <1>4, <1>5, <1>6, <1>7, <1>11
<1> QED BY <1>12, <1>13, <1>14, <1>15, <1>16 DEF Sound, Profits, p

(* What the window of expiries leaves can be used once it is liquid.          *)
LEMMA WindowIs ==
  ASSUME NEW i, NEW st, NEW x, NEW settings, Ready(i, st, x, settings),
         NEW universe, IsSelection(universe)
  PROVE  LET cs == InWindow(universe, i.dte_min, i.dte_max)
         IN /\ IsSelection(cs)
            /\ \A n \in DOMAIN cs : cs[n].dte \in Nat
            /\ \A c : Among(c, cs) /\ Liquid(c, settings) => Usable(c, i, settings)
<1> DEFINE cs == InWindow(universe, i.dte_min, i.dte_max)
<1>1. /\ Within(cs, universe)
      /\ \A n \in DOMAIN cs : i.dte_min <= universe[n].dte /\ universe[n].dte <= i.dte_max
  BY InWindowIs
<1>2. i.dte_min \in Nat /\ i.dte_max \in Nat
  BY DEF Ready, IsRequest
<1> HIDE DEF cs
<1>3. IsSelection(cs)
  BY <1>1, PartOfSelection
<1>4. \A n \in DOMAIN cs : cs[n] = universe[n]
  BY <1>1 DEF Within
<1>5. \A n \in DOMAIN cs : IsContract(cs[n])
  BY <1>3 DEF IsSelection
<1>6. \A n \in DOMAIN cs : cs[n].dte \in Nat
  BY <1>1, <1>2, <1>4, <1>5 DEF IsContract
<1>7. \A c : Among(c, cs) /\ Liquid(c, settings) => Usable(c, i, settings)
  BY <1>1, <1>4, <1>5 DEF Among, Usable
<1> QED BY <1>3, <1>6, <1>7 DEF cs

(* From the selection of the window to the plan, for each builder.          *)
LEMMA StranglePlanIsSound ==
  ASSUME NEW i, NEW st, NEW x, NEW settings, Ready(i, st, x, settings),
         NEW universe, IsSelection(universe), i.strategy = "long_strangle",
         StranglePlan(i, universe, x, st, settings) # Rejected
  PROVE  Sound(StranglePlan(i, universe, x, st, settings), i, st, x, settings)
<1> DEFINE cs == InWindow(universe, i.dte_min, i.dte_max)
           pair == BestStrangle(i, cs, x, settings)
<1>1. /\ IsSelection(cs) /\ \A n \in DOMAIN cs : cs[n].dte \in Nat
      /\ \A c : Among(c, cs) /\ Liquid(c, settings) => Usable(c, i, settings)
  BY WindowIs
<1>2. x \in Nat \ {0} /\ i.target_delta \in Int
  BY DEF Ready, IsRequest
<1>3. StranglePlan(i, universe, x, st, settings) = PricedStrangle(i, pair, x, st, settings)
  BY DEF StranglePlan
<1>4. PricedStrangle(i, pair, x, st, settings) # Rejected
  BY <1>3
<1> HIDE DEF cs
<1>5. pair # None => IsPair(pair, cs)
  BY <1>1, <1>2, BestStrangleIs
<1> HIDE DEF pair
<1>6. Sound(PricedStrangle(i, pair, x, st, settings), i, st, x, settings)
  BY <1>1, <1>4, <1>5, StrangleIsSound
<1> QED BY <1>3, <1>6

(* The verticals of the best expiry, priced.                                *)
LEMMA CreditPlanIsSound ==
  ASSUME NEW i, NEW st, NEW x, NEW settings, Ready(i, st, x, settings),
         NEW universe, IsSelection(universe), i.strategy \in CreditStrategies,
         CreditPlan(i, universe, x, st, settings) # Rejected
  PROVE  Sound(CreditPlan(i, universe, x, st, settings), i, st, x, settings)
<1> DEFINE cs == InWindow(universe, i.dte_min, i.dte_max)
           vs == BestVerticals(i, cs, x, settings)
<1>1. /\ IsSelection(cs) /\ \A n \in DOMAIN cs : cs[n].dte \in Nat
      /\ \A c : Among(c, cs) /\ Liquid(c, settings) => Usable(c, i, settings)
  BY WindowIs
<1>2. /\ x \in Nat \ {0} /\ i.target_delta \in Int
      /\ i.spread_width \in (Nat \ {0}) \union {None} /\ IsBuilderSettings(settings)
  BY DEF Ready, IsRequest, IsSettings
<1>3. CreditPlan(i, universe, x, st, settings) = PricedCredit(i, vs, x, st, settings)
  BY DEF CreditPlan
<1>4. PricedCredit(i, vs, x, st, settings) # Rejected
  BY <1>3
<1>5. vs # None
  BY <1>4 DEF PricedCredit
<1> HIDE DEF cs
<1>6. IsCredit(vs, i.strategy, cs)
  BY <1>1, <1>2, <1>5, BestVerticalsIs
<1> HIDE DEF vs
<1>7. Sound(PricedCredit(i, vs, x, st, settings), i, st, x, settings)
  <2>1. CASE /\ i.strategy = "put_credit_spread"
             /\ vs = <<vs[1]>> /\ IsVertical(vs[1], "put", cs)
    <3>1. "put" \in {"call", "put"}
      OBVIOUS
    <3>2. i.strategy = IF "put" = "call" THEN "call_credit_spread" ELSE "put_credit_spread"
      BY <2>1
    <3> QED BY <1>1, <1>4, <2>1, <3>1, <3>2, CreditSpreadIsSound
  <2>2. CASE /\ i.strategy = "call_credit_spread"
             /\ vs = <<vs[1]>> /\ IsVertical(vs[1], "call", cs)
    <3>1. "call" \in {"call", "put"}
      OBVIOUS
    <3>2. i.strategy = IF "call" = "call" THEN "call_credit_spread" ELSE "put_credit_spread"
      BY <2>2
    <3> QED BY <1>1, <1>4, <2>2, <3>1, <3>2, CreditSpreadIsSound
  <2>3. CASE /\ i.strategy \in {"iron_condor", "iron_butterfly"}
             /\ vs = <<vs[1], vs[2]>>
             /\ IsVertical(vs[1], "put", cs) /\ IsVertical(vs[2], "call", cs)
             /\ vs[1].short.strike <= vs[2].short.strike
    BY <1>1, <1>4, <2>3, IronIsSound
  <2> QED BY <1>6, <2>1, <2>2, <2>3 DEF IsCredit
<1> QED BY <1>3, <1>7

(* A contract is in the ladder of its own expiry.                             *)
LEMMA OwnExpiry ==
  ASSUME NEW cs, NEW c, Among(c, cs)
  PROVE  Among(c, OfExpiry(cs, c.dte))
BY DEF Among, OfExpiry, RestrictValues, Restrict

(* The single options, the verticals and the short-only structures of one   *)
(* type.                                                                    *)
LEMMA SingleTypeIsSound ==
  ASSUME NEW i, NEW st, NEW x, NEW settings, Ready(i, st, x, settings),
         NEW universe, IsSelection(universe), NEW held,
         i.strategy \in {"long_call", "long_put", "covered_call", "cash_secured_put"}
                          \union VerticalStrategies,
         SingleTypePlan(i, universe, x, held, st, settings) # Rejected
  PROVE  Sound(SingleTypePlan(i, universe, x, held, st, settings), i, st, x, settings)
<1> DEFINE type == IF i.strategy \in CallStrategies THEN "call" ELSE "put"
           window == InWindow(universe, i.dte_min, i.dte_max)
           cs == OfType(window, type)
           primary == Primary(i, cs, x, settings)
           ladder == OfExpiry(cs, primary.dte)
           width == TargetWidth(i, ladder, x, primary.dte, settings)
           vertical == i.strategy \in VerticalStrategies
           secondary == IF vertical THEN Secondary(i, ladder, primary, width) ELSE None
           entry == EntryPrice(i.strategy, primary, secondary, settings)
           p == SingleTypePlan(i, universe, x, held, st, settings)
<1>1. /\ \E n \in DOMAIN cs : EffectiveDelta(cs[n], x) # None
      /\ Liquid(primary, settings)
      /\ vertical => Positive(width) /\ secondary # None /\ Liquid(secondary, settings)
  BY DEF SingleTypePlan
<1>2. p = IF vertical THEN VerticalPlan(i, primary, secondary, entry, x, st, settings)
          ELSE IF i.strategy = "covered_call"
               THEN CoveredCallPlan(i, primary, entry, x, held, st, settings)
          ELSE IF i.strategy = "cash_secured_put"
               THEN CashSecuredPutPlan(i, primary, entry, x, st, settings)
               ELSE SinglePlan(i, primary, entry, x, st, settings)
  BY <1>1 DEF SingleTypePlan
<1>3. /\ IsSelection(window)
      /\ \A c : Among(c, window) /\ Liquid(c, settings) => Usable(c, i, settings)
  BY WindowIs
<1>4. /\ x \in Nat \ {0} /\ i.target_delta \in Int
      /\ i.spread_width \in (Nat \ {0}) \union {None} /\ IsBuilderSettings(settings)
  BY DEF Ready, IsRequest, IsSettings
<1>5. p # Rejected
  OBVIOUS
<1>6. type \in {"call", "put"}
  OBVIOUS
<1> HIDE DEF p, window, type
<1>7. Within(cs, window) /\ \A n \in DOMAIN cs : window[n].type = type
  BY OfTypeIs
<1> HIDE DEF cs
<1>8. IsSelection(cs) /\ \A n \in DOMAIN cs : cs[n].type = type
  BY <1>3, <1>7, PartOfSelection DEF Within
<1>9. \A c : Among(c, cs) => IsContract(c) /\ c.type = type
                             /\ (Liquid(c, settings) => Usable(c, i, settings))
  <2> SUFFICES ASSUME NEW c, Among(c, cs)
               PROVE  IsContract(c) /\ c.type = type
                      /\ (Liquid(c, settings) => Usable(c, i, settings))
    OBVIOUS
  <2>1. Among(c, window)
    BY <1>7, AmongPart
  <2>2. IsContract(c) /\ c.type = type
    BY <1>8, AmongIs DEF Among
  <2> QED BY <1>3, <2>1, <2>2
<1>10. Among(primary, cs)
  BY <1>1, <1>4, <1>8, PrimaryIs
<1>11. Usable(primary, i, settings) /\ primary.type = type /\ primary.dte \in Int
  BY <1>1, <1>9, <1>10 DEF IsContract
<1> HIDE DEF primary
<1>12. Within(ladder, cs) /\ Among(primary, ladder)
  BY <1>10, OwnExpiry, OfExpiryIs
<1> HIDE DEF ladder
<1>13. IsSelection(ladder)
  BY <1>8, <1>12, PartOfSelection
<1>14. width \in MaybeInt
  BY <1>4, <1>11, <1>13, WidthIs
<1> HIDE DEF width
<1>15. CASE vertical
  <2> DEFINE e == Secondary(i, ladder, primary, width)
  <2>1. /\ secondary = e /\ width \in Int /\ width > 0 /\ e # None /\ Liquid(e, settings)
    BY <1>1, <1>14, <1>15 DEF Positive, MaybeInt
  <2>2. /\ Among(e, ladder)
        /\ IF i.strategy = "debit_call_spread" THEN e.strike > primary.strike
           ELSE e.strike < primary.strike
    BY <1>12, <1>13, <1>15, <2>1, SecondaryIs
  <2>3. e.type = type /\ Usable(e, i, settings)
    BY <1>9, <1>12, <2>1, <2>2, AmongPart
  <2>4. entry = Mid(primary) - Mid(e) + Nudged(<<primary, e>>, settings)
    BY <2>1 DEF EntryPrice
  <2>5. p = VerticalPlan(i, primary, e, entry, x, st, settings)
    BY <1>2, <1>15, <2>1
  <2>6. /\ i.strategy = IF type = "call" THEN "debit_call_spread" ELSE "debit_put_spread"
    BY <1>15 DEF VerticalStrategies, CallStrategies, type
  <2> HIDE DEF e, entry, secondary
  <2>7. IF type = "call" THEN e.strike > primary.strike ELSE e.strike < primary.strike
    BY <1>6, <2>2, <2>6
  <2>8. Sound(VerticalPlan(i, primary, e, entry, x, st, settings), i, st, x, settings)
    BY <1>5, <1>6, <1>11, <2>3, <2>4, <2>5, <2>6, <2>7, VerticalIsSound
  <2> QED BY <2>5, <2>8 DEF p
<1>16. CASE ~vertical
  <2>1. secondary = None
    BY <1>16
  <2>2. entry = IF i.strategy \in ShortOnlyStrategies
                THEN Mid(primary) - Nudged(<<primary>>, settings)
                ELSE Mid(primary) + Nudged(<<primary>>, settings)
    BY <2>1 DEF EntryPrice
  <2> HIDE DEF entry, secondary
  <2>3. CASE i.strategy = "covered_call"
    <3>1. /\ p = CoveredCallPlan(i, primary, entry, x, held, st, settings)
          /\ entry = Mid(primary) - Nudged(<<primary>>, settings) /\ primary.type = "call"
      BY <1>2, <1>11, <1>16, <2>2, <2>3 DEF ShortOnlyStrategies, CallStrategies, type
    <3>2. Sound(CoveredCallPlan(i, primary, entry, x, held, st, settings), i, st, x, settings)
      BY <1>5, <1>11, <2>3, <3>1, CoveredCallIsSound
    <3> QED BY <3>1, <3>2 DEF p
  <2>4. CASE i.strategy = "cash_secured_put"
    <3>1. /\ p = CashSecuredPutPlan(i, primary, entry, x, st, settings)
          /\ entry = Mid(primary) - Nudged(<<primary>>, settings) /\ primary.type = "put"
      BY <1>2, <1>11, <1>16, <2>2, <2>4 DEF ShortOnlyStrategies, CallStrategies, type
    <3>2. Sound(CashSecuredPutPlan(i, primary, entry, x, st, settings), i, st, x, settings)
      BY <1>5, <1>11, <2>4, <3>1, CashSecuredPutIsSound
    <3> QED BY <3>1, <3>2 DEF p
  <2>5. CASE i.strategy \in {"long_call", "long_put"}
    <3>1. /\ p = SinglePlan(i, primary, entry, x, st, settings)
          /\ entry = Mid(primary) + Nudged(<<primary>>, settings)
      BY <1>2, <1>16, <2>2, <2>5 DEF ShortOnlyStrategies
    <3>2. i.strategy = IF type = "call" THEN "long_call" ELSE "long_put"
      BY <2>5 DEF CallStrategies, type
    <3>3. Sound(SinglePlan(i, primary, entry, x, st, settings), i, st, x, settings)
      BY <1>5, <1>6, <1>11, <3>1, <3>2, SingleIsSound
    <3> QED BY <3>1, <3>3 DEF p
  <2> QED BY <1>16, <2>3, <2>4, <2>5
<1> QED BY <1>15, <1>16

(* The canonical name changes nothing else of an intent.                    *)
LEMMA CanonicalIs ==
  ASSUME NEW i \in Intents
  PROVE  IsRequest(Canonical(i))
<1>1. Canonical(i) = [i EXCEPT !.strategy = Aliases(i.strategy)]
  BY DEF Canonical
<1> DEFINE v == Aliases(i.strategy)
<1>2. Canonical(i) = [i EXCEPT !.strategy = v]
  BY <1>1
<1> HIDE DEF v
<1> QED BY <1>2 DEF Intents, IsRequest

(* Whatever the broker lists, what build returns is a rejection or a sound  *)
(* plan.                                                                    *)
LEMMA BuildIsSound ==
  ASSUME NEW i, NEW st, NEW x, NEW settings, Ready(Canonical(i), st, x, settings),
         NEW contracts, IsListing(contracts), NEW snapshots,
         \A k \in DOMAIN snapshots : IsSnapshot(snapshots[k]) /\ IsQuote(snapshots[k]),
         NEW held, Build(i, contracts, snapshots, x, held, st, settings) # Rejected
  PROVE  Sound(Build(i, contracts, snapshots, x, held, st, settings),
               Canonical(i), st, x, settings)
<1> DEFINE p == Build(i, contracts, snapshots, x, held, st, settings)
           j == Canonical(i)
           universe == Normalize(contracts, snapshots, x)
<1>1. /\ p # Rejected /\ j.strategy \in SupportedStrategies
      /\ p = IF j.strategy = "long_strangle" THEN StranglePlan(j, universe, x, st, settings)
             ELSE IF j.strategy \in CreditStrategies THEN CreditPlan(j, universe, x, st, settings)
             ELSE SingleTypePlan(j, universe, x, held, st, settings)
  BY DEF Build, Canonical
<1>2. IsSelection(universe)
  BY NormalizeIs DEF Ready
<1>3. Ready(j, st, x, settings)
  OBVIOUS
<1> HIDE DEF p, j, universe
<1>4. CASE j.strategy = "long_strangle"
  <2>1. p = StranglePlan(j, universe, x, st, settings)
    BY <1>1, <1>4
  <2>2. Sound(StranglePlan(j, universe, x, st, settings), j, st, x, settings)
    BY <1>1, <1>2, <1>3, <1>4, <2>1, StranglePlanIsSound
  <2> QED BY <2>1, <2>2 DEF p, j
<1>5. CASE j.strategy # "long_strangle" /\ j.strategy \in CreditStrategies
  <2>1. p = CreditPlan(j, universe, x, st, settings)
    BY <1>1, <1>5
  <2>2. Sound(CreditPlan(j, universe, x, st, settings), j, st, x, settings)
    BY <1>1, <1>2, <1>3, <1>5, <2>1, CreditPlanIsSound
  <2> QED BY <2>1, <2>2 DEF p, j
<1>6. CASE j.strategy # "long_strangle" /\ j.strategy \notin CreditStrategies
  <2>1. p = SingleTypePlan(j, universe, x, held, st, settings)
    BY <1>1, <1>6
  <2>2. j.strategy \in {"long_call", "long_put", "covered_call", "cash_secured_put"}
                         \union VerticalStrategies
    BY <1>1, <1>6 DEF SupportedStrategies, CallStrategies, ShortOnlyStrategies, VerticalStrategies
  <2>3. Sound(SingleTypePlan(j, universe, x, held, st, settings), j, st, x, settings)
    BY <1>1, <1>2, <1>3, <2>1, <2>2, SingleTypeIsSound
  <2> QED BY <2>1, <2>3 DEF p, j
<1> QED BY <1>4, <1>5, <1>6

------------------------------------------------------------------------------
(* What is built is the intent under its canonical name, with a size, and   *)
(* below level 3 it is bought.                                              *)

(* What is built is the intent under its canonical name, with a size.       *)
BuiltFrom(p, i, st, settings) ==
  /\ p.strategy = i.strategy
  /\ \E loss, strike :
       p.qty = Sized(i.strategy, i.conviction, loss, strike, st, settings) /\ p.qty # 0

(* No leg is sold.                                                          *)
AllBought(p) == \A n \in DOMAIN p.legs : p.legs[n].side = "buy"

(* A plan has the size that sizing gave, and the legs it was made of.       *)
LEMMA PlanIsSized ==
  ASSUME NEW i, NEW legs, NEW limit, NEW loss, NEW profit, NEW breakeven, NEW strike,
         NEW st, NEW settings,
         Plan(i, legs, limit, loss, profit, breakeven, strike, st, settings) # Rejected
  PROVE  LET p == Plan(i, legs, limit, loss, profit, breakeven, strike, st, settings)
         IN BuiltFrom(p, i, st, settings) /\ p.legs = legs
<1> DEFINE qty == Sized(i.strategy, i.conviction, loss, strike, st, settings)
<1>1. qty # 0
  BY DEF Plan
<1>2. Plan(i, legs, limit, loss, profit, breakeven, strike, st, settings)
        = [underlying |-> i.underlying, strategy |-> i.strategy, legs |-> legs,
           qty |-> qty, limit_price |-> limit, max_loss |-> loss,
           max_profit |-> profit, breakeven |-> breakeven]
  BY <1>1 DEF Plan
<1> HIDE DEF qty
<1>3. /\ Plan(i, legs, limit, loss, profit, breakeven, strike, st, settings).qty = qty
      /\ Plan(i, legs, limit, loss, profit, breakeven, strike, st, settings).legs = legs
      /\ Plan(i, legs, limit, loss, profit, breakeven, strike, st, settings).strategy = i.strategy
  BY <1>2
<1> QED BY <1>1, <1>3 DEF BuiltFrom, qty

------------------------------------------------------------------------------
(* Each builder refuses or returns a plan with a size.                      *)

(* A single option is bought.                                               *)
LEMMA SingleIsSized ==
  ASSUME NEW i, NEW primary, NEW entry, NEW x, NEW st, NEW settings,
         SinglePlan(i, primary, entry, x, st, settings) # Rejected
  PROVE  LET p == SinglePlan(i, primary, entry, x, st, settings)
         IN BuiltFrom(p, i, st, settings) /\ AllBought(p)
<1> DEFINE p == SinglePlan(i, primary, entry, x, st, settings)
           legs == <<LegOf(primary, "buy", x)>>
<1>1. BuiltFrom(p, i, st, settings) /\ p.legs = legs
  BY PlanIsSized DEF SinglePlan
<1>2. \A n \in DOMAIN legs : legs[n].side = "buy"
  BY DEF LegOf
<1> HIDE DEF p, legs
<1>3. AllBought(p)
  BY <1>1, <1>2 DEF AllBought
<1> QED BY <1>1, <1>3 DEF p

(* Each of the others has a size.                                           *)
LEMMA VerticalIsSized ==
  ASSUME NEW i, NEW primary, NEW secondary, NEW entry, NEW x, NEW st, NEW settings,
         VerticalPlan(i, primary, secondary, entry, x, st, settings) # Rejected
  PROVE  BuiltFrom(VerticalPlan(i, primary, secondary, entry, x, st, settings), i, st, settings)
BY PlanIsSized DEF VerticalPlan

(* A covered call has a size, and shares for one contract.                  *)
LEMMA CoveredCallIsSized ==
  ASSUME NEW i, NEW primary, NEW premium, NEW x, NEW held, NEW st, NEW settings,
         CoveredCallPlan(i, primary, premium, x, held, st, settings) # Rejected
  PROVE  /\ BuiltFrom(CoveredCallPlan(i, primary, premium, x, held, st, settings), i, st, settings)
         /\ held # None /\ held >= 100
BY PlanIsSized DEF CoveredCallPlan

(* A put against cash has a size.                                           *)
LEMMA CashSecuredPutIsSized ==
  ASSUME NEW i, NEW primary, NEW premium, NEW x, NEW st, NEW settings,
         CashSecuredPutPlan(i, primary, premium, x, st, settings) # Rejected
  PROVE  BuiltFrom(CashSecuredPutPlan(i, primary, premium, x, st, settings), i, st, settings)
BY PlanIsSized DEF CashSecuredPutPlan

(* Only the verticals and the short-only structures of one type sell a leg. *)
LEMMA SingleTypeIsSized ==
  ASSUME NEW i, NEW universe, NEW x, NEW held, NEW st, NEW settings,
         SingleTypePlan(i, universe, x, held, st, settings) # Rejected
  PROVE  LET p == SingleTypePlan(i, universe, x, held, st, settings)
         IN /\ BuiltFrom(p, i, st, settings)
            /\ i.strategy \notin VerticalStrategies \union ShortOnlyStrategies => AllBought(p)
            /\ i.strategy = "covered_call" => held # None /\ held >= 100
<1> DEFINE p == SingleTypePlan(i, universe, x, held, st, settings)
<1>1. \E primary, secondary, entry :
        \/ /\ i.strategy \in VerticalStrategies
           /\ p = VerticalPlan(i, primary, secondary, entry, x, st, settings)
        \/ /\ i.strategy = "covered_call"
           /\ p = CoveredCallPlan(i, primary, entry, x, held, st, settings)
        \/ /\ i.strategy = "cash_secured_put"
           /\ p = CashSecuredPutPlan(i, primary, entry, x, st, settings)
        \/ /\ i.strategy # "covered_call"
           /\ p = SinglePlan(i, primary, entry, x, st, settings)
  BY DEF SingleTypePlan
<1>2. p # Rejected
  OBVIOUS
<1> HIDE DEF p
<1>3. PICK primary, secondary, entry :
        \/ /\ i.strategy \in VerticalStrategies
           /\ p = VerticalPlan(i, primary, secondary, entry, x, st, settings)
        \/ /\ i.strategy = "covered_call"
           /\ p = CoveredCallPlan(i, primary, entry, x, held, st, settings)
        \/ /\ i.strategy = "cash_secured_put"
           /\ p = CashSecuredPutPlan(i, primary, entry, x, st, settings)
        \/ /\ i.strategy # "covered_call"
           /\ p = SinglePlan(i, primary, entry, x, st, settings)
  BY <1>1
<1>4. BuiltFrom(p, i, st, settings)
  BY <1>2, <1>3, VerticalIsSized, CoveredCallIsSized, CashSecuredPutIsSized, SingleIsSized
<1>5. i.strategy \notin VerticalStrategies \union ShortOnlyStrategies => AllBought(p)
  BY <1>2, <1>3, SingleIsSized DEF ShortOnlyStrategies
<1>6. i.strategy = "covered_call" => held # None /\ held >= 100
  BY <1>2, <1>3, CoveredCallIsSized DEF VerticalStrategies
<1> QED BY <1>4, <1>5, <1>6 DEF p

(* A strangle is bought.                                                    *)
LEMMA StrangleIsSized ==
  ASSUME NEW i, NEW universe, NEW x, NEW st, NEW settings,
         StranglePlan(i, universe, x, st, settings) # Rejected
  PROVE  LET p == StranglePlan(i, universe, x, st, settings)
         IN BuiltFrom(p, i, st, settings) /\ AllBought(p)
<1> DEFINE p == StranglePlan(i, universe, x, st, settings)
           pair == BestStrangle(i, InWindow(universe, i.dte_min, i.dte_max), x, settings)
           legs == <<LegOf(pair[1], "buy", x), LegOf(pair[2], "buy", x)>>
           entry == Mid(pair[1]) + Mid(pair[2]) + Nudged(pair, settings)
<1>1. p = Plan(i, legs, entry, entry, None, None, None, st, settings)
  BY DEF StranglePlan, PricedStrangle
<1>2. p # Rejected
  OBVIOUS
<1>3. BuiltFrom(p, i, st, settings) /\ p.legs = legs
  <2> HIDE DEF p, legs, entry
  <2> QED BY <1>1, <1>2, PlanIsSized
<1>4. \A n \in DOMAIN legs : legs[n].side = "buy"
  <2> HIDE DEF pair
  <2> QED BY DEF LegOf
<1> HIDE DEF p, legs
<1>5. AllBought(p)
  BY <1>3, <1>4 DEF AllBought
<1> QED BY <1>3, <1>5 DEF p

(* A credit structure has a size.                                           *)
LEMMA CreditIsSized ==
  ASSUME NEW i, NEW universe, NEW x, NEW st, NEW settings,
         CreditPlan(i, universe, x, st, settings) # Rejected
  PROVE  BuiltFrom(CreditPlan(i, universe, x, st, settings), i, st, settings)
BY PlanIsSized DEF CreditPlan, PricedCredit

(* So has whatever is built, and a structure of the low level is bought.    *)
LEMMA BuildIsSized ==
  ASSUME NEW i, NEW contracts, NEW snapshots, NEW x, NEW held, NEW st, NEW settings,
         Build(i, contracts, snapshots, x, held, st, settings) # Rejected
  PROVE  LET p == Build(i, contracts, snapshots, x, held, st, settings)
         IN /\ BuiltFrom(p, Canonical(i), st, settings)
            /\ Canonical(i).strategy \in Singles => AllBought(p)
            /\ p.strategy = "covered_call" => held # None /\ held >= 100
<1> DEFINE p == Build(i, contracts, snapshots, x, held, st, settings)
           j == Canonical(i)
           universe == Normalize(contracts, snapshots, x)
<1>1. /\ p # Rejected
      /\ \/ j.strategy = "long_strangle" /\ p = StranglePlan(j, universe, x, st, settings)
         \/ j.strategy \in CreditStrategies /\ p = CreditPlan(j, universe, x, st, settings)
         \/ p = SingleTypePlan(j, universe, x, held, st, settings)
  BY DEF Build, Canonical
<1> HIDE DEF p, j, universe
<1>2. BuiltFrom(p, j, st, settings)
  BY <1>1, StrangleIsSized, CreditIsSized, SingleTypeIsSized
<1>3. j.strategy \in Singles => AllBought(p)
  BY <1>1, StrangleIsSized, SingleTypeIsSized
  DEF Singles, CreditStrategies, VerticalStrategies, ShortOnlyStrategies
<1>4. p.strategy = "covered_call" => held # None /\ held >= 100
  BY <1>1, <1>2, SingleTypeIsSized DEF BuiltFrom, CreditStrategies
<1> QED BY <1>2, <1>3, <1>4 DEF p, j

------------------------------------------------------------------------------
(* The level of the account and the sessions that are left.                 *)

(* Below level 3 the matrix names only structures that are bought.          *)
LEMMA LowLevelBuys ==
  ASSUME NEW ev, NEW conviction, NEW settings, Decided(ev, conviction, settings) # "hold",
         EffectiveLevel(ev.options_trading_level, settings) \in Int,
         ~(EffectiveLevel(ev.options_trading_level, settings) >= 3)
  PROVE  Decided(ev, conviction, settings) \in Singles
<1> DEFINE level == EffectiveLevel(ev.options_trading_level, settings)
           named == Matrix[TrendDirection(ev.trend)][IvRegime(ev.options)]
<1>1. Decided(ev, conviction, settings)
        = IF level >= MinLevel(named) THEN named ELSE Level2Fallback(named)
  BY DEF Decided
<1> HIDE DEF level, named
<1>2. level \in Int /\ ~(level >= 3)
  BY DEF level
<1>3. CASE level >= MinLevel(named)
  BY <1>1, <1>2, <1>3 DEF MinLevel
<1>4. CASE ~(level >= MinLevel(named))
  BY <1>1, <1>4 DEF Level2Fallback, Singles
<1> QED BY <1>3, <1>4

(* The matrix names no covered call.                                        *)
LEMMA NoneIsDecidedCovered ==
  ASSUME NEW ev, NEW conviction, NEW settings, Decided(ev, conviction, settings) # "hold"
  PROVE  Decided(ev, conviction, settings) # "covered_call"
<1> DEFINE trend == TrendDirection(ev.trend)
           regime == IvRegime(ev.options)
           named == Matrix[trend][regime]
           level == EffectiveLevel(ev.options_trading_level, settings)
<1>1. /\ regime # "unknown"
      /\ Decided(ev, conviction, settings)
           = IF level >= MinLevel(named) THEN named ELSE Level2Fallback(named)
  BY DEF Decided
<1>2. /\ trend \in {"up", "flat", "down"}
      /\ regime \in {"cheap", "expensive", "very_expensive"}
  <2>1. trend \in {"up", "flat", "down"}
    BY DEF TrendDirection
  <2>2. regime \in {"unknown", "cheap", "expensive", "very_expensive"}
    BY DEF IvRegime
  <2> QED BY <1>1, <2>1, <2>2
<1> HIDE DEF trend, regime, level
<1>3. named # "covered_call"
  BY <1>2 DEF Matrix
<1> HIDE DEF named
<1>4. Level2Fallback(named) # "covered_call"
  BY DEF Level2Fallback
<1> QED BY <1>1, <1>3, <1>4

(* A size that is not zero means that the horizon did not block it.         *)
LEMMA SizedInTime ==
  ASSUME NEW strategy, NEW conviction, NEW loss, NEW strike, NEW st, NEW settings,
         Sized(strategy, conviction, loss, strike, st, settings) # 0,
         st.sessions_remaining \in Int,
         settings.campaign_min_sessions_to_hold \in Nat
  PROVE  st.sessions_remaining > settings.campaign_min_sessions_to_hold
<1>1. ~(HorizonScalar(st, settings) <= 0)
  BY DEF Sized
<1> QED BY <1>1, NoneIsNoNumber DEF HorizonScalar

(* The sessions that a plan is sized with.                                  *)
LEMMA SessionsRemaining ==
  ASSUME NEW account, NEW outcomes, s.campaign_start # None
  PROVE  SizingNow(account, outcomes).sessions_remaining
           = MaxOf(0, s.campaign_days - MaxOf(1, day) + 1)
BY DEF SizingNow, SizingState, Campaign

------------------------------------------------------------------------------
(* The intent that is built carries what the matrix decided on the evidence *)
(* it came with, and a plan that was built is judged on the day it was      *)
(* sized: a tick of the Trader does not last overnight.                     *)
Waiting == stage \in {"intent", "reading"}

DecisionInv ==
  /\ world \in DOMAIN Worlds
  /\ day \in Nat
  /\ stage = "idle" => evidence = None
  /\ Waiting /\ evidence # None =>
       \/ EffectiveLevel(evidence.options_trading_level, s) >= 3
       \/ Canonical(intent).strategy \in Singles
  /\ Waiting /\ evidence # None => Canonical(intent).strategy # "covered_call"
  /\ Built /\ evidence # None => plan.strategy # "covered_call"
  /\ stage = "approved" => evidence # None
  /\ Built /\ s.campaign_start # None =>
       s.campaign_days - day >= s.campaign_min_sessions_to_hold
  /\ SoldOnlyAtLevel3

(* Nothing is decided at first.                                             *)
LEMMA DecisionInvInit == DecisionInit => DecisionInv
BY DEF DecisionInit, DecisionInv, SoldOnlyAtLevel3, Built, Waiting

(* The Strategist proposes what the matrix names for the level of its       *)
(* evidence.                                                                *)
LEMMA ProposeKeeps == ASSUME DecisionInv, Propose PROVE DecisionInv'
<1>1. PICK ev \in w.evidences, c \in w.convictions :
        /\ Decided(ev, c, s) # "hold"
        /\ evidence' = ev
        /\ intent' = IntentOf(ev, c, s)
  BY DEF Propose
<1>2. stage' = "intent" /\ world' = world /\ day' = day
  BY DEF Propose
<1>3. s' = s
  BY <1>2 DEF s, w
<1>4. Canonical(intent').strategy = Aliases(Decided(ev, c, s))
  BY <1>1 DEF IntentOf, Canonical
<1>5. \/ EffectiveLevel(ev.options_trading_level, s) >= 3
      \/ Decided(ev, c, s) \in Singles
  <2>1. EffectiveLevel(ev.options_trading_level, s) \in Int
    BY <1>1, SettingsTyped DEF DecisionInv
  <2> QED BY <1>1, <2>1, LowLevelBuys
<1>6. Decided(ev, c, s) \in Singles => Canonical(intent').strategy \in Singles
  BY <1>4 DEF Singles, Aliases
<1>7. Canonical(intent').strategy # "covered_call"
  BY <1>1, <1>4, NoneIsDecidedCovered DEF Aliases
<1> QED BY <1>1, <1>2, <1>3, <1>5, <1>6, <1>7 DEF DecisionInv, SoldOnlyAtLevel3, Built, Waiting

(* A plan that is built was sized today, from that intent.                  *)
LEMMA BuildKeeps == ASSUME DecisionInv, BuildPlan PROVE DecisionInv'
<1> DEFINE Known(built, seen, chain, outcomes) ==
             built = Build(intent, FetchedContracts(chain.contracts, intent, seen),
                           chain.snapshots, seen, chain.shares, SizingNow(read, outcomes), s)
<1>1. /\ stage = "reading" /\ world' = world /\ day' = day
  BY DEF BuildPlan
<1>2. s' = s
  BY <1>1 DEF s, w
<1>3. \/ NoTrade
      \/ \E outcomes, seen, chain :
           /\ stage' = "built" /\ evidence' = evidence
           /\ plan' # Rejected /\ Known(plan', seen, chain, outcomes)
  BY DEF BuildPlan, TakePlan
<1>4. CASE NoTrade
  BY <1>1, <1>2, <1>4 DEF NoTrade, DecisionInv, SoldOnlyAtLevel3, Built, Waiting
<1>5. CASE ~NoTrade
  <2>1. PICK outcomes, seen, chain :
          /\ stage' = "built" /\ evidence' = evidence
          /\ plan' # Rejected /\ Known(plan', seen, chain, outcomes)
    BY <1>3, <1>5
  <2> DEFINE st == SizingNow(read, outcomes)
  <2>2. /\ BuiltFrom(plan', Canonical(intent), st, s)
        /\ Canonical(intent).strategy \in Singles => AllBought(plan')
    BY <2>1, BuildIsSized
  <2>3. ASSUME s.campaign_start # None
        PROVE  s.campaign_days - day >= s.campaign_min_sessions_to_hold
    <3>1. PICK loss, strike :
            Sized(Canonical(intent).strategy, Canonical(intent).conviction, loss, strike, st, s) # 0
      BY <2>2 DEF BuiltFrom
    <3>2. st.sessions_remaining = MaxOf(0, s.campaign_days - MaxOf(1, day) + 1)
      BY <2>3, SessionsRemaining
    <3>3. day \in Nat /\ s.campaign_days \in Int /\ s.campaign_min_sessions_to_hold \in Nat
      BY SettingsTyped DEF DecisionInv
    <3> HIDE DEF st
    <3>4. st.sessions_remaining \in Int
      BY <3>2, <3>3 DEF MaxOf
    <3>5. st.sessions_remaining > s.campaign_min_sessions_to_hold
      BY <3>1, <3>3, <3>4, SizedInTime
    <3> QED BY <3>2, <3>3, <3>5 DEF MaxOf
  <2>4. SoldOnlyAtLevel3'
    <3>1. evidence # None =>
            \/ EffectiveLevel(evidence.options_trading_level, s) >= 3
            \/ AllBought(plan')
      BY <1>1, <2>2 DEF DecisionInv, Waiting
    <3> QED BY <1>2, <2>1, <3>1 DEF SoldOnlyAtLevel3, AllBought
  <2>5. evidence # None => plan'.strategy # "covered_call"
    BY <1>1, <2>2 DEF DecisionInv, Waiting, BuiltFrom
  <2> QED BY <1>1, <1>2, <2>1, <2>3, <2>4, <2>5 DEF DecisionInv, Built, Waiting
<1> QED BY <1>4, <1>5

(* Every step keeps the invariant.                                          *)
LEMMA DecisionInvStep == DecisionInv /\ [DecisionNext]_vars => DecisionInv'
<1> SUFFICES ASSUME DecisionInv, [DecisionNext]_vars PROVE DecisionInv'
  OBVIOUS
<1>0. ASSUME world' = world PROVE s' = s
  BY <1>0 DEF s, w
<1>1. CASE EquityMoves \/ PulseRecords
  BY <1>0, <1>1 DEF EquityMoves, PulseRecords, trade, DecisionInv, SoldOnlyAtLevel3, Built, Waiting
<1>2. CASE NextSession
  BY <1>0, <1>2 DEF NextSession, trade, DecisionInv, SoldOnlyAtLevel3, Built, Waiting
<1>3. CASE Propose
  BY <1>3, ProposeKeeps
<1>4. CASE AskToPlan
  BY <1>0, <1>4 DEF AskToPlan, DecisionInv, SoldOnlyAtLevel3, Built, Waiting
<1>9. CASE ReadAccount
  BY <1>0, <1>9 DEF ReadAccount, DecisionInv, SoldOnlyAtLevel3, Built, Waiting
<1>5. CASE BuildPlan
  BY <1>5, BuildKeeps
<1>6. CASE Judge
  <2>1. /\ stage = "built" /\ world' = world /\ day' = day
        /\ \/ /\ stage' = "approved" /\ evidence # None
              /\ UNCHANGED <<evidence, intent, read, spot, shares, plan>>
           \/ NoTrade
    BY <1>6 DEF Judge, SubmittedIfApproved
  <2> QED BY <1>0, <2>1 DEF NoTrade, DecisionInv, SoldOnlyAtLevel3, Built, Waiting
<1>7. CASE Submit
  BY <1>0, <1>7 DEF Submit, NoTrade, DecisionInv, SoldOnlyAtLevel3, Built, Waiting
<1>8. CASE UNCHANGED vars
  BY <1>0, <1>8 DEF vars, DecisionInv, SoldOnlyAtLevel3, Built, Waiting
<1> QED BY <1>1, <1>2, <1>3, <1>4, <1>5, <1>6, <1>7, <1>8, <1>9 DEF DecisionNext

(* So it holds in every state.                                              *)
LEMMA DecisionAlways == DecisionSpec => []DecisionInv
BY DecisionInvInit, DecisionInvStep, PTL DEF DecisionSpec

(* An account below level 3 sells no leg, whatever its cached evidence, the *)
(* chain and the operator's cap are (matrix.py:161-196).                    *)
THEOREM NothingSoldBelowLevel3 == DecisionSpec => []SoldOnlyAtLevel3
<1>1. DecisionInv => SoldOnlyAtLevel3 BY DEF DecisionInv
<1> QED BY <1>1, DecisionAlways, PTL

(* No call is sent without its shares, although the builder asks for a      *)
(* hundred whatever the quantity: what is sent was decided by the matrix    *)
(* (strategy_builder.py:1309-1312, matrix.py:36-46).                        *)
LEMMA SentCallsAreCovered ==
  DecisionInv => (HeldToItsWord => Built /\ CallsHaveShares)
BY DEF DecisionInv, HeldToItsWord, CallsHaveShares, Built

(* However long a proposal waited in the Store, an entry that is approved   *)
(* has the sessions left that the campaign asks it to be held               *)
(* (sizing.py:356-371).                                                     *)
THEOREM SessionsLeftToHold == DecisionSpec => []HoldsASession
<1>1. DecisionInv => HoldsASession BY DEF DecisionInv, HoldsASession, Built
<1> QED BY <1>1, DecisionAlways, PTL

------------------------------------------------------------------------------
(* The plan from the moment it is built until it is submitted.              *)

(* What holds of a plan from the moment it is built.                          *)
PlanHolds ==
  /\ plan.qty \in Nat \ {0}
  /\ spot \in Nat \ {0}
  /\ plan.strategy = "covered_call" => shares \in Int
  /\ LossIsKnown(plan, spot)
  /\ NudgeAtMostHalf =>
       /\ Profits(plan, spot)
       /\ Fits(plan, [equity |-> read.equity,
                      options_buying_power |-> OptionsBuyingPower(read)], s)
  /\ NudgeUnderHalf /\ QuotesNotCrossed => PricedInside(plan)
  /\ DefinedRisk(plan)
  /\ WindowsInside => LegsTradable(plan, s)

(* What an intent that waits must be for that.                                *)
IntentReady ==
  /\ IsRequest(Canonical(intent))
  /\ WindowsInside => /\ s.risk_dte_min <= Canonical(intent).dte_min
                      /\ Canonical(intent).dte_max <= s.risk_dte_max

(* The invariant: the account the plan was sized on is the one it is judged *)
(* on, so what was sound when it was built is so until it is submitted; an  *)
(* intent that waits is one that a builder can read; and the equity curve   *)
(* holds what the pulse recorded.                                           *)
PlanInv ==
  /\ world \in DOMAIN Worlds
  /\ day \in Nat
  /\ equity \in w.equities /\ lastEquity \in w.equities
  /\ history \in Seq(Snapshots)
  /\ Waiting => IntentReady
  /\ stage = "reading" => IsAccount(read)
  /\ Built => PlanHolds

(* Nothing is planned at first.                                             *)
LEMMA PlanInvInit == DecisionInit => PlanInv
<1> SUFFICES ASSUME DecisionInit PROVE PlanInv
  OBVIOUS
<1>1. history = << >> /\ stage = "idle" /\ world \in DOMAIN Worlds /\ day = 0
      /\ equity \in w.equities /\ lastEquity = equity
  BY DEF DecisionInit
<1>2. history \in Seq(Snapshots)
  BY <1>1
<1> QED BY <1>1, <1>2 DEF PlanInv, Built, Waiting

(* What an action does to the plan of a world that stays.                     *)
LEMMA PlanStays ==
  ASSUME PlanHolds, UNCHANGED <<world, read, spot, shares, plan>>
  PROVE  PlanHolds'
<1>1. s' = s
  BY DEF s, w
<1> QED BY <1>1 DEF PlanHolds

(* What an action does to an intent that waits.                             *)
LEMMA IntentStays ==
  ASSUME IntentReady, UNCHANGED <<world, intent>>
  PROVE  IntentReady'
<1>1. s' = s
  BY DEF s, w
<1> QED BY <1>1 DEF IntentReady

(* The newest rows of the equity curve are rows of it.                      *)
LEMMA RecentTyped ==
  ASSUME PlanInv
  PROVE  RecentEquity \in Seq(Snapshots)
<1>1. w.recent_rows \in Nat /\ history \in Seq(Snapshots) /\ Len(history) \in Nat
  BY WorldTyped DEF PlanInv
<1> DEFINE m == MinOf(w.recent_rows, Len(history))
<1>2. m \in Nat /\ m <= Len(history)
  BY <1>1 DEF MinOf
<1> HIDE DEF m
<1>3. \A k \in 1..m : history[k] \in Snapshots
  <2>1. \A k \in 1..m : k \in 1..Len(history)
    BY <1>1, <1>2
  <2>2. \A k \in 1..Len(history) : history[k] \in Snapshots
    BY <1>1
  <2> QED BY <2>1, <2>2
<1>4. SubSeq(history, 1, m) \in Seq(Snapshots)
  BY <1>2, <1>3, SubSeqProperties
<1> QED BY <1>4 DEF RecentEquity, m

(* What the account, the chain and the history are read as.                   *)
LEMMA CapacityIs ==
  ASSUME PlanInv, NEW now, IsAccount(now), NEW outcomes \in w.outcomes
  PROVE  LET st == SizingNow(now, outcomes)
         IN /\ IsCapacity(st) /\ st.equity = now.equity
            /\ st.options_buying_power = OptionsBuyingPower(now)
<1> DEFINE st == SizingNow(now, outcomes)
<1>1. IsSizingSettings(s) /\ outcomes \in Seq(ClosedTrades)
  BY WorldTyped DEF PlanInv, IsSettings
<1>2. RecentEquity \in Seq(Snapshots) /\ day \in Nat
  BY RecentTyped DEF PlanInv
<1>3. st = SizingState(now, RecentEquity, [start |-> s.campaign_start, elapsed |-> day],
                       outcomes, s)
  BY DEF SizingNow, Campaign
<1> HIDE DEF st
<1>4. /\ st.equity = now.equity
      /\ st.options_buying_power = OptionsBuyingPower(now)
      /\ st.options_buying_power \in MaybeInt /\ st.cash \in MaybeInt
      /\ now.equity \in Int => IsSizingState(st)
  BY <1>1, <1>2, <1>3, SizingStateTyped
<1>5. now.equity \in MaybeInt
  BY DEF IsAccount
<1> QED BY <1>4, <1>5 DEF IsCapacity, st

(* A spot that is known is a price, from a trade or from the middle of a    *)
(* quote.                                                                   *)
LEMMA SpotIs ==
  ASSUME NEW chain, IsChain(chain), NEW seen, seen # None,
         seen = chain.snapshot.trade \/ seen = SpotFromSnapshot(chain.snapshot)
  PROVE  seen \in Nat \ {0}
<1> DEFINE quote == chain.snapshot.quote
<1>1. /\ chain.snapshot.trade # None => chain.snapshot.trade \in Nat \ {0}
      /\ quote.bid \in MaybeInt /\ quote.ask \in MaybeInt
  BY DEF IsChain, IsPrice
<1>2. Quoted(quote) => Mid(quote) \in Nat \ {0}
  <2> SUFFICES ASSUME Quoted(quote) PROVE Mid(quote) \in Nat \ {0}
    OBVIOUS
  <2> HIDE DEF quote
  <2>1. quote.bid \in Nat \ {0} /\ quote.ask \in Nat \ {0}
    BY <1>1 DEF Quoted, MaybeInt
  <2> QED BY <2>1 DEF Mid
<1> QED BY <1>1, <1>2 DEF SpotFromSnapshot

(* What the broker answers for a chain is listed and quoted.                *)
LEMMA ChainRead ==
  ASSUME world \in DOMAIN Worlds, NEW chain \in w.chains, NEW i, NEW x
  PROVE  /\ IsChain(chain)
         /\ IsListing(FetchedContracts(chain.contracts, i, x))
         /\ \A k \in DOMAIN chain.snapshots :
              IsSnapshot(chain.snapshots[k]) /\ IsQuote(chain.snapshots[k])
<1>1. IsChain(chain)
  BY WorldTyped
<1>2. IsListing(chain.contracts)
  BY <1>1 DEF IsChain, IsListing
<1>3. IsListing(FetchedContracts(chain.contracts, i, x))
  BY <1>2, FetchedIs
<1>4. \A k \in DOMAIN chain.snapshots : IsSnapshot(chain.snapshots[k])
  BY <1>1 DEF IsChain
<1>5. QuotesNotCrossed => \A k \in DOMAIN chain.snapshots :
        Quoted(chain.snapshots[k]) => chain.snapshots[k].bid <= chain.snapshots[k].ask
  BY DEF QuotesNotCrossed, w
<1>6. \A k \in DOMAIN chain.snapshots : IsQuote(chain.snapshots[k])
  BY <1>4, <1>5 DEF IsQuote, IsSnapshot
<1> QED BY <1>1, <1>3, <1>4, <1>6

(* A sound plan of an intent that was ready is what the invariant asks for.   *)
LEMMA SoundHolds ==
  ASSUME world \in DOMAIN Worlds, IntentReady, NEW p, NEW st, NEW now, NEW x,
         Sound(p, Canonical(intent), st, x, s),
         st.equity = now.equity, st.options_buying_power = OptionsBuyingPower(now)
  PROVE  /\ p.qty \in Nat \ {0}
         /\ LossIsKnown(p, x)
         /\ NudgeAtMostHalf =>
              /\ Profits(p, x)
              /\ Fits(p, [equity |-> now.equity,
                          options_buying_power |-> OptionsBuyingPower(now)], s)
         /\ NudgeUnderHalf /\ QuotesNotCrossed => PricedInside(p)
         /\ DefinedRisk(p)
         /\ WindowsInside => LegsTradable(p, s)
<1> DEFINE i == Canonical(intent)
<1>1. NudgeAtMostHalf => s.limit_price_spread_nudge_pct <= 50
  BY DEF NudgeAtMostHalf, s, w
<1>2. NudgeUnderHalf => s.limit_price_spread_nudge_pct < 50
  BY DEF NudgeUnderHalf, s, w
<1>3. /\ p.qty \in Nat \ {0} /\ LossIsKnown(p, x) /\ DefinedRisk(p)
      /\ NudgeAtMostHalf => Profits(p, x) /\ Fits(p, st, s)
      /\ NudgeUnderHalf /\ QuotesNotCrossed => PricedInside(p)
      /\ \A n \in DOMAIN p.legs : Taken(p.legs[n], i, s)
  BY <1>1, <1>2 DEF Sound
<1>4. Fits(p, st, s) => Fits(p, [equity |-> now.equity,
                                 options_buying_power |-> OptionsBuyingPower(now)], s)
  BY DEF Fits
<1>5. ASSUME WindowsInside PROVE LegsTradable(p, s)
  <2>1. /\ s.risk_dte_min \in Int /\ s.risk_dte_max \in Int
    BY <1>5 DEF WindowsInside, s, w
  <2>2. /\ s.risk_dte_min <= i.dte_min /\ i.dte_max <= s.risk_dte_max
        /\ i.dte_min \in Nat /\ i.dte_max \in Nat
    BY <1>5 DEF IntentReady, IsRequest
  <2>3. IsBuilderSettings(s)
    BY WorldTyped DEF IsSettings
  <2> HIDE DEF i
  <2> SUFFICES ASSUME NEW n \in DOMAIN p.legs
               PROVE  LET l == p.legs[n] IN
                        /\ s.risk_dte_min <= l.dte /\ l.dte <= s.risk_dte_max
                        /\ l.oi # None /\ l.oi >= s.min_open_interest
                        /\ Quoted(l)
                        /\ 200 * Spread(l) <= s.max_spread_pct * (l.bid + l.ask)
                             \/ Spread(l) <= s.max_spread_abs
    BY DEF LegsTradable
  <2> DEFINE l == p.legs[n]
  <2>4. Taken(l, i, s)
    BY <1>3
  <2> HIDE DEF l
  <2>5. /\ IsQuote(l) /\ Quoted(l) /\ ~Wide(l, s) /\ DeepEnough(l, s)
        /\ i.dte_min <= l.dte /\ l.dte <= i.dte_max /\ l.dte \in Int
    BY <2>4 DEF Taken, Liquid
  <2>6. s.risk_dte_min <= l.dte /\ l.dte <= s.risk_dte_max
    BY <2>1, <2>2, <2>5
  <2>7. l.bid \in Nat /\ l.ask \in Nat /\ Spread(l) \in Int
    BY <2>5, QuotedIs
  <2>8. 200 * Spread(l) <= s.max_spread_pct * (l.bid + l.ask) \/ Spread(l) <= s.max_spread_abs
    BY <2>3, <2>5, <2>7 DEF Wide, IsBuilderSettings
  <2> QED BY <2>5, <2>6, <2>8 DEF DeepEnough, l
<1> QED BY <1>3, <1>4, <1>5

(* The Trader builds: the account, the chain and the outcomes are read in   *)
(* one step, and the plan keeps the account.                                *)
LEMMA BuildHolds == ASSUME PlanInv, BuildPlan PROVE PlanInv'
<1>1. /\ stage = "reading" /\ UNCHANGED <<world, day, equity, lastEquity, history>>
      /\ IntentReady /\ IsAccount(read)
  BY DEF BuildPlan, PlanInv, Waiting
<1>2. s' = s /\ w' = w
  BY <1>1 DEF s, w
<1>3. CASE NoTrade
  BY <1>1, <1>2, <1>3 DEF NoTrade, PlanInv, Built, Waiting
<1>4. CASE ~NoTrade
  <2>1. PICK chain \in w.chains, outcomes \in w.outcomes :
          LET seen == IF evidence = None THEN chain.snapshot.trade
                      ELSE SpotFromSnapshot(chain.snapshot)
          IN TakePlan(IF seen = None THEN Rejected
                      ELSE Build(intent, FetchedContracts(chain.contracts, intent, seen),
                                 chain.snapshots, seen, chain.shares,
                                 SizingNow(read, outcomes), s),
                      seen, chain.shares)
    BY DEF BuildPlan
  <2> DEFINE now == read
             seen == IF evidence = None THEN chain.snapshot.trade
                     ELSE SpotFromSnapshot(chain.snapshot)
             held == chain.shares
             contracts == FetchedContracts(chain.contracts, intent, seen)
             st == SizingNow(now, outcomes)
             p == Build(intent, contracts, chain.snapshots, seen, held, st, s)
  <2>2. /\ seen # None /\ p # Rejected
        /\ stage' = "built" /\ plan' = p /\ read' = now /\ spot' = seen /\ shares' = held
    BY <1>4, <2>1 DEF TakePlan, Rejected
  <2>3. IsAccount(now)
    BY <1>1
  <2>4. /\ IsChain(chain) /\ IsListing(contracts)
        /\ \A k \in DOMAIN chain.snapshots :
             IsSnapshot(chain.snapshots[k]) /\ IsQuote(chain.snapshots[k])
    BY ChainRead DEF PlanInv
  <2>5. seen \in Nat \ {0}
    BY <2>2, <2>4, SpotIs
  <2> HIDE DEF now, seen, contracts
  <2>6. /\ IsCapacity(st) /\ st.equity = now.equity
        /\ st.options_buying_power = OptionsBuyingPower(now)
    BY <2>3, CapacityIs
  <2> HIDE DEF st
  <2>7. Ready(Canonical(intent), st, seen, s)
    BY <1>1, <2>5, <2>6, WorldTyped DEF Ready, PlanInv, IntentReady
  <2>11. p.strategy = "covered_call" => held \in Int
    <3>1. held \in MaybeInt
      BY <2>4 DEF IsChain
    <3>2. p.strategy = "covered_call" => held # None
      BY <2>2, BuildIsSized
    <3> QED BY <3>1, <3>2 DEF MaybeInt
  <2>8. Sound(p, Canonical(intent), st, seen, s)
    BY <2>2, <2>4, <2>7, BuildIsSound
  <2> HIDE DEF p
  <2>9. /\ p.qty \in Nat \ {0}
        /\ LossIsKnown(p, seen)
        /\ NudgeAtMostHalf =>
             /\ Profits(p, seen)
             /\ Fits(p, [equity |-> now.equity,
                         options_buying_power |-> OptionsBuyingPower(now)], s)
        /\ NudgeUnderHalf /\ QuotesNotCrossed => PricedInside(p)
        /\ DefinedRisk(p)
        /\ WindowsInside => LegsTradable(p, s)
    BY <1>1, <2>6, <2>8, SoundHolds DEF PlanInv
  <2>10. PlanHolds'
    BY <1>2, <2>2, <2>5, <2>9, <2>11 DEF PlanHolds
  <2> QED BY <1>1, <1>2, <2>2, <2>10 DEF PlanInv, Waiting
<1> QED BY <1>3, <1>4

(* The Strategist proposes, or an operator asks: either leaves an intent    *)
(* that a builder can read.                                                 *)
LEMMA IntentsReady == ASSUME PlanInv, Propose \/ AskToPlan PROVE PlanInv'
<1>1. /\ stage' = "intent" /\ UNCHANGED <<world, day, equity, lastEquity, history>>
  BY DEF Propose, AskToPlan
<1>2. s' = s /\ w' = w
  BY <1>1 DEF s, w
<1>3. ASSUME Propose PROVE IntentReady'
  <2>1. PICK ev \in w.evidences, c \in w.convictions : intent' = IntentOf(ev, c, s)
    BY <1>3 DEF Propose
  <2>2. /\ c \in Int /\ s.short_delta_default \in Int /\ s.spread_width_default \in Nat \ {0}
        /\ s.dte_target_min \in Nat /\ s.dte_target_max \in Nat
    BY WorldTyped DEF PlanInv, IsSettings
  <2> DEFINE strategy == Decided(ev, c, s)
             wide == PinnedWidth(strategy, s)
             i == Canonical(intent')
  <2>3. wide \in (Nat \ {0}) \union {None}
    BY <2>2 DEF PinnedWidth
  <2>4. intent' = [strategy |-> strategy, underlying |-> ev.symbol,
                   target_delta |-> s.short_delta_default, spread_width |-> wide,
                   dte_min |-> s.dte_target_min, dte_max |-> s.dte_target_max,
                   conviction |-> c]
    BY <2>1 DEF IntentOf
  <2> HIDE DEF strategy, wide
  <2>5. /\ i.target_delta = s.short_delta_default /\ i.spread_width = wide
        /\ i.dte_min = s.dte_target_min /\ i.dte_max = s.dte_target_max /\ i.conviction = c
    BY <2>4 DEF Canonical
  <2> HIDE DEF i
  <2>6. IsRequest(i)
    BY <2>2, <2>3, <2>5 DEF IsRequest
  <2>7. WindowsInside => s.risk_dte_min <= i.dte_min /\ i.dte_max <= s.risk_dte_max
    BY <2>5 DEF WindowsInside, s, w, PlanInv
  <2> QED BY <1>2, <2>6, <2>7 DEF IntentReady, i
<1>4. ASSUME AskToPlan PROVE IntentReady'
  <2>1. intent' \in w.requests
    BY <1>4 DEF AskToPlan
  <2>2. intent' \in Intents
    BY <2>1, WorldTyped DEF PlanInv
  <2> DEFINE i == Canonical(intent')
  <2>3. IsRequest(i)
    BY <2>2, CanonicalIs
  <2>4. i.dte_min = (intent').dte_min /\ i.dte_max = (intent').dte_max
    <3> DEFINE v == Aliases((intent').strategy)
    <3>1. i = [intent' EXCEPT !.strategy = v]
      BY DEF Canonical
    <3> HIDE DEF v, i
    <3> QED BY <2>2, <3>1 DEF Intents
  <2> HIDE DEF i
  <2>5. WindowsInside => s.risk_dte_min <= i.dte_min /\ i.dte_max <= s.risk_dte_max
    BY <2>1, <2>4 DEF WindowsInside, s, w, PlanInv
  <2> QED BY <1>2, <2>3, <2>5 DEF IntentReady, i
<1> QED BY <1>1, <1>2, <1>3, <1>4 DEF PlanInv, Built, Waiting

(* Every step keeps the invariant.                                          *)
LEMMA PlanInvStep == PlanInv /\ [DecisionNext]_vars => PlanInv'
<1> SUFFICES ASSUME PlanInv, [DecisionNext]_vars PROVE PlanInv'
  OBVIOUS
<1>0. ASSUME world' = world PROVE w' = w
  BY <1>0 DEF w
<1>1. CASE EquityMoves
  <2>1. /\ IntentReady => IntentReady'
        /\ PlanHolds => PlanHolds'
    BY <1>1, IntentStays, PlanStays DEF EquityMoves, trade
  <2> QED BY <1>0, <1>1, <2>1 DEF EquityMoves, trade, PlanInv, Built, Waiting
<1>2. CASE PulseRecords
  <2>1. /\ UNCHANGED <<world, day, equity, lastEquity, trade>>
        /\ history' = <<[equity |-> equity, day |-> day]>> \o history
    BY <1>2 DEF PulseRecords
  <2>2. equity \in Int /\ day \in Nat /\ history \in Seq(Snapshots)
    BY WorldTyped DEF PlanInv
  <2> DEFINE row == [equity |-> equity, day |-> day]
  <2>3. row \in Snapshots
    BY <2>2 DEF Snapshots
  <2> HIDE DEF row
  <2>4. <<row>> \in Seq(Snapshots)
    BY <2>3
  <2>5. <<row>> \o history \in Seq(Snapshots)
    BY <2>2, <2>4
  <2>6. /\ IntentReady => IntentReady'
        /\ PlanHolds => PlanHolds'
    BY <2>1, IntentStays, PlanStays DEF trade
  <2> QED BY <1>0, <2>1, <2>5, <2>6 DEF PlanInv, Built, Waiting, trade, row
<1>3. CASE NextSession
  <2>1. IntentReady => IntentReady'
    BY <1>3, IntentStays DEF NextSession, trade
  <2> QED BY <1>0, <1>3, <2>1 DEF NextSession, trade, PlanInv, Built, Waiting
<1>4. CASE Propose \/ AskToPlan
  BY <1>4, IntentsReady
<1>9. CASE ReadAccount
  <2>1. /\ stage = "intent" /\ stage' = "reading"
        /\ UNCHANGED <<world, day, equity, lastEquity, history, intent>>
    BY <1>9 DEF ReadAccount
  <2>2. PICK account \in w.accounts : read' = account[equity][lastEquity]
    BY <1>9 DEF ReadAccount
  <2>3. IsAccount(read')
    BY <2>2, WorldTyped DEF PlanInv
  <2>4. IntentReady => IntentReady'
    BY <2>1, IntentStays
  <2> QED BY <1>0, <2>1, <2>3, <2>4 DEF PlanInv, Built, Waiting
<1>5. CASE BuildPlan
  BY <1>5, BuildHolds
<1>6. CASE Judge
  <2>1. /\ stage = "built" /\ UNCHANGED <<world, day, equity, lastEquity, history>>
        /\ \/ stage' = "approved" /\ UNCHANGED <<evidence, intent, read, spot, shares, plan>>
           \/ NoTrade
    BY <1>6 DEF Judge
  <2>2. CASE NoTrade
    BY <1>0, <2>1, <2>2 DEF NoTrade, PlanInv, Built, Waiting
  <2>3. CASE stage' = "approved" /\ UNCHANGED <<evidence, intent, read, spot, shares, plan>>
    <3>1. PlanHolds'
      BY <2>1, <2>3, PlanStays DEF PlanInv, Built, Waiting
    <3> QED BY <1>0, <2>1, <2>3, <3>1 DEF PlanInv, Waiting
  <2> QED BY <2>1, <2>2, <2>3
<1>7. CASE Submit
  BY <1>0, <1>7 DEF Submit, NoTrade, PlanInv, Built, Waiting
<1>8. CASE UNCHANGED vars
  <2>1. UNCHANGED <<world, day, equity, lastEquity, history, stage, intent, read, spot, shares, plan>>
    BY <1>8 DEF vars
  <2>2. /\ IntentReady => IntentReady'
        /\ PlanHolds => PlanHolds'
    BY <2>1, IntentStays, PlanStays
  <2> QED BY <1>0, <2>1, <2>2 DEF PlanInv, Built, Waiting
<1> QED BY <1>1, <1>2, <1>3, <1>4, <1>5, <1>6, <1>7, <1>8, <1>9 DEF DecisionNext

(* So it holds in every state.                                              *)
LEMMA PlanAlways == DecisionSpec => []PlanInv
BY PlanInvInit, PlanInvStep, PTL DEF DecisionSpec

------------------------------------------------------------------------------
(* What follows for every plan.                                             *)

(* A plan whose calls have their shares makes what one contract makes, as    *)
(* often as it has contracts.                                                *)
LEMMA PlanOfLots ==
  ASSUME NEW p, NEW paid \in Nat \ {0}, NEW held, Whole(p), p.qty \in Nat \ {0},
         p.strategy = "covered_call" => held \in Int /\ 100 * p.qty <= held,
         NEW x \in Int
  PROVE  LotPayoff(p, paid, x) \in Int /\ Payoff(p, paid, held, x) = p.qty * LotPayoff(p, paid, x)
<1> DEFINE qty == p.qty
           legs == LegsMake(p, x)
           n == Covered(p, held)
<1>1. qty \in Nat \ {0} /\ legs \in Int
  BY DEF Whole
<1>2. LotPayoff(p, paid, x) = legs + Shares(p, paid, x)
  BY DEF LotPayoff
<1>3. Payoff(p, paid, held, x) = qty * legs + n * (x - paid)
  BY DEF Payoff
<1>4. CASE p.strategy = "covered_call"
  <2> DEFINE lots == held \div 100
  <2>1. held \in Int /\ 100 * qty <= held
    BY <1>4
  <2>2. lots \in Int /\ held < 100 * lots + 100
    BY <2>1, DivBounds
  <2>3. n = MinOf(qty, lots)
    BY <1>4 DEF Covered
  <2>4. Shares(p, paid, x) = x - paid
    BY <1>4 DEF Shares
  <2> HIDE DEF qty, legs, n, lots
  <2>5. n = qty
    BY <1>1, <2>1, <2>2, <2>3 DEF MinOf
  <2> DEFINE gain == x - paid
  <2>6. gain \in Int
    OBVIOUS
  <2> HIDE DEF gain
  <2>7. qty * legs + qty * gain = qty * (legs + gain)
    BY <1>1, <2>6
  <2> QED BY <1>1, <1>2, <1>3, <2>4, <2>5, <2>6, <2>7 DEF qty, gain
<1>5. CASE p.strategy # "covered_call"
  <2>1. Shares(p, paid, x) = 0 /\ n = 0
    BY <1>5 DEF Shares, Covered
  <2> HIDE DEF qty, legs, n
  <2>2. n * (x - paid) = 0 /\ qty * legs \in Int
    BY <1>1, <2>1
  <2> QED BY <1>1, <1>2, <1>3, <2>1, <2>2 DEF qty
<1> QED BY <1>4, <1>5

(* Sums keep their order when they are multiplied.                           *)
LEMMA TimesKeeps ==
  ASSUME NEW n \in Nat \ {0}, NEW a \in Int, NEW b \in Int
  PROVE  /\ a >= b => n * a >= n * b
         /\ n * (-a) = -(a * n) /\ n * a = a * n /\ n * 0 = 0
OBVIOUS

(* So the plan loses and makes that often what a contract does.              *)
LEMMA PlanEnds ==
  ASSUME NEW p, NEW paid \in Nat \ {0}, NEW held, p.qty \in Nat \ {0}, LossIsKnown(p, paid),
         p.strategy = "covered_call" => held \in Int /\ 100 * p.qty <= held
  PROVE  /\ \A x \in Nat : Payoff(p, paid, held, x) >= -(p.max_loss * p.qty)
         /\ LosesMaxLoss(p, paid, held)
         /\ LotMakesMaxProfit(p, paid) => MakesMaxProfit(p, paid, held)
<1> DEFINE qty == p.qty
           loss == p.max_loss
           lot(x) == LotPayoff(p, paid, x)
           all(x) == Payoff(p, paid, held, x)
           kinks == Kinks(p, paid)
<1>1. /\ Whole(p) /\ qty \in Nat \ {0} /\ loss \in Int /\ kinks \subseteq Nat
      /\ \A x \in Nat : lot(x) >= -loss
      /\ \E x \in kinks : lot(x) = -loss
  BY DEF LossIsKnown, LotLosesMaxLoss, Whole
<1>2. \A x \in Int : lot(x) \in Int /\ all(x) = qty * lot(x)
  BY <1>1, PlanOfLots
<1> HIDE DEF qty, loss, lot, all, kinks
<1>3. \A x \in Nat : all(x) >= -(loss * qty)
  <2> TAKE x \in Nat
  <2>1. lot(x) \in Int /\ -loss \in Int /\ lot(x) >= -loss
    BY <1>1, <1>2
  <2>2. qty * lot(x) >= qty * (-loss)
    BY <1>1, <2>1, TimesKeeps
  <2>3. qty * (-loss) = -(loss * qty)
    BY <1>1, TimesKeeps
  <2> QED BY <1>2, <2>2, <2>3
<1>4. \E x \in kinks : all(x) = -(loss * qty)
  <2>1. PICK x \in kinks : lot(x) = -loss
    BY <1>1
  <2>2. x \in Int
    BY <1>1
  <2>3. qty * (-loss) = -(loss * qty)
    BY <1>1, TimesKeeps
  <2> QED BY <1>2, <2>1, <2>2, <2>3
<1>5. LosesMaxLoss(p, paid, held)
  BY <1>1, <1>3, <1>4 DEF LosesMaxLoss, qty, loss, all, kinks
<1>6. ASSUME LotMakesMaxProfit(p, paid) PROVE MakesMaxProfit(p, paid, held)
  <2> DEFINE best == p.max_profit
             even == p.breakeven
  <2>1. /\ best \in MaybeInt /\ even \in MaybeInt
        /\ best # None => /\ \A x \in kinks : lot(x) <= best
                          /\ \E x \in kinks : lot(x) = best
        /\ even # None => lot(even) = 0
    BY <1>1, <1>6 DEF LotMakesMaxProfit, Whole, kinks, lot
  <2> HIDE DEF best, even
  <2>2. ASSUME best # None
        PROVE  /\ \A x \in kinks : all(x) <= best * qty
               /\ \E x \in kinks : all(x) = best * qty
    <3>1. best \in Int
      BY <2>1, <2>2 DEF MaybeInt
    <3>2. qty * best = best * qty /\ best * qty \in Int
      BY <1>1, <3>1, TimesKeeps
    <3>3. ASSUME NEW x \in kinks PROVE all(x) <= best * qty
      <4>1. x \in Int /\ lot(x) \in Int /\ best >= lot(x)
        BY <1>1, <1>2, <2>1, <2>2, <3>1
      <4>2. qty * best >= qty * lot(x)
        BY <1>1, <3>1, <4>1, TimesKeeps
      <4>3. qty * lot(x) \in Int
        BY <1>1, <4>1
      <4> QED BY <1>2, <3>2, <4>1, <4>2, <4>3
    <3>4. PICK x \in kinks : lot(x) = best
      BY <2>1, <2>2
    <3>5. x \in Int
      BY <1>1
    <3> QED BY <1>2, <3>2, <3>3, <3>4, <3>5
  <2>3. ASSUME even # None PROVE all(even) = 0
    <3>1. even \in Int /\ lot(even) = 0
      BY <2>1, <2>3 DEF MaybeInt
    <3> QED BY <1>1, <1>2, <3>1, TimesKeeps
  <2> QED BY <2>2, <2>3 DEF MakesMaxProfit, best, even, qty, all, kinks
<1> QED BY <1>3, <1>5, <1>6 DEF qty, loss, all

(* Whatever the chain, the account and the intent: no end that is looked at *)
(* of an entry that is sent, or of a plan whose calls have their shares,    *)
(* loses more than max_loss, times the quantity, and one loses that much    *)
(* (strategy_builder.py:533-569, 1246-1330 and the credit structures).      *)
THEOREM NoPlanLosesMore == DecisionSpec => []WorstCaseIsMaxLoss
<1>1. DecisionInv /\ PlanInv => WorstCaseIsMaxLoss
  BY PlanEnds, SentCallsAreCovered
     DEF PlanInv, PlanHolds, WorstCaseIsMaxLoss, CallsHaveShares
<1> QED BY <1>1, DecisionAlways, PlanAlways, PTL

(* Not only at the ends that TLC looks at: at no price of the underlying    *)
(* does an entry that is sent lose more than its max_loss                   *)
(* (strategy_builder.py:533-569, 1246-1330).                                *)
THEOREM NoPriceLosesMore ==
  DecisionSpec =>
    [](HeldToItsWord =>
         \A x \in Nat : Payoff(plan, spot, shares, x) >= -(plan.max_loss * plan.qty))
<1>1. DecisionInv /\ PlanInv => (HeldToItsWord =>
         \A x \in Nat : Payoff(plan, spot, shares, x) >= -(plan.max_loss * plan.qty))
  BY PlanEnds, SentCallsAreCovered DEF PlanInv, PlanHolds, CallsHaveShares
<1> QED BY <1>1, DecisionAlways, PlanAlways, PTL

(* max_profit is the best end and breakeven is one, for an entry that is    *)
(* sent or a plan whose calls have their shares, if the nudge gives up no   *)
(* more than half of the spread.  Above that (config.py:111 admits 1.0) a   *)
(* short-only premium may be negative, which _price calls "a positive       *)
(* number either way" (strategy_builder.py:1214).                           *)
THEOREM StatedProfitsAreReal ==
  ASSUME NudgeAtMostHalf PROVE DecisionSpec => []StatedProfitIsReal
<1>1. DecisionInv /\ PlanInv => StatedProfitIsReal
  BY PlanEnds, SentCallsAreCovered
     DEF PlanInv, PlanHolds, StatedProfitIsReal, CallsHaveShares, Profits
<1> QED BY <1>1, DecisionAlways, PlanAlways, PTL

(* Sizing never returns what the ceilings of the risk engine refuse: both     *)
(* read the account that was taken first, whatever the book and the equity    *)
(* curve do after (execution.py:585-648, sizing.py:386-515,                   *)
(* risk.py:234-274).                                                         *)
THEOREM SizeAndRiskAgree ==
  ASSUME NudgeAtMostHalf PROVE DecisionSpec => []SizeFitsCeilings
<1> DEFINE account == [equity |-> read.equity, options_buying_power |-> OptionsBuyingPower(read)]
<1>1. ASSUME PlanInv, Built PROVE Fits(plan, account, s)
  BY <1>1 DEF PlanInv, PlanHolds
<1>2. ASSUME PlanInv, Built, NEW held \in w.holdings
      PROVE  LET p == Snapshot(held, None) IN
               /\ PremiumPerTradeOk(plan, p, s)
               /\ plan.strategy # "covered_call" => BuyingPowerOk(plan, p, s)
  <2> DEFINE p == Snapshot(held, None)
  <2>1. p.equity = read.equity /\ p.options_buying_power = OptionsBuyingPower(read)
    BY DEF Snapshot, JudgedAccount
  <2> DEFINE loss == plan.max_loss
             n == plan.qty
  <2>2. /\ loss \in Int /\ n \in Int /\ p.equity \in Int
        /\ 100 * loss * n <= s.max_premium_pct_per_trade * p.equity
        /\ plan.strategy # "covered_call" =>
             /\ p.options_buying_power # None
             /\ 100 * loss * n <= s.buying_power_utilization_cap * p.options_buying_power
    BY <1>1, <1>2, <2>1 DEF Fits
  <2>3. MaxLoss(plan) = loss * n
    BY DEF MaxLoss
  <2> HIDE DEF p, loss, n
  <2>4. 100 * (loss * n) = 100 * loss * n
    BY <2>2
  <2>5. p.equity # None
    BY <2>2, NoneIsNoNumber
  <2>6. PremiumPerTradeOk(plan, p, s)
    BY <2>2, <2>3, <2>4, <2>5 DEF PremiumPerTradeOk
  <2>7. plan.strategy # "covered_call" => BuyingPowerOk(plan, p, s)
    BY <2>2, <2>3, <2>4 DEF BuyingPowerOk
  <2> QED BY <2>6, <2>7 DEF p
<1>3. PlanInv => SizeFitsCeilings
  BY <1>2 DEF SizeFitsCeilings
<1> QED BY <1>3, PlanAlways, PTL

(* A limit is between the middle of the market and the far side of it, if   *)
(* the nudge is under half and no quote is crossed: a middle is rounded down*)
(* to a cent here, and half of a spread leaves no room for that             *)
(* (strategy_builder.py:905-921, 1207-1243).                                *)
THEOREM LimitsInsideTheMarket ==
  ASSUME NudgeUnderHalf, QuotesNotCrossed PROVE DecisionSpec => []LimitBetweenMidAndTouch
<1>1. PlanInv => LimitBetweenMidAndTouch
  BY DEF PlanInv, PlanHolds, LimitBetweenMidAndTouch
<1> QED BY <1>1, PlanAlways, PTL

(* Every plan has defined risk and legs that the risk engine finds tradable,*)
(* if the windows of intents lie inside the one of risk (risk.py:169-232).  *)
THEOREM BuiltPlansPass ==
  ASSUME WindowsInside PROVE DecisionSpec => []StructurePasses
<1>1. PlanInv => StructurePasses
  BY DEF PlanInv, PlanHolds, StructurePasses
<1> QED BY <1>1, PlanAlways, PTL

------------------------------------------------------------------------------
(* Closing what is held.                                                    *)

(* A divisor divides without a rest.                                        *)
LEMMA WholeQuotient ==
  ASSUME NEW a \in Nat \ {0}, NEW d \in Nat \ {0}, Divides(d, a)
  PROVE  a \div d \in Nat \ {0} /\ d * (a \div d) = a
<1>1. a % d = 0
  BY DEF Divides
<1>2. a = d * (a \div d) + (a % d) /\ a \div d \in Int
  OBVIOUS
<1> DEFINE q == a \div d
<1>3. q \in Int /\ a = d * q
  BY <1>1, <1>2
<1> HIDE DEF q
<1>4. q > 0
  BY <1>3
<1> QED BY <1>3, <1>4 DEF q

(* It divides its multiples.                                                *)
LEMMA MultipleDivides ==
  ASSUME NEW d \in Nat \ {0}, NEW k \in Nat
  PROVE  Divides(d, d * k)
<1> DEFINE a == d * k
           q == a \div d
           r == a % d
<1>1. a \in Nat
  OBVIOUS
<1> HIDE DEF a
<1>2. q \in Int /\ r \in Int /\ a = d * q + r /\ 0 <= r /\ r < d
  BY <1>1
<1> HIDE DEF q, r
<1>3. d * (k - q) = r
  BY <1>2 DEF a
<1>4. k - q = 0
  <2>1. ~(k - q >= 1)
    BY <1>2, <1>3
  <2>2. ~(k - q <= -1)
    BY <1>2, <1>3
  <2> QED BY <1>2, <2>1, <2>2
<1>5. r = 0
  BY <1>2, <1>3, <1>4
<1> QED BY <1>5 DEF Divides, r, a

(* Legs of whole, non-zero quantities: the greatest common divisor is found *)
(* below the least of them, so the ratios times the count are the           *)
(* quantities, and nothing else divides all of the ratios.                  *)
LEMMA FlattensWhole ==
  ASSUME NEW legs, \A n \in DOMAIN legs : legs[n].qty \in Int \ {0}
  PROVE  Flattens(legs)
<1> DEFINE size(n) == MaxOf(1, AbsOf(legs[n].qty))
           held == {size(n) : n \in DOMAIN legs}
           least == Smallest(held)
           common == {d \in 1..least : \A q \in held : Divides(d, q)}
           count == StructureQty(legs)
           ratio(n) == MaxOf(1, size(n) \div count)
<1>1. CASE DOMAIN legs = {}
  BY <1>1 DEF Flattens
<1>2. CASE DOMAIN legs # {}
  <2>1. \A n \in DOMAIN legs : size(n) \in Nat \ {0} /\ size(n) = AbsOf(legs[n].qty)
    BY DEF MaxOf, AbsOf
  <2> HIDE DEF size
  <2>2. least \in held /\ least \in Nat \ {0} /\ \A q \in held : least <= q
    <3>1. held \in SUBSET Nat /\ held # {} /\ 0 \notin held
      BY <1>2, <2>1
    <3> HIDE DEF held
    <3> QED BY <3>1, SmallestIn
  <2>3. count = Largest(common)
    BY <1>2 DEF StructureQty, size
  <2>4. count \in common /\ \A d \in common : d <= count
    <3>1. 1 \in common
      <4>1. \A q \in Nat : Divides(1, q)
        BY DEF Divides
      <4>2. held \in SUBSET Nat
        BY <2>1
      <4> QED BY <2>2, <4>1, <4>2
    <3>2. IsFiniteSet(1..least)
      BY <2>2, FS_Interval
    <3>3. common \in SUBSET (1..least)
      OBVIOUS
    <3>4. IsFiniteSet(common) /\ common \in SUBSET Int
      <4>1. 1..least \in SUBSET Int
        BY <2>2
      <4> DEFINE upTo == 1..least
      <4> HIDE DEF common, upTo
      <4>2. IsFiniteSet(common)
        <5>1. common \in SUBSET upTo /\ IsFiniteSet(upTo)
          BY <3>2, <3>3 DEF upTo
        <5> QED BY <5>1, FS_Subset
      <4>3. common \in SUBSET Int
        BY <3>3, <4>1
      <4> QED BY <4>2, <4>3
    <3> HIDE DEF common
    <3> QED BY <2>3, <3>1, <3>4, LargestIn
  <2>5. count \in Nat \ {0} /\ \A n \in DOMAIN legs : Divides(count, size(n))
    BY <2>2, <2>4
  <2> HIDE DEF count, least, common, held
  <2>6. \A n \in DOMAIN legs : ratio(n) \in Nat \ {0} /\ count * ratio(n) = size(n)
    <3> SUFFICES ASSUME NEW n \in DOMAIN legs
                 PROVE  ratio(n) \in Nat \ {0} /\ count * ratio(n) = size(n)
      OBVIOUS
    <3>1. /\ size(n) \div count \in Nat \ {0}
          /\ count * (size(n) \div count) = size(n)
      BY <2>1, <2>5, WholeQuotient
    <3>2. ratio(n) = size(n) \div count
      BY <3>1 DEF MaxOf
    <3> QED BY <3>1, <3>2
  <2>7. \A n \in DOMAIN legs :
          /\ ClosingLegs(legs)[n].side = IF legs[n].qty > 0 THEN "sell" ELSE "buy"
          /\ ClosingLegs(legs)[n].ratio_qty = ratio(n)
    BY DEF ClosingLegs, Each, count, size
  <2> HIDE DEF ratio
  <2>8. \A n \in DOMAIN legs : AfterClose(legs, n) = 0
    <3> SUFFICES ASSUME NEW n \in DOMAIN legs PROVE AfterClose(legs, n) = 0
      OBVIOUS
    <3>1. AfterClose(legs, n)
            = legs[n].qty + (IF ClosingLegs(legs)[n].side = "buy"
                             THEN count * ratio(n) ELSE -(count * ratio(n)))
      BY <2>7 DEF AfterClose, count
    <3>2. count * ratio(n) = AbsOf(legs[n].qty)
      BY <2>1, <2>6
    <3>3. legs[n].qty \in Int \ {0}
      OBVIOUS
    <3> QED BY <2>7, <3>1, <3>2, <3>3 DEF AbsOf
  <2>9. ASSUME NEW d \in 2..9, \A n \in DOMAIN legs : Divides(d, ClosingLegs(legs)[n].ratio_qty)
        PROVE  FALSE
    <3>1. \A n \in DOMAIN legs :
            ratio(n) \div d \in Nat \ {0} /\ d * (ratio(n) \div d) = ratio(n)
      BY <2>6, <2>7, <2>9, WholeQuotient
    <3> DEFINE more == count * d
    <3>2. more \in Nat \ {0} /\ more > count
      BY <2>5
    <3>3. ASSUME NEW n \in DOMAIN legs
          PROVE  Divides(more, size(n)) /\ more <= size(n)
      <4> DEFINE k == ratio(n) \div d
      <4>1. k \in Nat \ {0} /\ d * k = ratio(n) /\ count * ratio(n) = size(n)
        BY <2>6, <3>1
      <4> HIDE DEF k
      <4>2. size(n) = more * k
        BY <2>5, <4>1
      <4>3. more <= more * k
        <5> HIDE DEF more
        <5> QED BY <3>2, <4>1
      <4> QED BY <3>2, <4>1, <4>2, <4>3, MultipleDivides
    <3>4. more \in common
      <4>1. \A q \in held : Divides(more, q) /\ more <= q
        BY <3>3 DEF held
      <4>2. more \in 1..least
        BY <2>2, <3>2, <4>1
      <4> QED BY <4>1, <4>2 DEF common
    <3> QED BY <2>4, <2>5, <3>2, <3>4
  <2> QED BY <2>8, <2>9 DEF Flattens
<1> QED BY <1>1, <1>2

(* An order to close asks for what is held, leg by leg, in ratios without a *)
(* common divisor, for any position (agents/execution.py:126-163).          *)
THEOREM ClosesWhatIsHeld == DecisionSpec => []CloseFlattens
<1>1. PlanInv => CloseFlattens
  <2> SUFFICES ASSUME PlanInv PROVE CloseFlattens
    OBVIOUS
  <2>1. \A held \in w.holdings : Flattens(held.legs)
    BY WorldTyped, FlattensWhole DEF PlanInv
  <2>2. ASSUME Built PROVE Flattens(Opened(plan))
    <3>1. plan.qty \in Nat \ {0}
      BY <2>2 DEF PlanInv, PlanHolds
    <3> DEFINE legs == Opened(plan)
    <3>2. \A n \in DOMAIN legs :
            legs[n].qty = (IF plan.legs[n].side = "buy" THEN 1 ELSE -1) * 1 * plan.qty
      BY DEF Opened, OrderRequest, Each
    <3> HIDE DEF legs
    <3>3. \A n \in DOMAIN legs : legs[n].qty \in Int \ {0}
      BY <3>1, <3>2
    <3> QED BY <3>3, FlattensWhole DEF legs
  <2> QED BY <2>1, <2>2 DEF CloseFlattens
<1> QED BY <1>1, PlanAlways, PTL

------------------------------------------------------------------------------
(* Losses and the next size.                                                *)

(* Two accounts that differ in their equity of now share everything else    *)
(* that sizing reads.                                                       *)
LEMMA PastIsShared ==
  ASSUME NEW a, NEW b, a.last_equity = b.last_equity, NEW h, NEW campaign, NEW outcomes,
         NEW x
  PROVE  SamePast(SizingState(a, h, campaign, outcomes, x),
                  SizingState(b, h, campaign, outcomes, x))
<1> DEFINE m == {h[i].equity : i \in DOMAIN h} \ {None}
           f == {i \in DOMAIN h : /\ h[i].equity # None
                                  /\ h[i].day >= campaign.start}
           mark == IF m = {} THEN None ELSE Largest(m)
           start == IF campaign.start = None \/ f = {} THEN None ELSE h[Largest(f)].equity
           left == IF campaign.start = None THEN None
                   ELSE MaxOf(0, x.campaign_days - MaxOf(1, campaign.elapsed) + 1)
           is1st == campaign.start # None /\ MaxOf(1, campaign.elapsed) <= 1
           reliability == Reliability(outcomes, x)
           rec(q) == [equity |-> q.equity, options_buying_power |-> OptionsBuyingPower(q),
                      cash |-> q.cash, start_of_day_equity |-> q.last_equity,
                      high_water_mark |-> mark, campaign_start_equity |-> start,
                      sessions_remaining |-> left, is_first_session |-> is1st,
                      conviction_reliability |-> reliability]
<1>1. \A q : SizingState(q, h, campaign, outcomes, x) = rec(q)
  BY Zenon DEF SizingState
<1> HIDE DEF mark, start, left, is1st, reliability
<1>2. SamePast(rec(a), rec(b))
  BY DEF SamePast
<1> QED BY <1>1, <1>2

(* Within a session a smaller equity never risks more, over every history of*)
(* the account and of its closed trades (sizing.py:386-515).                *)
THEOREM LessEquityLessRisk == DecisionSpec => []NoMartingale
<1>1. PlanInv => NoMartingale
  <2> SUFFICES ASSUME PlanInv, NEW c \in w.convictions, NEW outcomes \in w.outcomes,
                      NEW a \in w.equities, NEW b \in w.equities, a < b
               PROVE  RiskAt(c, a, outcomes) <= RiskAt(c, b, outcomes)
    BY DEF NoMartingale
  <2>1. /\ IsSizingSettings(s) /\ outcomes \in Seq(ClosedTrades) /\ c \in Int
        /\ a \in Int /\ b \in Int /\ lastEquity \in Int
    BY WorldTyped DEF PlanInv, IsSettings
  <2>2. RecentEquity \in Seq(Snapshots) /\ day \in Nat
    BY RecentTyped DEF PlanInv
  <2> DEFINE Account(e) == [equity |-> e, last_equity |-> lastEquity, cash |-> e,
                            options_buying_power |-> e, non_marginable_buying_power |-> None]
             st(e) == SizingNow(Account(e), outcomes)
  <2>3. \A e \in {a, b} : IsAccount(Account(e)) /\ Account(e).equity = e
    BY <2>1 DEF IsAccount, MaybeInt
  <2>4. \A e \in {a, b} : st(e) = SizingState(Account(e), RecentEquity,
                            [start |-> s.campaign_start, elapsed |-> day], outcomes, s)
    BY DEF SizingNow, Campaign
  <2>5. SamePast(st(a), st(b))
    <3>1. Account(a).last_equity = Account(b).last_equity
      OBVIOUS
    <3> HIDE DEF Account
    <3> QED BY <2>4, <3>1, PastIsShared
  <2>6. RiskAt(c, a, outcomes) = a * RiskFraction(c, st(a), s)
        /\ RiskAt(c, b, outcomes) = b * RiskFraction(c, st(b), s)
    BY DEF RiskAt
  <2> HIDE DEF Account, st
  <2>7. \A e \in {a, b} : st(e).equity = e /\ IsSizingState(st(e))
    BY <2>1, <2>2, <2>3, <2>4, SizingStateTyped
  <2>8. a * RiskFraction(c, st(a), s) <= b * RiskFraction(c, st(b), s)
    <3>1. /\ st(a).equity = a /\ IsSizingState(st(a)) /\ st(b).equity = b /\ IsSizingState(st(b))
      BY <2>7
    <3>2. st(a).equity <= st(b).equity
      BY <2>1, <3>1
    <3>3. st(a).equity * RiskFraction(c, st(a), s) <= st(b).equity * RiskFraction(c, st(b), s)
      BY <2>1, <2>5, <3>1, <3>2, LossNeverSizesUp
    <3> QED BY <3>1, <3>3
  <2> QED BY <2>6, <2>8
<1> QED BY <1>1, PlanAlways, PTL

------------------------------------------------------------------------------
(* Exposure of the whole book.                                              *)

(* A sum with an unknown term is unknown.                                   *)
LEMMA UnknownTerm ==
  ASSUME NEW terms, NEW n \in DOMAIN terms, terms[n] = None
  PROVE  SumKnown(terms) = None
BY DEF SumKnown

(* A leg without a delta makes the delta of its book unknown.               *)
LEMMA UnknownLeg ==
  ASSUME NEW legs, NEW market, NEW greeks, NEW n \in DOMAIN legs,
         LegDelta(legs[n], market, greeks) = None
  PROVE  BookExposure(legs, market, greeks, Betas).delta = None
<1> DEFINE Delta(l) ==
             LET d == LegDelta(l, market, greeks)
             IN IF d = None \/ market[l.root] = None THEN None
                ELSE DollarDelta(d, l.qty, market[l.root].spot, BetaFor(Betas, l.root))
           terms == [k \in DOMAIN legs |-> Delta(legs[k])]
<1>1. BookExposure(legs, market, greeks, Betas).delta = SumKnown(terms)
  BY DEF BookExposure, Each
<1>2. n \in DOMAIN terms /\ terms[n] = None
  OBVIOUS
<1> HIDE DEF terms
<1> QED BY <1>1, <1>2, UnknownTerm

(* One held leg with neither a live delta nor a cached market makes the     *)
(* projected delta unknown, for any book and any plan (exposure.py:240-262). *)
THEOREM WholeBookOrNothing == DecisionSpec => []NoPartialExposure
<1>1. NoPartialExposure
  <2> SUFFICES ASSUME NEW held, NEW n \in DOMAIN held.legs,
                      LegDelta(held.legs[n], held.market, held.greeks) = None
               PROVE  ProjectedExposure(held.legs, plan, spot, held.market, held.greeks, Betas).delta
                        = None
    BY DEF NoPartialExposure
  <2> DEFINE book == BookExposure(held.legs, held.market, held.greeks, Betas)
             opened == PlanExposure(plan, spot,
                         IF held.market[plan.underlying] = None THEN None
                         ELSE held.market[plan.underlying].iv, Betas)
  <2>1. book.delta = None
    BY UnknownLeg
  <2>2. ProjectedExposure(held.legs, plan, spot, held.market, held.greeks, Betas)
          = CombinedWith(book, opened)
    BY DEF ProjectedExposure
  <2> HIDE DEF book, opened
  <2>3. CombinedWith(book, opened).delta = SumKnown(<<book.delta, opened.delta>>)
    BY DEF CombinedWith
  <2>4. 1 \in DOMAIN <<book.delta, opened.delta>> /\ <<book.delta, opened.delta>>[1] = None
    BY <2>1
  <2>5. SumKnown(<<book.delta, opened.delta>>) = None
    BY <2>4, UnknownTerm
  <2> QED BY <2>2, <2>3, <2>5
<1> QED BY <1>1, PTL
==============================================================================
