------------------------------- MODULE Requests -------------------------------
(***************************************************************************)
(* What the Trader asks of the broker around one structure (execution.py):   *)
(* the spot and the window of the chain it reads, the order that opens a      *)
(* plan, and the legs of the order that closes what is held.                 *)
(***************************************************************************)
EXTENDS Chain

(* _spot_from_snapshot: the last trade, else the middle of a real quote. *)
SpotFromSnapshot(snapshot) ==
  IF snapshot.trade # None THEN snapshot.trade
  ELSE IF Quoted(snapshot.quote) THEN Mid(snapshot.quote) ELSE None

(* fetch_chain_window: the broker filters by expiry and by strikes within a   *)
(* quarter of the spot, and the snapshots are those of the same window.       *)
FetchedContracts(rows, intent, spot) ==
  RestrictValues(rows, LAMBDA k : /\ intent.dte_min <= k.dte /\ k.dte <= intent.dte_max
                                  /\ 3 * spot <= 4 * k.strike /\ 4 * k.strike <= 5 * spot)

(* _build_order_request: one leg is an order of its own, several share the    *)
(* limit and each carries a ratio.                                           *)
OpeningIntent(side) == IF side = "buy" THEN "buy_to_open" ELSE "sell_to_open"

OrderRequest(plan) ==
  [qty |-> plan.qty, limit_price |-> plan.limit_price,
   legs |-> Each(plan.legs, LAMBDA l :
     [symbol |-> l.symbol, side |-> l.side, ratio_qty |-> 1,
      position_intent |-> OpeningIntent(l.side)])]

Divides(d, n) == n % d = 0

(* _closing_structure_qty: the largest number of whole structures in the legs. *)
StructureQty(legs) ==
  LET held == {MaxOf(1, AbsOf(legs[n].qty)) : n \in DOMAIN legs}
  IN IF held = {} THEN 1
     ELSE Largest({d \in 1..Smallest(held) : \A q \in held : Divides(d, q)})

(* Mutant: as many structures as the first leg has contracts. *)
RatiosOfTheFirst(legs) ==
  LET count == MaxOf(1, AbsOf(legs[1].qty))
  IN Each(legs, LAMBDA l :
       [symbol |-> l.symbol, side |-> IF l.qty > 0 THEN "sell" ELSE "buy",
        ratio_qty |-> MaxOf(1, MaxOf(1, AbsOf(l.qty)) \div count),
        position_intent |-> IF l.qty > 0 THEN "sell_to_close" ELSE "buy_to_close"])

(* _build_closing_legs: every leg the other way round, in its ratio. *)
ClosingLegs(legs) ==
  Each(legs, LAMBDA l :
    [symbol |-> l.symbol, side |-> IF l.qty > 0 THEN "sell" ELSE "buy",
     ratio_qty |-> MaxOf(1, MaxOf(1, AbsOf(l.qty)) \div StructureQty(legs)),
     position_intent |-> IF l.qty > 0 THEN "sell_to_close" ELSE "buy_to_close"])

(* Contracts of leg n once an order of `qty` structures has filled too. *)
AfterClose(legs, n) ==
  LET close == ClosingLegs(legs)[n]
      moved == StructureQty(legs) * close.ratio_qty
  IN legs[n].qty + (IF close.side = "buy" THEN moved ELSE -moved)
===============================================================================
