----------------------------- MODULE CloseReprice -----------------------------
(***************************************************************************)
(* The re-pricing of one working close order.  Each reconciliation tick    *)
(* reads the order, replaces it by one with a more marketable limit when   *)
(* its age calls for another rung, and writes back what it last saw.  A    *)
(* replacement is a new order at the broker; its id is remembered only in  *)
(* the stored response, under "_active_order_id".                          *)
(*                                                                         *)
(* Limits are in cents and the mark is a whole number of cents; a target   *)
(* is in hundredths of a cent, before _decimal_str rounds it.              *)
(***************************************************************************)
EXTENDS Integers

CONSTANTS
  Marks,        (* request.mark_price, in cents                             *)
  NudgePct,     (* limit_price_spread_nudge_pct, in percent                 *)
  MaxAttempts,  (* close_reprice_max_attempts                               *)
  MaxOrders,    (* bound: orders at the broker                              *)
  LostAnswers   (* whether the answer to a replacement may be lost          *)

ASSUME LadderAssumption ==
  /\ Marks \subseteq Nat \ {0}
  /\ NudgePct \in 0..100
  /\ MaxAttempts \in Nat
  /\ MaxOrders \in Nat \ {0}
  /\ LostAnswers \in BOOLEAN

OrderIds == 1..MaxOrders

NoOrder == 0

(* "working" stands for new, accepted and held, "pending" for pending_new    *)
(* and the like, "dead" for canceled, expired, rejected and done_for_day.    *)
Replaceable == {"working", "partially_filled"}

SettledWithoutReplaced == {"filled", "dead"}                          \* mutant

SettledRows == {"filled", "dead", "replaced"}

BrokerOrderStates == Replaceable \union SettledRows \union {"none", "pending"}

VARIABLES
  mark,        (* request.mark_price                                        *)
  paysDebit,   (* closing_pays_a_debit(request.strategy)                    *)
  urgent,      (* request.exit_reason is in URGENT_CLOSE_REASONS            *)
  latest,      (* broker: the newest order id, NoOrder before the placement *)
  state,       (* broker: the state of each order                           *)
  limit,       (* broker: its limit price in cents                          *)
  traded,      (* broker: the orders with filled_qty > 0                    *)
  closeRow,    (* orders.status of omc-<id>                                 *)
  activeId,    (* orders.response["_active_order_id"], or NoOrder           *)
  closeStatus, (* proposals.status of the close                             *)
  elapsed,     (* whole CLOSE_REPRICE_SECONDS since submitted_at            *)
  tpc,         (* Trader: where the reconciliation of this row stands       *)
  readId,      (* Trader: id of the broker order in hand                    *)
  readState,   (* Trader: its state as read                                 *)
  readTraded,  (* Trader: filled_qty > 0 as read                            *)
  aim,         (* Trader: the limit to replace it with, 0 for none          *)
  replacedBy   (* Trader: id of the replacement just made, or NoOrder       *)

brokerCloseVars == <<latest, state, limit, traded>>
closeVars  == <<mark, paysDebit, urgent, closeRow, activeId, closeStatus>>
readVars   == <<readId, readState, readTraded, aim, replacedBy>>
repriceVars == <<closeVars, brokerCloseVars, elapsed, tpc, readVars>>

------------------------------------------------------------------------------
(* _close_limit_price and _decimal_str.                                     *)
RoundCents(x) ==
  LET q == x \div 100
      r == x % 100
  IN  IF r < 50 \/ (r = 50 /\ q % 2 = 0) THEN q ELSE q + 1

Rung(attempt) == attempt + (IF urgent THEN 1 ELSE 0)

AtLeast(floor, x) == IF x < floor THEN floor ELSE x

Target(attempt) ==
  AtLeast(100, IF paysDebit THEN mark * (100 + Rung(attempt) * NudgePct)
                            ELSE mark * (100 - Rung(attempt) * NudgePct))

LimitPrice(attempt) == RoundCents(Target(attempt))

UncappedAttempt == elapsed                                            \* mutant

DueAttempt == IF elapsed < MaxAttempts THEN elapsed ELSE MaxAttempts

(* Nothing left to do: the limit has caught up with the target.             *)
CaughtUp(price) ==
  IF paysDebit THEN price * 100 >= Target(DueAttempt)
               ELSE price * 100 <= Target(DueAttempt)

(* The Trader drops the broker's answer it had in hand.                     *)
Forget ==
  /\ readId' = NoOrder /\ readState' = "none" /\ readTraded' = FALSE
  /\ aim' = 0 /\ replacedBy' = NoOrder

------------------------------------------------------------------------------
(* _execute_close got its order accepted and recorded.                      *)
PlaceClose(debit, isUrgent) ==
  /\ latest = NoOrder
  /\ UNCHANGED mark
  /\ paysDebit' = debit
  /\ urgent' = isUrgent
  /\ latest' = 1
  /\ state' = [state EXCEPT ![1] = "working"]
  /\ limit' = [limit EXCEPT ![1] = LimitPrice(0)']
  /\ closeRow' = "close_submitted"
  /\ closeStatus' = "close_submitted"
  /\ UNCHANGED <<traded, activeId, elapsed, tpc, readVars>>

(* _read_active_order.                                                      *)
ReadTarget == IF activeId # NoOrder THEN activeId ELSE 1

(* orders_in_flight lists the row.                                          *)
RowPolled == closeRow # "none" /\ closeRow \notin SettledRows

(* _maybe_reprice_close decides on the order as it was read.                *)
WantsReprice(id) ==
  /\ state[id] \in Replaceable
  /\ DueAttempt > 0
  /\ ~CaughtUp(limit[id])

ReadOrder ==
  /\ tpc = "idle"
  /\ RowPolled
  /\ readId' = ReadTarget
  /\ readState' = state[ReadTarget]
  /\ readTraded' = (ReadTarget \in traded)
  /\ replacedBy' = NoOrder
  /\ IF WantsReprice(ReadTarget)
       THEN tpc' = "replace" /\ aim' = LimitPrice(DueAttempt)
       ELSE tpc' = "write" /\ aim' = 0
  /\ UNCHANGED <<closeVars, brokerCloseVars, elapsed>>

SupersedeAtBroker ==
  /\ state[readId] \in Replaceable
  /\ latest < MaxOrders
  /\ latest' = latest + 1
  /\ \E s \in {"working", "pending"} :
       state' = [state EXCEPT ![readId] = "replaced", ![latest + 1] = s]
  /\ limit' = [limit EXCEPT ![latest + 1] = aim]
  /\ UNCHANGED traded

(* From here on the order in hand is the replacement.                       *)
ReplaceAccepted ==
  /\ tpc = "replace"
  /\ SupersedeAtBroker
  /\ readId' = latest'
  /\ readState' = state'[latest']
  /\ readTraded' = FALSE
  /\ replacedBy' = latest'
  /\ aim' = 0
  /\ tpc' = "write"
  /\ UNCHANGED <<closeVars, elapsed>>

(* Refused: the order settled meanwhile, or the broker says no.             *)
ReplaceRefused ==
  /\ tpc = "replace"
  /\ tpc' = "write"
  /\ aim' = 0
  /\ UNCHANGED <<closeVars, brokerCloseVars, elapsed, readId, readState, readTraded, replacedBy>>

(* The answer was lost and the retry finds the order no longer open.        *)
ReplaceUnanswered ==
  /\ LostAnswers
  /\ tpc = "replace"
  /\ SupersedeAtBroker
  /\ tpc' = "write"
  /\ aim' = 0
  /\ UNCHANGED <<closeVars, elapsed, readId, readState, readTraded, replacedBy>>

(* update_order_status overwrites the stored response, and with it the      *)
(* "_active_order_id" of an earlier tick.                                   *)
WriteRow ==
  /\ tpc = "write"
  /\ closeRow' = readState
  /\ activeId' = replacedBy
  /\ tpc' = IF readState \in {"dead", "replaced"} /\ ~readTraded THEN "release" ELSE "idle"
  /\ Forget
  /\ UNCHANGED <<mark, paysDebit, urgent, closeStatus, brokerCloseVars, elapsed>>

(* _mark_broker_rejected.                                                   *)
ReleaseClose ==
  /\ tpc = "release"
  /\ closeStatus' = "broker_rejected"
  /\ tpc' = "idle"
  /\ UNCHANGED <<mark, paysDebit, urgent, closeRow, activeId, brokerCloseVars, elapsed, readVars>>

ReconcileStep ==
  \/ ReadOrder
  \/ ReplaceAccepted \/ ReplaceRefused \/ ReplaceUnanswered
  \/ WriteRow \/ ReleaseClose

(* The tick is cut short: the process restarts, or a Store write raises.    *)
RepriceRestart == tpc' = "idle" /\ Forget /\ UNCHANGED <<closeVars, brokerCloseVars, elapsed>>

------------------------------------------------------------------------------
(* The broker and the clock.                                                *)
CloseOpens(id) ==
  /\ state[id] = "pending"
  /\ state' = [state EXCEPT ![id] = "working"]
  /\ UNCHANGED <<closeVars, latest, limit, traded, elapsed, tpc, readVars>>

CloseTrades(id, s) ==
  /\ state[id] \in Replaceable
  /\ s \in {"partially_filled", "filled"} \ {state[id]}
  /\ state' = [state EXCEPT ![id] = s]
  /\ traded' = traded \union {id}
  /\ UNCHANGED <<closeVars, latest, limit, elapsed, tpc, readVars>>

CloseDies(id) ==
  /\ state[id] \in Replaceable \union {"pending"}
  /\ state' = [state EXCEPT ![id] = "dead"]
  /\ UNCHANGED <<closeVars, latest, limit, traded, elapsed, tpc, readVars>>

TimePasses ==
  /\ latest # NoOrder
  /\ elapsed <= MaxAttempts
  /\ elapsed' = elapsed + 1
  /\ UNCHANGED <<closeVars, brokerCloseVars, tpc, readVars>>

RepriceInit ==
  /\ mark \in Marks
  /\ paysDebit = FALSE /\ urgent = FALSE
  /\ latest = NoOrder
  /\ state = [id \in OrderIds |-> "none"]
  /\ limit = [id \in OrderIds |-> 0]
  /\ traded = {}
  /\ closeRow = "none" /\ activeId = NoOrder /\ closeStatus = "pending"
  /\ elapsed = 0
  /\ tpc = "idle"
  /\ readId = NoOrder /\ readState = "none" /\ readTraded = FALSE
  /\ aim = 0 /\ replacedBy = NoOrder
==============================================================================
