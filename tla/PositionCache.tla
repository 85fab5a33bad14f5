---------------------------- MODULE PositionCache ----------------------------
(***************************************************************************)
(* How the PositionManager links a cached position to the proposal that    *)
(* opened it.  The broker shows the position as soon as the entry fills;   *)
(* the row of the entry order says so only after the Trader's next         *)
(* reconciliation.  Meanwhile the PositionManager gathers positions, cache *)
(* and orders with concurrent reads and carries forward whatever an        *)
(* earlier tick resolved.                                                  *)
(*                                                                         *)
(* One underlying and one entry.  A strategy name is abstracted to its     *)
(* family, which is all that the exit rules and the close price look at.   *)
(***************************************************************************)
EXTENDS Integers

CONSTANT Families  (* the families a proposal may have                     *)

ASSUME FamiliesAssumption == Families \subseteq {"credit", "debit", "long", "other"}

(* The payload's strategy: a family, "" when none could be resolved, or the *)
(* key is absent.                                                           *)
CachedStrategies == Families \union {"", "absent"}

NoRow == [cached |-> FALSE, linked |-> FALSE, strategy |-> "absent"]

VARIABLES
  family,     (* intent.strategy of the entry proposal                      *)
  entryRow,   (* orders.status of the entry                                 *)
  entry,      (* the broker's state of the entry                            *)
  position,   (* the broker shows the position                              *)
  row,        (* the positions row: cached, proposal_id found, strategy     *)
  pmGot,      (* PositionManager: which of the gathered reads have returned *)
  pmShown,    (* PositionManager: the position as read                      *)
  pmFilled    (* PositionManager: an order row matched as filled            *)

entryVars == <<family, entryRow, entry>>
pmVars    == <<pmGot, pmShown, pmFilled>>
cacheVars == <<entryVars, position, row, pmVars>>

(* The cache is gathered with these two; as the PositionManager is its only *)
(* writer, the row it read is still the row when it writes.                 *)
Reads == {"positions", "orders"}

Opened == {"partially_filled", "filled"}

------------------------------------------------------------------------------
(* The broker fills the entry, and the Trader reconciles its row.           *)
EntryFills(s) ==
  /\ \/ entry = "working" /\ s \in Opened
     \/ entry = "partially_filled" /\ s = "filled"
  /\ entry' = s
  /\ position' = TRUE
  /\ UNCHANGED <<family, entryRow, row, pmVars>>

(* The broker no longer shows the position.                                 *)
PositionCloses == position' = FALSE /\ UNCHANGED <<entryVars, row, pmVars>>

ReconcileEntry ==
  /\ entryRow \notin {"failed", "filled"}
  /\ entryRow # entry
  /\ entryRow' = entry
  /\ UNCHANGED <<family, entry, position, row, pmVars>>

------------------------------------------------------------------------------
(* One tick: asyncio.gather of the reads, in any order.                     *)
PmReadPositions ==
  /\ "positions" \notin pmGot
  /\ pmShown' = position
  /\ pmGot' = pmGot \union {"positions"}
  /\ UNCHANGED <<entryVars, position, row, pmFilled>>

PmReadOrders ==
  /\ "orders" \notin pmGot
  /\ pmFilled' = (entryRow \in Opened)
  /\ pmGot' = pmGot \union {"orders"}
  /\ UNCHANGED <<entryVars, position, row, pmShown>>

(* _enrich_from_orders, unless an earlier tick found the proposal.          *)
LinkedOnFirstSight == row.linked \/ (~row.cached /\ pmFilled)      \* mutant

Linked == row.linked \/ pmFilled

(* _resolve_strategy, unless an earlier tick set the key.                   *)
ResolvedStrategy ==
  IF row.strategy # "absent" THEN row.strategy ELSE IF Linked THEN family ELSE ""

(* Carry forward, enrich, replace_positions.                                *)
PmWrite ==
  /\ pmGot = Reads
  /\ row' = IF pmShown
             THEN [cached |-> TRUE, linked |-> Linked, strategy |-> ResolvedStrategy]
             ELSE NoRow
  /\ pmGot' = {} /\ pmShown' = FALSE /\ pmFilled' = FALSE
  /\ UNCHANGED <<entryVars, position>>

PmStep == PmReadPositions \/ PmReadOrders \/ PmWrite

(* A restart loses what the tick had read.                                  *)
PmRestart == pmGot' = {} /\ pmShown' = FALSE /\ pmFilled' = FALSE

------------------------------------------------------------------------------
(* The entry is placed; "failed" is the row of a submission whose answer    *)
(* was lost.                                                                *)
CacheInit ==
  /\ family \in Families
  /\ entryRow \in {"submitted", "failed"}
  /\ entry = "working"
  /\ position = FALSE
  /\ row = NoRow
  /\ pmGot = {} /\ pmShown = FALSE /\ pmFilled = FALSE

Rows == [cached : BOOLEAN, linked : BOOLEAN, strategy : CachedStrategies]

CacheTypeOK ==
  /\ family \in Families
  /\ entryRow \in {"submitted", "failed", "working"} \union Opened
  /\ entry \in {"working"} \union Opened
  /\ position \in BOOLEAN
  /\ row \in Rows
  /\ pmGot \subseteq Reads
  /\ pmShown \in BOOLEAN
  /\ pmFilled \in BOOLEAN
==============================================================================
