------------------------------ MODULE OrderFlow ------------------------------
(***************************************************************************)
(* The life of a trade: the Strategist writes entry proposals, the         *)
(* PositionManager writes close proposals, the Trader (ExecutionAgent)     *)
(* turns pending proposals into broker orders and reconciles them.  The    *)
(* agents are coroutines of one event loop that share the Store and the    *)
(* broker, so every await is a point where the others may run: an action   *)
(* below is the code between two awaits whose order matters.               *)
(*                                                                         *)
(* The broker is external: it accepts or refuses an order, keeps client    *)
(* order ids unique, fills, cancels, and may lose an answer.               *)
(* CLOSE_REPRICE_MAX_ATTEMPTS is 0 here; CloseReprice models the ladder.   *)
(***************************************************************************)
EXTENDS Integers, FiniteSets

CONSTANTS
  Underlyings,                (* the configured universe                       *)
  NoSymbol,                   (* no symbol                                     *)
  MaxProposals,               (* bound: proposals ever written                 *)
  ExpiryOf,                   (* expiry the builder will choose, per proposal  *)
  PendingBatch,               (* _PENDING_BATCH_SIZE                           *)
  KilledBatch,                (* the batch read while the kill switch is on    *)
  MaxConcurrentPositions,     (* MAX_CONCURRENT_POSITIONS                      *)
  MaxPositionsPerUnderlying,  (* MAX_POSITIONS_PER_UNDERLYING                  *)
  MaxRetries,                 (* MCP_MAX_RETRIES                               *)
  DryRun,                     (* DRY_RUN of the first process                  *)
  Events                      (* what the environment may do, of EventKinds    *)

EventKinds ==
  {"kill_switch", "partial_fill", "external_close",
   "lost_answer", "read_error", "store_error", "crash", "redeploy"}

ASSUME ProposalsAssumption == MaxProposals \in Nat

(* orders_in_flight reads the 50 oldest rows: with no more proposals than   *)
(* that it reads them all.                                                  *)
ASSUME InFlightAssumption == MaxProposals <= 50
ASSUME LimitsAssumption ==
  /\ PendingBatch \in Nat \ {0}
  /\ KilledBatch \in Nat \ {0}
  /\ MaxConcurrentPositions \in Nat \ {0}
  /\ MaxPositionsPerUnderlying \in Nat \ {0}
  /\ MaxRetries \in Nat
ASSUME SwitchesAssumption == DryRun \in BOOLEAN /\ Events \subseteq EventKinds

(* Proposal ids come from a database sequence: the smaller id is the older. *)
Ids == 1..MaxProposals

ASSUME SymbolsAssumption == NoSymbol \notin Underlyings /\ DOMAIN ExpiryOf = Ids

ActiveStatuses == {"pending", "dry_run_approved", "submitted"}

Statuses == ActiveStatuses \union
  {"none", "close_submitted", "rejected", "failed", "ambiguous",
   "broker_rejected", "close_missed"}

(* What the broker says of an order.  "working" stands for new, accepted     *)
(* and held; "dead" for canceled, expired, rejected and done_for_day with    *)
(* nothing filled; "dead_partial" for the same after a partial fill.         *)
BrokerStates ==
  {"none", "working", "partially_filled", "filled", "dead", "dead_partial"}

SettledStates == {"filled", "dead", "dead_partial", "failed"}

OrderStates == BrokerStates \union
  {"submitted", "close_submitted", "failed", "ambiguous"}

(* Mutant: the rows still called "submitted", not a denylist.               *)
InFlightBySubmitted == {"submitted", "close_submitted", "ambiguous"}

InFlightStates == OrderStates \ (SettledStates \union {"none"})

VARIABLES
  status,      (* proposals.status; "none" is an id not used yet            *)
  of,          (* proposals.underlying                                      *)
  action,      (* proposals.intent.action                                   *)
  lastId,      (* the sequence behind proposals.id                          *)
  order,       (* orders.status of the one row om-<id> or omc-<id>          *)
  cache,       (* positions table, as the entries whose legs a row lists    *)
  kill,        (* kill_switch.engaged                                       *)
  broker,      (* the broker's own state of om-<id> / omc-<id>              *)
  held,        (* the entries whose position is open at the broker          *)
  closes,      (* the entries whose legs a close order sells                *)
  xpc,         (* Trader: where its coroutine is suspended                  *)
  batch,       (* Trader: pending rows of this tick not yet processed       *)
  cur,         (* Trader: the proposal in hand                              *)
  killSeen,    (* Trader: the kill switch as read at the start of the tick  *)
  seen,        (* Trader: positions read for the risk snapshot              *)
  result,      (* Trader: answer of the broker, then the status to write    *)
  tries,       (* Trader: attempts made inside AlpacaMcp.call               *)
  todo,        (* Trader: in-flight rows of this tick not yet reconciled    *)
  pick,        (* Strategist: symbol sent to the model, or NoSymbol           *)
  dryRun,      (* DRY_RUN of the running process                            *)
  ppc,         (* PositionManager: where its coroutine is suspended         *)
  pseen,       (* PositionManager: positions read from the broker           *)
  left,        (* PositionManager: symbols still to visit in this loop      *)
  killEntries  (* history: entries the broker took since kill was engaged   *)

store      == <<status, of, action, lastId, order>>
brokerage  == <<broker, held, closes>>
trader     == <<xpc, batch, cur, killSeen, seen, result, tries, todo>>
pulse      == <<ppc, pseen, left>>
vars       == <<store, cache, kill, brokerage, trader, pick, pulse, dryRun, killEntries>>

NoId == 0

------------------------------------------------------------------------------
(* The Store's queries.                                                     *)

Pending  == {p \in Ids : status[p] = "pending"}
Active   == {p \in Ids : status[p] \in ActiveStatuses}
InFlight == {p \in Ids : order[p] \in InFlightStates}

(* pending_proposals(limit=n): oldest first.                                *)
OldestPending(n) ==
  {p \in Pending : Cardinality({q \in Pending : q < p}) < n}

(* active_proposal_underlyings(exclude_proposal_id=p); NoId excludes none.  *)
ActiveUnderlyings(p) == {of[q] : q \in Active \ {p}}

WorkingUnderlyings == {of[q] : q \in InFlight}

CachedUnderlyings == {of[e] : e \in cache}

(* Rows of recent_proposals are a projection without the intent column, so  *)
(* the caller's test of intent["action"] never finds a close.               *)
RecentProposalsCarryIntent == FALSE

PendingCloseUnderlyings ==
  {of[p] : p \in {q \in Pending : RecentProposalsCarryIntent /\ action[q] = "close"}}

------------------------------------------------------------------------------
(* Writing proposals.                                                       *)

SaveProposal(u, act) ==
  /\ lastId < MaxProposals
  /\ lastId' = lastId + 1
  /\ status' = [status EXCEPT ![lastId + 1] = "pending"]
  /\ of'     = [of EXCEPT ![lastId + 1] = u]
  /\ action' = [action EXCEPT ![lastId + 1] = act]
  /\ UNCHANGED order

(* The filters that read shared state; cooldown, daily caps, earnings and   *)
(* the score decide which eligible symbol is picked, if any.                *)
EligibleByPositions(u) == u \notin CachedUnderlyings        \* mutant

Eligible(u) == u \notin CachedUnderlyings /\ u \notin ActiveUnderlyings(NoId)

(* StrategistAgent up to the await of the model.                            *)
StrategistPick(u) ==
  /\ pick = NoSymbol
  /\ ~kill
  /\ Eligible(u)
  /\ pick' = u
  /\ UNCHANGED <<store, cache, kill, brokerage, trader, pulse, dryRun, killEntries>>

(* The model answered and the matrix chose a structure.                     *)
StrategistPropose ==
  /\ pick # NoSymbol
  /\ SaveProposal(pick, "open")
  /\ pick' = NoSymbol
  /\ UNCHANGED <<cache, kill, brokerage, trader, pulse, dryRun, killEntries>>

(* The matrix held, or the model failed: a row that is never pending.       *)
StrategistDecline ==
  /\ pick # NoSymbol
  /\ pick' = NoSymbol
  /\ UNCHANGED <<store, cache, kill, brokerage, trader, pulse, dryRun, killEntries>>

(* PositionManagerAgent: the gathered reads of one tick.  left' is what     *)
(* replace_positions will upsert or delete.                                 *)
PulseReadHeld ==                                              \* mutant: no delete
  /\ ppc = "idle"
  /\ pseen' = held
  /\ left' = {of[e] : e \in held}
  /\ ppc' = "write"
  /\ UNCHANGED <<store, cache, kill, brokerage, trader, pick, dryRun, killEntries>>

PulseRead ==
  /\ ppc = "idle"
  /\ pseen' = held
  /\ left' = {of[e] : e \in held} \union CachedUnderlyings
  /\ ppc' = "write"
  /\ UNCHANGED <<store, cache, kill, brokerage, trader, pick, dryRun, killEntries>>

(* replace_positions writes or deletes one symbol per transaction.          *)
PulseWrite(u) ==
  /\ ppc = "write"
  /\ u \in left
  /\ cache' = {e \in cache : of[e] # u} \union {e \in pseen : of[e] = u}
  /\ left' = left \ {u}
  /\ UNCHANGED <<ppc, pseen, store, kill, brokerage, trader, pick, dryRun, killEntries>>

(* evaluate_close_proposals begins: it reads the cache it just wrote.       *)
PulseExits ==
  /\ ppc = "write"
  /\ left = {}
  /\ ppc' = "exits"
  /\ left' = CachedUnderlyings
  /\ pseen' = {}
  /\ UNCHANGED <<store, cache, kill, brokerage, trader, pick, dryRun, killEntries>>

(* An exit rule fires on the cached row of u.                               *)
ProposeClose(u) ==
  /\ ppc = "exits"
  /\ u \in left
  /\ u \notin PendingCloseUnderlyings
  /\ SaveProposal(u, "close")
  /\ left' = left \ {u}
  /\ UNCHANGED <<ppc, pseen, cache, kill, brokerage, trader, pick, dryRun, killEntries>>

(* No exit rule fires on u, or a close is already pending.                  *)
KeepPosition(u) ==
  /\ ppc = "exits"
  /\ u \in left
  /\ left' = left \ {u}
  /\ UNCHANGED <<ppc, pseen, store, cache, kill, brokerage, trader, pick, dryRun, killEntries>>

PulseEnd ==
  /\ ppc = "exits"
  /\ left = {}
  /\ ppc' = "idle"
  /\ UNCHANGED <<pseen, left, store, cache, kill, brokerage, trader, pick, dryRun, killEntries>>

------------------------------------------------------------------------------
(* The Trader's tick.  After each proposal the coroutine is back in "drain". *)

Goto(pc) == xpc' = pc

SetStatus(p, s) == status' = [status EXCEPT ![p] = s]

SetOrder(p, s) == order' = [order EXCEPT ![p] = s]

(* record_order: the first write for one client order id wins.              *)
RecordOrder(p, s) == IF order[p] = "none" THEN SetOrder(p, s) ELSE UNCHANGED order

tick    == <<killSeen, tries, todo>>
row     == <<of, action, lastId>>
outside == <<cache, kill, brokerage, pick, pulse, dryRun, killEntries>>

TickStartSmallBatch ==                                        \* mutant
  /\ xpc = "idle"
  /\ killSeen' = kill
  /\ batch' = OldestPending(PendingBatch)
  /\ Goto("drain")
  /\ UNCHANGED <<cur, seen, result, tries, todo, store, outside>>

TickStart ==
  /\ xpc = "idle"
  /\ killSeen' = kill
  /\ batch' = OldestPending(IF kill THEN KilledBatch ELSE PendingBatch)
  /\ Goto("drain")
  /\ UNCHANGED <<cur, seen, result, tries, todo, store, outside>>

IsNext(p) == xpc = "drain" /\ p \in batch /\ \A q \in batch : p <= q

(* Leave p with status s and go on with the next pending row.               *)
Conclude(p, s) ==
  /\ SetStatus(p, s)
  /\ batch' = batch \ {p}
  /\ cur' = NoId
  /\ seen' = {}
  /\ Goto("drain")
  /\ UNCHANGED <<row, order, tick, result, outside>>

(* An entry under the kill switch stays pending for a later tick.           *)
SkipKilledEntry(p) ==
  /\ IsNext(p)
  /\ action[p] = "open"
  /\ killSeen
  /\ batch' = batch \ {p}
  /\ UNCHANGED <<xpc, cur, seen, tick, result, store, outside>>

(* The duplicate gate: another active proposal holds this underlying.       *)
RejectDuplicate(p) ==
  /\ IsNext(p)
  /\ action[p] = "open"
  /\ ~killSeen
  /\ of[p] \in ActiveUnderlyings(p)
  /\ Conclude(p, "rejected")

AdmitEntry(p) ==
  /\ IsNext(p)
  /\ action[p] = "open"
  /\ ~killSeen
  /\ of[p] \notin ActiveUnderlyings(p)
  /\ cur' = p
  /\ batch' = batch \ {p}
  /\ Goto("planning")
  /\ UNCHANGED <<seen, tick, result, store, outside>>

(* No spot price, or the builder refuses: no_contracts, wide_spread, ...    *)
RejectPlan ==
  /\ xpc = "planning"
  /\ Conclude(cur, "rejected")

(* build_portfolio_snapshot reads the open positions first ...              *)
ReadPositions ==
  /\ xpc = "planning"
  /\ seen' = held
  /\ Goto("risk")
  /\ UNCHANGED <<batch, cur, tick, result, store, outside>>

(* ... and only then the Store: rows, in-flight orders, active proposals    *)
(* and the kill switch.                                                     *)
Structures(S) == {<<of[e], ExpiryOf[e]>> : e \in S}

SlotHoldersByProposals(p) ==                                  \* mutant
  ActiveUnderlyings(p) \ {of[e] : e \in seen}

SlotHolders(p) == (WorkingUnderlyings \union ActiveUnderlyings(p)) \ {of[e] : e \in seen}

ConcurrentPositionsHeld(p) == Cardinality(Structures(seen))   \* mutant

ConcurrentPositions(p) == Cardinality(Structures(seen)) + Cardinality(SlotHolders(p))

PositionsInUnderlying(p) ==
  Cardinality({s \in Structures(seen) : s[1] = of[p]})
    + (IF of[p] \in SlotHolders(p) THEN 1 ELSE 0)

RiskAllowsUnderKill(p) ==                                     \* mutant
  /\ order[p] = "none"
  /\ ConcurrentPositions(p) < MaxConcurrentPositions
  /\ PositionsInUnderlying(p) < MaxPositionsPerUnderlying

RiskAllows(p) ==
  /\ ~kill
  /\ order[p] = "none"
  /\ ConcurrentPositions(p) < MaxConcurrentPositions
  /\ PositionsInUnderlying(p) < MaxPositionsPerUnderlying

(* A check refuses; the market, premium and exposure checks may always.     *)
RejectRisk ==
  /\ xpc = "risk"
  /\ Conclude(cur, "rejected")

ApproveDryRun ==
  /\ xpc = "risk"
  /\ RiskAllows(cur)
  /\ dryRun
  /\ Conclude(cur, "dry_run_approved")

Approve ==
  /\ xpc = "risk"
  /\ RiskAllows(cur)
  /\ ~dryRun
  /\ seen' = {}
  /\ tries' = 0
  /\ Goto("placing")
  /\ UNCHANGED <<batch, cur, killSeen, todo, result, store, outside>>

(* _execute_close, under the kill switch too.                               *)
CloseMissed(p) ==
  /\ IsNext(p)
  /\ action[p] = "close"
  /\ of[p] \notin CachedUnderlyings
  /\ Conclude(p, "close_missed")

(* The cached row holds no option leg.                                      *)
CloseWithoutLegs(p) ==
  /\ IsNext(p)
  /\ action[p] = "close"
  /\ of[p] \in CachedUnderlyings
  /\ Conclude(p, "rejected")

CloseDryRun(p) ==
  /\ IsNext(p)
  /\ action[p] = "close"
  /\ of[p] \in CachedUnderlyings
  /\ dryRun
  /\ Conclude(p, "dry_run_approved")

ClosesLive == TRUE                                            \* mutant

(* A close is sent only by a process that trades.                           *)
ClosesTrade == ~dryRun

(* The closing legs are copied from the cached row before the await.  An    *)
(* order the broker already has under this id keeps the legs it has.        *)
PrepareClose(p) ==
  /\ IsNext(p)
  /\ action[p] = "close"
  /\ of[p] \in CachedUnderlyings
  /\ ClosesTrade
  /\ closes' = IF broker[p] = "none"
                THEN [closes EXCEPT ![p] = {e \in cache : of[e] = of[p]}]
                ELSE closes
  /\ cur' = p
  /\ tries' = 0
  /\ batch' = batch \ {p}
  /\ Goto("placing")
  /\ UNCHANGED <<broker, held, seen, killSeen, todo, result, store, cache, kill, pick,
                 pulse, dryRun, killEntries>>

------------------------------------------------------------------------------
(* place_option_order through AlpacaMcp.call.                               *)

TakeOrder(p) ==
  /\ broker' = [broker EXCEPT ![p] = "working"]
  /\ killEntries' = IF kill /\ action[p] = "open" THEN killEntries + 1 ELSE killEntries
  /\ UNCHANGED <<held, closes>>

Answer(r) ==
  /\ result' = r
  /\ Goto("answered")
  /\ UNCHANGED <<batch, cur, killSeen, seen, tries, todo, store, cache, kill, pick, pulse, dryRun>>

PlaceAccepted ==
  /\ xpc = "placing"
  /\ broker[cur] = "none"
  /\ TakeOrder(cur)
  /\ Answer("ok")

(* The client order id is already in use.                                   *)
PlaceDuplicate ==
  /\ xpc = "placing"
  /\ broker[cur] # "none"
  /\ Answer("duplicate")
  /\ UNCHANGED <<brokerage, killEntries>>

(* A refusal; its text may read as a duplicate ("already exists").          *)
PlaceRefused(r) ==
  /\ xpc = "placing"
  /\ broker[cur] = "none"
  /\ Answer(r)
  /\ UNCHANGED <<brokerage, killEntries>>

MayRetryOnceMore == tries <= MaxRetries                       \* mutant

MayRetry == tries < MaxRetries

(* A timeout or a broken pipe: the broker may or may not have acted.  The   *)
(* write is sent again until the attempts run out, then it counts as error. *)
PlaceUnanswered ==
  /\ "lost_answer" \in Events
  /\ xpc = "placing"
  /\ \/ broker[cur] = "none" /\ TakeOrder(cur)
     \/ UNCHANGED <<brokerage, killEntries>>
  /\ \/ /\ MayRetry
        /\ tries' = tries + 1
        /\ UNCHANGED <<xpc, result>>
     \/ /\ ~MayRetry
        /\ Goto("answered")
        /\ result' = "error"
        /\ UNCHANGED tries
  /\ UNCHANGED <<batch, cur, killSeen, seen, todo, store, cache, kill, pick, pulse, dryRun>>

(* The order row is written first; result' is the status to write next.     *)
Record(rowStatus, next) ==
  /\ RecordOrder(cur, rowStatus)
  /\ result' = next
  /\ Goto("marking")
  /\ UNCHANGED <<batch, cur, killSeen, seen, tries, todo, status, row,
                 outside>>

ReleasesNothing(b) == FALSE                                   \* mutant

(* _is_terminal_unfilled.                                                   *)
Releases(b) == b = "dead"

(* _reconcile_duplicate asks the broker for the order under this id ...     *)
LookUpDuplicate ==
  /\ xpc = "answered"
  /\ action[cur] = "open"
  /\ result = "duplicate"
  /\ result' = broker[cur]
  /\ Goto("found")
  /\ UNCHANGED <<batch, cur, killSeen, seen, tries, todo, store, outside>>

(* ... and the row and the status stand for the order as it was then.       *)
FoundRow(b) == IF b = "none" THEN "ambiguous" ELSE b

FoundStatusLive(b) == IF b = "dead" THEN "broker_rejected" ELSE "submitted" \* mutant

FoundStatus(b) ==
  IF b = "none" THEN "ambiguous" ELSE IF Releases(b) THEN "broker_rejected" ELSE "submitted"

RecordEntry ==
  /\ xpc = "answered"
  /\ action[cur] = "open"
  /\ \/ result = "ok" /\ Record("submitted", "submitted")
     \/ result = "error" /\ Record("failed", "failed")

RecordDuplicate ==
  /\ xpc = "found"
  /\ Record(FoundRow(result), FoundStatus(result))

(* A close has no duplicate path: any error is a failure.                   *)
RecordClose ==
  /\ xpc = "answered"
  /\ action[cur] = "close"
  /\ \/ result = "ok" /\ Record("close_submitted", "close_submitted")
     \/ result \in {"error", "duplicate"} /\ Record("failed", "failed")

MarkProposal ==
  /\ xpc = "marking"
  /\ SetStatus(cur, result)
  /\ cur' = NoId
  /\ result' = "none"
  /\ Goto("drain")
  /\ UNCHANGED <<batch, seen, tick, row, order, outside>>

------------------------------------------------------------------------------
(* Reconciliation, after the batch is drained.                              *)

StartReconcile ==
  /\ xpc = "drain"
  /\ batch = {}
  /\ todo' = InFlight
  /\ Goto("reconcile")
  /\ UNCHANGED <<batch, cur, killSeen, seen, result, tries, store, outside>>

(* The broker has no such order, or the read raised: the row is left alone. *)
ReconcileSkip(p) ==
  /\ xpc = "reconcile"
  /\ p \in todo
  /\ broker[p] = "none" \/ "read_error" \in Events
  /\ todo' = todo \ {p}
  /\ UNCHANGED <<xpc, batch, cur, killSeen, seen, result, tries, store, outside>>

(* The broker's answer for a row ...                                        *)
ReconcileRow(p) ==
  /\ xpc = "reconcile"
  /\ p \in todo
  /\ broker[p] # "none"
  /\ cur' = p
  /\ result' = broker[p]
  /\ todo' = todo \ {p}
  /\ Goto("updating")
  /\ UNCHANGED <<batch, killSeen, seen, tries, store, outside>>

(* ... is written to it after the await, when the broker may be further on; *)
(* an order read dead leads to the release.                                 *)
UpdateRow ==
  /\ xpc = "updating"
  /\ SetOrder(cur, result)
  /\ result' = "none"
  /\ IF Releases(result) THEN Goto("releasing") /\ UNCHANGED cur
                         ELSE Goto("reconcile") /\ cur' = NoId
  /\ UNCHANGED <<batch, killSeen, seen, tries, todo, status, row, outside>>

(* _mark_broker_rejected.                                                   *)
ReleaseProposal ==
  /\ xpc = "releasing"
  /\ SetStatus(cur, "broker_rejected")
  /\ cur' = NoId
  /\ Goto("reconcile")
  /\ UNCHANGED <<batch, killSeen, seen, result, tries, todo, row, order,
                 outside>>

TickEnd ==
  /\ xpc = "reconcile"
  /\ todo = {}
  /\ Goto("idle")
  /\ UNCHANGED <<batch, cur, killSeen, seen, result, tries, todo, store, outside>>

ResetTrader ==
  /\ xpc' = "idle" /\ batch' = {} /\ cur' = NoId /\ killSeen' = FALSE
  /\ seen' = {} /\ result' = "none" /\ tries' = 0 /\ todo' = {}

(* An exception escapes to the supervisor: the tick ends where it stands.   *)
AbortTick ==
  /\ \/ "read_error" \in Events /\ xpc \in {"planning", "risk"}
     \/ "read_error" \in Events /\ xpc = "answered" /\ result = "duplicate"
          /\ action[cur] = "open"
     \/ "store_error" \in Events /\ xpc \notin {"idle", "placing"}
  /\ ResetTrader
  /\ UNCHANGED <<store, outside>>

------------------------------------------------------------------------------
(* The environment: the broker, the operator, the platform.                 *)

BrokerPartialFill(p) ==
  /\ "partial_fill" \in Events
  /\ broker[p] = "working"
  /\ action[p] = "open"
  /\ broker' = [broker EXCEPT ![p] = "partially_filled"]
  /\ held' = held \union {p}
  /\ UNCHANGED <<closes, store, cache, kill, trader, pick, pulse, dryRun, killEntries>>

BrokerFillEntry(p) ==
  /\ action[p] = "open"
  /\ broker[p] \in {"working", "partially_filled"}
  /\ broker' = [broker EXCEPT ![p] = "filled"]
  /\ held' = held \union {p}
  /\ UNCHANGED <<closes, store, cache, kill, trader, pick, pulse, dryRun, killEntries>>

(* A close can only fill against the position it closes.                    *)
BrokerFillClose(p) ==
  /\ broker[p] = "working"
  /\ action[p] = "close"
  /\ closes[p] \subseteq held
  /\ broker' = [broker EXCEPT ![p] = "filled"]
  /\ held' = held \ closes[p]
  /\ UNCHANGED <<closes, store, cache, kill, trader, pick, pulse, dryRun, killEntries>>

(* Canceled, expired or rejected after acceptance.                          *)
BrokerKill(p) ==
  /\ broker[p] \in {"working", "partially_filled"}
  /\ broker' = [broker EXCEPT ![p] = IF @ = "working" THEN "dead" ELSE "dead_partial"]
  /\ UNCHANGED <<held, closes, store, cache, kill, trader, pick, pulse, dryRun, killEntries>>

(* Closed by hand, assigned or expired, once its entry is done.             *)
PositionGone(e) ==
  /\ "external_close" \in Events
  /\ e \in held
  /\ broker[e] # "partially_filled"
  /\ held' = held \ {e}
  /\ UNCHANGED <<broker, closes, store, cache, kill, trader, pick, pulse, dryRun, killEntries>>

(* POST /admin/kill.                                                        *)
SetKillSwitch(engaged) ==
  /\ "kill_switch" \in Events
  /\ kill # engaged
  /\ kill' = engaged
  /\ killEntries' = 0
  /\ UNCHANGED <<store, cache, brokerage, trader, pick, pulse, dryRun>>

(* The process dies and is restarted, perhaps with DRY_RUN set another way: *)
(* the Store and the broker survive.                                        *)
Restart(mode) ==
  /\ \/ "crash" \in Events /\ mode = dryRun
     \/ "redeploy" \in Events /\ mode # dryRun
  /\ dryRun' = mode
  /\ ResetTrader
  /\ pick' = NoSymbol
  /\ ppc' = "idle" /\ pseen' = {} /\ left' = {}
  /\ UNCHANGED <<store, cache, kill, brokerage, killEntries>>

------------------------------------------------------------------------------
Init ==
  /\ status = [p \in Ids |-> "none"]
  /\ of = [p \in Ids |-> NoSymbol]
  /\ action = [p \in Ids |-> "none"]
  /\ lastId = 0
  /\ order = [p \in Ids |-> "none"]
  /\ cache = {}
  /\ kill = FALSE
  /\ broker = [p \in Ids |-> "none"]
  /\ held = {}
  /\ closes = [p \in Ids |-> {}]
  /\ xpc = "idle" /\ batch = {} /\ cur = NoId /\ killSeen = FALSE
  /\ seen = {} /\ result = "none" /\ tries = 0 /\ todo = {}
  /\ pick = NoSymbol
  /\ ppc = "idle" /\ pseen = {} /\ left = {}
  /\ dryRun = DryRun
  /\ killEntries = 0

StrategistStep ==
  \/ \E u \in Underlyings : StrategistPick(u)
  \/ StrategistPropose
  \/ StrategistDecline

PulseStep ==
  \/ PulseRead
  \/ \E u \in Underlyings : PulseWrite(u) \/ ProposeClose(u) \/ KeepPosition(u)
  \/ PulseExits
  \/ PulseEnd

PlaceStep ==
  \/ PlaceAccepted
  \/ PlaceDuplicate
  \/ \E r \in {"error", "duplicate"} : PlaceRefused(r)
  \/ PlaceUnanswered

TraderStep ==
  \/ TickStart
  \/ \E p \in Ids : \/ SkipKilledEntry(p) \/ RejectDuplicate(p) \/ AdmitEntry(p)
                    \/ CloseMissed(p) \/ CloseWithoutLegs(p) \/ CloseDryRun(p)
                    \/ PrepareClose(p)
  \/ RejectPlan \/ ReadPositions
  \/ RejectRisk \/ ApproveDryRun \/ Approve
  \/ PlaceStep
  \/ RecordEntry \/ RecordClose
  \/ LookUpDuplicate \/ RecordDuplicate
  \/ MarkProposal
  \/ StartReconcile
  \/ \E p \in Ids : ReconcileSkip(p) \/ ReconcileRow(p)
  \/ UpdateRow
  \/ ReleaseProposal
  \/ TickEnd

BrokerStep ==
  \E p \in Ids : \/ BrokerPartialFill(p) \/ BrokerFillEntry(p) \/ BrokerFillClose(p)
                \/ BrokerKill(p) \/ PositionGone(p)

Next ==
  \/ StrategistStep
  \/ PulseStep
  \/ TraderStep
  \/ AbortTick
  \/ BrokerStep
  \/ \E engaged \in BOOLEAN : SetKillSwitch(engaged)
  \/ \E mode \in BOOLEAN : Restart(mode)

Spec == Init /\ [][Next]_vars

(* run_agent restarts a step after every return or exception, so each agent *)
(* that can move eventually moves; nothing is assumed of the environment.   *)
FairSpec == Spec /\ WF_vars(TraderStep) /\ WF_vars(PulseStep)

------------------------------------------------------------------------------
TraderStates ==
  {"idle", "drain", "planning", "risk", "placing", "answered", "marking",
   "found", "reconcile", "updating", "releasing"}

TypeOK ==
  /\ status \in [Ids -> Statuses]
  /\ of \in [Ids -> Underlyings \union {NoSymbol}]
  /\ action \in [Ids -> {"none", "open", "close"}]
  /\ lastId \in 0..MaxProposals
  /\ order \in [Ids -> OrderStates]
  /\ cache \subseteq Ids
  /\ kill \in BOOLEAN
  /\ broker \in [Ids -> BrokerStates]
  /\ held \subseteq Ids
  /\ closes \in [Ids -> SUBSET Ids]
  /\ xpc \in TraderStates
  /\ batch \subseteq Ids
  /\ cur \in Ids \union {NoId}
  /\ killSeen \in BOOLEAN
  /\ seen \subseteq Ids
  /\ result \in Statuses \union BrokerStates \union {"ok", "error", "duplicate"}
  /\ tries \in 0..MaxRetries
  /\ todo \subseteq Ids
  /\ pick \in Underlyings \union {NoSymbol}
  /\ ppc \in {"idle", "write", "exits"}
  /\ pseen \subseteq Ids
  /\ left \subseteq Underlyings
  /\ dryRun \in BOOLEAN
  /\ killEntries \in Nat

Entries == {p \in Ids : action[p] = "open"}

(* An entry that is exposed at the broker: working, or a position.          *)
Live(p) == p \in held \/ broker[p] \in {"working", "partially_filled"}

(* An entry the Store knows to have reached the broker.                     *)
Tracked(p) == order[p] \notin {"none", "failed"}

(* The Strategist reads the active proposals, waits for the model, and      *)
(* writes without looking again; still no underlying ever has two active    *)
(* entry proposals.                                                         *)
OneActiveEntry ==
  \A p, q \in Entries :
    p # q /\ of[p] = of[q] => ~(p \in Active /\ q \in Active)

(* Two entries on one underlying are never both exposed at the broker and   *)
(* known to the Store, whatever crashes, aborts and lost answers happen,    *)
(* although positions and Store are read at different moments.              *)
NoDoubleTrackedEntry ==
  \A p, q \in Entries :
    p # q /\ of[p] = of[q] /\ Live(p) /\ Live(q) => ~(Tracked(p) /\ Tracked(q))

(* The entries known to the Store never exceed MAX_CONCURRENT_POSITIONS.    *)
ConcurrencyCap ==
  Cardinality({p \in Entries : Live(p) /\ Tracked(p)}) <= MaxConcurrentPositions

(* The kill switch is read before the last await of an entry: an order can  *)
(* slip past an engagement, but only the single one then being placed.      *)
KillBoundsEntries == killEntries <= 1

(* "No more than 1 trade per stock": known to the Store or not.             *)
OneTradePerStock ==
  \A p, q \in Entries : p # q /\ of[p] = of[q] => ~(Live(p) /\ Live(q))

(* Once the row of an order is dead, its proposal holds no slot any more.   *)
DeadOrderReleased ==
  \A p \in Ids : xpc \in {"idle", "drain"} /\ order[p] = "dead"
                   => status[p] \notin ActiveStatuses

(* Between ticks the Store knows every order working at the broker.         *)
NoOrphanOrder ==
  \A p \in Ids : xpc = "idle" /\ broker[p] \in {"working", "partially_filled"}
                   => order[p] \in InFlightStates

(* At most one close proposal is pending per underlying.                    *)
OnePendingClose ==
  \A p, q \in Pending :
    p # q /\ of[p] = of[q] => ~(action[p] = "close" /\ action[q] = "close")

(* Whatever crashes, aborts and lost answers happen, every proposal follows *)
(* the ledger: one order at most, sent while pending, settled once (the     *)
(* late news that its order died aside), and "submitted", "close_submitted" *)
(* or "broker_rejected" only if the broker took the order.                  *)
Ledger == INSTANCE ProposalLedger
            WITH state <- status, sent <- {p \in Ids : broker[p] # "none"}

FollowsLedger == Ledger!LedgerSpec

(* A process under DRY_RUN sends nothing to the broker, whatever an earlier  *)
(* process left in the Store.                                               *)
DryRunNeverTrades ==
  [][\A p \in Ids : dryRun /\ broker[p] = "none" => broker'[p] = "none"]_vars

(* Whatever the kill switch does, again and again no close is pending: the  *)
(* entries that stay pending under it never fill the batch.                 *)
ClosesDrain == []<>(\A p \in Pending : action[p] # "close")

(* Again and again every order the broker ended unfilled, of those the      *)
(* Store has a row for, has freed its proposal.                             *)
DeadOrderReleasedEventually ==
  []<>(\A p \in Active : ~(broker[p] = "dead" /\ order[p] # "none"))

(* Again and again the cache lists no position that is gone, although a     *)
(* tick writes back positions read before they went.                        *)
ClosedPositionLeavesCache == []<>(cache \subseteq held)
==============================================================================
