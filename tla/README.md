# options-m in TLA+

options-m is an autonomous options trader: one Python process, one asyncio
event loop, a handful of agents that each repeat a step, a Store (Postgres, or
dictionaries in memory) they share, and a broker reached through an MCP server.
Nothing runs in parallel, but every `await` lets another agent run, the process
may die at any of them, and the broker is a remote system whose answers may be
lost. These modules model that behaviour, TLC checks them on small instances
and TLAPS proves the main properties for every value of the constants.

Paths below are relative to `src/options_m/` in the repository.

## The system

| Component | State it keeps | Operations | What makes it correct |
|---|---|---|---|
| Strategist (`agents/strategist.py`) | none of its own | filter the universe on positions and active proposals, ask the model, decide by the matrix, save a proposal | never proposes an underlying that is already taken, although it waits for the model between look and write |
| Trader (`agents/execution.py`) | `_active_order_id`, the re-pricing memory | drain pending proposals, build and risk-check an order, place it, record it, reconcile working orders | one order per proposal; the Store and the broker agree in the end; limits hold |
| PositionManager (`agents/position_manager.py`, `exits.py`) | none of its own | read positions, enrich, rewrite the cache, write close proposals | the cache follows the broker; one close per position |
| Risk engine (`risk.py`) | none | thirteen checks over a snapshot | a snapshot gathered over several awaits still bounds what is open |
| Store (`store.py`, `schema.sql`) | proposals, orders, positions, kill switch, evidence, lessons, calendar, history | each method is one transaction | queries that select what their callers think they select |
| Broker client (`mcp_client.py`) | session, reconnect lock, corroboration | connect, call with retries, reconnect | a retried write is not a second order; sessions are not torn down under each other |
| Supervisor (`agents/__init__.py`, `lifecycle.py`, `__main__.py`) | failure count and back-off per agent, a stop event | run a step, back off, stop | one failing agent neither stops the others nor itself for good |
| MarketPulse (`agents/market_pulse.py`, `session.py`, `iv_backfill.py`) | which symbols' history it has tried; sole writer of the calendar, the equity curve, IV history and evidence | refresh the calendar, read the account, rebuild IV history, collect evidence | no session is invented; the series that are ranked and counted are what their readers think |
| Decision and order building (`matrix.py`, `earnings.py`, `strategy_builder.py`, `volatility.py`) | none | evidence to a structure, a structure and a chain to legs, limit and worst case | defined risk; max_loss is the worst case |
| Sizing and exposure (`sizing.py`, `exposure.py`) | none | account, history and conviction to contracts; positions and evidence to greeks | bounded by the limits the risk engine enforces; a loss never makes the next trade bigger |
| Language model (`llm.py`) | the day's token count, the tokens of the last answer | `chat_completion`, `complete_json` | the budget is the day's; two agents share the counters |
| Reflection (`agents/reflection.py`) | none | a lesson for each filled order and each held or rejected proposal | one item that fails does not keep the others from theirs |
| Notifier (`notify.py`) | bounded queue, its count of unfinished tasks, deduplication window | notify, send, aclose | trading never waits for Telegram; a shutdown flushes and ends |
| API, chat, CLI, trace (`api.py`, `chat.py`, `cli.py`, `trace.py`) | none | read; `POST /admin/kill` writes the kill switch | the switch is seen by every agent |

The agents interact only through the Store, the broker, and the two clients
they share (`AlpacaMcp`, `FeatherlessLlm`):

    MarketPulse ──calendar, evidence, equity curve──▶ Store
                                                        │
    Strategist ──pending entry──▶ proposals ──▶ Trader ──order──▶ broker
        ▲                            ▲             │ ▲              │
        │ positions cache            │close        │ └─reconcile────┤
        └──────────────── PositionManager ◀────────┴───positions────┘
    operator ──▶ kill switch ──▶ Strategist, Trader
    Strategist, Reflection ──▶ language model      all ──▶ Notifier

The hard behaviour is where these overlap: reads gathered over several awaits
and used later, three writes (broker, order row, proposal status) that are not
one transaction, writes retried after a lost answer, restarts between any two
of these, and a cache written back from an older read. `PROJECT.json` lists
each hazard at its line.

## Modules

### OrderFlow

The life of a trade across Strategist, Trader, PositionManager, Store and
broker. An action is the code between two awaits whose order matters.

- Store: `status`, `of` and `action` are the columns of `proposals`; `lastId`
  is its sequence; `order` is the status of the one `orders` row a proposal
  may have (`om-<id>` or `omc-<id>`); `cache` is the `positions` table, as the
  entries whose legs its rows list; `kill` is the kill switch. The queries are
  operators with the names of the methods (`OldestPending`,
  `ActiveUnderlyings`, `WorkingUnderlyings`, ...).
- Broker (external): `broker` is the broker's state of an order, `held` the
  entries whose position is open, `closes` the legs a close order sells. It
  accepts or refuses, keeps client order ids unique, fills in one piece or in
  two, cancels; an answer may be lost after the order was taken.
- Strategist: `StrategistPick` is everything up to the await of the model;
  `StrategistPropose` and `StrategistDecline` are what follows.
- PositionManager: `PulseRead` is the gathered reads, `PulseWrite` one symbol
  of `replace_positions`, `PulseExits` / `ProposeClose` / `KeepPosition`
  the loop of `evaluate_close_proposals`. Which exit rule fires is open.
- Trader: `xpc` is where the coroutine is suspended. `TickStart` reads the
  switch and the batch; an entry goes through `AdmitEntry` (or
  `RejectDuplicate`, `SkipKilledEntry`), `ReadPositions`, `Approve` (or a
  refusal), the `Place...` actions, `RecordEntry`, `MarkProposal`; a close
  through `PrepareClose` (or `CloseMissed`, `CloseWithoutLegs`, `CloseDryRun`),
  `Place...`, `RecordClose`, `MarkProposal`; then `StartReconcile`, for each
  row `ReconcileRow`, which reads the broker, and `UpdateRow`, which writes what
  was read (or `ReconcileSkip`), `ReleaseProposal`, `TickEnd`. An entry whose
  placement failed is looked up by its client order id (`LookUpDuplicate`) and
  recorded after that await as what was found (`RecordDuplicate`).
- Faults, chosen by the constant `Events`: the kill switch thrown at any time,
  partial fills, positions that disappear, lost answers, failing reads and
  writes (`AbortTick`: the exception escapes to the supervisor and the step
  ends where it stands), a crash, a redeployment with `DRY_RUN` changed.

Abstracted: prices, sizes, evidence, the model's answer, and every check of
the risk engine that reads them. These may go either way at any time
(`RejectPlan`, `RejectRisk`), so the properties do not depend on them. The
cooldown and the daily caps only choose among eligible symbols. `working`
stands for every broker status that is neither filled nor settled, `dead` for
canceled, expired, rejected and done_for_day with nothing filled,
`dead_partial` for the same after a partial fill. Re-pricing of closes
is off (CLOSE_REPRICE_MAX_ATTEMPTS = 0).

### ProposalLedger

What the order flow promises about each proposal without agents, awaits or
transport: written once, at most one order, taken while pending, settled once,
and called submitted, close_submitted or broker_rejected only if the broker
took the order. `OrderFlow!FollowsLedger` is this specification under the
mapping `state <- status`, `sent <- {p : broker[p] # "none"}`.
A dead order's news may reach a proposal in almost any state, because a tick
cut short leaves the proposal pending or refused with its order live; this is
what the code does, and the ledger says so.

### PositionCache, CloseReprice, ClosePath

`PositionCache` is how the PositionManager links a cached position to the
proposal that opened it: the broker shows the position as soon as it fills,
the order row says so after the next reconciliation, and the gathered reads
return in any order. A strategy is abstracted to its family.

`CloseReprice` is one working close order: `ReadOrder` reads the order that
`_active_order_id` names and decides on the rung its age calls for,
`ReplaceAccepted` / `ReplaceRefused` / `ReplaceUnanswered` are the outcomes of
the replacement (a new order at the broker), `WriteRow` is
`update_order_status`, `ReleaseClose` is `_mark_broker_rejected`. Limits are in
cents and targets in hundredths of a cent, so `_decimal_str`'s rounding half to
even is exact for integer marks; binary floating point is not modelled.

`ClosePath` composes them: the strategy the cache believes in is what the
close is priced by (`Exit`), its fill removes the position (`CloseFills`), a
restart drops what both agents had read.

### McpSession, Process

`McpSession` is `AlpacaMcp` as its callers share it: `cpc` is the await at
which each caller is suspended in `call()`, `lock` the `asyncio.Lock` as its
holder followed by its waiters, `client` the attribute `_client`, `servers` the
subprocesses that run. `Attempt`, `CallAnswered`, `CallBroken` and `Backoff`
are the retry loop; `Drop` / `Dropped` are `_reconnect_quietly`; `Reconnect`,
`Closed`, `Entered`, `Listed` and `ConnectFailed` are `_reconnect`, with
`_client` cleared before the subprocess has exited and set before its tools
are listed, as in the code.

`Dropped` and `Closed` end the subprocess whatever `__aexit__` of the client
does: `_close_locked` logs and swallows what it raises, and that the subprocess
is gone even then is an assumption about fastmcp, which is not part of the
repository. `OneServer` and `ExitLeavesNoServer` rest on it.

`Process` composes it with the supervisor: Main boots (`connect()`, then the
corroborating call, outside the lock), agents repeat steps that each make a
call, failures are counted, a stop signal comes at any time, and the session is
closed when the task group has ended. `BackoffOverflows` is the computation of
`2 ** (failures - 1)` past what a float holds (1025 failures in a row): it
happens outside the `try`, so it ends the process, although the docstring of
`agents/__init__.py` says that a failing agent must never take it down.

### TradeDecision

How one entry is decided, built, sized and judged, as a state machine over the
pure algorithms below. `Propose` is the Strategist's decision on cached
evidence, `AskToPlan` an operator's `plan`; `ReadAccount` is the first read of
the Trader's tick, `BuildPlan` those of the spot, the chain, the shares and the
equity curve; `Judge` reads positions, equity history and the clock and holds
the plan against the account read at first (`JudgedAccount`). `EquityMoves`,
`PulseRecords` (`append_equity`) and `NextSession` are what happens in between:
the equity moves and is recorded between any two of these reads. A proposal may
wait over a session boundary, a tick of the Trader may not.

What a plan makes is counted for the whole order (`Payoff`): its legs times its
quantity, and the held shares that stand behind its calls, a hundred to each
call and no more than are held (`Covered`). Shares that already stand behind a
call sold earlier are not subtracted; the code does not look at them either.

| Module | Code | What it holds |
|---|---|---|
| `Chain` | `strategy_builder.py`, `volatility.py` | contracts joined with quotes, deltas recovered from a solved volatility, the liquidity gate, the strike ladder |
| `StrategyMatrix` | `matrix.py`, `earnings.py` | trend and price of volatility to a structure, level fallback, vetoes, the intent |
| `PositionSizing` | `sizing.py` | the scalars, the clamp, buying power and cash caps, `SizingState` |
| `StrategyBuilder` | `strategy_builder.py` | `SingleTypePlan`, `StranglePlan`, `CreditPlan`: legs, limit, worst case, size, or `Rejected` |
| `RiskEngine` | `risk.py` | every check as a predicate of plan, snapshot and limits |
| `Exposure` | `exposure.py`, `execution.py` | greeks and premium of the book and of the plan |
| `Requests` | `execution.py` | the chain window, the opening order, the legs of a close |

A list of contracts is a function from places in the broker's listing: a
comprehension of the code that filters restricts it, and the code's stable
`min` takes the least place among the best. Each early return of the builder is
a conjunct, in its order; which one refused is not kept. Prices are whole cents, so a price is also the dollars one
contract costs; risk fractions are basis points, other ratios percent, rounded
down where the code keeps a float. The normal distribution is a straight
line between 1 and 99 percent: the builder only compares deltas with each
other and with a target. `max_loss` is per contract here and per order in the
code.

### Notifier

`queue` and `unfinished` are the `asyncio.Queue` and the count its `join()`
waits for, `recent` the deduplication keys inside the window, `sending` what
`_drain` has in hand, `bridge` whether the ERROR handler is attached. `Notify`
is `notify()` with its drop of the oldest; `Announce` and `LogError` its
callers; `Stop` is the `finally` of `run()` up to the await, `Flushed` and
`JoinTimesOut` the two ways `aclose` returns; `TakeNext` and `SendEnds` are
`_drain`.

### LanguageModel

One client and its two callers. `budgetDate`, `usedToday` and `lastTokens` are
its attributes; `Respond` is a readable response. `spc` is where the Strategist
stands (`StrategistAsks`, the answers, `StrategistRecords`), `captured` what it
will record. `rpc`, `pass`, `todo` and `item` are where Reflection stands in
its two passes, `lessons` the table. `spent` and `answered` are history:
what the day's responses reported, and the tokens of the last own one.

### MarketPulse

`calendar` is the table `market_calendar` as the days it has a row for,
`backfilled` and `attempted` are the attributes of that name, `ivs` is
`iv_history` as readings `[day, source]`. `CalendarFetched`, `CalendarLost` and
`CalendarKept` are `_ensure_calendar_fresh`, which is answered in full, from
today on only, not past the margin, or with no session (`Answers`); `fetches`
counts what a process stores in a day and `truncated` says that an answer did
not reach back; `Gate` is `session.current`;
`BackfillHistory` and `CollectEvidence` the rest of a step; `Restart` begins
over the tables of the last process, or over empty ones without a database.
`FlattenActive` is `_campaign_flatten_active` of `exits.py`, its reader. The
account and the equity curve, which the same step writes, are TradeDecision's.

## Runs

### Order flow (`MC_OrderFlow`)

Bounds: two proposals where every fault is on, three for the portfolio. An
underlying and two proposals are what exclusivity needs: a position or a dead
order, and the next entry on the same underlying. Proposals 1 and 2 share an
expiry and 3 has another, so structures both merge and differ. The cap needs
one underlying more than there are slots.

| Run | Instance | Faults | Shows |
|---|---|---|---|
| faults | one underlying, two proposals | crash, redeploy, lost answers, failing reads and writes, partial fills, positions that vanish | `OneActiveEntry`, `NoDoubleTrackedEntry`: exclusivity of an underlying, over restarts between any two awaits; the refinement `FollowsLedger`; `DryRunNeverTrades`; `TypeOK` |
| portfolio | three underlyings (symmetric), three proposals, two slots | kill switch, failing reads | `ConcurrencyCap`, `KillBoundsEntries`; `NoOrphanOrder`, `DeadOrderReleased`: between ticks the Store knows the live orders and has freed the dead ones |
| progress | one underlying, batches of 1 and 2 | kill switch, lost answers | `ClosesDrain`: entries that stay pending under the switch never keep a close from its turn; `DeadOrderReleasedEventually`; `ClosedPositionLeavesCache` |

`NoOrphanOrder` and `DeadOrderReleased` are about a process that is not
killed: a crash between the broker's answer and the order row leaves an order
nobody polls, although `execution.py:16` says that every open order is polled
each tick, and a crash (or a failing write) between the row of a dead order and
the release of its proposal leaves the proposal `submitted` for ever: the
settled row is not selected again (`OrdersInFlight`), and nobody else releases.
No property of a passing run covers that case; `UpdateRow` and
`ReleaseProposal` are actions of their own, so the `faults` run goes through it.

In `progress`, `PendingBatch = 1` and `KilledBatch = 2` are scaled from 5 and
50 in the code; the larger batch is the one that always contains a close
behind the entry that can be stuck. One underlying is enough for that, because
an entry whose answer was lost releases its underlying and a second entry on
it can be pending ahead of a close. With 50 or more entries pending under the
switch the code would starve a close too; the Strategist does not write
entries while the switch is on, and an underlying has at most one active entry
(`OneActiveEntry`), so the universe would have to be larger than 50.

Fairness (`FairSpec`): weak fairness of the Trader's step and of the
PositionManager's step. `run_agent` repeats a step after every return or
exception, so an agent that can move does. No fairness is assumed of the
Strategist, the broker, the operator or any fault. The liveness run has no
failing reads: a read that fails at every tick stops everything, in the code
too. Its properties have the form []<>P: from every state on, P holds again.

### Close path (`MC_ClosePath`)

One underlying, one entry, one close. A mark of 5 cents with a nudge of 25 %
has rungs that round up, down and half to even; one re-pricing rung (and the
urgent one) tell a capped ladder from an uncapped one, and three broker orders
make a chain with a middle.

| Run | Instance | Shows |
|---|---|---|
| closepath | lost answers, one restart | `LimitWithinLadder`: whatever ticks are lost, no order of the close is priced below its first or beyond its last rung; `EnrichedEventually`: a position cached too early is still linked to its proposal; `RowSettles`: a finished close stops being polled, whichever order of the chain its row points at |

Fairness: the PositionManager's and the Trader's steps, as above. Nothing is
assumed of the broker.

### Process (`MC_Process`)

Main and two agents, one retry, three sessions, one tolerated failure in a row.
Two agents are what a race for the session needs; Main is a third contender at
shutdown. `CHECK_DEADLOCK` is off because the process exits.

| Run | Shows |
|---|---|
| process | `OneServer`: two MCP servers never run at once; `CallsEnd`: no caller waits for ever, at boot, in a burst of failures or at shutdown; `ShutdownCompletes`; `ExitLeavesNoServer`; `TypeOK` |

Fairness: weak fairness of Main and of each agent. The event loop runs every
coroutine that is ready and a tool call has a timeout. Starting, listing and
closing the subprocess (`__aexit__`) have none in the code, and happen under the
lock; that they end is an assumption. The stop signal is not assumed to come.

### Decisions (`MC_TradeDecision`)

A *world* is a deployment and what it meets: settings, evidence, chains,
accounts, holdings, closed trades. Four worlds run together. The two
`structure` worlds put every structure the matrix can name, and those only an
operator can ask for, on chains that go wrong in the usual ways: an uneven
ladder, deltas left over from before a move (the 25-delta strikes have
crossed), no greeks at all, a wing too wide or too thin, no last trade. The two
`size` worlds put one structure on an account at 94, 100, 102 and 104 % over a
campaign of two sessions, with no, good and bad closed trades. One world of
each pair runs without a campaign and with loose limits. Strikes stand 5 %
apart, so that every structure has two wings within the quarter of the spot
that is fetched.

| Run | Shows |
|---|---|
| decision | `WorstCaseIsMaxLoss`, `StatedProfitIsReal`: the payoff of the whole order at every kink, with the shares that stand behind it, against what the plan states, for every entry that is sent (`HeldToItsWord`); `LimitBetweenMidAndTouch`: sign and nudge of the limit; `SizeFitsCeilings`: sizing and the risk engine judge by one account while equity moves; `StructurePasses`: builder and risk engine agree; `SoldOnlyAtLevel3`; `HoldsASession`; `NoPartialExposure`; `CloseFlattens`; `NoMartingale` |

### Around the core (`MC_Desk`)

Three modules that share no variable, run as three parts of one instance: a
behaviour is one of a single part, so the states add up.

| Part | Bounds | Shows |
|---|---|---|
| Notifier | two messages, a queue of two: full with the last message still to come | `TasksAccounted`; `LastWordIsStop`; `NotifierCloses` |
| LanguageModel | two days, a budget of two answers, one hopeless order and one proposal behind it | `BudgetCountsToday`; `OwnTokensRecorded`; `OthersReflected` |
| MarketPulse | Friday to Tuesday (Monday is day 1), a campaign over the weekend, two sessions long; lookback 4 days, scaled from 7 as the campaign is from 3 sessions; a rank window of two sessions | `NoInventedSession`; `CalendarFetchBounded`; `FlattensFinalSession`; `RankWindowKeepsLive` |

Fairness (`DeskSpec`): `aclose` waits with `asyncio.wait_for`, which fires
(`Flushed` or `JoinTimesOut`), while a send may hang for ever. Reflection's
step is repeated by `run_agent`. For an item that is not hopeless the provider
gives, among infinitely many requests, an answer with text, and among
infinitely many writes of its lesson one commits (strong fairness). Nothing is
assumed of Telegram, the Strategist, the pulse or the passing of time.
`FlattensFinalSession` rests on calendar answers that reach back as asked
(`truncated`); without that the session count may be short. An answer that
holds no session at all does no harm to it. `CalendarFetchBounded` counts the
answers that reach past the margin: one that does not is asked for again at
every tick, and the code has no bound on that.

### Disagreements

Runs that find the code at odds with what it says (each is a finding in
`PROJECT.json`):

| Run | The statement | What the code does |
|---|---|---|
| v_pending_close | "one close proposal per position" (`exits.py:134`) | the query behind the deduplication does not select `intent`, so closes pile up |
| v_stock | "no more than 1 trade per stock" (business.md:388) | broken after a lost answer: the failed entry is invisible to the Store, its order may be working |
| v_chain | `broker_rejected` is for orders the broker is done with (`execution.py:1076`) | a tick that does not re-price forgets the replacement's id; the next one reads the replaced original and rejects the proposal while the replacement works. No fault is needed |
| v_direction | an exit of bought premium must not move away from the market (`exits.py:43`) | a position cached before its entry row is recorded as filled gets the strategy `""` for good, and the close of a long is priced upwards. No fault is needed |
| v_peak | "down more than 8% from its peak, no new trades" (business.md:393) | the peak is the largest of the newest 500 rows of the equity curve, which gets one a minute: it is forgotten after about eight hours |

Others were met while modelling and are visible in the modules.

- Covered calls: a covered call is refused when fewer than 100 shares are held
  whatever its quantity (`strategy_builder.py:1311`), and sizing knows no cap of
  shares. Two calls are built on 100 shares, and the loss of the second has no
  bound, although `risk.py:189` says that short calls are covered "by shares /
  cash by construction" and business.md:396 that "every structure must have a
  finite, calculated maximum loss". The `decision` run reaches such plans; it
  takes a quantity of two or more, which default settings give on an underlying
  below 10 dollars for an account of 100 000. The matrix never names a covered
  call. Only the operator's `plan` (`cli.py`) does, which prints the plan with
  its verdict, an approval in some of the run's worlds, and sends nothing
  (`SubmittedIfApproved`; a mutant that sends the operator's plan too breaks
  `WorstCaseIsMaxLoss`). `WorstCaseIsMaxLoss` and `StatedProfitIsReal` hold what
  is sent to what it states, however many shares there are (`HeldToItsWord`); of
  the plans an operator is only shown they leave out those that have more calls
  than their shares cover (`CallsHaveShares`), of which they are false.
- After a crash or a failing write between the row of a dead order and the
  release of its proposal, the proposal stays `submitted`, which is what the
  release is there to prevent (`execution.py:1078`).

- Order flow: closes are executed under the kill switch although
  business.md:394 says they are not (`TickStart` takes them from the larger
  batch); a timed-out submission is recorded `failed`, which `store.py:39`
  explains as "never reached it"; a filled entry stays `submitted`, so its
  underlying stays refused after the position is closed; a limit that
  `_decimal_str` rounds short of the unrounded target is never "caught up", so
  the order is replaced by one at the same price on every tick.
- Broker client: a caller that waited for the lock tears down the session
  opened meanwhile and spawns its own, although `mcp_client.py:223` says that
  a burst of failing agents cannot spawn a subprocess each; the log line of a
  failed corroboration says that writes stay blocked until it succeeds, and it
  is never tried again.
- Sizing: the docstring of `sessions_between` says that counting too few
  sessions sizes down, and it sizes up (`HorizonScalar`); "every scalar moves
  size down after losses" does not hold across days, as the daily taper starts
  afresh (`NoMartingale` is about one session); the opening mark of a campaign
  is forgotten like the peak.
- Limits: open premium and exposure leave resting orders out (`OpenPremium`);
  the default premium limit of one trade (0.20) is above that of all (0.15); a
  covered call passes the sizing and may fail the buying-power check, which
  says that it is the same resolution (`SizeFitsCeilings` excepts it); an
  account of level 1 gets long singles; the level is the one the last pulse
  cached, or the configured one, and nothing asks the account again before an
  order (`SoldOnlyAtLevel3` is about the level in the evidence, a refusal by the
  broker is `PlaceRefused` of OrderFlow); a covered call below the spot states
  a profit that leaves out the loss on the shares (`StatedProfitIsReal` excepts
  it).
- Reflection asks about every settled item again in every pass, although
  `store.py:1387` says that an order is reflected on at most once: only the
  write is idempotent, and each answer counts against the budget the Strategist
  shares. Of a repaired call only the repair's tokens are recorded, and after
  two failed transports those of whichever agent was answered last.
- Notifier: a text that was dropped from a full queue, or whose send failed,
  counts as sent until its window has passed (`Notify`).
- Calendar: a closure the exchange announces after its day was cached is not
  seen until the cache runs out; `market_pulse.py:278` excludes a refetch at
  every tick for what lies behind today only, not for an answer that is short
  ahead (`CalendarFetched`); `architecture/technical.md` still says that
  there is no flatten at the end of a campaign.

## Proofs

`ClosePath_proofs` proves `LimitsStayOnLadder` (`LimitWithinLadder`), for every
mark, nudge and number of rungs. The argument: rounding half to even is
monotone (`RoundingMonotone`), so is the ladder (`LadderMonotone`), the rung an
age calls for is one of it (`DueOnLadder`), and a replacement under way is
aimed at such a rung, which no later step changes.

`Process_proofs` proves `ProcessTypesOK`, `OneServerAlways` (`OneServer`) and
`CleanExit` (`ExitLeavesNoServer`), for any number of agents, retries and
sessions. `LockInv` says that the lock queues callers once each and that
whoever is inside is first; `ServersInv` that the only server is the session's
or the one being closed; `StageInv` that Main closes the session after the
last agent has stopped.

`OrderFlow_proofs` proves, for every universe, number of proposals, limits and
set of faults:

- `TypesAlwaysOK`: `TypeOK`.
- `ActiveEntriesExclusive`: `OneActiveEntry`. The invariant `Exclusive` says
  why the look-then-write of the Strategist is safe: the picked symbol is held
  by no active entry, because only the Strategist creates entries and no
  settled proposal becomes active again.
- `KillSwitchBoundsEntries`: `KillBoundsEntries`. `KillCounts` says that the
  count is zero as long as the entry now being placed was approved
  before the engagement.
- `TrackedEntriesExclusive` and `TrackedEntriesCapped` (premise
  `MaxPositionsPerUnderlying = 1`, the configured value): `NoDoubleTrackedEntry`
  and `ConcurrencyCap`. `Placed` carries the argument: a tracked live entry is a
  position or a working row or an active proposal at the moment the risk check
  reads them, in this order, and nobody but the Trader places entries, so what
  the check allowed is still allowed when the broker takes the order.
- `OrderFlowFollowsLedger`: `FollowsLedger`. `Vouched` says that a result or a
  row that names a broker state has an order behind it. `ReadTrue` says that
  what the Trader has read of an order and not yet written is still so when it
  is final: a broker's state may move on during an await, but not out of an end.
- `DryRunSendsNothing`: `DryRunNeverTrades`. `PlacesOnlyLive` says that the
  Trader is about to place only in a live process, and a redeployment, which
  alone changes that, takes the tick with it.
- `DeadOrdersHoldNoSlot`: `DeadOrderReleased`, under `TicksRunOn` (no store
  error, crash or redeployment in `Events`). `RowsLast` says that a pending
  proposal has no order row, but for the one being marked; `Releasing` that the
  one active proposal with a dead order is in the Trader's hand.
- `EveryWorkingOrderIsKnown`: `NoOrphanOrder`, under `TicksRunOn` and
  `AnswersArrive` (no lost answer). `Known` says that a working order has its
  row, or is the one whose answer has just arrived. Both hypotheses are
  the events that the `portfolio` run leaves out; with them the properties are
  false, which the `v_stock` run shows of a lost answer.

Each is proved from an inductive invariant, one step per action, in layers:
`Coherent` (types, drawn ids, what the Trader has in hand), then `Exclusive`,
`KillCounts`, `Placed` and `Vouched` over it. The invariants were model-checked
before they were proved. Assumptions: those named in `OrderFlow`, of which
`InFlightAssumption` (at most 50 proposals) stands for the LIMIT 50 of
`orders_in_flight`.

`Notifier_proofs` proves `CountIsExact` (`TasksAccounted`) and
`StopIsTheLastWord` (`LastWordIsStop`), for every queue size. The first is
inductive with the types. The second needs what is true while the process
shuts down: the bridge is gone, so the stop message is the last of the queue,
or what is being sent with nothing behind it, or what was handed over last.

`LanguageModel_proofs` proves `BudgetIsTodays` (`BudgetCountsToday`) and
`OwnTokensAreRecorded` (`OwnTokensRecorded`), for every budget, usage and
number of items. A counter of an earlier day stands for a day in which nothing
has been reported yet; what the Strategist captured when its call returned is
its own, and Reflection's answers change only the client's counters.

`MarketPulse_proofs` proves `SessionsAreReal` (`NoInventedSession`) and
`FlattenIsInFinalSession` (`FlattensFinalSession`), for every calendar,
campaign, lookback and sequence of restarts. The invariant is that the cache is
a union of windows: as long as every answer reached back, a session it holds
came with every session from its fetch's lookback to itself (`FetchedOn`), and
so with either the whole campaign or more sessions of it than it has
(`LookbackCoversCampaign`). Also `CalendarIsFetchedOnce`
(`CalendarFetchBounded`): once a fetch of the day has stored an answer that
reaches as far ahead as was asked, nothing asks again, because that is past the
margin (`HorizonPassesMargin`); and `RankKeepsLiveReadings`
(`RankWindowKeepsLive`): a back-fill stops before today and runs only where
readings are missing, so a day with readings of both kinds has a whole ranked
window of later days behind it (`HistoryInv`), and no day is ever taken out.

`PositionSizing_proofs` proves theorems about the operators themselves.
`LossNeverSizesUp`: of two accounts with the same past, the one with less equity
risks no more. Every step, with its rounding down, is monotone: division,
taper, clamp and product. `SizeFitsTheCeilings`: a size that is not zero keeps
`loss * size` within the per-trade ceiling and the usable buying power. The
lemmas on `Total`, `Smallest` and `Largest` are there too. `Total` is a recursive
function; what it returns is proved by taking the least index at which it would
fail, so no induction theorem is needed.

`TradeDecision_proofs` proves every invariant of the `decision` run, for every
world: every set of chains, accounts, holdings, closed trades, evidence and
requests, and all settings of their types.

- `NothingSoldBelowLevel3` (`SoldOnlyAtLevel3`), `SessionsLeftToHold`
  (`HoldsASession`). `DecisionInv` says that a plan in hand was built from the
  intent, the intent from its evidence, and its size was not zero with the
  session number of this day; and that what is sent came from the matrix.
- `NoPlanLosesMore` (`WorstCaseIsMaxLoss`) and `NoPriceLosesMore`, which is the
  first for every price of the underlying: TLC can only look at the ends between
  which the payoff is straight. Like `StatedProfitsAreReal` they hold of every
  entry that is sent: the lemma `SentCallsAreCovered` shows, from `DecisionInv`,
  that none of these is a call without its shares. The plans they leave out are
  an operator's, shown and never sent, with more calls than shares.
- `StatedProfitsAreReal` (`StatedProfitIsReal`), `SizeAndRiskAgree`
  (`SizeFitsCeilings`), `LimitsInsideTheMarket` (`LimitBetweenMidAndTouch`),
  `BuiltPlansPass` (`StructurePasses`).
- `ClosesWhatIsHeld` (`CloseFlattens`), `LessEquityLessRisk` (`NoMartingale`),
  `WholeBookOrNothing` (`NoPartialExposure`).

The argument for plans goes upwards through the code. A filter of the chain is a
*part* of it: the same contracts at the same places (selections are functions
from places in the listing, so a part needs no renumbering). What a search
returns is in the selection it searched, and a wing is beyond its short; the
difficult case is the partner of a debit vertical, which is beyond its primary
only because no two strikes are nearer than one increment (`SecondaryIs`). Each
shape of structure has its payoff worked out leg by leg (`...Ends`), with its
worst end, best end and breakeven. Each builder then returns a `Sound` plan or
a rejection, and so does `build` (`BuildIsSound`). `PlanInv` carries this
through the state machine: it is needed because `Judge` and `Submit` act on a
plan built in an earlier step, while equity, holdings and the clock move on.
What keeps it is that the account the plan was sized on is the one it is judged
on (`read`).

Four hypotheses stand in these theorems, not in the modules' assumptions, each
where it is needed; the worlds of the run meet all of them (`HypothesesMet` in
`MC_TradeDecision`):

| Hypothesis | Asked by | Why it is not an assumption |
|---|---|---|
| `NudgeAtMostHalf` | `StatedProfitsAreReal`, `SizeAndRiskAgree` | `config.py:111` admits a nudge of up to the whole spread, 0.25 by default. Above half of it, the premium of a covered call or a cash-secured put on a wide, cheap quote comes out negative, though `_price` calls its result "a positive number either way" (`strategy_builder.py:1214`); its breakeven is then none |
| `NudgeUnderHalf` | `LimitsInsideTheMarket` | as above; at exactly half, the rounding of a middle to a whole cent may carry a limit across the market |
| `QuotesNotCrossed` | `LimitsInsideTheMarket` | the liquidity gate lets a crossed quote pass |
| `WindowsInside` | `BuiltPlansPass` | an operator's `plan` may ask for any window of expiries, which the risk engine then refuses |

Each of these is again an inductive invariant with one step per action.
Assumptions on the constants are those named in the modules; the one on worlds
(`WorldsAssumption`) only gives types, as `config.py`, `models.py` and Alpaca
declare them.

Liveness (`ClosesDrain`, `DeadOrderReleasedEventually`,
`ClosedPositionLeavesCache`, `EnrichedEventually`, `RowSettles`, `CallsEnd`,
`ShutdownCompletes`, `NotifierCloses`, `OthersReflected`) is model-checked
only: the prover does not reason about fairness.
Every invariant and action property of the passing runs is stated by a
theorem.

## Not modelled

- Threshold exits (`close_reason`): which of them fires depends on P&L, days
  and age, which are data; `ClosePath` leaves the choice open, and no property
  depends on it. A property about the ladder alone would restate it.
- Refusals of write tools by `AlpacaMcp` (dry run, uncorroborated account, tool
  allowlists): each is one guard, and `DryRunNeverTrades` is checked on the
  level of the agents.
- Prompts, wording, parsing of broker answers, TelegramReporter, chat, trace,
  the read API, the health endpoint, and the rows of candidates, agent runs and
  risk events: reading, formatting, or records for the operator.
- The evidence cache and the ranked candidates as tables: which symbol comes
  first, and whether its pack is too old to use, only choose among the packs
  that TradeDecision draws from a set.
- Indicators and the assembly of an evidence pack: floating-point statistics
  without state; the matrix takes the values they end in.
- Backtests and scripts: offline tools that the running system does not use.
- A row whose processing raises at every tick (`execution.py:44`) starves the
  rows behind it; the code has nothing that skips a row, so only the assumption
  that there is none could be stated. The liveness runs make it.
- Binary floating point. Amounts are integers; where a float is rounded in the
  code (`_decimal_str`) the rounding is exact.
