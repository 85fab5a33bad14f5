----------------------------- MODULE MarketPulse -----------------------------
(***************************************************************************)
(* MarketPulseAgent as the sole writer of the session calendar and of the  *)
(* history of implied volatility, and the readers of both: the session     *)
(* gate every agent shares, the end-of-campaign flatten of the exits, and  *)
(* the daily series IV rank is computed on.                                *)
(*                                                                         *)
(* A day is a number, and a row of the calendar cache is its day: the      *)
(* hours in it are the broker's.  Within a day the clock is before the     *)
(* open, in the session, in the minutes before the close in which a        *)
(* campaign is flattened, or after the close.  An implied volatility is    *)
(* abstracted to where it came from.                                       *)
(***************************************************************************)
EXTENDS Integers, FiniteSets

CONSTANTS
  Universe,         (* the symbols followed                                 *)
  Sessions,         (* the days the broker's calendar lists                 *)
  FirstDay, LastDay,  (* bound: the days of a behaviour                     *)
  Lookback,         (* market_calendar_lookback_days                        *)
  Horizon,          (* market_calendar_horizon_days                         *)
  Margin,           (* market_calendar_refresh_margin_days                  *)
  CampaignStart,    (* campaign_start_date                                  *)
  CampaignDays,     (* campaign_days                                        *)
  RankWindow,       (* iv_rank_window_days                                  *)
  SymbolsPerTick    (* iv_backfill_symbols_per_tick                         *)

Days == FirstDay..LastDay

SessionsIn(from, to) == {d \in Sessions : from <= d /\ d <= to}

ASSUME PulseAssumption ==
  /\ IsFiniteSet(Universe)
  /\ Sessions \subseteq Int /\ IsFiniteSet(Sessions)
  /\ FirstDay \in Int /\ LastDay \in Int /\ FirstDay <= LastDay
  /\ Lookback \in Nat /\ Horizon \in Nat /\ Margin \in Nat
  /\ CampaignStart \in Int /\ CampaignDays \in Nat \ {0}
  /\ RankWindow \in Nat \ {0} /\ SymbolsPerTick \in Nat \ {0}

(* The part of the calendar behind today that is fetched holds more         *)
(* sessions than a campaign has (seven days against three sessions).        *)
ASSUME LookbackCoversCampaign ==
  \A d \in Days : Cardinality(SessionsIn(d - Lookback, d)) > CampaignDays

(* What is fetched ahead holds a session past the margin (four hundred days  *)
(* against thirty).                                                         *)
ASSUME HorizonPassesMargin ==
  \A d \in Days : SessionsIn(d + Margin + 1, d + Horizon) # {}

VARIABLES
  today,       (* the exchange's date                                       *)
  clock,       (* "before", "open", "late" or "after"                       *)
  calendar,    (* market_calendar: the days it has a row for                *)
  truncated,   (* an answer behind the calendar did not reach back as asked *)
  backfilled,  (* _backfilled                                               *)
  fetches,     (* calendars that reached past the margin this process has   *)
               (* stored today                                              *)
  attempted,   (* _iv_backfill_attempted                                    *)
  ivs,         (* iv_history: the readings [day, source] of each symbol     *)
  ppc,         (* the pulse: "idle", "gate", "history" or "evidence"        *)
  replay,      (* REPLAY_LAST_SESSION                                       *)
  persistent   (* DATABASE_URL is set                                       *)

pulseVars == <<today, clock, calendar, truncated, backfilled, fetches, attempted, ivs, ppc,
               replay, persistent>>

------------------------------------------------------------------------------
(* The calendar cache and the session gate                                  *)

SessionsBetween(from, to) == Cardinality({d \in calendar : from <= d /\ d <= to})

OpenWhenUncached ==                                                   \* mutant
  (today \in calendar \/ calendar = {}) /\ clock \in {"open", "late"}

MarketIsOpen == today \in calendar /\ clock \in {"open", "late"}

(* The cached sessions that had opened by now; last_session_close is the    *)
(* close of the last of them.                                               *)
OpenedByNow == {d \in calendar : d < today \/ (d = today /\ clock # "before")}

LastSessionIs(day) == day \in OpenedByNow /\ \A d \in OpenedByNow : d <= day

Replayable == OpenedByNow # {}

(* session.current                                                          *)
IsOpen == MarketIsOpen \/ (replay /\ Replayable)

HasEnded(elapsed) == elapsed >= CampaignDays                          \* mutant

FinalSession(elapsed) == elapsed = CampaignDays

(* _campaign_flatten_active: its last conjunct is flatten_at <= now <=      *)
(* session_close.                                                           *)
FlattenActive ==
  /\ FinalSession(SessionsBetween(CampaignStart, today))
  /\ LastSessionIs(today)
  /\ clock = "late"

------------------------------------------------------------------------------
(* _ensure_calendar_fresh                                                   *)

ForwardCovered == \E d \in calendar : d - today > Margin

BackwardByRows == \E d \in calendar : d <= today                      \* mutant

BackwardCovered == calendar # {} /\ (backfilled \/ \E d \in calendar : d <= today)

CalendarFresh == ForwardCovered /\ BackwardCovered

(* The part of the window the broker answers: all of it, from today on only, *)
(* nothing that is more than the margin ahead, or no session at all.        *)
Answers ==
  {<<today - Lookback, today + Horizon>>, <<today, today + Horizon>>,
   <<today - Lookback, today + Margin>>, <<today - Lookback, today - Lookback - 1>>}

CalendarFetched ==
  /\ ppc = "idle"
  /\ ~CalendarFresh
  /\ \E answer \in Answers :
       /\ calendar' = calendar \union SessionsIn(answer[1], answer[2])
       /\ truncated' = (truncated \/ answer[1] # today - Lookback)
       /\ fetches' = fetches + (IF answer[2] = today + Horizon THEN 1 ELSE 0)
  /\ backfilled' = TRUE
  /\ ppc' = "gate"
  /\ UNCHANGED <<today, clock, attempted, ivs, replay, persistent>>

(* The answer is unreadable or the write fails: the step raises, after      *)
(* _backfilled was set.  A fetch that fails changes nothing.                *)
CalendarLost ==
  /\ ppc = "idle"
  /\ ~CalendarFresh
  /\ backfilled' = TRUE
  /\ UNCHANGED <<today, clock, calendar, truncated, fetches, attempted, ivs, ppc, replay,
                 persistent>>

CalendarKept ==
  /\ ppc = "idle"
  /\ CalendarFresh
  /\ ppc' = "gate"
  /\ UNCHANGED <<today, clock, calendar, truncated, backfilled, fetches, attempted, ivs,
                 replay, persistent>>

(* The account and the equity curve are written here too, see TradeDecision; *)
(* a broker that does not answer, like a closed market, ends the step.      *)
Gate ==
  /\ ppc = "gate"
  /\ \/ IsOpen /\ ppc' = "history"
     \/ ppc' = "idle"
  /\ UNCHANGED <<today, clock, calendar, truncated, backfilled, fetches, attempted, ivs,
                 replay, persistent>>

------------------------------------------------------------------------------
(* The history of implied volatility                                        *)

ObservedDays(symbol) == {r.day : r \in ivs[symbol]}

(* daily_iv_history: the last RankWindow days with a reading.               *)
RankDays(symbol) ==
  {d \in ObservedDays(symbol) :
     Cardinality({e \in ObservedDays(symbol) : e > d}) < RankWindow}

(* The days of the last RankWindow daily bars, with or without today's.     *)
BarDays(until) ==
  {d \in Sessions : d <= until /\ Cardinality(SessionsIn(d + 1, until)) < RankWindow}

MissingWithToday(symbol, bars) == bars \ RankDays(symbol)             \* mutant

(* Only sessions before today and without an observation.                   *)
Missing(symbol, bars) == {d \in bars \ RankDays(symbol) : d < today}

Reading(day, source) == [day |-> day, source |-> source]

(* _backfill_iv_history: the next symbols this process has not tried, each  *)
(* independent of the others.  Of the missing sessions any part may be      *)
(* recovered: none if a call fails, not those without an expiry, a contract *)
(* or a bar, or whose volatility does not solve.                            *)
BackfillHistory ==
  /\ ppc = "history"
  /\ \E batch \in SUBSET (Universe \ attempted) :
       /\ Cardinality(batch) <= SymbolsPerTick
       /\ batch # Universe \ attempted => Cardinality(batch) = SymbolsPerTick
       /\ attempted' = attempted \union batch
       /\ \E until \in {today - 1, today} :
          \E got \in [batch -> SUBSET BarDays(until)] :
            /\ \A s \in batch : got[s] \subseteq Missing(s, BarDays(until))
            /\ ivs' = [s \in Universe |->
                         IF s \in batch
                           THEN ivs[s] \union {Reading(d, "bars") : d \in got[s]}
                           ELSE ivs[s]]
  /\ ppc' = "evidence"
  /\ UNCHANGED <<today, clock, calendar, truncated, backfilled, fetches, replay, persistent>>

(* One collect() per symbol, each independent: a reading is appended where  *)
(* the chain was answered and has an at-the-money volatility, whatever the  *)
(* other sections of the pack came to.                                      *)
CollectEvidence ==
  /\ ppc = "evidence"
  /\ \E read \in SUBSET Universe :
       ivs' = [s \in Universe |->
                 IF s \in read THEN ivs[s] \union {Reading(today, "chain")} ELSE ivs[s]]
  /\ ppc' = "idle"
  /\ UNCHANGED <<today, clock, calendar, truncated, backfilled, fetches, attempted, replay,
                 persistent>>

------------------------------------------------------------------------------
(* Time and restarts                                                        *)

NextClock == [before |-> "open", open |-> "late", late |-> "after"]

TimePasses ==
  /\ clock # "after"
  /\ clock' = NextClock[clock]
  /\ UNCHANGED <<today, calendar, truncated, backfilled, fetches, attempted, ivs, ppc, replay,
                 persistent>>

(* A step of the pulse, whose calls have timeouts, does not last till       *)
(* the next day.                                                            *)
DayPasses ==
  /\ clock = "after"
  /\ ppc = "idle"
  /\ today < LastDay
  /\ today' = today + 1
  /\ clock' = "before"
  /\ fetches' = 0
  /\ UNCHANGED <<calendar, truncated, backfilled, attempted, ivs, ppc, replay, persistent>>

(* A new process, over the tables of the last one or over empty ones.       *)
Restart ==
  /\ ppc' = "idle"
  /\ backfilled' = FALSE
  /\ fetches' = 0
  /\ attempted' = {}
  /\ IF persistent
       THEN UNCHANGED <<calendar, truncated, ivs>>
       ELSE calendar' = {} /\ truncated' = FALSE /\ ivs' = [s \in Universe |-> {}]
  /\ UNCHANGED <<today, clock, replay, persistent>>

PulseInit ==
  /\ today = FirstDay
  /\ clock = "before"
  /\ calendar = {}
  /\ truncated = FALSE
  /\ backfilled = FALSE
  /\ fetches = 0
  /\ attempted = {}
  /\ ivs = [s \in Universe |-> {}]
  /\ ppc = "idle"
  /\ replay \in BOOLEAN
  /\ persistent \in BOOLEAN

PulseNext ==
  \/ CalendarFetched \/ CalendarLost \/ CalendarKept
  \/ Gate
  \/ BackfillHistory
  \/ CollectEvidence
  \/ TimePasses \/ DayPasses
  \/ Restart

PulseSpec == PulseInit /\ [][PulseNext]_pulseVars

------------------------------------------------------------------------------
(* The session gate "cannot invent a session" (session.py:13-14): agents    *)
(* act in a session the broker lists, or under REPLAY_LAST_SESSION after    *)
(* one, whatever part of the calendar was fetched, lost or kept from an     *)
(* earlier process.                                                         *)
NoInventedSession ==
  IsOpen =>
    \/ today \in Sessions /\ clock \in {"open", "late"}
    \/ replay /\ \E d \in Sessions : d < today \/ (d = today /\ clock # "before")

(* Once a process has stored a calendar that reaches past the margin it     *)
(* stores no other that day, also when the broker returned nothing before   *)
(* today: the healing of the backward half does not become a fetch at every *)
(* tick (market_pulse.py:276-278).  An answer short ahead is not counted:   *)
(* it is asked for again at the next tick.                                  *)
CalendarFetchBounded == fetches <= 1

(* Positions are flattened in the last minutes of the campaign's last       *)
(* session and at no other time, although sessions are counted in a cache   *)
(* that may begin after the campaign did (exits.py:105-124).  It rests on   *)
(* answers that reach back as asked.                                        *)
FlattensFinalSession ==
  today \in calendar /\ ~truncated =>
    (FlattenActive <=> /\ Cardinality(SessionsIn(CampaignStart, today)) = CampaignDays
                       /\ clock = "late")

(* In the window that is ranked, a day with a reading of the chain is never *)
(* overlaid by one rebuilt from bars, which is stamped at the close and     *)
(* would win (store.py:417-458): "the current one belongs to the live       *)
(* writer" (iv_backfill.py:143).                                            *)
RankWindowKeepsLive ==
  \A s \in Universe : \A d \in RankDays(s) :
    Reading(d, "chain") \in ivs[s] => Reading(d, "bars") \notin ivs[s]
==============================================================================
