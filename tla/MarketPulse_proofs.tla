-------------------------- MODULE MarketPulse_proofs --------------------------
(* For every calendar of the broker, every campaign shorter than what the   *)
(* lookback reaches, and any sequence of fetches, losses, restarts and days: *)
(* no session is invented, positions are flattened in the campaign's last   *)
(* session and in no other, the calendar is stored once a day, and no live  *)
(* reading of the volatility is overlaid in the window that is ranked.      *)
EXTENDS MarketPulse, FiniteSetTheorems, TLAPS

(* Asked on day t, the broker answered back as far as asked and ahead to u:  *)
(* what it lists in that window is cached.                                  *)
FetchedOn(t, u, d) ==
  /\ t \in Days /\ t <= today /\ u \in Int
  /\ t - Lookback <= d /\ d <= u
  /\ SessionsIn(t - Lookback, u) \subseteq calendar

(* A session in the cache came with everything the broker lists before it;  *)
(* without this a cache with holes could count too few sessions.            *)
CalendarInv ==
  /\ today \in Days
  /\ calendar \subseteq Sessions
  /\ ~truncated =>
       \A d \in calendar : \E t \in Days, u \in Int : FetchedOn(t, u, d)

LEMMA DaysAreIntegers == Days \subseteq Int /\ Sessions \subseteq Int
BY PulseAssumption DEF PulseAssumption, Days

LEMMA CalendarInvInit == PulseInit => CalendarInv
BY PulseAssumption DEF PulseAssumption, PulseInit, CalendarInv, Days

(* A row stays covered as days pass and rows are added.                     *)
LEMMA StaysFetched ==
  ASSUME CalendarInv, ~truncated,
         today' \in Days, today <= today', calendar \subseteq calendar'
  PROVE  \A d \in calendar : \E t \in Days, u \in Int : FetchedOn(t, u, d)'
<1> SUFFICES ASSUME NEW d \in calendar
             PROVE  \E t \in Days, u \in Int : FetchedOn(t, u, d)'
  OBVIOUS
<1>1. PICK t \in Days, u \in Int : FetchedOn(t, u, d)
  BY DEF CalendarInv
<1>2. t \in Int /\ today \in Int /\ today' \in Int
  BY DaysAreIntegers DEF CalendarInv
<1>3. FetchedOn(t, u, d)'
  BY <1>1, <1>2 DEF FetchedOn, SessionsIn
<1> QED BY <1>3

LEMMA CalendarInvStep == CalendarInv /\ [PulseNext]_pulseVars => CalendarInv'
<1> SUFFICES ASSUME CalendarInv, [PulseNext]_pulseVars PROVE CalendarInv'
  OBVIOUS
<1>0. today \in Days /\ today \in Int /\ calendar \subseteq Sessions
  BY DaysAreIntegers DEF CalendarInv
<1>1. ASSUME UNCHANGED <<today, calendar, truncated>> PROVE CalendarInv'
  BY <1>1 DEF CalendarInv, FetchedOn, SessionsIn
<1>2. CASE CalendarFetched
  <2>1. PICK from \in {today - Lookback, today},
             until \in {today - Lookback - 1, today + Margin, today + Horizon} :
          /\ calendar' = calendar \union SessionsIn(from, until)
          /\ truncated' = (truncated \/ from # today - Lookback)
    BY <1>2 DEF CalendarFetched, Answers
  <2>2. today' = today
    BY <1>2 DEF CalendarFetched
  <2>3. calendar' \subseteq Sessions /\ calendar \subseteq calendar'
    BY <1>0, <2>1 DEF SessionsIn
  <2>4. ASSUME ~truncated', NEW d \in calendar'
        PROVE  \E t \in Days, u \in Int : FetchedOn(t, u, d)'
    <3>0. ~truncated /\ from = today - Lookback
      BY <2>1, <2>4, Zenon
    <3>1. /\ until \in Int
          /\ calendar' = calendar \union SessionsIn(today - Lookback, until)
      BY <1>0, <2>1, <3>0, PulseAssumption DEF PulseAssumption
    <3>2. CASE d \in calendar
      BY <1>0, <2>2, <2>3, <3>0, <3>2, StaysFetched
    <3>3. CASE d \in SessionsIn(today - Lookback, until)
      <4>1. PICK t \in Days : t = today
        BY <1>0
      <4>2. today' = t /\ t \in Int /\ d \in Sessions /\ t - Lookback <= d /\ d <= until
        BY <1>0, <2>2, <3>3, <4>1 DEF SessionsIn
      <4>3. FetchedOn(t, until, d)'
        BY <3>1, <4>1, <4>2 DEF FetchedOn, SessionsIn
      <4> QED BY <3>1, <4>3
    <3> QED BY <3>1, <3>2, <3>3
  <2> QED BY <1>0, <2>2, <2>3, <2>4 DEF CalendarInv
<1>3. CASE DayPasses
  <2>1. /\ today' = today + 1 /\ today < LastDay
        /\ UNCHANGED <<calendar, truncated>>
    BY <1>3 DEF DayPasses
  <2>2. today' \in Days /\ today <= today'
    BY <1>0, <2>1, PulseAssumption DEF PulseAssumption, Days
  <2>3. ~truncated =>
          \A d \in calendar : \E t \in Days, u \in Int : FetchedOn(t, u, d)'
    BY <2>1, <2>2, StaysFetched
  <2> QED BY <1>0, <2>1, <2>2, <2>3 DEF CalendarInv
<1>4. CASE Restart
  <2>1. today' = today
    BY <1>4 DEF Restart
  <2>2. CASE persistent
    BY <1>1, <1>4, <2>1, <2>2 DEF Restart
  <2>3. CASE ~persistent
    <3>1. calendar' = {}
      BY <1>4, <2>3 DEF Restart
    <3> QED BY <1>0, <2>1, <3>1 DEF CalendarInv
  <2> QED BY <2>2, <2>3
<1>5. CASE CalendarLost \/ CalendarKept \/ Gate \/ BackfillHistory \/ CollectEvidence \/ TimePasses
  BY <1>1, <1>5
  DEF CalendarLost, CalendarKept, Gate, BackfillHistory, CollectEvidence, TimePasses
<1>6. CASE UNCHANGED pulseVars
  BY <1>1, <1>6 DEF pulseVars
<1> QED BY <1>2, <1>3, <1>4, <1>5, <1>6 DEF PulseNext

LEMMA CalendarAlways == PulseSpec => []CalendarInv
BY CalendarInvInit, CalendarInvStep, PTL DEF PulseSpec

(* Agents act in a session the broker lists, or replay one that was         *)
(* (session.py:13-14).                                                      *)
THEOREM SessionsAreReal == PulseSpec => []NoInventedSession
<1>1. CalendarInv => NoInventedSession
  BY DEF CalendarInv, NoInventedSession, IsOpen, MarketIsOpen, Replayable, OpenedByNow
<1> QED BY <1>1, CalendarAlways, PTL

------------------------------------------------------------------------------
(* A set of sessions that holds the whole lookback of a day has more than   *)
(* a campaign of them.                                                      *)
LEMMA LookbackIsTooMany ==
  ASSUME NEW t \in Days, NEW S \in SUBSET Sessions, SessionsIn(t - Lookback, t) \subseteq S
  PROVE  Cardinality(S) # CampaignDays
<1>1. IsFiniteSet(S)
  BY PulseAssumption, FS_Subset DEF PulseAssumption
<1>2. Cardinality(SessionsIn(t - Lookback, t)) <= Cardinality(S)
  BY <1>1, FS_Subset
<1>3. Cardinality(SessionsIn(t - Lookback, t)) > CampaignDays
  BY LookbackCoversCampaign
<1>4. /\ Cardinality(S) \in Nat /\ Cardinality(SessionsIn(t - Lookback, t)) \in Nat
      /\ CampaignDays \in Nat
  BY <1>1, FS_Subset, FS_CardinalityType, PulseAssumption DEF PulseAssumption
<1> QED BY <1>2, <1>3, <1>4

(* In a session of the cache, the count of the campaign's sessions in the   *)
(* cache is right, or too high like the true one.                           *)
LEMMA CountIsRight ==
  ASSUME CalendarInv, today \in calendar, ~truncated
  PROVE  SessionsBetween(CampaignStart, today) = CampaignDays
           <=> Cardinality(SessionsIn(CampaignStart, today)) = CampaignDays
<1> DEFINE Cached == {d \in calendar : CampaignStart <= d /\ d <= today}
           Listed == SessionsIn(CampaignStart, today)
<1>1. PICK t \in Days, u \in Int : FetchedOn(t, u, today)
  BY DEF CalendarInv
<1>2. /\ t \in Int /\ today \in Int /\ CampaignStart \in Int
      /\ Lookback \in Nat /\ t <= today /\ today <= u
  BY <1>1, DaysAreIntegers, PulseAssumption DEF PulseAssumption, CalendarInv, FetchedOn
<1>3. Sessions \subseteq Int /\ calendar \subseteq Sessions
  BY DaysAreIntegers DEF CalendarInv
<1>4. CASE t - Lookback <= CampaignStart
  <2>1. ASSUME NEW d \in Sessions, CampaignStart <= d, d <= today
        PROVE  d \in calendar
    <3>1. d \in Int /\ t - Lookback <= d /\ d <= u
      BY <1>1, <1>2, <1>3, <1>4, <2>1 DEF FetchedOn
    <3> QED BY <1>1, <3>1 DEF FetchedOn, SessionsIn
  <2>2. Cached = Listed
    BY <1>3, <2>1 DEF SessionsIn
  <2> QED BY <2>2 DEF SessionsBetween
<1>5. CASE CampaignStart < t - Lookback
  <2>1. SessionsIn(t - Lookback, t) \subseteq Cached
    <3>1. ASSUME NEW d \in Sessions, t - Lookback <= d, d <= t
          PROVE  d \in calendar /\ CampaignStart <= d /\ d <= today
      <4>1. d \in Int /\ d <= u /\ CampaignStart <= d /\ d <= today
        BY <1>1, <1>2, <1>3, <1>5, <3>1 DEF FetchedOn
      <4> QED BY <1>1, <3>1, <4>1 DEF FetchedOn, SessionsIn
    <3> QED BY <3>1 DEF SessionsIn
  <2>2. Cached \subseteq Listed /\ Listed \subseteq Sessions
    BY <1>3 DEF SessionsIn
  <2>3. Cardinality(Cached) # CampaignDays
    BY <2>1, <2>2, LookbackIsTooMany
  <2>4. Cardinality(Listed) # CampaignDays
    BY <2>1, <2>2, LookbackIsTooMany
  <2> QED BY <2>3, <2>4 DEF SessionsBetween
<1> QED BY <1>2, <1>4, <1>5

(* The campaign is flattened in the last minutes of its last session and at *)
(* no other time, as long as the broker's answers reached back as asked     *)
(* (exits.py:105-124).                                                      *)
THEOREM FlattenIsInFinalSession == PulseSpec => []FlattensFinalSession
<1>1. CalendarInv => FlattensFinalSession
  <2> SUFFICES ASSUME CalendarInv, today \in calendar, ~truncated
               PROVE  FlattenActive <=>
                        /\ Cardinality(SessionsIn(CampaignStart, today)) = CampaignDays
                        /\ clock = "late"
    BY DEF FlattensFinalSession
  <2>1. today \in Int /\ calendar \subseteq Int
    BY DaysAreIntegers DEF CalendarInv
  <2>2. clock = "late" => LastSessionIs(today)
    BY <2>1 DEF LastSessionIs, OpenedByNow
  <2> QED BY <2>2, CountIsRight DEF FlattenActive, FinalSession
<1> QED BY <1>1, CalendarAlways, PTL

------------------------------------------------------------------------------
(* A calendar that reaches past the margin is fresh for the rest of the day  *)
(* it is stored on, and _backfilled vouches for its backward half.          *)

FetchInv ==
  /\ fetches \in {0, 1}
  /\ fetches = 1 => CalendarFresh

(* An answer of the whole of what is ahead holds a session past the margin. *)
LEMMA AheadIsFresh ==
  ASSUME CalendarInv, CalendarFetched, NEW from \in {today - Lookback, today},
         calendar' = calendar \union SessionsIn(from, today + Horizon)
  PROVE  CalendarFresh'
<1>1. /\ today \in Int /\ Margin \in Nat /\ Horizon \in Nat /\ Lookback \in Nat
      /\ today \in Days /\ Sessions \subseteq Int
  BY DaysAreIntegers, PulseAssumption DEF PulseAssumption, CalendarInv
<1>2. PICK d \in SessionsIn(today + Margin + 1, today + Horizon) : TRUE
  BY <1>1, HorizonPassesMargin
<1>3. d \in Int /\ d - today > Margin /\ d <= today + Horizon /\ d \in Sessions
  BY <1>1, <1>2 DEF SessionsIn
<1>4. d \in SessionsIn(from, today + Horizon)
  BY <1>1, <1>3 DEF SessionsIn
<1>5. d \in calendar' /\ today' = today /\ backfilled'
  BY <1>4 DEF CalendarFetched
<1> QED BY <1>3, <1>5 DEF CalendarFresh, ForwardCovered, BackwardCovered

LEMMA FetchInvStep ==
  ASSUME CalendarInv, FetchInv, [PulseNext]_pulseVars
  PROVE  FetchInv'
<1>1. CASE CalendarFetched
  <2>1. PICK from \in {today - Lookback, today},
             until \in {today - Lookback - 1, today + Margin, today + Horizon} :
          /\ calendar' = calendar \union SessionsIn(from, until)
          /\ fetches' = fetches + (IF until = today + Horizon THEN 1 ELSE 0)
    BY <1>1 DEF CalendarFetched, Answers
  <2>2. fetches = 0
    BY <1>1 DEF CalendarFetched, FetchInv
  <2>3. CASE until = today + Horizon
    <3>1. CalendarFresh'
      BY <1>1, <2>1, <2>3, AheadIsFresh
    <3> QED BY <2>1, <2>2, <2>3, <3>1 DEF FetchInv
  <2>4. CASE until # today + Horizon
    BY <2>1, <2>2, <2>4 DEF FetchInv
  <2> QED BY <2>3, <2>4
<1>2. CASE CalendarLost
  BY <1>2 DEF CalendarLost, FetchInv
<1>3. CASE DayPasses \/ Restart
  BY <1>3 DEF DayPasses, Restart, FetchInv
<1>4. CASE \/ CalendarKept \/ Gate \/ BackfillHistory \/ CollectEvidence \/ TimePasses
           \/ UNCHANGED pulseVars
  <2>1. UNCHANGED <<today, calendar, backfilled, fetches>>
    BY <1>4 DEF CalendarKept, Gate, BackfillHistory, CollectEvidence, TimePasses, pulseVars
  <2> QED BY <2>1 DEF FetchInv, CalendarFresh, ForwardCovered, BackwardCovered
<1> QED BY <1>1, <1>2, <1>3, <1>4 DEF PulseNext

(* Once a process has stored a calendar that reaches past the margin it     *)
(* stores no other that day, also when the broker lists nothing before      *)
(* today (market_pulse.py:276-278).                                         *)
THEOREM CalendarIsFetchedOnce == PulseSpec => []CalendarFetchBounded
<1>1. PulseInit => FetchInv
  BY DEF PulseInit, FetchInv
<1>2. CalendarInv /\ FetchInv /\ [PulseNext]_pulseVars => FetchInv'
  BY FetchInvStep
<1>3. FetchInv => CalendarFetchBounded
  BY DEF FetchInv, CalendarFetchBounded
<1> QED BY <1>1, <1>2, <1>3, CalendarAlways, PTL DEF PulseSpec

------------------------------------------------------------------------------
(* A day with a reading of each kind is past the window that is ranked,     *)
(* for good: no day is ever taken out of a history but by losing them all.  *)

Later(symbol, day) == {e \in ObservedDays(symbol) : e > day}

ReadingDays == Sessions \union Days

HistoryInv ==
  /\ today \in Days
  /\ DOMAIN ivs = Universe
  /\ \A s \in Universe : ObservedDays(s) \subseteq ReadingDays
  /\ \A s \in Universe, d \in ReadingDays : Reading(d, "bars") \in ivs[s] =>
       /\ d < today
       /\ Reading(d, "chain") \in ivs[s] => Cardinality(Later(s, d)) >= RankWindow

LEMMA ReadingDaysFinite ==
  /\ IsFiniteSet(ReadingDays)
  /\ ReadingDays \subseteq Int
<1>1. IsFiniteSet(Days) /\ IsFiniteSet(Sessions)
  BY FS_Interval, PulseAssumption DEF PulseAssumption, Days
<1> QED BY <1>1, FS_Union, DaysAreIntegers DEF ReadingDays

(* More readings, more days after a given one.                              *)
LEMMA LaterGrows ==
  ASSUME NEW s \in Universe, NEW d \in ReadingDays,
         ivs[s] \subseteq ivs'[s], ObservedDays(s)' \subseteq ReadingDays,
         Cardinality(Later(s, d)) >= RankWindow
  PROVE  Cardinality(Later(s, d)') >= RankWindow
<1>1. Later(s, d) \subseteq Later(s, d)' /\ Later(s, d)' \subseteq ReadingDays
  BY DEF Later, ObservedDays
<1>2. IsFiniteSet(Later(s, d)') /\ IsFiniteSet(Later(s, d))
  BY <1>1, ReadingDaysFinite, FS_Subset
<1>3. Cardinality(Later(s, d)) <= Cardinality(Later(s, d)')
  BY <1>1, <1>2, FS_Subset
<1>4. Cardinality(Later(s, d)) \in Nat /\ Cardinality(Later(s, d)') \in Nat /\ RankWindow \in Nat
  BY <1>2, FS_CardinalityType, PulseAssumption DEF PulseAssumption
<1> QED BY <1>3, <1>4

LEMMA HistoryInvStep ==
  ASSUME HistoryInv, [PulseNext]_pulseVars
  PROVE  HistoryInv'
<1>0. today \in Days /\ Days \subseteq Int /\ Sessions \subseteq Int
  BY DaysAreIntegers DEF HistoryInv
<1>1. ASSUME UNCHANGED ivs, today' \in Days, today <= today'
      PROVE  HistoryInv'
  <2>1. today \in Int /\ today' \in Int /\ ReadingDays \subseteq Int
    BY <1>0, <1>1 DEF ReadingDays
  <2>2. \A s \in Universe :
          ObservedDays(s)' = ObservedDays(s) /\ \A d : Later(s, d)' = Later(s, d)
    BY <1>1 DEF ObservedDays, Later
  <2>3. ReadingDays' = ReadingDays
    BY DEF ReadingDays, Days
  <2>4. ASSUME NEW s \in Universe, NEW d \in ReadingDays, Reading(d, "bars") \in ivs'[s]
        PROVE  /\ d < today'
               /\ Reading(d, "chain") \in ivs'[s] => Cardinality(Later(s, d)') >= RankWindow
    BY <1>1, <2>1, <2>2, <2>4 DEF HistoryInv
  <2> QED BY <1>1, <2>2, <2>3, <2>4 DEF HistoryInv
<1>2. CASE BackfillHistory
  <2>a. PICK batch \in SUBSET (Universe \ attempted), until \in {today - 1, today} :
          \E got \in [batch -> SUBSET BarDays(until)] :
            /\ \A s \in batch : got[s] \subseteq Missing(s, BarDays(until))
            /\ ivs' = [s \in Universe |->
                         IF s \in batch
                           THEN ivs[s] \union {Reading(d, "bars") : d \in got[s]}
                           ELSE ivs[s]]
    BY <1>2 DEF BackfillHistory
  <2>1. PICK got \in [batch -> SUBSET BarDays(until)] :
          /\ \A s \in batch : got[s] \subseteq Missing(s, BarDays(until))
          /\ ivs' = [s \in Universe |->
                       IF s \in batch
                         THEN ivs[s] \union {Reading(d, "bars") : d \in got[s]}
                         ELSE ivs[s]]
    BY <2>a
  <2>2. today' = today
    BY <1>2 DEF BackfillHistory
  <2>3. ASSUME NEW s \in Universe
        PROVE  /\ ivs[s] \subseteq ivs'[s]
               /\ \A r \in ivs'[s] \ ivs[s] :
                    \E d \in Sessions : /\ r = Reading(d, "bars")
                                        /\ d < today /\ d \notin RankDays(s)
    <3>1. \A d \in Missing(s, BarDays(until)) :
            d \in Sessions /\ d < today /\ d \notin RankDays(s)
      BY DEF Missing, BarDays
    <3>2. CASE s \in batch
      <4>1. ivs'[s] = ivs[s] \union {Reading(d, "bars") : d \in got[s]}
        BY <2>1, <3>2
      <4> QED BY <2>1, <3>1, <3>2, <4>1
    <3>3. CASE s \notin batch
      BY <2>1, <3>3
    <3> QED BY <3>2, <3>3
  <2>4. ASSUME NEW s \in Universe
        PROVE  ObservedDays(s)' \subseteq ReadingDays
    BY <2>3 DEF HistoryInv, ObservedDays, Reading, ReadingDays
  <2>5. ASSUME NEW s \in Universe, NEW d \in ReadingDays, Reading(d, "bars") \in ivs'[s]
        PROVE  /\ d < today
               /\ Reading(d, "chain") \in ivs'[s] => Cardinality(Later(s, d)') >= RankWindow
    <3>1. CASE Reading(d, "bars") \in ivs[s]
      <4>1. Reading(d, "chain") \in ivs'[s] => Reading(d, "chain") \in ivs[s]
        BY <2>3 DEF Reading
      <4> QED BY <2>3, <2>4, <3>1, <4>1, LaterGrows DEF HistoryInv
    <3>2. CASE Reading(d, "bars") \notin ivs[s]
      <4>1. d < today /\ d \notin RankDays(s)
        BY <2>3, <2>5, <3>2 DEF Reading
      <4>2. ASSUME Reading(d, "chain") \in ivs'[s]
            PROVE  Cardinality(Later(s, d)') >= RankWindow
        <5>1. Reading(d, "chain") \in ivs[s]
          BY <2>3, <4>2 DEF Reading
        <5>2. d \in ObservedDays(s)
          BY <5>1 DEF ObservedDays, Reading
        <5>3. ~(Cardinality(Later(s, d)) < RankWindow)
          BY <4>1, <5>2 DEF RankDays, Later
        <5>4. Cardinality(Later(s, d)) \in Nat /\ RankWindow \in Nat
          BY ReadingDaysFinite, FS_Subset, FS_CardinalityType, PulseAssumption
             DEF PulseAssumption, Later, HistoryInv
        <5> QED BY <2>3, <2>4, <5>3, <5>4, LaterGrows
      <4> QED BY <4>1, <4>2
    <3> QED BY <3>1, <3>2
  <2>6. DOMAIN ivs' = Universe
    BY <2>1
  <2> QED BY <1>0, <2>2, <2>4, <2>5, <2>6 DEF HistoryInv
<1>3. CASE CollectEvidence
  <2>1. PICK read \in SUBSET Universe :
          ivs' = [s \in Universe |->
                    IF s \in read THEN ivs[s] \union {Reading(today, "chain")} ELSE ivs[s]]
    BY <1>3 DEF CollectEvidence
  <2>2. today' = today
    BY <1>3 DEF CollectEvidence
  <2>3. ASSUME NEW s \in Universe
        PROVE  /\ ivs[s] \subseteq ivs'[s]
               /\ ivs'[s] \subseteq ivs[s] \union {Reading(today, "chain")}
    BY <2>1
  <2>4. ASSUME NEW s \in Universe
        PROVE  ObservedDays(s)' \subseteq ReadingDays
    BY <1>0, <2>3 DEF HistoryInv, ObservedDays, Reading, ReadingDays
  <2>5. ASSUME NEW s \in Universe, NEW d \in ReadingDays, Reading(d, "bars") \in ivs'[s]
        PROVE  /\ d < today
               /\ Reading(d, "chain") \in ivs'[s] => Cardinality(Later(s, d)') >= RankWindow
    <3>1. Reading(d, "bars") \in ivs[s] /\ d < today
      BY <2>3, <2>5 DEF Reading, HistoryInv
    <3>2. Reading(d, "chain") \in ivs'[s] => Reading(d, "chain") \in ivs[s]
      BY <1>0, <2>3, <3>1 DEF Reading
    <3> QED BY <2>3, <2>4, <3>1, <3>2, LaterGrows DEF HistoryInv
  <2>6. DOMAIN ivs' = Universe
    BY <2>1
  <2> QED BY <1>0, <2>2, <2>4, <2>5, <2>6 DEF HistoryInv
<1>4. CASE Restart
  <2>1. today' = today /\ (UNCHANGED ivs \/ ivs' = [s \in Universe |-> {}])
    BY <1>4 DEF Restart
  <2>2. CASE ivs' = [s \in Universe |-> {}]
    BY <1>0, <2>1, <2>2 DEF HistoryInv, ObservedDays
  <2> QED BY <1>0, <1>1, <2>1, <2>2
<1>5. CASE DayPasses
  <2>1. today' = today + 1 /\ today < LastDay /\ UNCHANGED ivs
    BY <1>5 DEF DayPasses
  <2>2. today' \in Days /\ today <= today'
    BY <1>0, <2>1, PulseAssumption DEF PulseAssumption, Days
  <2> QED BY <1>1, <2>1, <2>2
<1>6. CASE \/ CalendarFetched \/ CalendarLost \/ CalendarKept \/ Gate \/ TimePasses
           \/ UNCHANGED pulseVars
  <2>1. UNCHANGED <<today, ivs>>
    BY <1>6 DEF CalendarFetched, CalendarLost, CalendarKept, Gate, TimePasses, pulseVars
  <2> QED BY <1>0, <1>1, <2>1
<1> QED BY <1>2, <1>3, <1>4, <1>5, <1>6 DEF PulseNext

(* A reading of the chain is never overlaid by one rebuilt from bars in the *)
(* window IV rank is computed on (store.py:417-458, iv_backfill.py:143).    *)
THEOREM RankKeepsLiveReadings == PulseSpec => []RankWindowKeepsLive
<1>1. PulseInit => HistoryInv
  BY PulseAssumption
     DEF PulseAssumption, PulseInit, HistoryInv, ObservedDays, Days
<1>2. HistoryInv /\ [PulseNext]_pulseVars => HistoryInv'
  BY HistoryInvStep
<1>3. HistoryInv => RankWindowKeepsLive
  <2> SUFFICES ASSUME HistoryInv, NEW s \in Universe, NEW d \in RankDays(s),
                      Reading(d, "chain") \in ivs[s], Reading(d, "bars") \in ivs[s]
               PROVE  FALSE
    BY DEF RankWindowKeepsLive
  <2>1. d \in ReadingDays /\ Cardinality(Later(s, d)) < RankWindow
    BY DEF HistoryInv, RankDays, Later
  <2>2. Cardinality(Later(s, d)) \in Nat /\ RankWindow \in Nat
    BY ReadingDaysFinite, FS_Subset, FS_CardinalityType, PulseAssumption
       DEF PulseAssumption, Later, HistoryInv
  <2> QED BY <2>1, <2>2 DEF HistoryInv
<1> QED BY <1>1, <1>2, <1>3, PTL DEF PulseSpec
==============================================================================
