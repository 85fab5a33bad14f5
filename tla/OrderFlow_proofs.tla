-------------------------- MODULE OrderFlow_proofs --------------------------
(***************************************************************************)
(* Theorems about OrderFlow, for any universe, any limits and any number   *)
(* of proposals.  Every invariant rests on Coherent: which proposal the    *)
(* Trader holds at each await, and that ids not yet drawn are blank.       *)
(***************************************************************************)
EXTENDS OrderFlow, FiniteSetTheorems, TLAPS

(* An id is either drawn, with a symbol and an intent, or blank everywhere. *)
Drawn ==
  /\ \A p \in Ids : p <= lastId =>
       of[p] \in Underlyings /\ action[p] \in {"open", "close"} /\ status[p] # "none"
  /\ \A p \in Ids : p > lastId =>
       /\ status[p] = "none" /\ action[p] = "none"
       /\ broker[p] = "none" /\ order[p] = "none"

(* Positions stem from drawn ids.                                           *)
PositionsDrawn ==
  /\ \A e \in held : e <= lastId
  /\ \A e \in cache : e <= lastId
  /\ \A e \in pseen : e <= lastId

HoldingStates == {"planning", "risk", "placing", "answered", "found", "marking"}

Final == {"filled", "dead", "dead_partial"}

(* What the Trader read of an order and has not written yet: an order that  *)
(* had ended then is still as it was read.                                  *)
ReadTrue ==
  /\ cur \in Ids /\ result \in BrokerStates
  /\ result = "none" <=> broker[cur] = "none"
  /\ result \in Final => broker[cur] = result

Verdicts == {"submitted", "close_submitted", "failed", "ambiguous", "broker_rejected"}

(* What the Trader holds at each of its awaits.                             *)
InHand ==
  /\ batch \subseteq Pending
  /\ xpc \in HoldingStates =>
       cur \in Ids /\ status[cur] = "pending" /\ cur \notin batch
  /\ xpc \in {"planning", "risk"} => action[cur] = "open"
  /\ xpc = "marking" => result \in Verdicts
  /\ xpc \in {"found", "updating"} => ReadTrue
  /\ xpc = "updating" => result # "none"
  /\ xpc = "releasing" => cur \in Ids /\ broker[cur] # "none"
  /\ xpc \in {"idle", "reconcile", "updating", "releasing"} => batch = {}

Coherent == TypeOK /\ Drawn /\ PositionsDrawn /\ InHand

LEMMA InitCoherent == Init => Coherent
<1> SUFFICES ASSUME Init PROVE Coherent
  OBVIOUS
<1> USE ProposalsAssumption, LimitsAssumption, SwitchesAssumption
    DEF ProposalsAssumption, LimitsAssumption, SwitchesAssumption
<1>0. dryRun \in BOOLEAN /\ kill \in BOOLEAN /\ killSeen \in BOOLEAN
  BY Zenon DEF Init
<1>1. TypeOK
  BY <1>0 DEF Init, TypeOK, Ids, Statuses, ActiveStatuses, OrderStates, BrokerStates,
         TraderStates, NoId
<1>2. Drawn /\ PositionsDrawn
  BY DEF Init, Drawn, PositionsDrawn, Ids
<1>3. InHand
  BY DEF Init, InHand, Pending, HoldingStates
<1> QED
  BY <1>1, <1>2, <1>3 DEF Coherent

LEMMA StrategistCoherent ==
  ASSUME Coherent, StrategistStep
  PROVE  Coherent'
<1> USE ProposalsAssumption DEF ProposalsAssumption
<1> USE DEF store, brokerage, trader, pulse
<1>1. CASE \E u \in Underlyings : StrategistPick(u)
  BY <1>1 DEF StrategistPick, Coherent, TypeOK, Drawn, PositionsDrawn, InHand, ReadTrue, Final,
              Pending
<1>2. CASE StrategistDecline
  BY <1>2 DEF StrategistDecline, Coherent, TypeOK, Drawn, PositionsDrawn, InHand, ReadTrue,
              Final, Pending
<1>3. CASE StrategistPropose
  BY <1>3 DEF StrategistPropose, SaveProposal, Coherent, TypeOK, Drawn, PositionsDrawn,
              InHand, ReadTrue, Final, Pending, Ids, Statuses, ActiveStatuses
<1> QED
  BY <1>1, <1>2, <1>3 DEF StrategistStep

LEMMA PulseCoherent ==
  ASSUME Coherent, PulseStep
  PROVE  Coherent'
<1> USE ProposalsAssumption DEF ProposalsAssumption, store, brokerage, trader, Pending,
        Coherent, TypeOK, Drawn, PositionsDrawn, InHand, ReadTrue, Final
<1>1. CASE PulseRead
  BY <1>1 DEF PulseRead, CachedUnderlyings
<1>2. CASE PulseExits
  BY <1>2 DEF PulseExits, CachedUnderlyings
<1>3. CASE PulseEnd
  BY <1>3 DEF PulseEnd
<1>4. ASSUME NEW u \in Underlyings, PulseWrite(u)
      PROVE  Coherent'
  BY <1>4 DEF PulseWrite
<1>5. ASSUME NEW u \in Underlyings, ProposeClose(u)
      PROVE  Coherent'
  BY <1>5 DEF ProposeClose, SaveProposal, Ids, Statuses, ActiveStatuses
<1>6. ASSUME NEW u \in Underlyings, KeepPosition(u)
      PROVE  Coherent'
  BY <1>6 DEF KeepPosition
<1> QED
  BY <1>1, <1>2, <1>3, <1>4, <1>5, <1>6 DEF PulseStep

LEMMA BatchCoherent ==
  ASSUME Coherent,
         \/ TickStart
         \/ \E p \in Ids :
              \/ SkipKilledEntry(p) \/ RejectDuplicate(p) \/ AdmitEntry(p)
              \/ CloseMissed(p) \/ CloseWithoutLegs(p) \/ CloseDryRun(p) \/ PrepareClose(p)
  PROVE  Coherent'
<1> USE LimitsAssumption DEF LimitsAssumption, store, row, tick, outside, brokerage, pulse,
        Pending, HoldingStates, Coherent, TypeOK, Drawn, PositionsDrawn, InHand, ReadTrue,
        Final, Goto,
        TraderStates, NoId
<1>1. CASE TickStart
  BY <1>1 DEF TickStart, OldestPending
<1>2. ASSUME NEW p \in Ids, SkipKilledEntry(p)
      PROVE  Coherent'
  BY <1>2 DEF SkipKilledEntry, IsNext
<1>3. ASSUME NEW p \in Ids, AdmitEntry(p)
      PROVE  Coherent'
  BY <1>3 DEF AdmitEntry, IsNext
<1>4. ASSUME NEW p \in Ids, PrepareClose(p)
      PROVE  Coherent'
  BY <1>4 DEF PrepareClose, IsNext
<1>5. ASSUME NEW s \in {"rejected", "close_missed", "dry_run_approved"}, NEW p \in Ids,
             IsNext(p), Conclude(p, s)
      PROVE  Coherent'
  BY <1>5 DEF Conclude, IsNext, SetStatus, Statuses, ActiveStatuses
<1> QED
  BY <1>1, <1>2, <1>3, <1>4, <1>5 DEF RejectDuplicate, CloseMissed, CloseWithoutLegs, CloseDryRun

LEMMA EntryCoherent ==
  ASSUME Coherent,
         RejectPlan \/ ReadPositions \/ RejectRisk \/ ApproveDryRun \/ Approve
  PROVE  Coherent'
<1> USE LimitsAssumption DEF LimitsAssumption, store, row, tick, outside, brokerage, pulse,
        Pending, HoldingStates, Coherent, TypeOK, Drawn, PositionsDrawn, InHand, ReadTrue,
        Final, Goto,
        TraderStates, NoId
<1>1. CASE ReadPositions
  BY <1>1 DEF ReadPositions
<1>2. CASE Approve
  BY <1>2 DEF Approve
<1>3. ASSUME NEW s \in {"rejected", "dry_run_approved"}, xpc \in {"planning", "risk"},
             Conclude(cur, s)
      PROVE  Coherent'
  BY <1>3 DEF Conclude, SetStatus, Statuses, ActiveStatuses
<1> QED
  BY <1>1, <1>2, <1>3 DEF RejectPlan, RejectRisk, ApproveDryRun

LEMMA PlaceCoherent ==
  ASSUME Coherent, PlaceStep
  PROVE  Coherent'
<1> USE LimitsAssumption DEF LimitsAssumption, store, brokerage, pulse,
        Pending, HoldingStates, Coherent, TypeOK, Drawn, PositionsDrawn, InHand, ReadTrue,
        Final, Goto,
        TraderStates, BrokerStates, TakeOrder, Answer
<1>1. CASE PlaceAccepted
  BY <1>1 DEF PlaceAccepted
<1>2. CASE PlaceDuplicate
  BY <1>2 DEF PlaceDuplicate
<1>3. ASSUME NEW r \in {"error", "duplicate"}, PlaceRefused(r)
      PROVE  Coherent'
  BY <1>3 DEF PlaceRefused
<1>4. CASE PlaceUnanswered
  BY <1>4 DEF PlaceUnanswered, MayRetry
<1> QED
  BY <1>1, <1>2, <1>3, <1>4 DEF PlaceStep

LEMMA RecordCoherent ==
  ASSUME Coherent,
         RecordEntry \/ RecordClose \/ LookUpDuplicate \/ RecordDuplicate \/ MarkProposal
  PROVE  Coherent'
<1> USE DEF store, row, tick, outside, brokerage, pulse, Pending, HoldingStates, Coherent,
        TypeOK, Drawn, PositionsDrawn, InHand, ReadTrue, Final, Goto, TraderStates, NoId
<1>1. ASSUME NEW s \in OrderStates, NEW next \in Verdicts, xpc \in {"answered", "found"},
             Record(s, next)
      PROVE  Coherent'
  BY <1>1 DEF Record, RecordOrder, SetOrder, Verdicts, Statuses, ActiveStatuses
<1>2. CASE RecordEntry
  BY <1>1, <1>2 DEF RecordEntry, OrderStates, Verdicts
<1>3. CASE RecordClose
  BY <1>1, <1>3 DEF RecordClose, OrderStates, Verdicts
<1>4. CASE MarkProposal
  BY <1>4 DEF MarkProposal, SetStatus, Verdicts, Statuses, ActiveStatuses
<1>5. CASE LookUpDuplicate
  BY <1>5 DEF LookUpDuplicate
<1>6. CASE RecordDuplicate
  <2>1. FoundRow(result) \in OrderStates /\ FoundStatus(result) \in Verdicts
    BY <1>6 DEF RecordDuplicate, FoundRow, FoundStatus, Releases, OrderStates, BrokerStates,
                Verdicts
  <2> QED
    BY <1>1, <1>6, <2>1 DEF RecordDuplicate
<1> QED
  BY <1>2, <1>3, <1>4, <1>5, <1>6

LEMMA ReconcileCoherent ==
  ASSUME Coherent,
         \/ StartReconcile \/ UpdateRow \/ ReleaseProposal \/ TickEnd \/ AbortTick
         \/ \E p \in Ids : ReconcileSkip(p) \/ ReconcileRow(p)
  PROVE  Coherent'
<1> USE LimitsAssumption DEF LimitsAssumption, store, row, tick, outside, brokerage, pulse,
        Pending, HoldingStates, Coherent, TypeOK, Drawn, PositionsDrawn, InHand, ReadTrue,
        Final, Goto,
        TraderStates, NoId
<1>1. CASE StartReconcile
  BY <1>1 DEF StartReconcile, InFlight
<1>2. ASSUME NEW p \in Ids, ReconcileSkip(p)
      PROVE  Coherent'
  BY <1>2 DEF ReconcileSkip
<1>3. ASSUME NEW p \in Ids, ReconcileRow(p)
      PROVE  Coherent'
  BY <1>3 DEF ReconcileRow
<1>4. CASE UpdateRow
  BY <1>4 DEF UpdateRow, SetOrder, OrderStates, Releases, Statuses
<1>5. CASE ReleaseProposal
  BY <1>5 DEF ReleaseProposal, SetStatus, Statuses
<1>6. CASE TickEnd
  BY <1>6 DEF TickEnd
<1>7. CASE AbortTick
  <2>1. killSeen' \in BOOLEAN
    BY <1>7, Zenon DEF AbortTick, ResetTrader
  <2> QED
    BY <1>7, <2>1 DEF AbortTick, ResetTrader, Statuses
<1> QED
  BY <1>1, <1>2, <1>3, <1>4, <1>5, <1>6, <1>7

LEMMA WorldCoherent ==
  ASSUME Coherent,
         BrokerStep \/ \E b \in BOOLEAN : SetKillSwitch(b) \/ Restart(b)
  PROVE  Coherent'
<1> USE LimitsAssumption DEF LimitsAssumption, store, brokerage, trader, pulse, Pending,
        HoldingStates, Coherent, TypeOK, Drawn, PositionsDrawn, InHand, ReadTrue, Final,
        TraderStates, NoId
<1>1. ASSUME NEW p \in Ids, BrokerPartialFill(p)
      PROVE  Coherent'
  BY <1>1, ProposalsAssumption DEF BrokerPartialFill, BrokerStates, Ids, ProposalsAssumption
<1>2. ASSUME NEW p \in Ids, BrokerFillEntry(p)
      PROVE  Coherent'
  <2>1. p <= lastId
    BY <1>2, ProposalsAssumption DEF BrokerFillEntry, Ids, ProposalsAssumption
  <2> QED
    BY <1>2, <2>1 DEF BrokerFillEntry, BrokerStates
<1>3. ASSUME NEW p \in Ids, BrokerFillClose(p)
      PROVE  Coherent'
  BY <1>3 DEF BrokerFillClose, BrokerStates
<1>4. ASSUME NEW p \in Ids, BrokerKill(p)
      PROVE  Coherent'
  BY <1>4 DEF BrokerKill, BrokerStates
<1>5. ASSUME NEW p \in Ids, PositionGone(p)
      PROVE  Coherent'
  BY <1>5 DEF PositionGone
<1>6. ASSUME NEW b \in BOOLEAN, SetKillSwitch(b)
      PROVE  Coherent'
  BY <1>6 DEF SetKillSwitch
<1>7. ASSUME NEW b \in BOOLEAN, Restart(b)
      PROVE  Coherent'
  <2>1. dryRun' \in BOOLEAN /\ killSeen' \in BOOLEAN
    BY <1>7, Zenon DEF Restart, ResetTrader
  <2> QED
    BY <1>7, <2>1 DEF Restart, ResetTrader, Statuses
<1> QED
  BY <1>1, <1>2, <1>3, <1>4, <1>5, <1>6, <1>7 DEF BrokerStep

LEMMA StutterCoherent ==
  ASSUME Coherent, UNCHANGED vars
  PROVE  Coherent'
BY DEF vars, store, brokerage, trader, pulse, Pending, HoldingStates, Coherent, TypeOK,
       Drawn, PositionsDrawn, InHand, ReadTrue, Final

LEMMA NextCoherent ==
  ASSUME Coherent, [Next]_vars
  PROVE  Coherent'
<1>1. CASE TraderStep
  BY <1>1, BatchCoherent, EntryCoherent, PlaceCoherent, RecordCoherent, ReconcileCoherent
     DEF TraderStep
<1> QED
  BY <1>1, StrategistCoherent, PulseCoherent, ReconcileCoherent, WorldCoherent,
     StutterCoherent DEF Next

(* The variables keep their types, the Trader always holds a pending        *)
(* proposal at its awaits, and no id is used before it is drawn.            *)
THEOREM TypesAlwaysOK == Spec => []TypeOK
<1>1. Coherent => TypeOK
  BY DEF Coherent
<1> QED
  BY InitCoherent, NextCoherent, <1>1, PTL DEF Spec

LEMMA CoherentAlways == Spec => []Coherent
BY InitCoherent, NextCoherent, PTL DEF Spec

------------------------------------------------------------------------------
(* No underlying has two active entries: the Strategist's choice is still    *)
(* free when it writes, because nobody else writes entries.                  *)

PickFree ==
  pick # NoSymbol => \A p \in Entries : of[p] = pick => p \notin Active

Exclusive == OneActiveEntry /\ PickFree

(* What a step does to the proposals and to the Strategist's choice.        *)
ProposalEffect ==
  \/ /\ UNCHANGED <<status, of, action>>
     /\ pick' \in {pick, NoSymbol} \/ Eligible(pick')
  \/ /\ pick # NoSymbol
     /\ SaveProposal(pick, "open")
     /\ pick' = NoSymbol
  \/ /\ UNCHANGED pick
     /\ \E u \in Underlyings : SaveProposal(u, "close")
  \/ /\ UNCHANGED <<of, action, pick>>
     /\ \E p \in Ids, s \in Statuses :
          /\ status[p] = "pending" \/ s = "broker_rejected"
          /\ SetStatus(p, s)

LEMMA EffectOnProposals ==
  ASSUME Coherent, [Next]_vars
  PROVE  ProposalEffect
<1> USE DEF store, row, tick, outside, brokerage, trader, pulse
<1>1. CASE StrategistStep
  BY <1>1 DEF StrategistStep, StrategistPick, StrategistPropose, StrategistDecline,
              ProposalEffect
<1>2. CASE PulseStep
  BY <1>2 DEF PulseStep, PulseRead, PulseWrite, PulseExits, PulseEnd, ProposeClose,
              KeepPosition, ProposalEffect
<1>3. ASSUME NEW p \in Ids, NEW s \in Statuses, status[p] = "pending", SetStatus(p, s),
             UNCHANGED <<of, action, pick>>
      PROVE  ProposalEffect
  BY <1>3 DEF ProposalEffect
<1>4. CASE TraderStep
  <2>1. ASSUME NEW p \in Ids, IsNext(p), NEW s \in Statuses, Conclude(p, s)
        PROVE  ProposalEffect
    BY <1>3, <2>1 DEF IsNext, Conclude, Coherent, InHand, Pending
  <2>2. ASSUME xpc \in {"planning", "risk"}, NEW s \in Statuses, Conclude(cur, s)
        PROVE  ProposalEffect
    BY <1>3, <2>2 DEF Conclude, Coherent, InHand, HoldingStates
  <2>3. ASSUME NEW p \in Ids,
               RejectDuplicate(p) \/ CloseMissed(p) \/ CloseWithoutLegs(p) \/ CloseDryRun(p)
        PROVE  ProposalEffect
    BY <2>1, <2>3 DEF RejectDuplicate, CloseMissed, CloseWithoutLegs, CloseDryRun, Statuses,
                      ActiveStatuses
  <2>4. CASE RejectPlan \/ RejectRisk \/ ApproveDryRun
    BY <2>2, <2>4 DEF RejectPlan, RejectRisk, ApproveDryRun, Statuses, ActiveStatuses
  <2>5. CASE MarkProposal
    BY <1>3, <2>5 DEF MarkProposal, Coherent, InHand, HoldingStates, Verdicts, Statuses,
                      ActiveStatuses
  <2>6. CASE ReleaseProposal
    BY <2>6 DEF ReleaseProposal, Coherent, InHand, Statuses, ProposalEffect
  <2>7. CASE TickStart \/ ReadPositions \/ Approve \/ StartReconcile \/ UpdateRow \/ TickEnd
    BY <2>7 DEF TickStart, ReadPositions, Approve, StartReconcile, UpdateRow, TickEnd,
                ProposalEffect
  <2>8. CASE PlaceStep \/ RecordEntry \/ RecordClose \/ LookUpDuplicate \/ RecordDuplicate
    BY <2>8 DEF PlaceStep, PlaceAccepted, PlaceDuplicate, PlaceRefused, PlaceUnanswered,
                Answer, RecordEntry, RecordClose, LookUpDuplicate, RecordDuplicate, Record,
                ProposalEffect
  <2>9. ASSUME NEW p \in Ids,
               \/ SkipKilledEntry(p) \/ AdmitEntry(p) \/ PrepareClose(p)
               \/ ReconcileSkip(p) \/ ReconcileRow(p)
        PROVE  ProposalEffect
    BY <2>9 DEF SkipKilledEntry, AdmitEntry, PrepareClose, ReconcileSkip, ReconcileRow,
                ProposalEffect
  <2> QED
    BY <1>4, <2>3, <2>4, <2>5, <2>6, <2>7, <2>8, <2>9 DEF TraderStep
<1>5. CASE AbortTick
  BY <1>5 DEF AbortTick, ProposalEffect
<1>6. CASE BrokerStep
  BY <1>6 DEF BrokerStep, BrokerPartialFill, BrokerFillEntry, BrokerFillClose, BrokerKill,
              PositionGone, ProposalEffect
<1>7. ASSUME NEW b \in BOOLEAN, SetKillSwitch(b) \/ Restart(b)
      PROVE  ProposalEffect
  BY <1>7 DEF SetKillSwitch, Restart, ProposalEffect
<1>8. CASE UNCHANGED vars
  BY <1>8 DEF vars, ProposalEffect
<1> QED
  BY <1>1, <1>2, <1>4, <1>5, <1>6, <1>7, <1>8 DEF Next

LEMMA NextExclusive ==
  ASSUME Coherent, Exclusive, ProposalEffect
  PROVE  Exclusive'
<1> USE DEF Exclusive, OneActiveEntry, PickFree, Entries, Active, Coherent, TypeOK
<1>1. CASE UNCHANGED <<status, of, action>> /\ pick' \in {pick, NoSymbol}
  BY <1>1
<1>2. CASE UNCHANGED <<status, of, action>> /\ Eligible(pick')
  BY <1>2 DEF Eligible, ActiveUnderlyings, NoId, Ids
<1>3. CASE pick # NoSymbol /\ SaveProposal(pick, "open") /\ pick' = NoSymbol
  BY <1>3, ProposalsAssumption
     DEF SaveProposal, Drawn, Ids, ProposalsAssumption, ActiveStatuses
<1>4. ASSUME UNCHANGED pick, NEW u \in Underlyings, SaveProposal(u, "close")
      PROVE  Exclusive'
  BY <1>4, ProposalsAssumption
     DEF SaveProposal, Drawn, Ids, ProposalsAssumption, ActiveStatuses
<1>5. ASSUME UNCHANGED <<of, action, pick>>, NEW p \in Ids, NEW s \in Statuses,
             status[p] = "pending" \/ s = "broker_rejected", SetStatus(p, s)
      PROVE  Exclusive'
  BY <1>5 DEF SetStatus, ActiveStatuses
<1> QED
  BY <1>1, <1>2, <1>3, <1>4, <1>5 DEF ProposalEffect

(* No underlying ever has two active entry proposals.                       *)
THEOREM ActiveEntriesExclusive == Spec => []OneActiveEntry
<1>1. Init => Exclusive
  BY DEF Init, Exclusive, OneActiveEntry, PickFree, Entries, Active
<1>2. Coherent /\ Exclusive /\ [Next]_vars => Exclusive'
  BY EffectOnProposals, NextExclusive
<1>3. Exclusive => OneActiveEntry
  BY DEF Exclusive
<1> QED
  BY <1>1, <1>2, <1>3, CoherentAlways, PTL DEF Spec

------------------------------------------------------------------------------
(* The kill switch.  Once it is on, the entry being placed, if any, is the   *)
(* last: Approve rereads the switch, so no other entry reaches the placing.  *)

KillCounts ==
  /\ killEntries <= 1
  /\ ~kill => killEntries = 0
  /\ killEntries > 0 /\ xpc = "placing" /\ action[cur] = "open" => broker[cur] # "none"

(* The broker on its own neither loses an order nor makes one up.           *)
LEMMA BrokerNeverForgets ==
  ASSUME Coherent, BrokerStep
  PROVE  \A p \in Ids : broker[p] # "none" <=> broker'[p] # "none"
<1>1. broker \in [Ids -> BrokerStates]
  BY DEF Coherent, TypeOK
<1>2. ASSUME NEW q \in Ids, broker[q] # "none", NEW s \in BrokerStates \ {"none"},
             broker' = [broker EXCEPT ![q] = s]
      PROVE  \A p \in Ids : broker[p] # "none" <=> broker'[p] # "none"
  BY <1>1, <1>2
<1> QED
  BY <1>2 DEF BrokerStep, BrokerPartialFill, BrokerFillEntry, BrokerFillClose, BrokerKill,
              PositionGone, BrokerStates

(* Steps that neither send an order nor move the switch leave the count,     *)
(* and none but Approve brings an entry to the placing.                      *)
LEMMA KillCountsKept ==
  ASSUME Coherent, KillCounts,
         UNCHANGED <<kill, killEntries>>,
         \A p \in Ids : broker[p] # "none" => broker'[p] # "none",
         xpc' = "placing" => \/ UNCHANGED <<xpc, cur>> /\ action'[cur] = action[cur]
                            \/ action'[cur'] # "open"
                            \/ ~kill
  PROVE  KillCounts'
BY DEF KillCounts, Coherent, InHand, TypeOK, HoldingStates

LEMMA NextKillCounts ==
  ASSUME Coherent, KillCounts, [Next]_vars
  PROVE  KillCounts'
<1> USE DEF store, row, tick, outside, brokerage, trader, pulse, Goto
<1>t. /\ broker \in [Ids -> BrokerStates]
      /\ action \in [Ids -> {"none", "open", "close"}]
      /\ xpc \in HoldingStates => cur \in Ids /\ cur <= lastId
  BY ProposalsAssumption DEF Coherent, TypeOK, InHand, Drawn, Ids, ProposalsAssumption
<1>1. CASE StrategistStep \/ PulseStep
  <2>1. UNCHANGED <<kill, killEntries, broker, xpc, cur>>
    BY <1>1 DEF StrategistStep, StrategistPick, StrategistPropose, StrategistDecline,
                PulseStep, PulseRead, PulseWrite, PulseExits, PulseEnd, ProposeClose,
                KeepPosition
  <2>2. \A p \in Ids : p <= lastId => action'[p] = action[p]
    BY <1>1, <1>t, ProposalsAssumption
       DEF StrategistStep, StrategistPick, StrategistPropose, StrategistDecline,
           PulseStep, PulseRead, PulseWrite, PulseExits, PulseEnd, ProposeClose,
           KeepPosition, SaveProposal, Ids, ProposalsAssumption, Coherent, TypeOK
  <2> QED
    BY <1>t, <2>1, <2>2, KillCountsKept DEF HoldingStates
<1>2. CASE TraderStep
  <2>1. CASE PlaceAccepted
    BY <1>t, <2>1 DEF PlaceAccepted, TakeOrder, Answer, KillCounts, HoldingStates, Coherent, TypeOK
  <2>2. CASE PlaceUnanswered
    <3>1. xpc = "placing" /\ UNCHANGED <<cur, kill, action>>
      BY <2>2 DEF PlaceUnanswered
    <3>2. CASE broker[cur] = "none" /\ TakeOrder(cur)
      BY <1>t, <3>1, <3>2 DEF TakeOrder, KillCounts, HoldingStates, Coherent, TypeOK
    <3>3. CASE UNCHANGED <<brokerage, killEntries>>
      BY <3>1, <3>3 DEF KillCounts
    <3> QED
      BY <2>2, <3>2, <3>3 DEF PlaceUnanswered
  <2>3. CASE PlaceDuplicate \/ \E r \in {"error", "duplicate"} : PlaceRefused(r)
    BY <2>3, KillCountsKept DEF PlaceDuplicate, PlaceRefused, Answer
  <2>4. CASE Approve
    BY <2>4, KillCountsKept DEF Approve, RiskAllows
  <2>5. ASSUME NEW p \in Ids, PrepareClose(p)
        PROVE  KillCounts'
    BY <2>5, KillCountsKept DEF PrepareClose
  <2>6. ASSUME NEW p \in Ids,
               \/ SkipKilledEntry(p) \/ RejectDuplicate(p) \/ AdmitEntry(p)
               \/ CloseMissed(p) \/ CloseWithoutLegs(p) \/ CloseDryRun(p)
               \/ ReconcileSkip(p) \/ ReconcileRow(p)
        PROVE  KillCounts'
    BY <2>6, KillCountsKept
       DEF SkipKilledEntry, RejectDuplicate, AdmitEntry, CloseMissed, CloseWithoutLegs,
           CloseDryRun, ReconcileSkip, ReconcileRow, Conclude, IsNext
  <2>7. CASE \/ TickStart \/ RejectPlan \/ ReadPositions \/ RejectRisk \/ ApproveDryRun
             \/ RecordEntry \/ RecordClose \/ LookUpDuplicate \/ RecordDuplicate
             \/ MarkProposal \/ StartReconcile \/ UpdateRow \/ ReleaseProposal \/ TickEnd
    BY <2>7, KillCountsKept
       DEF TickStart, RejectPlan, ReadPositions, RejectRisk, ApproveDryRun, RecordEntry,
           RecordClose, LookUpDuplicate, RecordDuplicate, Record, MarkProposal, StartReconcile,
           UpdateRow, ReleaseProposal, TickEnd, Conclude
  <2> QED
    BY <1>2, <2>1, <2>2, <2>3, <2>4, <2>5, <2>6, <2>7 DEF TraderStep, PlaceStep
<1>3. CASE AbortTick
  BY <1>3, KillCountsKept DEF AbortTick, ResetTrader
<1>4. CASE BrokerStep
  <2>1. UNCHANGED <<kill, killEntries, xpc, cur, action>>
    BY <1>4 DEF BrokerStep, BrokerPartialFill, BrokerFillEntry, BrokerFillClose, BrokerKill,
                PositionGone
  <2>2. \A p \in Ids : broker[p] # "none" => broker'[p] # "none"
    BY <1>4, BrokerNeverForgets
  <2> QED
    BY <2>1, <2>2, KillCountsKept
<1>5. ASSUME NEW b \in BOOLEAN, SetKillSwitch(b)
      PROVE  KillCounts'
  BY <1>5 DEF SetKillSwitch, KillCounts
<1>6. ASSUME NEW b \in BOOLEAN, Restart(b)
      PROVE  KillCounts'
  BY <1>6, KillCountsKept DEF Restart, ResetTrader
<1>7. CASE UNCHANGED vars
  BY <1>7, KillCountsKept DEF vars
<1> QED
  BY <1>1, <1>2, <1>3, <1>4, <1>5, <1>6, <1>7 DEF Next

(* At most one entry reaches the broker while the kill switch is on.        *)
THEOREM KillSwitchBoundsEntries == Spec => []KillBoundsEntries
<1>1. Init => KillCounts
  BY DEF Init, KillCounts
<1>2. KillCounts => KillBoundsEntries
  BY DEF KillCounts, KillBoundsEntries
<1> QED
  BY <1>1, <1>2, NextKillCounts, CoherentAlways, PTL DEF Spec

------------------------------------------------------------------------------
(* One tracked entry per underlying.  The Trader reads the positions first   *)
(* and the Store second: an entry that fills in between is still in flight   *)
(* in the Store, so the second read sees it (RiskSees); what the two reads   *)
(* miss cannot come to be known before the order in hand is recorded         *)
(* (PlacingAlone).                                                           *)

SettledAgree == \A p \in Ids : order[p] \in Final => broker[p] = order[p]

RiskSees ==
  xpc = "risk" => \A q \in held \ seen : Tracked(q) => order[q] \in InFlightStates

(* An order is sent and its row is not written yet.                         *)
Placing == {"placing", "answered", "found"}

PlacingAlone ==
  xpc \in Placing /\ action[cur] = "open" =>
    /\ order[cur] = "none"
    /\ \A q \in Entries : q # cur /\ of[q] = of[cur] => ~(Live(q) /\ Tracked(q))

Reconciling == {"reconcile", "updating", "releasing"}

TodoTracked ==
  /\ xpc \in Reconciling => \A p \in todo : Tracked(p)
  /\ xpc = "updating" => Tracked(cur)

Exposed == {p \in Entries : Live(p) /\ Tracked(p)}

RoomForOne ==
  xpc \in Placing /\ action[cur] = "open" =>
    Cardinality(Exposed) < MaxConcurrentPositions

Placed ==
  /\ SettledAgree /\ RiskSees /\ PlacingAlone /\ TodoTracked
  /\ NoDoubleTrackedEntry /\ RoomForOne /\ ConcurrencyCap

LEMMA IdsFinite == IsFiniteSet(Ids)
<1>1. 1 \in Int /\ MaxProposals \in Int
  BY ProposalsAssumption DEF ProposalsAssumption
<1>2. IsFiniteSet(1..MaxProposals)
  BY <1>1, FS_Interval
<1> QED
  BY <1>2 DEF Ids

LEMMA CardOfIds ==
  ASSUME NEW S, S \subseteq Ids
  PROVE  IsFiniteSet(S) /\ Cardinality(S) \in Nat
BY IdsFinite, FS_Subset, FS_CardinalityType

(* Fewer exposed entries keep both bounds.                                  *)
LEMMA FewerExposed ==
  ASSUME Exposed' \subseteq Exposed
  PROVE  Cardinality(Exposed') <= Cardinality(Exposed)
         /\ Cardinality(Exposed') \in Nat /\ Cardinality(Exposed) \in Nat
<1>1. Exposed \subseteq Ids
  BY DEF Exposed, Entries
<1>2. IsFiniteSet(Exposed)
  BY <1>1, CardOfIds
<1>3. Cardinality(Exposed') <= Cardinality(Exposed)
  BY <1>2, FS_Subset
<1>4. Exposed' \subseteq Ids
  BY <1>1
<1> QED
  BY <1>1, <1>3, <1>4, CardOfIds

LEMMA StructuresFinite ==
  ASSUME NEW S, S \subseteq Ids
  PROVE  IsFiniteSet(Structures(S))
<1> DEFINE f == [e \in S |-> <<of[e], ExpiryOf[e]>>]
<1>1. IsFiniteSet(S)
  BY CardOfIds
<1>2. f \in Surjection(S, Structures(S))
  <2>1. f \in [S -> Structures(S)]
    BY Zenon DEF Structures
  <2>2. ASSUME NEW t \in Structures(S)
        PROVE  \E e \in S : f[e] = t
    <3>1. PICK e \in S : t = <<of[e], ExpiryOf[e]>>
      BY Zenon DEF Structures
    <3> QED
      BY <3>1, Zenon
  <2> QED
    BY <2>1, <2>2, Zenon DEF Surjection
<1> QED
  BY <1>1, <1>2, FS_Surjection

(* What the risk check guarantees when one position per symbol is allowed.  *)
LEMMA RiskFindsFree ==
  ASSUME Coherent, xpc = "risk", RiskAllows(cur), MaxPositionsPerUnderlying = 1
  PROVE  /\ \A e \in seen : of[e] # of[cur]
         /\ \A q \in Ids : order[q] \in InFlightStates => of[q] # of[cur]
         /\ order[cur] = "none"
<1> DEFINE Mine == {s \in Structures(seen) : s[1] = of[cur]}
<1>1. IsFiniteSet(Mine)
  BY StructuresFinite, FS_Subset DEF Coherent, TypeOK
<1>2. Cardinality(Mine) \in Nat
  BY <1>1, FS_CardinalityType
<1>3. Cardinality(Mine) = 0 /\ of[cur] \notin SlotHolders(cur)
  <2>1. Cardinality(Mine) + (IF of[cur] \in SlotHolders(cur) THEN 1 ELSE 0) < 1
    BY Zenon DEF RiskAllows, PositionsInUnderlying
  <2> HIDE DEF Mine
  <2> QED
    BY <1>2, <2>1
<1>4. Mine = {}
  BY <1>1, <1>3, FS_EmptySet
<1>5. \A e \in seen : of[e] # of[cur]
  <2> SUFFICES ASSUME NEW e \in seen, of[e] = of[cur]
               PROVE  FALSE
    OBVIOUS
  <2>1. <<of[e], ExpiryOf[e]>> \in Structures(seen)
    BY Zenon DEF Structures
  <2>2. <<of[e], ExpiryOf[e]>>[1] = of[cur]
    OBVIOUS
  <2> QED
    BY <1>4, <2>1, <2>2
<1>6. of[cur] \notin WorkingUnderlyings
  BY <1>3, <1>5 DEF SlotHolders
<1> QED
  BY <1>5, <1>6 DEF WorkingUnderlyings, InFlight, RiskAllows

(* ... and on the whole account: every exposed entry is counted, as a        *)
(* structure or as a slot held.                                             *)
LEMMA RiskFindsRoom ==
  ASSUME Coherent, Placed, xpc = "risk", RiskAllows(cur)
  PROVE  Cardinality(Exposed) < MaxConcurrentPositions
<1> DEFINE U == {of[e] : e \in seen}
           g == [q \in Exposed |-> of[q]]
           h == [t \in Structures(seen) |-> t[1]]
           k == [q \in Ids |-> of[q]]
<1>t. /\ seen \subseteq Ids /\ Exposed \subseteq Ids
      /\ order \in [Ids -> OrderStates]
  BY DEF Coherent, TypeOK, Exposed, Entries
<1>1. IsFiniteSet(Structures(seen))
  BY <1>t, StructuresFinite
<1>2. IsFiniteSet(U) /\ Cardinality(U) <= Cardinality(Structures(seen))
  <2>1. ASSUME NEW t \in Structures(seen)
        PROVE  t[1] \in U
    <3>1. PICK e \in seen : t = <<of[e], ExpiryOf[e]>>
      BY Zenon DEF Structures
    <3> QED
      BY <3>1
  <2>2. ASSUME NEW u \in U
        PROVE  \E t \in Structures(seen) : h[t] = u
    <3>1. PICK e \in seen : u = of[e]
      OBVIOUS
    <3>2. <<of[e], ExpiryOf[e]>> \in Structures(seen)
      BY Zenon DEF Structures
    <3> QED
      BY <3>1, <3>2
  <2>3. h \in Surjection(Structures(seen), U)
    BY <2>1, <2>2, Zenon DEF Surjection
  <2> QED
    BY <1>1, <2>3, FS_Surjection
<1>3. IsFiniteSet(SlotHolders(cur))
  <2> DEFINE A == {of[q] : q \in Ids}
  <2>1. k \in Surjection(Ids, A)
    BY DEF Surjection
  <2>2. IsFiniteSet(A)
    BY <2>1, IdsFinite, FS_Surjection
  <2>3. SlotHolders(cur) \subseteq A
    BY DEF SlotHolders, WorkingUnderlyings, InFlight, ActiveUnderlyings, Active
  <2> QED
    BY <2>2, <2>3, FS_Subset
<1>4. ASSUME NEW q \in Exposed
      PROVE  of[q] \in U \union SlotHolders(cur)
  <2>1. CASE order[q] \in InFlightStates
    BY <1>t, <2>1 DEF SlotHolders, WorkingUnderlyings, InFlight
  <2>2. CASE order[q] \notin InFlightStates
    <3>1. order[q] \in Final
      BY <1>t, <2>2 DEF Exposed, Tracked, InFlightStates, SettledStates, Final, OrderStates
    <3>2. q \in held
      BY <1>t, <3>1 DEF Placed, SettledAgree, Final, Exposed, Live
    <3>3. q \in seen
      BY <2>2, <3>2 DEF Placed, RiskSees, Exposed
    <3> QED
      BY <3>3
  <2> QED
    BY <2>1, <2>2
<1>5. g \in Injection(Exposed, U \union SlotHolders(cur))
  <2>1. g \in [Exposed -> U \union SlotHolders(cur)]
    BY <1>4
  <2>2. \A p, q \in Exposed : g[p] = g[q] => p = q
    BY DEF Placed, NoDoubleTrackedEntry, Exposed
  <2> HIDE DEF g
  <2> QED
    BY <2>1, <2>2, Zenon DEF Injection, IsInjective
<1> HIDE DEF U, g, h, k
<1>6. /\ IsFiniteSet(U \union SlotHolders(cur))
      /\ Cardinality(U \union SlotHolders(cur)) =
           Cardinality(U) + Cardinality(SlotHolders(cur)) - Cardinality(U \intersect SlotHolders(cur))
  BY <1>2, <1>3, FS_Union
<1>7. Cardinality(Exposed) <= Cardinality(U \union SlotHolders(cur))
  BY <1>5, <1>6, FS_Injection
<1>8. IsFiniteSet(U \intersect SlotHolders(cur))
  BY <1>2, FS_Subset
<1>9. /\ Cardinality(Exposed) \in Nat /\ Cardinality(U) \in Nat
      /\ Cardinality(SlotHolders(cur)) \in Nat /\ Cardinality(Structures(seen)) \in Nat
      /\ Cardinality(U \intersect SlotHolders(cur)) \in Nat
      /\ Cardinality(U \union SlotHolders(cur)) \in Nat
  BY <1>t, <1>1, <1>2, <1>3, <1>6, <1>8, CardOfIds, FS_CardinalityType
<1>10. Cardinality(Structures(seen)) + Cardinality(SlotHolders(cur)) < MaxConcurrentPositions
  BY DEF RiskAllows, ConcurrentPositions
<1> QED
  BY <1>2, <1>6, <1>7, <1>9, <1>10, LimitsAssumption DEF LimitsAssumption

(* Steps that write no order row and make no order live.                    *)
LEMMA PlacedKept ==
  ASSUME Coherent, Placed,
         UNCHANGED order,
         \A p \in Ids : p <= lastId => of'[p] = of[p] /\ action'[p] = action[p],
         \A p \in Ids : broker[p] \in Final \union {"none"} => broker'[p] = broker[p],
         \A p \in held' \ held : p \in Ids /\ broker[p] \in {"working", "partially_filled"},
         xpc' = "risk" => UNCHANGED <<xpc, seen>>,
         xpc' \in Placing =>
           \/ xpc \in Placing /\ cur' = cur
           \/ cur' \in Ids /\ action'[cur'] # "open",
         xpc' \in Reconciling =>
           \/ xpc \in Reconciling /\ todo' \subseteq todo
           \/ todo' \subseteq InFlight,
         xpc' = "updating" =>
           \/ UNCHANGED <<xpc, cur>>
           \/ xpc = "reconcile" /\ cur' \in todo
  PROVE  Placed'
<1> USE ProposalsAssumption DEF ProposalsAssumption, Ids, Placing
<1>t. /\ order \in [Ids -> OrderStates] /\ broker \in [Ids -> BrokerStates]
      /\ lastId \in Nat /\ held \subseteq Ids
      /\ xpc \in HoldingStates => cur \in Ids /\ cur <= lastId
  BY DEF Coherent, TypeOK, InHand, Drawn
<1>1. ASSUME NEW q \in Ids, order[q] \notin InFlightStates, Tracked(q)
      PROVE  order[q] \in Final /\ broker[q] = order[q]
  BY <1>1, <1>t DEF Tracked, InFlightStates, SettledStates, Final, OrderStates, Placed,
                    SettledAgree
<1>2. ASSUME NEW q \in Ids, Live(q)'
      PROVE  Live(q)
  <2>1. CASE q \in held' \ held
    BY <2>1 DEF Live
  <2>2. CASE broker'[q] \in {"working", "partially_filled"}
    BY <1>t, <2>2 DEF Final, Live, BrokerStates
  <2> QED
    BY <1>2, <2>1, <2>2 DEF Live
<1>3. ASSUME NEW q \in Ids, Live(q)
      PROVE  q <= lastId
  BY <1>3, <1>t DEF Live, Coherent, Drawn, PositionsDrawn
<1>4. SettledAgree'
  BY DEF Placed, SettledAgree, Final
<1>5. RiskSees'
  <2> SUFFICES ASSUME xpc' = "risk", NEW q \in held' \ seen', Tracked(q)'
               PROVE  order'[q] \in InFlightStates
    BY DEF RiskSees
  <2>1. q \in Ids /\ Tracked(q)
    BY <1>t DEF Tracked
  <2>2. CASE q \in held
    BY <2>1, <2>2 DEF Placed, RiskSees
  <2>3. CASE q \notin held
    BY <1>1, <2>1, <2>3 DEF Final
  <2> QED
    BY <2>2, <2>3
<1>6. PlacingAlone'
  <2> SUFFICES ASSUME xpc' \in Placing, action'[cur'] = "open"
               PROVE  /\ order'[cur'] = "none"
                      /\ \A q \in Entries' : q # cur' /\ of'[q] = of'[cur'] =>
                           ~(Live(q)' /\ Tracked(q)')
    BY DEF PlacingAlone
  <2>1. xpc \in Placing /\ cur' = cur /\ action[cur] = "open"
    BY <1>t DEF HoldingStates
  <2>2. ASSUME NEW q \in Entries', q # cur, of'[q] = of'[cur], Live(q)', Tracked(q)'
        PROVE  FALSE
    BY <1>2, <1>3, <1>t, <2>1, <2>2 DEF Placed, PlacingAlone, Entries, Tracked, HoldingStates
  <2> QED
    BY <2>1, <2>2 DEF Placed, PlacingAlone
<1>7. TodoTracked'
  BY DEF Placed, TodoTracked, Reconciling, Tracked, InFlight, InFlightStates, SettledStates
<1>8. NoDoubleTrackedEntry'
  <2> SUFFICES ASSUME NEW p \in Entries', NEW q \in Entries', p # q, of'[p] = of'[q],
                      Live(p)', Live(q)', Tracked(p)', Tracked(q)'
               PROVE  FALSE
    BY DEF NoDoubleTrackedEntry
  <2>1. Live(p) /\ Live(q) /\ Tracked(p) /\ Tracked(q)
    BY <1>2 DEF Entries, Tracked
  <2>2. p \in Entries /\ q \in Entries /\ of[p] = of[q]
    BY <1>3, <2>1 DEF Entries
  <2> QED
    BY <2>1, <2>2 DEF Placed, NoDoubleTrackedEntry
<1>9. Exposed' \subseteq Exposed
  BY <1>2, <1>3 DEF Exposed, Entries, Tracked
<1>10. ConcurrencyCap' /\ RoomForOne'
  <2>1. xpc' \in Placing /\ action'[cur'] = "open"
          => xpc \in Placing /\ action[cur] = "open"
    BY <1>t DEF HoldingStates
  <2> QED
    BY <1>9, <2>1, FewerExposed, LimitsAssumption
       DEF Placed, ConcurrencyCap, RoomForOne, Exposed, LimitsAssumption
<1> QED
  BY <1>4, <1>5, <1>6, <1>7, <1>8, <1>10 DEF Placed

(* The broker takes the order in hand.                                      *)
LEMMA TakePlaced ==
  ASSUME Coherent, Placed,
         xpc = "placing", broker[cur] = "none", TakeOrder(cur),
         xpc' \in Placing, UNCHANGED <<store, cur>>
  PROVE  Placed'
<1> USE DEF store, Placed, Placing
<1>t. /\ broker \in [Ids -> BrokerStates] /\ cur \in Ids
      /\ \A q \in Ids : q # cur => broker'[q] = broker[q]
      /\ UNCHANGED <<held, order, of, action>>
  BY DEF Coherent, TypeOK, InHand, HoldingStates, TakeOrder
<1>1. SettledAgree'
  BY <1>t DEF SettledAgree, Final
<1>2. RiskSees' /\ TodoTracked'
  BY DEF RiskSees, TodoTracked, Reconciling
<1>3. ASSUME NEW q \in Entries', Live(q)', Tracked(q)'
      PROVE  q \in Entries /\ Live(q) /\ Tracked(q)
  <2>1. q \in Entries /\ Tracked(q)
    BY <1>3, <1>t DEF Entries, Tracked
  <2>2. q # cur
    BY <2>1 DEF PlacingAlone, Tracked, Entries
  <2> QED
    BY <1>3, <1>t, <2>1, <2>2 DEF Live, Entries
<1>4. PlacingAlone'
  BY <1>t, <1>3 DEF PlacingAlone
<1>5. NoDoubleTrackedEntry'
  BY <1>t, <1>3 DEF NoDoubleTrackedEntry
<1>6. Exposed' \subseteq Exposed
  BY <1>3 DEF Exposed
<1>7. ConcurrencyCap' /\ RoomForOne'
  BY <1>t, <1>6, FewerExposed, LimitsAssumption
     DEF ConcurrencyCap, RoomForOne, Exposed, LimitsAssumption
<1> QED
  BY <1>1, <1>2, <1>4, <1>5, <1>7

(* The order row in hand is written.                                        *)
LEMMA RecordPlaced ==
  ASSUME Coherent, Placed, xpc \in {"answered", "found"},
         NEW s \in OrderStates, NEW next, s \in Final => s = broker[cur],
         Record(s, next)
  PROVE  Placed'
<1> USE DEF store, row, outside, brokerage, Placed, Placing, Goto
<1>t. /\ order \in [Ids -> OrderStates] /\ cur \in Ids
      /\ \A q \in Ids : q # cur => order'[q] = order[q]
      /\ order'[cur] = order[cur] \/ order'[cur] = s
      /\ xpc' = "marking"
      /\ UNCHANGED <<held, broker, of, action, cur>>
  BY DEF Coherent, TypeOK, InHand, HoldingStates, Record, RecordOrder, SetOrder
<1>1. SettledAgree'
  BY <1>t DEF SettledAgree
<1>2. RiskSees' /\ TodoTracked' /\ PlacingAlone'
  BY <1>t DEF RiskSees, TodoTracked, PlacingAlone, Reconciling
<1>3. NoDoubleTrackedEntry'
  <2> SUFFICES ASSUME NEW p \in Entries', NEW q \in Entries', p # q, of'[p] = of'[q],
                      Live(p)', Live(q)', Tracked(p)', Tracked(q)'
               PROVE  FALSE
    BY DEF NoDoubleTrackedEntry
  <2>1. /\ p \in Entries /\ q \in Entries /\ of[p] = of[q] /\ Live(p) /\ Live(q)
        /\ p # cur => Tracked(p)
        /\ q # cur => Tracked(q)
    BY <1>t DEF Entries, Live, Tracked
  <2>2. CASE p # cur /\ q # cur
    BY <2>1, <2>2 DEF NoDoubleTrackedEntry
  <2>3. CASE p = cur \/ q = cur
    BY <2>1, <2>3 DEF PlacingAlone, Entries
  <2> QED
    BY <2>2, <2>3
<1>4. RoomForOne'
  BY <1>t DEF RoomForOne
<1>5. ConcurrencyCap'
  <2>1. CASE action[cur] = "open"
    <3>1. Exposed' \subseteq Exposed \union {cur}
      BY <1>t DEF Exposed, Entries, Live, Tracked
    <3>2. Exposed \subseteq Ids /\ Exposed \union {cur} \subseteq Ids
      BY <1>t DEF Exposed, Entries
    <3>3. /\ IsFiniteSet(Exposed) /\ Cardinality(Exposed) \in Nat
          /\ IsFiniteSet(Exposed \union {cur}) /\ Cardinality(Exposed \union {cur}) \in Nat
      BY <3>2, CardOfIds
    <3>4. Cardinality(Exposed \union {cur}) <= Cardinality(Exposed) + 1
      BY <3>3, FS_AddElement
    <3>5. Cardinality(Exposed') <= Cardinality(Exposed \union {cur})
          /\ IsFiniteSet(Exposed')
      BY <3>1, <3>3, FS_Subset
    <3>6. Cardinality(Exposed') \in Nat
      BY <3>5, FS_CardinalityType
    <3>7. Cardinality(Exposed) < MaxConcurrentPositions
      BY <2>1 DEF RoomForOne
    <3> QED
      BY <3>3, <3>4, <3>5, <3>6, <3>7, LimitsAssumption
         DEF ConcurrencyCap, Exposed, LimitsAssumption
  <2>2. CASE action[cur] # "open"
    <3>1. Exposed' \subseteq Exposed
      BY <1>t, <2>2 DEF Exposed, Entries, Live, Tracked
    <3> QED
      BY <3>1, FewerExposed, LimitsAssumption DEF ConcurrencyCap, Exposed, LimitsAssumption
  <2> QED
    BY <2>1, <2>2
<1> QED
  BY <1>1, <1>2, <1>3, <1>4, <1>5

(* An in-flight row takes the status that was read.                         *)
LEMMA RowPlaced ==
  ASSUME Coherent, Placed, UpdateRow
  PROVE  Placed'
<1> USE DEF store, row, outside, brokerage, Placed, Goto
<1>t. /\ order \in [Ids -> OrderStates] /\ xpc = "updating"
      /\ xpc' \in {"reconcile", "releasing"} /\ cur \in Ids
      /\ \A q \in Ids : q # cur => order'[q] = order[q]
      /\ order'[cur] = result /\ result \in BrokerStates \ {"none"} /\ Tracked(cur)
      /\ result \in Final => broker[cur] = result
      /\ todo' = todo /\ todo \subseteq Ids
      /\ UNCHANGED <<held, broker, of, action>>
  BY DEF Coherent, TypeOK, InHand, ReadTrue, UpdateRow, SetOrder, TodoTracked
<1>1. SettledAgree'
  BY <1>t DEF SettledAgree
<1>2. RiskSees' /\ TodoTracked' /\ PlacingAlone'
  BY <1>t DEF RiskSees, TodoTracked, PlacingAlone, Placing, Reconciling, Tracked, BrokerStates
<1>3. NoDoubleTrackedEntry'
  BY <1>t DEF NoDoubleTrackedEntry, Entries, Live, Tracked
<1>4. Exposed' \subseteq Exposed
  BY <1>t DEF Exposed, Entries, Live, Tracked
<1>5. ConcurrencyCap' /\ RoomForOne'
  BY <1>t, <1>4, FewerExposed, LimitsAssumption
     DEF ConcurrencyCap, RoomForOne, Placing, Exposed, LimitsAssumption
<1> QED
  BY <1>1, <1>2, <1>3, <1>5

(* The risk check passes: nothing known competes with the order in hand.    *)
LEMMA ApprovePlaced ==
  ASSUME Coherent, Placed, Approve, MaxPositionsPerUnderlying = 1
  PROVE  Placed'
<1> USE DEF store, outside, brokerage, Placed, Placing, Goto
<1>t. /\ order \in [Ids -> OrderStates] /\ held \subseteq Ids
      /\ xpc = "risk" /\ xpc' = "placing" /\ RiskAllows(cur)
      /\ UNCHANGED <<order, held, broker, of, action, cur>>
  BY DEF Coherent, TypeOK, Approve
<1>1. SettledAgree' /\ RiskSees' /\ TodoTracked' /\ NoDoubleTrackedEntry'
  BY <1>t DEF SettledAgree, RiskSees, TodoTracked, Reconciling, NoDoubleTrackedEntry,
              Entries, Live, Tracked
<1>2. ASSUME NEW q \in Entries, q # cur, of[q] = of[cur], Live(q), Tracked(q)
      PROVE  FALSE
  <2>1. q \in Ids /\ q \notin seen /\ order[q] \notin InFlightStates
    BY <1>t, <1>2, RiskFindsFree DEF Entries
  <2>2. order[q] \in Final
    BY <1>t, <1>2, <2>1 DEF Tracked, InFlightStates, SettledStates, Final, OrderStates
  <2>3. q \in held
    BY <1>2, <2>1, <2>2 DEF SettledAgree, Final, Live
  <2> QED
    BY <1>t, <1>2, <2>1, <2>3 DEF RiskSees
<1>3. PlacingAlone'
  BY <1>t, <1>2, RiskFindsFree DEF PlacingAlone, Entries, Live, Tracked
<1>4. ConcurrencyCap' /\ RoomForOne'
  BY <1>t, RiskFindsRoom DEF ConcurrencyCap, RoomForOne, Exposed, Entries, Live, Tracked
<1> QED
  BY <1>1, <1>3, <1>4

LEMMA ReadPlaced ==
  ASSUME Coherent, Placed, ReadPositions
  PROVE  Placed'
BY DEF ReadPositions, Goto, store, outside, brokerage, Placed, Placing, SettledAgree, RiskSees,
       PlacingAlone, TodoTracked, Reconciling, NoDoubleTrackedEntry, RoomForOne,
       ConcurrencyCap, Exposed, Entries, Live, Tracked

LEMMA NextPlaced ==
  ASSUME Coherent, Placed, [Next]_vars, MaxPositionsPerUnderlying = 1
  PROVE  Placed'
<1> USE DEF store, row, tick, outside, brokerage, trader, pulse, Goto, Placing
<1>1. CASE StrategistStep \/ PulseStep
  <2>1. UNCHANGED <<order, broker, held, xpc, seen, cur, todo>>
    BY <1>1 DEF StrategistStep, StrategistPick, StrategistPropose, StrategistDecline,
                PulseStep, PulseRead, PulseWrite, PulseExits, PulseEnd, ProposeClose,
                KeepPosition, SaveProposal
  <2>2. \A p \in Ids : p <= lastId => of'[p] = of[p] /\ action'[p] = action[p]
    BY <1>1, ProposalsAssumption
       DEF StrategistStep, StrategistPick, StrategistPropose, StrategistDecline,
           PulseStep, PulseRead, PulseWrite, PulseExits, PulseEnd, ProposeClose,
           KeepPosition, SaveProposal, Ids, ProposalsAssumption, Coherent, TypeOK
  <2> QED
    BY <2>1, <2>2, PlacedKept
<1>2. CASE TraderStep
  <2>1. CASE PlaceStep
    <3>1. CASE PlaceAccepted
      BY <3>1, TakePlaced DEF PlaceAccepted, Answer
    <3>2. CASE PlaceUnanswered
      <4>1. /\ xpc = "placing" /\ xpc' \in Placing
            /\ UNCHANGED <<store, cur, seen, todo>>
        BY <3>2 DEF PlaceUnanswered
      <4>2. CASE broker[cur] = "none" /\ TakeOrder(cur)
        BY <4>1, <4>2, TakePlaced
      <4>3. CASE UNCHANGED brokerage
        BY <4>1, <4>3, PlacedKept DEF Reconciling
      <4> QED
        BY <3>2, <4>2, <4>3 DEF PlaceUnanswered
    <3>3. CASE PlaceDuplicate \/ \E r \in {"error", "duplicate"} : PlaceRefused(r)
      BY <3>3, PlacedKept DEF PlaceDuplicate, PlaceRefused, Answer, Reconciling
    <3> QED
      BY <2>1, <3>1, <3>2, <3>3 DEF PlaceStep
  <2>2. CASE RecordEntry
    BY <2>2, RecordPlaced DEF RecordEntry, OrderStates, Final
  <2>7. CASE RecordDuplicate
    <3>1. /\ FoundRow(result) \in OrderStates
          /\ FoundRow(result) \in Final => FoundRow(result) = broker[cur]
      BY <2>7 DEF RecordDuplicate, FoundRow, OrderStates, BrokerStates, Final, Coherent, InHand,
                  ReadTrue
    <3> QED
      BY <2>7, <3>1, RecordPlaced DEF RecordDuplicate
  <2>8. CASE LookUpDuplicate
    BY <2>8, PlacedKept DEF LookUpDuplicate, Reconciling
  <2>3. CASE RecordClose
    BY <2>3, RecordPlaced DEF RecordClose, OrderStates, Final
  <2>4. ASSUME NEW p \in Ids, PrepareClose(p)
        PROVE  Placed'
    BY <2>4, PlacedKept DEF PrepareClose, Reconciling
  <2>5. ASSUME NEW p \in Ids,
               \/ SkipKilledEntry(p) \/ RejectDuplicate(p) \/ AdmitEntry(p)
               \/ CloseMissed(p) \/ CloseWithoutLegs(p) \/ CloseDryRun(p)
               \/ ReconcileSkip(p) \/ ReconcileRow(p)
        PROVE  Placed'
    BY <2>5, PlacedKept
       DEF SkipKilledEntry, RejectDuplicate, AdmitEntry, CloseMissed, CloseWithoutLegs,
           CloseDryRun, ReconcileSkip, ReconcileRow, Conclude, IsNext, Reconciling
  <2>6. CASE \/ TickStart \/ RejectPlan \/ RejectRisk \/ ApproveDryRun \/ MarkProposal
             \/ StartReconcile \/ ReleaseProposal \/ TickEnd
    BY <2>6, PlacedKept
       DEF TickStart, RejectPlan, RejectRisk, ApproveDryRun, MarkProposal, StartReconcile,
           ReleaseProposal, TickEnd, Conclude, Reconciling
  <2> QED
    BY <1>2, <2>1, <2>2, <2>3, <2>4, <2>5, <2>6, <2>7, <2>8, ReadPlaced, ApprovePlaced, RowPlaced
       DEF TraderStep
<1>3. CASE AbortTick
  BY <1>3, PlacedKept DEF AbortTick, ResetTrader, Reconciling
<1>4. CASE BrokerStep
  <2>1. UNCHANGED <<order, of, action, xpc, seen, cur, todo>>
    BY <1>4 DEF BrokerStep, BrokerPartialFill, BrokerFillEntry, BrokerFillClose, BrokerKill,
                PositionGone
  <2>2. \A p \in Ids : broker[p] \in Final \union {"none"} => broker'[p] = broker[p]
    <3>1. ASSUME NEW q \in Ids, broker[q] \in {"working", "partially_filled"}, NEW s,
                 broker' = [broker EXCEPT ![q] = s] \/ UNCHANGED broker
          PROVE  \A p \in Ids : broker[p] \in Final \union {"none"} => broker'[p] = broker[p]
      BY <3>1 DEF Final, Coherent, TypeOK
    <3> QED
      BY <1>4, <3>1 DEF BrokerStep, BrokerPartialFill, BrokerFillEntry, BrokerFillClose,
                        BrokerKill, PositionGone
  <2>3. \A p \in held' \ held : p \in Ids /\ broker[p] \in {"working", "partially_filled"}
    BY <1>4 DEF BrokerStep, BrokerPartialFill, BrokerFillEntry, BrokerFillClose, BrokerKill,
                PositionGone
  <2> QED
    BY <2>1, <2>2, <2>3, PlacedKept
<1>5. ASSUME NEW b \in BOOLEAN, SetKillSwitch(b)
      PROVE  Placed'
  BY <1>5, PlacedKept DEF SetKillSwitch
<1>6. ASSUME NEW b \in BOOLEAN, Restart(b)
      PROVE  Placed'
  BY <1>6, PlacedKept DEF Restart, ResetTrader, Reconciling
<1>7. CASE UNCHANGED vars
  BY <1>7, PlacedKept DEF vars
<1> QED
  BY <1>1, <1>2, <1>3, <1>4, <1>5, <1>6, <1>7 DEF Next

LEMMA InitPlaced == Init => Placed
<1> SUFFICES ASSUME Init PROVE Placed
  OBVIOUS
<1>1. SettledAgree /\ RiskSees /\ PlacingAlone /\ TodoTracked /\ NoDoubleTrackedEntry /\ RoomForOne
  BY DEF Init, SettledAgree, RiskSees, PlacingAlone, TodoTracked, Reconciling, Placing,
         NoDoubleTrackedEntry, RoomForOne, Entries, Final
<1>2. Exposed = {}
  BY DEF Init, Exposed, Entries
<1>3. ConcurrencyCap
  BY <1>2, FS_EmptySet, LimitsAssumption DEF ConcurrencyCap, Exposed, LimitsAssumption
<1> QED
  BY <1>1, <1>3 DEF Placed

(* With one position allowed per symbol, two tracked entries on a symbol    *)
(* are never exposed together, whatever faults occur.                       *)
THEOREM TrackedEntriesExclusive ==
  ASSUME MaxPositionsPerUnderlying = 1
  PROVE  Spec => []NoDoubleTrackedEntry
<1>1. Init => Placed
  BY InitPlaced
<1>2. Coherent /\ Placed /\ [Next]_vars => Placed'
  BY NextPlaced
<1>3. Placed => NoDoubleTrackedEntry
  BY DEF Placed
<1> QED
  BY <1>1, <1>2, <1>3, CoherentAlways, PTL DEF Spec

(* ... and the tracked entries never exceed MAX_CONCURRENT_POSITIONS.       *)
THEOREM TrackedEntriesCapped ==
  ASSUME MaxPositionsPerUnderlying = 1
  PROVE  Spec => []ConcurrencyCap
<1>1. Init => Placed
  BY InitPlaced
<1>2. Coherent /\ Placed /\ [Next]_vars => Placed'
  BY NextPlaced
<1>3. Placed => ConcurrencyCap
  BY DEF Placed
<1> QED
  BY <1>1, <1>2, <1>3, CoherentAlways, PTL DEF Spec

------------------------------------------------------------------------------
(* The order flow implements the ledger.  Vouched: a status that says the   *)
(* broker has the order is on its way only when the broker has it.          *)

Vouched ==
  /\ xpc = "answered" /\ result = "ok" => broker[cur] # "none"
  /\ xpc = "marking" /\ result \in {"submitted", "close_submitted", "broker_rejected"}
       => broker[cur] # "none"

LEMMA NextVouched ==
  ASSUME Coherent, Vouched, [Next]_vars
  PROVE  Vouched'
<1> USE DEF store, row, tick, outside, brokerage, trader, pulse, Goto, Vouched
<1>t. broker \in [Ids -> BrokerStates] /\ (xpc \in HoldingStates => cur \in Ids)
  BY DEF Coherent, TypeOK, InHand
<1>1. CASE StrategistStep \/ PulseStep
  BY <1>1 DEF StrategistStep, StrategistPick, StrategistPropose, StrategistDecline,
              PulseStep, PulseRead, PulseWrite, PulseExits, PulseEnd, ProposeClose,
              KeepPosition
<1>2. CASE TraderStep
  <2>1. CASE PlaceAccepted
    BY <1>t, <2>1 DEF PlaceAccepted, TakeOrder, Answer, HoldingStates
  <2>2. CASE PlaceDuplicate \/ \E r \in {"error", "duplicate"} : PlaceRefused(r)
    BY <2>2 DEF PlaceDuplicate, PlaceRefused, Answer
  <2>3. CASE PlaceUnanswered
    <3>1. xpc' \in {"placing", "answered"} /\ (xpc' = "answered" => result' = "error")
      BY <2>3 DEF PlaceUnanswered
    <3> QED
      BY <3>1
  <2>4. CASE RecordEntry
    BY <2>4 DEF RecordEntry, Record
  <2>8. CASE RecordDuplicate
    <3>1. result = "none" => FoundStatus(result) = "ambiguous"
      BY DEF FoundStatus
    <3> QED
      BY <2>8, <3>1 DEF RecordDuplicate, Record, Coherent, InHand, ReadTrue
  <2>5. CASE RecordClose
    BY <2>5 DEF RecordClose, Record
  <2>6. ASSUME NEW p \in Ids,
               \/ SkipKilledEntry(p) \/ RejectDuplicate(p) \/ AdmitEntry(p)
               \/ CloseMissed(p) \/ CloseWithoutLegs(p) \/ CloseDryRun(p)
               \/ PrepareClose(p) \/ ReconcileSkip(p) \/ ReconcileRow(p)
        PROVE  Vouched'
    BY <2>6 DEF SkipKilledEntry, RejectDuplicate, AdmitEntry, CloseMissed, CloseWithoutLegs,
                CloseDryRun, PrepareClose, ReconcileSkip, ReconcileRow, Conclude, IsNext
  <2>7. CASE \/ TickStart \/ RejectPlan \/ ReadPositions \/ RejectRisk \/ ApproveDryRun
             \/ Approve \/ LookUpDuplicate \/ MarkProposal \/ StartReconcile \/ UpdateRow
             \/ ReleaseProposal \/ TickEnd
    BY <2>7 DEF TickStart, RejectPlan, ReadPositions, RejectRisk, ApproveDryRun, Approve,
                LookUpDuplicate, MarkProposal, StartReconcile, UpdateRow, ReleaseProposal,
                TickEnd, Conclude
  <2> QED
    BY <1>2, <2>1, <2>2, <2>3, <2>4, <2>5, <2>6, <2>7, <2>8 DEF TraderStep, PlaceStep
<1>3. CASE AbortTick
  BY <1>3 DEF AbortTick, ResetTrader
<1>4. CASE BrokerStep
  <2>1. UNCHANGED <<xpc, cur, result>>
    BY <1>4 DEF BrokerStep, BrokerPartialFill, BrokerFillEntry, BrokerFillClose, BrokerKill,
                PositionGone
  <2>2. \A p \in Ids : broker[p] # "none" => broker'[p] # "none"
    BY <1>4, BrokerNeverForgets
  <2> QED
    BY <1>t, <2>1, <2>2 DEF HoldingStates
<1>5. ASSUME NEW b \in BOOLEAN, SetKillSwitch(b) \/ Restart(b)
      PROVE  Vouched'
  BY <1>5 DEF SetKillSwitch, Restart, ResetTrader
<1>6. CASE UNCHANGED vars
  BY <1>6 DEF vars
<1> QED
  BY <1>1, <1>2, <1>3, <1>4, <1>5, <1>6 DEF Next

LEMMA NextFollowsLedger ==
  ASSUME Coherent, Vouched, [Next]_vars
  PROVE  [Ledger!LedgerNext]_(Ledger!ledgerVars)
<1> USE DEF store, row, tick, outside, brokerage, trader, pulse, Ledger!ledgerVars
<1> DEFINE Sent == {p \in Ids : broker[p] # "none"}
<1>t. /\ status \in [Ids -> Statuses] /\ broker \in [Ids -> BrokerStates]
      /\ Ids = Ledger!Proposals
      /\ xpc \in HoldingStates => cur \in Ids /\ status[cur] = "pending"
  BY DEF Coherent, TypeOK, InHand, Ids, Ledger!Proposals
<1>s. ASSUME UNCHANGED <<status, broker>>
      PROVE  UNCHANGED Ledger!ledgerVars
  BY <1>s
<1>p. ASSUME NEW u, NEW act, SaveProposal(u, act), UNCHANGED broker
      PROVE  Ledger!LedgerNext
  <2>1. lastId + 1 \in Ids /\ lastId \in Nat
    BY <1>p, ProposalsAssumption
       DEF SaveProposal, Coherent, TypeOK, Ids, ProposalsAssumption
  <2>2. status[lastId + 1] = "none" /\ \A q \in Ids : q < lastId + 1 => status[q] # "none"
    BY <2>1 DEF Coherent, Drawn, Ids
  <2>3. PICK p \in Ids : p = lastId + 1
    BY <2>1
  <2>4. Ledger!Propose(p)
    BY <1>p, <1>t, <2>1, <2>2, <2>3 DEF Ledger!Propose, SaveProposal
  <2> QED
    BY <1>t, <2>4 DEF Ledger!LedgerNext
<1>k. ASSUME NEW p \in Ids, status[p] = "pending",
             NEW s \in Verdicts \union {"rejected", "close_missed", "dry_run_approved"},
             s \in {"submitted", "close_submitted", "broker_rejected"} => broker[p] # "none",
             SetStatus(p, s), UNCHANGED broker
      PROVE  Ledger!LedgerNext
  <2>1. CASE s = "broker_rejected"
    <3>1. Ledger!Release(p)
      BY <1>k, <2>1 DEF Ledger!Release, Ledger!Releasable, SetStatus
    <3> QED
      BY <1>t, <3>1 DEF Ledger!LedgerNext
  <2>2. CASE s # "broker_rejected"
    <3>1. Ledger!Settle(p, s)
      BY <1>k, <2>2 DEF Ledger!Settle, Ledger!Working, SetStatus
    <3>2. s \in Ledger!Refusals \union Ledger!Working \union {"dry_run_approved"}
      BY <1>k, <2>2 DEF Ledger!Refusals, Ledger!Working, Verdicts
    <3> QED
      BY <1>t, <3>1, <3>2 DEF Ledger!LedgerNext
  <2> QED
    BY <2>1, <2>2
<1>1. CASE StrategistStep
  BY <1>1, <1>p, <1>s DEF StrategistStep, StrategistPick, StrategistPropose, StrategistDecline
<1>2. CASE PulseStep
  BY <1>2, <1>p, <1>s DEF PulseStep, PulseRead, PulseWrite, PulseExits, PulseEnd,
                          ProposeClose, KeepPosition
<1>3. CASE PlaceStep
  <2>1. ASSUME xpc = "placing", broker[cur] = "none", TakeOrder(cur), UNCHANGED status
        PROVE  Ledger!LedgerNext
    <3>1. cur \in Ids /\ status[cur] = "pending"
      BY <1>t, <2>1 DEF HoldingStates
    <3>2. cur \notin Sent /\ Sent' = Sent \union {cur}
      BY <1>t, <2>1, <3>1 DEF TakeOrder
    <3>3. PICK p \in Ids : p = cur
      BY <3>1
    <3>4. Ledger!Send(p)
      BY <2>1, <3>1, <3>2, <3>3 DEF Ledger!Send
    <3> QED
      BY <1>t, <3>4 DEF Ledger!LedgerNext
  <2>2. CASE PlaceAccepted
    BY <2>1, <2>2 DEF PlaceAccepted, Answer
  <2>3. CASE PlaceUnanswered
    BY <1>s, <2>1, <2>3 DEF PlaceUnanswered
  <2>4. CASE PlaceDuplicate \/ \E r \in {"error", "duplicate"} : PlaceRefused(r)
    BY <1>s, <2>4 DEF PlaceDuplicate, PlaceRefused, Answer
  <2> QED
    BY <1>3, <2>2, <2>3, <2>4 DEF PlaceStep
<1>4. CASE TraderStep
  <2>1. ASSUME NEW p \in Ids, IsNext(p),
               NEW s \in {"rejected", "close_missed", "dry_run_approved"}, Conclude(p, s)
        PROVE  Ledger!LedgerNext
    BY <1>k, <2>1 DEF IsNext, Conclude, Coherent, InHand, Pending
  <2>2. ASSUME NEW p \in Ids,
               RejectDuplicate(p) \/ CloseMissed(p) \/ CloseWithoutLegs(p) \/ CloseDryRun(p)
        PROVE  Ledger!LedgerNext
    BY <2>1, <2>2 DEF RejectDuplicate, CloseMissed, CloseWithoutLegs, CloseDryRun
  <2>3. CASE RejectPlan \/ RejectRisk \/ ApproveDryRun
    BY <1>k, <1>t, <2>3 DEF RejectPlan, RejectRisk, ApproveDryRun, Conclude, HoldingStates
  <2>4. CASE MarkProposal
    BY <1>k, <1>t, <2>4 DEF MarkProposal, Vouched, HoldingStates, Coherent, InHand
  <2>5. CASE ReleaseProposal
    <3>1. /\ cur \in Ids /\ broker[cur] # "none" /\ UNCHANGED broker
          /\ status' = [status EXCEPT ![cur] = "broker_rejected"]
      BY <2>5 DEF ReleaseProposal, SetStatus, Coherent, InHand
    <3>2. status[cur] # "none"
      BY <3>1, ProposalsAssumption DEF Coherent, TypeOK, Drawn, Ids, ProposalsAssumption
    <3>3. CASE status[cur] = "broker_rejected"
      BY <1>s, <1>t, <3>1, <3>3
    <3>4. CASE status[cur] # "broker_rejected"
      <4>1. status[cur] \in Ledger!Releasable
        BY <1>t, <3>1, <3>2, <3>4 DEF Statuses, ActiveStatuses, Ledger!Releasable,
                                      Ledger!Working, Ledger!Refusals
      <4>2. PICK p \in Ids : p = cur
        BY <3>1
      <4>3. Ledger!Release(p)
        BY <3>1, <4>1, <4>2 DEF Ledger!Release
      <4> QED
        BY <1>t, <4>3 DEF Ledger!LedgerNext
    <3> QED
      BY <3>3, <3>4
  <2>6. CASE \/ TickStart \/ ReadPositions \/ Approve \/ RecordEntry \/ RecordClose
             \/ LookUpDuplicate \/ RecordDuplicate \/ StartReconcile \/ UpdateRow \/ TickEnd
    BY <1>s, <2>6 DEF TickStart, ReadPositions, Approve, RecordEntry, RecordClose,
                      LookUpDuplicate, RecordDuplicate, Record, StartReconcile, UpdateRow, TickEnd
  <2>7. ASSUME NEW p \in Ids,
               \/ SkipKilledEntry(p) \/ AdmitEntry(p) \/ PrepareClose(p)
               \/ ReconcileSkip(p) \/ ReconcileRow(p)
        PROVE  UNCHANGED Ledger!ledgerVars
    BY <1>s, <2>7 DEF SkipKilledEntry, AdmitEntry, PrepareClose, ReconcileSkip, ReconcileRow
  <2> QED
    BY <1>3, <1>4, <2>2, <2>3, <2>4, <2>5, <2>6, <2>7 DEF TraderStep
<1>5. CASE BrokerStep
  <2>1. UNCHANGED status
    BY <1>5 DEF BrokerStep, BrokerPartialFill, BrokerFillEntry, BrokerFillClose, BrokerKill,
                PositionGone
  <2>2. Sent' = Sent
    BY <1>5, BrokerNeverForgets
  <2> QED
    BY <2>1, <2>2
<1>6. CASE AbortTick \/ \E b \in BOOLEAN : SetKillSwitch(b) \/ Restart(b)
  BY <1>s, <1>6 DEF AbortTick, SetKillSwitch, Restart
<1>7. CASE UNCHANGED vars
  BY <1>s, <1>7 DEF vars
<1> QED
  BY <1>1, <1>2, <1>4, <1>5, <1>6, <1>7 DEF Next

(* Every proposal follows the ledger, whatever faults occur.                *)
THEOREM OrderFlowFollowsLedger == Spec => FollowsLedger
<1>1. Init => Ledger!LedgerInit /\ Vouched
  BY DEF Init, Ledger!LedgerInit, Ledger!Proposals, Ids, Vouched
<1>2. Coherent /\ Vouched /\ [Next]_vars => Vouched'
  BY NextVouched
<1>3. Coherent /\ Vouched /\ [Next]_vars => [Ledger!LedgerNext]_(Ledger!ledgerVars)
  BY NextFollowsLedger
<1> QED
  BY <1>1, <1>2, <1>3, CoherentAlways, PTL DEF Spec, FollowsLedger, Ledger!LedgerSpec

------------------------------------------------------------------------------
(* A process under DRY_RUN sends nothing: dry_run is read before the await  *)
(* of the order, and only a restart, which drops the tick, changes it.      *)

PlacesOnlyLive == xpc = "placing" => ~dryRun

LEMMA NextPlacesOnlyLive ==
  ASSUME PlacesOnlyLive, [Next]_vars
  PROVE  PlacesOnlyLive'
<1> USE DEF store, row, tick, outside, brokerage, trader, pulse, Goto, PlacesOnlyLive
<1>1. CASE StrategistStep \/ PulseStep
  BY <1>1 DEF StrategistStep, StrategistPick, StrategistPropose, StrategistDecline,
              PulseStep, PulseRead, PulseWrite, PulseExits, PulseEnd, ProposeClose,
              KeepPosition
<1>2. CASE TraderStep
  <2>1. CASE PlaceStep
    BY <2>1 DEF PlaceStep, PlaceAccepted, PlaceDuplicate, PlaceRefused, PlaceUnanswered, Answer
  <2>2. ASSUME NEW p \in Ids, PrepareClose(p)
        PROVE  PlacesOnlyLive'
    BY <2>2 DEF PrepareClose, ClosesTrade
  <2>3. ASSUME NEW p \in Ids,
               \/ SkipKilledEntry(p) \/ RejectDuplicate(p) \/ AdmitEntry(p)
               \/ CloseMissed(p) \/ CloseWithoutLegs(p) \/ CloseDryRun(p)
               \/ ReconcileSkip(p) \/ ReconcileRow(p)
        PROVE  PlacesOnlyLive'
    BY <2>3 DEF SkipKilledEntry, RejectDuplicate, AdmitEntry, CloseMissed, CloseWithoutLegs,
                CloseDryRun, ReconcileSkip, ReconcileRow, Conclude, IsNext
  <2>4. CASE \/ TickStart \/ RejectPlan \/ ReadPositions \/ RejectRisk \/ ApproveDryRun
             \/ Approve \/ RecordEntry \/ RecordClose \/ LookUpDuplicate \/ RecordDuplicate
             \/ MarkProposal \/ StartReconcile \/ UpdateRow \/ ReleaseProposal \/ TickEnd
    BY <2>4 DEF TickStart, RejectPlan, ReadPositions, RejectRisk, ApproveDryRun, Approve,
                RecordEntry, RecordClose, LookUpDuplicate, RecordDuplicate, Record,
                MarkProposal, StartReconcile, UpdateRow, ReleaseProposal, TickEnd, Conclude
  <2> QED
    BY <1>2, <2>1, <2>2, <2>3, <2>4 DEF TraderStep
<1>3. CASE AbortTick \/ \E b \in BOOLEAN : SetKillSwitch(b) \/ Restart(b)
  BY <1>3 DEF AbortTick, SetKillSwitch, Restart, ResetTrader
<1>4. CASE BrokerStep
  BY <1>4 DEF BrokerStep, BrokerPartialFill, BrokerFillEntry, BrokerFillClose, BrokerKill,
              PositionGone
<1>5. CASE UNCHANGED vars
  BY <1>5 DEF vars
<1> QED
  BY <1>1, <1>2, <1>3, <1>4, <1>5 DEF Next

(* Only the placing gives the broker an order it does not have.             *)
LEMMA OnlyPlacingSends ==
  ASSUME Coherent, [Next]_vars, xpc # "placing"
  PROVE  \A p \in Ids : broker[p] = "none" => broker'[p] = "none"
<1> USE DEF store, row, tick, outside, brokerage, trader, pulse
<1>1. CASE BrokerStep
  BY <1>1, BrokerNeverForgets
<1>2. CASE StrategistStep \/ PulseStep
  BY <1>2 DEF StrategistStep, StrategistPick, StrategistPropose, StrategistDecline,
              PulseStep, PulseRead, PulseWrite, PulseExits, PulseEnd, ProposeClose,
              KeepPosition
<1>3. CASE TraderStep
  <2>1. ~PlaceStep
    BY DEF PlaceStep, PlaceAccepted, PlaceDuplicate, PlaceRefused, PlaceUnanswered
  <2>2. ASSUME NEW p \in Ids,
               \/ SkipKilledEntry(p) \/ RejectDuplicate(p) \/ AdmitEntry(p)
               \/ CloseMissed(p) \/ CloseWithoutLegs(p) \/ CloseDryRun(p)
               \/ PrepareClose(p) \/ ReconcileSkip(p) \/ ReconcileRow(p)
        PROVE  UNCHANGED broker
    BY <2>2 DEF SkipKilledEntry, RejectDuplicate, AdmitEntry, CloseMissed, CloseWithoutLegs,
                CloseDryRun, PrepareClose, ReconcileSkip, ReconcileRow, Conclude
  <2>3. CASE \/ TickStart \/ RejectPlan \/ ReadPositions \/ RejectRisk \/ ApproveDryRun
             \/ Approve \/ RecordEntry \/ RecordClose \/ LookUpDuplicate \/ RecordDuplicate
             \/ MarkProposal \/ StartReconcile \/ UpdateRow \/ ReleaseProposal \/ TickEnd
    BY <2>3 DEF TickStart, RejectPlan, ReadPositions, RejectRisk, ApproveDryRun, Approve,
                RecordEntry, RecordClose, LookUpDuplicate, RecordDuplicate, Record,
                MarkProposal, StartReconcile, UpdateRow, ReleaseProposal, TickEnd, Conclude
  <2> QED
    BY <1>3, <2>1, <2>2, <2>3 DEF TraderStep
<1>4. CASE AbortTick \/ \E b \in BOOLEAN : SetKillSwitch(b) \/ Restart(b)
  BY <1>4 DEF AbortTick, SetKillSwitch, Restart
<1>5. CASE UNCHANGED vars
  BY <1>5 DEF vars
<1> QED
  BY <1>1, <1>2, <1>3, <1>4, <1>5 DEF Next

(* Whatever an earlier process left in the Store, a process under DRY_RUN   *)
(* sends no order, through any crash, redeploy or lost answer.              *)
THEOREM DryRunSendsNothing == Spec => DryRunNeverTrades
<1>1. Init => PlacesOnlyLive
  BY DEF Init, PlacesOnlyLive
<1>2. PlacesOnlyLive /\ [Next]_vars => PlacesOnlyLive'
  BY NextPlacesOnlyLive
<1>3. Coherent /\ PlacesOnlyLive /\ [Next]_vars
        => [\A p \in Ids : dryRun /\ broker[p] = "none" => broker'[p] = "none"]_vars
  BY OnlyPlacingSends DEF PlacesOnlyLive
<1> QED
  BY <1>1, <1>2, <1>3, CoherentAlways, PTL DEF Spec, DryRunNeverTrades

------------------------------------------------------------------------------
(* The order row is the last write but one: a pending proposal has none, so *)
(* what the Store says of an order and of its proposal can only differ      *)
(* inside a tick, unless the tick is cut short.                             *)

TicksRunOn == Events \intersect {"store_error", "crash", "redeploy"} = {}

AnswersArrive == "lost_answer" \notin Events

RowsLast ==
  /\ \A p \in Pending : order[p] = "none" \/ (xpc = "marking" /\ cur = p)
  /\ \A p \in todo : order[p] # "none"
  /\ xpc = "updating" => order[cur] # "none"

LEMMA NextRowsLast ==
  ASSUME Coherent, RowsLast, [Next]_vars, TicksRunOn
  PROVE  RowsLast'
<1> USE DEF store, row, tick, outside, brokerage, trader, pulse, Goto, RowsLast, Pending
<1>t. /\ order \in [Ids -> OrderStates] /\ todo \subseteq Ids /\ status \in [Ids -> Statuses]
      /\ broker \in [Ids -> BrokerStates]
      /\ xpc \in HoldingStates => cur \in Ids /\ status[cur] = "pending"
  BY DEF Coherent, TypeOK, InHand
<1>p. ASSUME NEW u, NEW act, SaveProposal(u, act), UNCHANGED <<xpc, cur, todo>>
      PROVE  RowsLast'
  <2>1. lastId + 1 \in Ids /\ order[lastId + 1] = "none"
    BY <1>p, ProposalsAssumption
       DEF SaveProposal, Coherent, TypeOK, Drawn, Ids, ProposalsAssumption
  <2> QED
    BY <1>p, <1>t, <2>1 DEF SaveProposal
<1>c. ASSUME NEW p \in Ids, NEW s \in Statuses \ {"pending"}, SetStatus(p, s),
             UNCHANGED <<order, todo>>, xpc # "marking" \/ cur = p,
             xpc' # "updating"
      PROVE  RowsLast'
  BY <1>c, <1>t DEF SetStatus
<1>1. CASE StrategistStep
  BY <1>1, <1>p DEF StrategistStep, StrategistPick, StrategistPropose, StrategistDecline
<1>2. CASE PulseStep
  BY <1>2, <1>p DEF PulseStep, PulseRead, PulseWrite, PulseExits, PulseEnd, ProposeClose,
                    KeepPosition
<1>3. CASE TraderStep
  <2>1. CASE PlaceStep
    BY <2>1 DEF PlaceStep, PlaceAccepted, PlaceDuplicate, PlaceRefused, PlaceUnanswered, Answer
  <2>2. ASSUME NEW s \in OrderStates, NEW n, xpc \in {"answered", "found"}, Record(s, n)
        PROVE  RowsLast'
    BY <1>t, <2>2 DEF Record, RecordOrder, SetOrder, HoldingStates
  <2>3. CASE RecordEntry
    BY <2>2, <2>3 DEF RecordEntry, OrderStates
  <2>12. CASE RecordDuplicate
    <3>1. FoundRow(result) \in OrderStates
      BY <2>12 DEF RecordDuplicate, FoundRow, OrderStates, BrokerStates, Coherent, InHand,
        ReadTrue
    <3> QED
      BY <2>2, <2>12, <3>1 DEF RecordDuplicate
  <2>4. CASE RecordClose
    BY <2>2, <2>4 DEF RecordClose, OrderStates
  <2>5. CASE MarkProposal
    BY <1>c, <1>t, <2>5 DEF MarkProposal, Coherent, InHand, HoldingStates, Verdicts, Statuses,
                            ActiveStatuses
  <2>6. CASE ReleaseProposal
    BY <1>c, <2>6 DEF ReleaseProposal, Coherent, InHand, Statuses
  <2>7. ASSUME NEW p \in Ids, RejectDuplicate(p) \/ CloseMissed(p) \/ CloseWithoutLegs(p)
                              \/ CloseDryRun(p)
        PROVE  RowsLast'
    BY <1>c, <2>7 DEF RejectDuplicate, CloseMissed, CloseWithoutLegs, CloseDryRun, Conclude,
                      IsNext, Statuses, ActiveStatuses
  <2>8. CASE RejectPlan \/ RejectRisk \/ ApproveDryRun
    BY <1>c, <1>t, <2>8 DEF RejectPlan, RejectRisk, ApproveDryRun, Conclude, HoldingStates,
                            Statuses, ActiveStatuses
  <2>9. CASE UpdateRow
    BY <1>t, <2>9 DEF UpdateRow, SetOrder, Coherent, InHand, ReadTrue
  <2>10. ASSUME NEW p \in Ids,
                \/ SkipKilledEntry(p) \/ AdmitEntry(p) \/ PrepareClose(p)
                \/ ReconcileSkip(p) \/ ReconcileRow(p)
         PROVE  RowsLast'
    BY <2>10 DEF SkipKilledEntry, AdmitEntry, PrepareClose, ReconcileSkip, ReconcileRow, IsNext
  <2>11. CASE TickStart \/ ReadPositions \/ Approve \/ LookUpDuplicate \/ StartReconcile \/ TickEnd
    BY <2>11 DEF TickStart, ReadPositions, Approve, LookUpDuplicate, StartReconcile, TickEnd,
                 InFlight, InFlightStates
  <2> QED
    BY <1>3, <2>1, <2>3, <2>4, <2>5, <2>6, <2>7, <2>8, <2>9, <2>10, <2>11, <2>12
    DEF TraderStep
<1>4. CASE AbortTick
  BY <1>4 DEF AbortTick, ResetTrader, TicksRunOn
<1>5. CASE BrokerStep
  BY <1>5 DEF BrokerStep, BrokerPartialFill, BrokerFillEntry, BrokerFillClose, BrokerKill,
              PositionGone
<1>6. ASSUME NEW b \in BOOLEAN, SetKillSwitch(b) \/ Restart(b)
      PROVE  RowsLast'
  BY <1>6 DEF SetKillSwitch, Restart, TicksRunOn
<1>7. CASE UNCHANGED vars
  BY <1>7 DEF vars
<1> QED
  BY <1>1, <1>2, <1>3, <1>4, <1>5, <1>6, <1>7 DEF Next

LEMMA RowsLastAlways ==
  ASSUME TicksRunOn
  PROVE  Spec => []RowsLast
<1>1. Init => RowsLast
  BY DEF Init, RowsLast, Pending
<1>2. Coherent /\ RowsLast /\ [Next]_vars => RowsLast'
  BY NextRowsLast
<1> QED
  BY <1>1, <1>2, CoherentAlways, PTL DEF Spec

(* The one proposal that holds a slot for a dead order is the one in hand.  *)
Releasing ==
  \A p \in Active : order[p] = "dead" =>
    /\ cur = p
    /\ xpc = "releasing" \/ (xpc = "marking" /\ result = "broker_rejected")

LEMMA NextReleasing ==
  ASSUME Coherent, RowsLast, Releasing, [Next]_vars, TicksRunOn
  PROVE  Releasing'
<1> USE DEF store, row, tick, outside, brokerage, trader, pulse, Goto, Releasing, Active
<1>t. /\ order \in [Ids -> OrderStates] /\ status \in [Ids -> Statuses]
      /\ broker \in [Ids -> BrokerStates]
      /\ xpc \in HoldingStates => cur \in Ids /\ status[cur] = "pending"
  BY DEF Coherent, TypeOK, InHand
<1>p. ASSUME NEW u, NEW act, SaveProposal(u, act), UNCHANGED <<xpc, cur, result>>
      PROVE  Releasing'
  <2>1. lastId + 1 \in Ids /\ order[lastId + 1] = "none"
    BY <1>p, ProposalsAssumption
       DEF SaveProposal, Coherent, TypeOK, Drawn, Ids, ProposalsAssumption
  <2> QED
    BY <1>p, <1>t, <2>1 DEF SaveProposal
<1>c. ASSUME xpc \in {"drain", "planning", "risk"}, NEW p \in Pending, NEW s \in Statuses,
             Conclude(p, s)
      PROVE  Releasing'
  BY <1>c, <1>t DEF Conclude, SetStatus, RowsLast, Pending
<1>k. ASSUME UNCHANGED <<status, order>>,
             xpc \notin {"releasing", "marking"} \/ UNCHANGED <<xpc, cur, result>>
      PROVE  Releasing'
  BY <1>k
<1>1. CASE StrategistStep
  BY <1>1, <1>p DEF StrategistStep, StrategistPick, StrategistPropose, StrategistDecline
<1>2. CASE PulseStep
  BY <1>2, <1>p DEF PulseStep, PulseRead, PulseWrite, PulseExits, PulseEnd, ProposeClose,
                    KeepPosition
<1>3. CASE TraderStep
  <2>1. CASE PlaceStep
    BY <1>k, <2>1 DEF PlaceStep, PlaceAccepted, PlaceDuplicate, PlaceRefused, PlaceUnanswered,
                      Answer
  <2>2. ASSUME xpc \in {"answered", "found"}, NEW s \in OrderStates, NEW n, Record(s, n),
               s = "dead" => n = "broker_rejected"
        PROVE  Releasing'
    <3>1. cur \in Ids /\ order' = [order EXCEPT ![cur] = s] /\ UNCHANGED status
      BY <1>t, <2>2 DEF Record, RecordOrder, SetOrder, RowsLast, Pending, HoldingStates
    <3>2. xpc' = "marking" /\ result' = n /\ cur' = cur
      BY <2>2 DEF Record
    <3> QED
      BY <1>t, <2>2, <3>1, <3>2
  <2>3. CASE RecordEntry
    BY <2>2, <2>3 DEF RecordEntry, OrderStates
  <2>12. CASE RecordDuplicate
    <3>1. /\ FoundRow(result) \in OrderStates
          /\ FoundRow(result) = "dead" => FoundStatus(result) = "broker_rejected"
      BY <2>12 DEF RecordDuplicate, FoundRow, FoundStatus, Releases, OrderStates, BrokerStates,
                   Coherent, InHand, ReadTrue
    <3> QED
      BY <2>2, <2>12, <3>1 DEF RecordDuplicate
  <2>4. CASE RecordClose
    BY <2>2, <2>4 DEF RecordClose, OrderStates
  <2>5. CASE MarkProposal
    <3>1. cur \in Ids /\ status[cur] = "pending" /\ UNCHANGED order
          /\ status' = [status EXCEPT ![cur] = result]
      BY <1>t, <2>5 DEF MarkProposal, SetStatus, HoldingStates
    <3>2. ASSUME NEW p \in Active', order'[p] = "dead"
          PROVE  FALSE
      <4>1. p # cur => p \in Active /\ order[p] = "dead"
        BY <1>t, <3>1, <3>2
      <4>2. p = cur /\ result = "broker_rejected"
        BY <1>t, <2>5, <3>1, <3>2, <4>1 DEF MarkProposal, ActiveStatuses
      <4> QED
        BY <1>t, <3>1, <3>2, <4>2 DEF ActiveStatuses
    <3> QED
      BY <3>2
  <2>6. CASE ReleaseProposal
    BY <1>t, <2>6 DEF ReleaseProposal, SetStatus, ActiveStatuses
  <2>7. ASSUME NEW p \in Ids, RejectDuplicate(p) \/ CloseMissed(p) \/ CloseWithoutLegs(p)
                              \/ CloseDryRun(p)
        PROVE  Releasing'
    BY <1>c, <2>7 DEF RejectDuplicate, CloseMissed, CloseWithoutLegs, CloseDryRun, IsNext,
                      Coherent, InHand, Statuses, ActiveStatuses
  <2>8. CASE RejectPlan \/ RejectRisk \/ ApproveDryRun
    BY <1>c, <1>t, <2>8 DEF RejectPlan, RejectRisk, ApproveDryRun, HoldingStates, Pending,
                            Statuses, ActiveStatuses
  <2>9. CASE UpdateRow
    <3>1. cur \in Ids /\ order' = [order EXCEPT ![cur] = result] /\ UNCHANGED status
      BY <2>9 DEF UpdateRow, SetOrder, Coherent, InHand, ReadTrue
    <3>2. result = "dead" => cur' = cur /\ xpc' = "releasing"
      BY <2>9 DEF UpdateRow, Releases
    <3>3. \A q \in Active : order[q] # "dead"
      BY <2>9 DEF UpdateRow
    <3> QED
      BY <1>t, <3>1, <3>2, <3>3
  <2>10. ASSUME NEW p \in Ids,
                \/ SkipKilledEntry(p) \/ AdmitEntry(p) \/ PrepareClose(p)
                \/ ReconcileSkip(p) \/ ReconcileRow(p)
         PROVE  Releasing'
    BY <1>k, <2>10
       DEF SkipKilledEntry, AdmitEntry, PrepareClose, ReconcileSkip, ReconcileRow, IsNext
  <2>11. CASE TickStart \/ ReadPositions \/ Approve \/ LookUpDuplicate \/ StartReconcile \/ TickEnd
    BY <1>k, <2>11 DEF TickStart, ReadPositions, Approve, LookUpDuplicate, StartReconcile, TickEnd
  <2> QED
    BY <1>3, <2>1, <2>3, <2>4, <2>5, <2>6, <2>7, <2>8, <2>9, <2>10, <2>11, <2>12
    DEF TraderStep
<1>4. CASE AbortTick
  BY <1>k, <1>4 DEF AbortTick, TicksRunOn
<1>5. CASE BrokerStep
  BY <1>5 DEF BrokerStep, BrokerPartialFill, BrokerFillEntry, BrokerFillClose, BrokerKill,
              PositionGone
<1>6. ASSUME NEW b \in BOOLEAN, SetKillSwitch(b) \/ Restart(b)
      PROVE  Releasing'
  BY <1>6 DEF SetKillSwitch, Restart, TicksRunOn
<1>7. CASE UNCHANGED vars
  BY <1>7 DEF vars
<1> QED
  BY <1>1, <1>2, <1>3, <1>4, <1>5, <1>6, <1>7 DEF Next

(* If no tick is cut short by a store error or a restart, the slot of an    *)
(* order that the Store knows to be dead is free whenever the Trader is at  *)
(* rest, although the row and the proposal are written one after the other. *)
THEOREM DeadOrdersHoldNoSlot ==
  ASSUME TicksRunOn
  PROVE  Spec => []DeadOrderReleased
<1>1. Init => Releasing
  BY DEF Init, Releasing, Active
<1>2. Coherent /\ RowsLast /\ Releasing /\ [Next]_vars => Releasing'
  BY NextReleasing
<1>3. Releasing => DeadOrderReleased
  BY DEF Releasing, DeadOrderReleased, Active
<1> QED
  BY <1>1, <1>2, <1>3, CoherentAlways, RowsLastAlways, PTL DEF Spec

------------------------------------------------------------------------------
(* Without faults the broker has no order the Store does not know: a pending *)
(* proposal is unknown to the broker too, save in the Trader's hand, and     *)
(* only an order just taken waits for its row.                               *)

Known ==
  /\ \A p \in Pending : broker[p] = "none" \/ (xpc \in {"answered", "marking"} /\ cur = p)
  /\ \A p \in Ids : broker[p] \in {"working", "partially_filled"} =>
       order[p] \in InFlightStates \/ (xpc = "answered" /\ cur = p)
  /\ xpc = "answered" /\ result # "ok" => broker[cur] = "none"
  /\ xpc = "found" => broker[cur] = "none"

LEMMA NextKnown ==
  ASSUME Coherent, RowsLast, Known, [Next]_vars, TicksRunOn, AnswersArrive
  PROVE  Known'
<1> USE DEF store, row, tick, outside, brokerage, trader, pulse, Goto, Known, Pending
<1>t. /\ order \in [Ids -> OrderStates] /\ status \in [Ids -> Statuses]
      /\ broker \in [Ids -> BrokerStates]
      /\ xpc \in HoldingStates => cur \in Ids /\ status[cur] = "pending"
  BY DEF Coherent, TypeOK, InHand
<1>p. ASSUME NEW u, NEW act, SaveProposal(u, act), UNCHANGED <<xpc, cur, result, broker>>
      PROVE  Known'
  <2>1. lastId + 1 \in Ids /\ broker[lastId + 1] = "none"
    BY <1>p, ProposalsAssumption
       DEF SaveProposal, Coherent, TypeOK, Drawn, Ids, ProposalsAssumption
  <2> QED
    BY <1>p, <1>t, <2>1 DEF SaveProposal
<1>c. ASSUME NEW p \in Ids, NEW s \in Statuses \ {"pending"}, SetStatus(p, s),
             UNCHANGED <<order, broker>>, xpc # "answered", xpc' \notin {"answered", "found"},
             xpc # "marking" \/ cur = p
      PROVE  Known'
  BY <1>c, <1>t DEF SetStatus
<1>k. ASSUME UNCHANGED <<status, order, broker>>,
             \/ UNCHANGED <<xpc, cur, result>>
             \/ xpc \notin {"answered", "marking"} /\ xpc' \notin {"answered", "found"}
      PROVE  Known'
  BY <1>k
<1>1. CASE StrategistStep
  BY <1>1, <1>p DEF StrategistStep, StrategistPick, StrategistPropose, StrategistDecline
<1>2. CASE PulseStep
  BY <1>2, <1>p DEF PulseStep, PulseRead, PulseWrite, PulseExits, PulseEnd, ProposeClose,
                    KeepPosition
<1>3. CASE TraderStep
  <2>1. CASE PlaceStep
    <3>1. xpc = "placing" /\ broker[cur] = "none" /\ cur \in Ids
      BY <1>t, <2>1 DEF PlaceStep, PlaceAccepted, PlaceDuplicate, PlaceRefused,
                        PlaceUnanswered, HoldingStates
    <3>2. CASE PlaceAccepted
      BY <1>t, <3>1, <3>2 DEF PlaceAccepted, TakeOrder, Answer
    <3>3. CASE PlaceDuplicate \/ \E r \in {"error", "duplicate"} : PlaceRefused(r)
      BY <3>1, <3>3 DEF PlaceDuplicate, PlaceRefused, Answer
    <3>4. CASE PlaceUnanswered
      BY <3>4 DEF PlaceUnanswered, AnswersArrive
    <3> QED
      BY <2>1, <3>2, <3>3, <3>4 DEF PlaceStep
  <2>2. ASSUME xpc \in {"answered", "found"}, NEW s \in OrderStates, NEW n, Record(s, n),
               xpc = "answered" /\ result = "ok" => s \in InFlightStates
        PROVE  Known'
    <3>1. cur \in Ids /\ order' = [order EXCEPT ![cur] = s]
      BY <1>t, <2>2 DEF Record, RecordOrder, SetOrder, RowsLast, HoldingStates
    <3>2. xpc' = "marking" /\ UNCHANGED <<cur, status, broker>>
      BY <2>2 DEF Record
    <3> QED
      BY <1>t, <2>2, <3>1, <3>2
  <2>3. CASE RecordEntry
    BY <2>2, <2>3 DEF RecordEntry, OrderStates, InFlightStates, SettledStates
  <2>12. CASE RecordDuplicate
    <3>1. xpc = "found" /\ FoundRow(result) \in OrderStates
      BY <2>12 DEF RecordDuplicate, FoundRow, OrderStates, BrokerStates, Coherent, InHand,
        ReadTrue
    <3> QED
      BY <2>2, <2>12, <3>1 DEF RecordDuplicate
  <2>13. CASE LookUpDuplicate
    BY <2>13 DEF LookUpDuplicate
  <2>4. CASE RecordClose
    BY <2>2, <2>4 DEF RecordClose, OrderStates, InFlightStates, SettledStates
  <2>5. CASE MarkProposal
    BY <1>c, <1>t, <2>5 DEF MarkProposal, Coherent, InHand, HoldingStates, Verdicts, Statuses,
                            ActiveStatuses
  <2>6. CASE ReleaseProposal
    BY <1>c, <2>6 DEF ReleaseProposal, Coherent, InHand, Statuses
  <2>7. ASSUME NEW p \in Ids, RejectDuplicate(p) \/ CloseMissed(p) \/ CloseWithoutLegs(p)
                              \/ CloseDryRun(p)
        PROVE  Known'
    BY <1>c, <2>7 DEF RejectDuplicate, CloseMissed, CloseWithoutLegs, CloseDryRun, Conclude,
                      IsNext, Statuses, ActiveStatuses
  <2>8. CASE RejectPlan \/ RejectRisk \/ ApproveDryRun
    BY <1>c, <1>t, <2>8 DEF RejectPlan, RejectRisk, ApproveDryRun, Conclude, HoldingStates,
                            Statuses, ActiveStatuses
  <2>9. CASE UpdateRow
    <3>1. /\ cur \in Ids /\ order' = [order EXCEPT ![cur] = result]
          /\ UNCHANGED <<status, broker>>
          /\ xpc = "updating" /\ xpc' \in {"reconcile", "releasing"}
      BY <2>9 DEF UpdateRow, SetOrder, Coherent, InHand, ReadTrue
    <3>2. broker[cur] \in {"working", "partially_filled"} => result \in InFlightStates
      BY <3>1 DEF InFlightStates, OrderStates, BrokerStates, SettledStates, Coherent, InHand,
                  ReadTrue, Final
    <3> QED
      BY <1>t, <3>1, <3>2
  <2>10. ASSUME NEW p \in Ids,
                \/ SkipKilledEntry(p) \/ AdmitEntry(p) \/ PrepareClose(p)
                \/ ReconcileSkip(p) \/ ReconcileRow(p)
         PROVE  Known'
    BY <1>k, <2>10
       DEF SkipKilledEntry, AdmitEntry, PrepareClose, ReconcileSkip, ReconcileRow, IsNext
  <2>11. CASE TickStart \/ ReadPositions \/ Approve \/ StartReconcile \/ TickEnd
    BY <1>k, <2>11 DEF TickStart, ReadPositions, Approve, StartReconcile, TickEnd
  <2> QED
    BY <1>3, <2>1, <2>3, <2>4, <2>5, <2>6, <2>7, <2>8, <2>9, <2>10, <2>11, <2>12,
       <2>13
    DEF TraderStep
<1>4. CASE AbortTick
  BY <1>4 DEF AbortTick, ResetTrader, TicksRunOn
<1>5. CASE BrokerStep
  <2>1. UNCHANGED <<status, order, xpc, cur, result>>
    BY <1>5 DEF BrokerStep, BrokerPartialFill, BrokerFillEntry, BrokerFillClose, BrokerKill,
                PositionGone
  <2>2. \A p \in Ids : broker'[p] \in {"working", "partially_filled"} =>
          broker[p] \in {"working", "partially_filled"}
    <3>1. ASSUME NEW q \in Ids, broker[q] \in {"working", "partially_filled"}, NEW s,
                 broker' = [broker EXCEPT ![q] = s] \/ UNCHANGED broker
          PROVE  \A p \in Ids : broker'[p] \in {"working", "partially_filled"} =>
                   broker[p] \in {"working", "partially_filled"}
      BY <1>t, <3>1
    <3> QED
      BY <1>5, <3>1 DEF BrokerStep, BrokerPartialFill, BrokerFillEntry, BrokerFillClose,
                        BrokerKill, PositionGone
  <2>3. \A p \in Ids : broker[p] = "none" => broker'[p] = "none"
    BY <1>5, BrokerNeverForgets
  <2> QED
    BY <1>t, <2>1, <2>2, <2>3 DEF HoldingStates
<1>6. ASSUME NEW b \in BOOLEAN, SetKillSwitch(b) \/ Restart(b)
      PROVE  Known'
  BY <1>6 DEF SetKillSwitch, Restart, TicksRunOn
<1>7. CASE UNCHANGED vars
  BY <1>7 DEF vars
<1> QED
  BY <1>1, <1>2, <1>3, <1>4, <1>5, <1>6, <1>7 DEF Next

(* If no answer is lost and no tick is cut short by a store error or a      *)
(* restart, every order working at the broker is in flight for the Store    *)
(* whenever the Trader is at rest, whatever reads fail.                     *)
THEOREM EveryWorkingOrderIsKnown ==
  ASSUME TicksRunOn, AnswersArrive
  PROVE  Spec => []NoOrphanOrder
<1>1. Init => Known
  BY DEF Init, Known, Pending
<1>2. Coherent /\ RowsLast /\ Known /\ [Next]_vars => Known'
  BY NextKnown
<1>3. Known => NoOrphanOrder
  BY DEF Known, NoOrphanOrder
<1> QED
  BY <1>1, <1>2, <1>3, CoherentAlways, RowsLastAlways, PTL DEF Spec
==============================================================================
