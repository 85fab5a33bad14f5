------------------------- MODULE LanguageModel_proofs -------------------------
(* For every set of items, every usage a provider may report and every      *)
(* budget: the day's count is exact, and a call of the Strategist is        *)
(* recorded with its own tokens.                                            *)
EXTENDS LanguageModel, TLAPS

(* The client's day is never ahead of the calendar, so the first touch of   *)
(* a new day always starts a new count.                                     *)
BudgetInv ==
  /\ utcDay \in Nat /\ budgetDate \in Nat /\ budgetDate <= utcDay
  /\ spent \in Nat /\ usedToday \in Nat
  /\ BudgetCountsToday

ClientIdle == UNCHANGED <<utcDay, spent, budgetDate, usedToday>>

LEMMA ResponseKeepsCount ==
  ASSUME BudgetInv, NEW tokens \in Responses, Respond(tokens), utcDay' = utcDay
  PROVE  BudgetInv'
<1>1. CASE tokens = NoUsage
  BY <1>1 DEF BudgetInv, BudgetCountsToday, UsedNow, Respond
<1>2. CASE tokens # NoUsage
  <2>1. tokens \in Nat
    BY <1>2, LanguageModelAssumption DEF LanguageModelAssumption, Responses
  <2>2. spent' = spent + tokens /\ budgetDate' = utcDay /\ usedToday' = UsedNow + tokens
    BY <1>2 DEF Respond, Charge
  <2>3. UsedNow = spent /\ UsedNow \in Nat
    BY DEF BudgetInv, BudgetCountsToday
  <2> QED BY <2>1, <2>2, <2>3 DEF BudgetInv, BudgetCountsToday, UsedNow
<1> QED BY <1>1, <1>2

LEMMA ReadKeepsCount ==
  ASSUME BudgetInv, ReadBudget, UNCHANGED <<utcDay, spent>>
  PROVE  BudgetInv'
<1>1. UsedNow = spent /\ UsedNow \in Nat
  BY DEF BudgetInv, BudgetCountsToday
<1> QED BY <1>1 DEF BudgetInv, BudgetCountsToday, UsedNow, ReadBudget

LEMMA BudgetInvInit == ModelInit => BudgetInv
BY DEF ModelInit, BudgetInv, BudgetCountsToday, UsedNow

LEMMA BudgetInvStep == BudgetInv /\ [ModelNext]_modelVars => BudgetInv'
<1> SUFFICES ASSUME BudgetInv, [ModelNext]_modelVars PROVE BudgetInv'
  OBVIOUS
<1>0. ASSUME ClientIdle PROVE BudgetInv'
  BY <1>0 DEF ClientIdle, BudgetInv, BudgetCountsToday, UsedNow
<1>1. CASE Midnight
  BY <1>1 DEF Midnight, BudgetInv, BudgetCountsToday, UsedNow
<1>2. CASE StrategistAsks
  BY <1>2, ReadKeepsCount DEF StrategistAsks
<1>3. CASE StrategistSkips
  BY <1>3, ReadKeepsCount DEF StrategistSkips
<1>4. CASE StrategistAnswered
  <2>1. PICK tokens \in Responses : Respond(tokens)
    BY <1>4 DEF StrategistAnswered
  <2>2. utcDay' = utcDay
    BY <1>4 DEF StrategistAnswered
  <2> QED BY <2>1, <2>2, ResponseKeepsCount
<1>5. CASE StrategistUnanswered
  BY <1>0, <1>5 DEF StrategistUnanswered, ClientIdle
<1>6. CASE StrategistRecords
  BY <1>0, <1>6 DEF StrategistRecords, ClientIdle
<1>7. CASE ReflectionStep
  <2>1. CASE ReflectionAnswered /\ UNCHANGED <<utcDay, settled>>
    <3>1. PICK tokens \in Responses : Respond(tokens)
      BY <2>1 DEF ReflectionAnswered
    <3> QED BY <2>1, <3>1, ResponseKeepsCount
  <2>2. CASE UNCHANGED <<utcDay, spent, budgetDate, usedToday, lastTokens, settled>>
    BY <1>0, <2>2 DEF ClientIdle
  <2> QED BY <1>7, <2>1, <2>2 DEF ReflectionStep
<1>8. CASE Settle
  BY <1>0, <1>8 DEF Settle, ClientIdle
<1>9. CASE UNCHANGED modelVars
  BY <1>0, <1>9 DEF modelVars, ClientIdle
<1> QED
  BY <1>1, <1>2, <1>3, <1>4, <1>5, <1>6, <1>7, <1>8, <1>9 DEF ModelNext

(* The count the daily budget is checked against is what the responses of   *)
(* the UTC day reported, whichever agent touches the client first after     *)
(* midnight (llm.py:106-120).                                               *)
THEOREM BudgetIsTodays == ModelSpec => []BudgetCountsToday
<1>1. BudgetInv => BudgetCountsToday BY DEF BudgetInv
<1> QED BY <1>1, BudgetInvInit, BudgetInvStep, PTL DEF ModelSpec

------------------------------------------------------------------------------
(* What is waiting to be recorded is already fixed: no answer to the other  *)
(* agent can change it.                                                     *)
OwnInv ==
  /\ spc = "recording" /\ captured.ok => captured.tokens = answered
  /\ OwnTokensRecorded

LEMMA OwnInvInit == ModelInit => OwnInv
BY DEF ModelInit, OwnInv, OwnTokensRecorded

LEMMA OwnInvStep == OwnInv /\ [ModelNext]_modelVars => OwnInv'
<1> SUFFICES ASSUME OwnInv, [ModelNext]_modelVars PROVE OwnInv'
  OBVIOUS
<1>0. ASSUME UNCHANGED strategistVars PROVE OwnInv'
  BY <1>0 DEF strategistVars, OwnInv, OwnTokensRecorded
<1>1. CASE StrategistAsks
  BY <1>1 DEF StrategistAsks, OwnInv, OwnTokensRecorded
<1>2. CASE StrategistAnswered
  <2>1. PICK tokens \in Responses :
          /\ answered' = Reported(tokens)
          /\ \/ Capture(TRUE, Reported(tokens))
             \/ attempts = 0 /\ Repair
             \/ attempts = 1 /\ Capture(FALSE, Reported(tokens))
    BY <1>2 DEF StrategistAnswered
  <2>2. spc = "asking" /\ llmCalls' = llmCalls
    BY <1>2 DEF StrategistAnswered
  <2> QED BY <2>1, <2>2 DEF OwnInv, OwnTokensRecorded, Capture, Repair
<1>3. CASE StrategistUnanswered
  BY <1>3 DEF StrategistUnanswered, OwnInv, OwnTokensRecorded, Capture, Repair
<1>4. CASE StrategistRecords
  BY <1>4 DEF StrategistRecords, OwnInv, OwnTokensRecorded, TokensToRecord
<1>5. CASE Midnight \/ StrategistSkips \/ ReflectionStep \/ Settle
  BY <1>0, <1>5 DEF Midnight, StrategistSkips, ReflectionStep, Settle
<1>6. CASE UNCHANGED modelVars
  BY <1>0, <1>6 DEF modelVars, strategistVars
<1> QED BY <1>1, <1>2, <1>3, <1>4, <1>5, <1>6 DEF ModelNext

(* A row of llm_calls for a successful call names the tokens of that call,  *)
(* although the counters of the shared client may have moved on before it   *)
(* is written (strategist.py:173-218).                                      *)
THEOREM OwnTokensAreRecorded == ModelSpec => []OwnTokensRecorded
<1>1. OwnInv => OwnTokensRecorded BY DEF OwnInv
<1> QED BY <1>1, OwnInvInit, OwnInvStep, PTL DEF ModelSpec
==============================================================================
