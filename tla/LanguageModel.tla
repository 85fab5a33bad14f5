---------------------------- MODULE LanguageModel ----------------------------
(***************************************************************************)
(* FeatherlessLlm, one client shared by two agents: the Strategist, which  *)
(* asks for a RegimeRead within the day's token budget, and Reflection,    *)
(* which asks for one lesson per settled item.  Each call is an await, and *)
(* the counters of the client are those of whoever was answered last.      *)
(*                                                                         *)
(* Prompts and answers are abstracted to whether an answer is usable and   *)
(* how many tokens it reports.                                             *)
(***************************************************************************)
EXTENDS Integers, FiniteSets

CONSTANTS
  Orders, Proposals,   (* what Reflection writes lessons about, by row id   *)
  Hopeless,            (* items the provider refuses at every request       *)
  TokenCounts,         (* usage a response may report                       *)
  NoUsage,             (* a response without usage                          *)
  DailyTokenBudget,    (* llm_daily_token_budget                            *)
  LastUtcDay,          (* bound: days                                       *)
  MaxSpent             (* bound: tokens reported in a day                   *)

Items == Orders \union Proposals

ASSUME LanguageModelAssumption ==
  /\ Items \subseteq Nat /\ IsFiniteSet(Items)
  /\ Hopeless \subseteq Items
  /\ TokenCounts \subseteq Nat
  /\ NoUsage \notin Nat
  /\ DailyTokenBudget \in Nat \ {0}
  /\ LastUtcDay \in Nat /\ MaxSpent \in Nat

VARIABLES
  utcDay,
  spent,       (* tokens the responses of this day have reported            *)
  budgetDate,  (* _budget_date                                              *)
  usedToday,   (* _tokens_used_today                                        *)
  lastTokens,  (* last_prompt_tokens + last_completion_tokens               *)
  spc,         (* the Strategist: "idle", "asking", "recording"             *)
  attempts,    (* failed attempts of its complete_json                      *)
  captured,    (* the outcome it will record: [ok, tokens]                  *)
  answered,    (* tokens of the last response that was its own              *)
  llmCalls,    (* its last row of llm_calls, and the tokens it should name  *)
  rpc,         (* Reflection: "idle", "a", "b", "asking", "saving"          *)
  pass,        (* the pass it is in                                         *)
  todo,        (* the items of that pass still to come                      *)
  item,        (* the one it asks about                                     *)
  settled,     (* filled orders and held or rejected proposals              *)
  lessons      (* the keys reflected_on of the table                        *)

modelVars == <<utcDay, spent, budgetDate, usedToday, lastTokens, spc, attempts, captured,
               answered, llmCalls, rpc, pass, todo, item, settled, lessons>>

strategistVars == <<spc, attempts, captured, answered, llmCalls>>
reflectionVars == <<rpc, pass, todo, item, lessons>>

------------------------------------------------------------------------------
(* The client                                                               *)

(* Both daily_budget_exhausted and _charge_tokens start a new day first.    *)
UsedNow == IF budgetDate = utcDay THEN usedToday ELSE 0

ChargeKeepingTheCount(tokens) ==                                      \* mutant
  /\ budgetDate' = utcDay
  /\ usedToday' = usedToday + tokens

Charge(tokens) ==
  /\ budgetDate' = utcDay
  /\ usedToday' = UsedNow + tokens

(* A readable response: charged if it reports usage, then the last_ fields. *)
Respond(tokens) ==
  IF tokens = NoUsage
    THEN lastTokens' = 0 /\ UNCHANGED <<budgetDate, usedToday, spent>>
    ELSE /\ spent + tokens <= MaxSpent
         /\ spent' = spent + tokens
         /\ Charge(tokens)
         /\ lastTokens' = tokens

Reported(tokens) == IF tokens = NoUsage THEN 0 ELSE tokens

Responses == TokenCounts \union {NoUsage}

(* UTC midnight                                                             *)
Midnight ==
  /\ utcDay < LastUtcDay
  /\ utcDay' = utcDay + 1
  /\ spent' = 0
  /\ UNCHANGED <<budgetDate, usedToday, lastTokens, settled>>
  /\ UNCHANGED strategistVars /\ UNCHANGED reflectionVars

------------------------------------------------------------------------------
(* The Strategist                                                           *)

(* daily_budget_exhausted is a property that resets the day it reads.       *)
ReadBudget ==
  /\ budgetDate' = utcDay
  /\ usedToday' = UsedNow

StrategistAsks ==
  /\ spc = "idle"
  /\ ReadBudget
  /\ UsedNow < DailyTokenBudget
  /\ spc' = "asking"
  /\ attempts' = 0
  /\ UNCHANGED <<utcDay, spent, lastTokens, captured, answered, llmCalls, settled>>
  /\ UNCHANGED reflectionVars

StrategistSkips ==
  /\ spc = "idle"
  /\ ReadBudget
  /\ UsedNow >= DailyTokenBudget
  /\ UNCHANGED <<utcDay, spent, lastTokens, settled>>
  /\ UNCHANGED strategistVars /\ UNCHANGED reflectionVars

(* complete_json returns, or after two attempts raises; the caller reads    *)
(* the counters before it awaits anything else.                             *)
Capture(ok, tokens) ==
  /\ spc' = "recording"
  /\ captured' = [ok |-> ok, tokens |-> tokens]
  /\ UNCHANGED attempts

Repair == attempts' = 1 /\ UNCHANGED <<spc, captured>>

(* A response, which the schema accepts or not.                             *)
StrategistAnswered ==
  /\ spc = "asking"
  /\ \E tokens \in Responses :
       /\ Respond(tokens)
       /\ answered' = Reported(tokens)
       /\ \/ Capture(TRUE, Reported(tokens))
          \/ attempts = 0 /\ Repair
          \/ attempts = 1 /\ Capture(FALSE, Reported(tokens))
  /\ UNCHANGED <<utcDay, llmCalls, settled>> /\ UNCHANGED reflectionVars

(* Nothing readable came back: the counters are what they were.             *)
StrategistUnanswered ==
  /\ spc = "asking"
  /\ \/ attempts = 0 /\ Repair
     \/ attempts = 1 /\ Capture(FALSE, lastTokens)
  /\ UNCHANGED <<utcDay, spent, budgetDate, usedToday, lastTokens, answered, llmCalls, settled>>
  /\ UNCHANGED reflectionVars

TokensOfTheClient == lastTokens                                       \* mutant

TokensToRecord == captured.tokens

(* record_llm_call, after a failed call has been saved as a proposal.       *)
StrategistRecords ==
  /\ spc = "recording"
  /\ spc' = "idle"
  /\ llmCalls' = [ok |-> captured.ok, tokens |-> TokensToRecord, own |-> answered]
  /\ UNCHANGED <<utcDay, spent, budgetDate, usedToday, lastTokens, attempts, captured,
                 answered, settled>>
  /\ UNCHANGED reflectionVars

------------------------------------------------------------------------------
(* Reflection                                                               *)

(* The passes, in order; each reads its items when it begins.               *)
StartPass(p, items) ==
  /\ pass' = p
  /\ rpc' = "next"
  /\ todo' = settled \intersect items
  /\ UNCHANGED <<item, lessons>>

ReflectionStarts == rpc = "idle" /\ StartPass("a", Orders)

SecondPass == rpc = "next" /\ todo = {} /\ pass = "a" /\ StartPass("b", Proposals)

ReflectionEnds ==
  /\ rpc = "next" /\ todo = {} /\ pass = "b"
  /\ rpc' = "idle"
  /\ UNCHANGED <<pass, todo, item, lessons>>

(* Whether or not there is a lesson already.  The order, newest first in    *)
(* each query, is left open.                                                *)
ReflectionAsks ==
  /\ rpc = "next"
  /\ \E i \in todo : item' = i /\ todo' = todo \ {i}
  /\ rpc' = "asking"
  /\ UNCHANGED <<pass, lessons>>

FailureEndsTheStep == rpc' = "idle"                                   \* mutant

(* A failed call costs its item, not the pass.                              *)
AfterFailedCall == rpc' = "next"

ReflectionUnanswered ==
  /\ rpc = "asking"
  /\ AfterFailedCall
  /\ UNCHANGED <<pass, todo, item, lessons>>

(* A response; without text there is nothing to save.                       *)
ReflectionAnswered ==
  /\ rpc = "asking"
  /\ item \notin Hopeless
  /\ \E tokens \in Responses : Respond(tokens)
  /\ rpc' \in {"saving", "next"}
  /\ UNCHANGED <<pass, todo, item, lessons>>

(* ON CONFLICT (account_id, reflected_on) DO NOTHING                        *)
SaveLesson ==
  /\ rpc = "saving"
  /\ rpc' = "next"
  /\ lessons' = lessons \union {item}
  /\ UNCHANGED <<pass, todo, item>>

SaveFails ==
  /\ rpc = "saving"
  /\ rpc' = "next"
  /\ UNCHANGED <<pass, todo, item, lessons>>

ReflectionStep ==
  /\ \/ /\ ReflectionAnswered
        /\ UNCHANGED <<utcDay, settled>>
     \/ /\ ReflectionStarts \/ SecondPass \/ ReflectionEnds \/ ReflectionAsks
             \/ ReflectionUnanswered \/ SaveLesson \/ SaveFails
        /\ UNCHANGED <<utcDay, spent, budgetDate, usedToday, lastTokens, settled>>
  /\ UNCHANGED strategistVars

(* An order fills, or a proposal is held or rejected.                       *)
Settle ==
  /\ \E i \in Items \ settled : settled' = settled \union {i}
  /\ UNCHANGED <<utcDay, spent, budgetDate, usedToday, lastTokens>>
  /\ UNCHANGED strategistVars /\ UNCHANGED reflectionVars

------------------------------------------------------------------------------
ModelInit ==
  /\ utcDay = 1 /\ spent = 0
  /\ budgetDate = 0 /\ usedToday = 0 /\ lastTokens = 0
  /\ spc = "idle" /\ attempts = 0 /\ answered = 0
  /\ captured = [ok |-> TRUE, tokens |-> 0]
  /\ llmCalls = [ok |-> TRUE, tokens |-> 0, own |-> 0]
  /\ rpc = "idle" /\ pass = "a" /\ todo = {} /\ item = 0
  /\ settled = {} /\ lessons = {}

ModelNext ==
  \/ Midnight
  \/ StrategistAsks \/ StrategistSkips
  \/ StrategistAnswered \/ StrategistUnanswered
  \/ StrategistRecords
  \/ ReflectionStep
  \/ Settle

ModelSpec == ModelInit /\ [][ModelNext]_modelVars

(* An item whose requests are not hopeless gets, among its answers, one     *)
(* with text, and among its writes one that commits.                        *)
AnsweredWithText(i) ==
  rpc = "asking" /\ item = i /\ ReflectionStep /\ rpc' = "saving"

SavedLesson(i) == item = i /\ ReflectionStep /\ i \in lessons'

------------------------------------------------------------------------------
(* The day's count is what the day's responses have reported, across        *)
(* midnight, across the two agents, whichever of them touches the client    *)
(* first on a new day, and when the day turns between the Strategist's      *)
(* check and its answer (llm.py:106-120).                                   *)
BudgetCountsToday == UsedNow = spent

(* A successful call is recorded with the tokens of its own answer,         *)
(* although Reflection may be answered before the row is written            *)
(* (strategist.py:173-192).                                                 *)
OwnTokensRecorded == llmCalls.ok => llmCalls.tokens = llmCalls.own

(* Every settled item gets its lesson, although another item fails at every *)
(* attempt and is asked about again in every pass (reflection.py:140-223).  *)
OthersReflected == \A i \in Items \ Hopeless : i \in settled ~> i \in lessons
==============================================================================
