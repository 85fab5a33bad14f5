------------------------------- MODULE MC_Desk -------------------------------
(* The parts around the trading core, which share no variable.  A behaviour *)
(* is one of a single part, so the states add up and do not multiply.       *)
EXTENDS Notifier, LanguageModel, MarketPulse

CONSTANTS kill, fill, started, stopped, spy

MC_Texts == {kill, fill}

(* Monday is 1: two weeks and a day, of which Friday 5 to Tuesday 9 are     *)
(* lived through.  The campaign is that Friday and the Monday after.        *)
MC_Sessions == (1..5) \union (8..12) \union {15}

VARIABLE part

deskVars == <<notifierVars, modelVars, pulseVars, part>>

DeskInit ==
  /\ part \in {"notifier", "model", "pulse"}
  /\ NotifierInit /\ ModelInit /\ PulseInit
  /\ part # "pulse" => ~replay /\ ~persistent

DeskNext ==
  /\ \/ part = "notifier" /\ NotifierNext /\ UNCHANGED <<modelVars, pulseVars>>
     \/ part = "model" /\ ModelNext /\ UNCHANGED <<notifierVars, pulseVars>>
     \/ part = "pulse" /\ PulseNext /\ UNCHANGED <<notifierVars, modelVars>>
  /\ UNCHANGED part

(* asyncio.wait_for fires.  Reflection's step is repeated by run_agent; the *)
(* provider and the Store serve an item that is not hopeless now and then.  *)
(* Nothing is assumed of Telegram, the Strategist, the pulse or time.       *)
DeskSpec ==
  /\ DeskInit /\ [][DeskNext]_deskVars
  /\ WF_notifierVars(part = "notifier" /\ (Flushed \/ JoinTimesOut))
  /\ WF_modelVars(part = "model" /\ ReflectionStep)
  /\ \A i \in Items \ Hopeless :
       /\ SF_modelVars(part = "model" /\ AnsweredWithText(i))
       /\ SF_modelVars(part = "model" /\ SavedLesson(i))
==============================================================================
