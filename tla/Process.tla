------------------------------- MODULE Process -------------------------------
(***************************************************************************)
(* One run of the process: boot, the supervised agents, shutdown.  A step  *)
(* of an agent is one call through the shared McpSession; its exception    *)
(* either ends the step, and the agent backs off, or is handled inside it. *)
(* Main opens the session before any agent runs and closes it when all of  *)
(* them have stopped.                                                      *)
(***************************************************************************)
EXTENDS McpSession

CONSTANTS
  Main,       (* the coroutine of run()                                     *)
  Agents,     (* the agents                                                 *)
  FloatLimit  (* failures in a row at which the back-off no longer fits a   *)
              (* float: 1024 in the code                                    *)

ASSUME ProcessAssumption ==
  /\ Main \notin Agents
  /\ Callers = Agents \union {Main}
  /\ FloatLimit \in Nat

VARIABLES
  stage,     (* of run()                                                    *)
  shutdown,  (* the shutdown event is set                                   *)
  apc,       (* where run_agent is: in step(), asleep, or returned          *)
  failures   (* consecutive_failures                                        *)

vars == <<sessionVars, stage, shutdown, apc, failures>>

Exited == stage \in {"closed", "crashed"}

------------------------------------------------------------------------------
(* run(): connect, corroborate, run the agents, close.                      *)

(* connect() first opens the session, then makes the corroborating call.    *)
MainCalls ==
  /\ ~Exited
  /\ CallStep(Main)
  /\ stage' = IF stage = "connecting" /\ cpc'[Main] = "calling" THEN "corroborating" ELSE stage
  /\ UNCHANGED <<shutdown, apc, failures>>

BootFails ==
  /\ stage = "connecting"
  /\ cpc[Main] = "failed"
  /\ stage' = "crashed"
  /\ UNCHANGED <<sessionVars, shutdown, apc, failures>>

(* _corroborate_paper_account: never fatal.                                 *)
Boot ==
  /\ stage = "corroborating"
  /\ cpc[Main] \in {"ok", "failed"}
  /\ stage' = "running"
  /\ UNCHANGED <<sessionVars, shutdown, apc, failures>>

CloseUnderAgents ==                                                   \* mutant
  /\ stage = "running"
  /\ shutdown
  /\ stage' = "closing"
  /\ StartDisconnect(Main)
  /\ UNCHANGED <<shutdown, apc, failures>>

(* The task group has ended, the exit stack unwinds.                        *)
CloseSession ==
  /\ stage = "running"
  /\ \A a \in Agents : apc[a] = "stopped"
  /\ stage' = "closing"
  /\ StartDisconnect(Main)
  /\ UNCHANGED <<shutdown, apc, failures>>

Exit ==
  /\ stage = "closing"
  /\ cpc[Main] = "failed"
  /\ stage' = "closed"
  /\ UNCHANGED <<sessionVars, shutdown, apc, failures>>

MainStep == MainCalls \/ BootFails \/ Boot \/ CloseSession \/ Exit

------------------------------------------------------------------------------
(* run_agent                                                                *)

(* Tasks run until the process has ended.                                   *)
AgentsRun == stage \in {"running", "closing"}

StartStep(a) ==
  /\ apc[a] = "sleeping"
  /\ ~shutdown
  /\ apc' = [apc EXCEPT ![a] = "stepping"]
  /\ StartCall(a)
  /\ UNCHANGED failures

AgentCalls(a) ==
  /\ apc[a] = "stepping"
  /\ CallStep(a)
  /\ UNCHANGED <<apc, failures>>

StepReturns(a) ==
  /\ apc[a] = "stepping"
  /\ cpc[a] \in {"ok", "failed"}
  /\ apc' = [apc EXCEPT ![a] = "sleeping"]
  /\ failures' = [failures EXCEPT ![a] = 0]
  /\ UNCHANGED sessionVars

StepRaises(a) ==
  /\ apc[a] = "stepping"
  /\ cpc[a] = "failed"
  /\ failures[a] < FloatLimit
  /\ apc' = [apc EXCEPT ![a] = "sleeping"]
  /\ failures' = [failures EXCEPT ![a] = @ + 1]
  /\ UNCHANGED sessionVars

AgentStops(a) ==
  /\ apc[a] = "sleeping"
  /\ shutdown
  /\ apc' = [apc EXCEPT ![a] = "stopped"]
  /\ UNCHANGED <<sessionVars, failures>>

AgentStep(a) ==
  /\ AgentsRun
  /\ StartStep(a) \/ AgentCalls(a) \/ StepReturns(a) \/ StepRaises(a) \/ AgentStops(a)
  /\ UNCHANGED <<stage, shutdown>>

(* The delay is computed outside the try: its overflow leaves run_agent,    *)
(* and the task group takes the siblings down.                              *)
BackoffOverflows(a) ==
  /\ AgentsRun
  /\ apc[a] = "stepping"
  /\ cpc[a] = "failed"
  /\ failures[a] = FloatLimit
  /\ stage' = "crashed"
  /\ UNCHANGED <<sessionVars, shutdown, apc, failures>>

------------------------------------------------------------------------------
(* A stop signal, at any time.                                              *)
Signal ==
  /\ ~Exited
  /\ ~shutdown
  /\ shutdown' = TRUE
  /\ UNCHANGED <<sessionVars, stage, apc, failures>>

Init ==
  /\ SessionInit(Main)
  /\ stage = "connecting"
  /\ shutdown = FALSE
  /\ apc = [a \in Agents |-> "sleeping"]
  /\ failures = [a \in Agents |-> 0]

Next ==
  \/ MainStep
  \/ \E a \in Agents : AgentStep(a) \/ BackoffOverflows(a)
  \/ Signal

Spec == Init /\ [][Next]_vars

(* The event loop runs every coroutine that is ready; a tool call has a     *)
(* timeout, and starting and stopping the subprocess, which have none, are  *)
(* assumed to end.  Signals come or do not.                                 *)
FairSpec ==
  /\ Spec
  /\ WF_vars(MainStep)
  /\ \A a \in Agents : WF_vars(AgentStep(a) \/ BackoffOverflows(a))

------------------------------------------------------------------------------
Stages == {"connecting", "corroborating", "running", "closing", "closed", "crashed"}

TypeOK ==
  /\ SessionTypeOK
  /\ stage \in Stages
  /\ shutdown \in BOOLEAN
  /\ apc \in [Agents -> {"sleeping", "stepping", "stopped"}]
  /\ failures \in [Agents -> 0..FloatLimit]

(* Every tool call returns or raises: no caller waits for a lock that       *)
(* nobody will release, at boot, in a burst of failures or at shutdown.     *)
CallsEnd == \A c \in Callers : cpc[c] \notin Ended ~> cpc[c] \in Ended \/ Exited

(* A stop signal is obeyed, whatever the agents are waiting for.            *)
ShutdownCompletes == shutdown ~> Exited

(* A clean exit leaves no MCP server behind.                                *)
ExitLeavesNoServer == stage = "closed" => servers = {}
==============================================================================
