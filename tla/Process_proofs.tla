--------------------------- MODULE Process_proofs ---------------------------
(***************************************************************************)
(* Theorems about Process, for any agents, retries and number of sessions: *)
(* the lock of McpSession keeps one MCP server, and a clean exit none.     *)
(***************************************************************************)
EXTENDS Process, FiniteSetTheorems, TLAPS

(* Where a caller waits for the lock or holds it, and where it holds it.    *)
Locked == {"reconnect", "closing", "entering", "listing", "drop", "dropping"}

Holding == {"closing", "entering", "listing", "dropping"}

Closing == {"closing", "dropping"}

(* The lock queues callers once each, and whoever holds it is first.        *)
LockInv ==
  /\ \A i \in 1..Len(lock) : cpc[lock[i]] \in Locked
  /\ \A i, j \in 1..Len(lock) : lock[i] = lock[j] => i = j
  /\ \A c \in Callers : cpc[c] \in Holding => Holds(c)

(* The server that runs is the session's, or the one being closed.          *)
ServersInv ==
  /\ client <= spawned
  /\ client # NoServer => servers = {client}
  /\ client = NoServer => servers = {} \/ \E c \in Callers : cpc[c] \in Closing
  /\ \A c \in Callers : cpc[c] \in Closing => client = NoServer /\ servers \subseteq {using[c]}
  /\ \A c \in Callers : cpc[c] = "entering" => client = NoServer /\ servers = {}
  /\ \A c \in Callers : cpc[c] = "listing" => client # NoServer

RetriesInv == \A c \in Callers : cpc[c] = "backoff" => attempt[c] < MaxRetries

SessionInv == SessionTypeOK /\ LockInv /\ ServersInv /\ RetriesInv

(* Agents call only inside their steps; Main calls at boot, and closes the  *)
(* session once every agent has stopped.                                    *)
StageInv ==
  /\ \A a \in Agents : apc[a] # "stepping" => cpc[a] \in Ended
  /\ stage = "running" => cpc[Main] \in Ended
  /\ stage \in {"closing", "closed"} =>
       /\ \A a \in Agents : apc[a] = "stopped"
       /\ cpc[Main] \in {"drop", "dropping", "failed"}
       /\ attempt[Main] = MaxRetries
  /\ stage = "closed" => cpc[Main] = "failed"
  /\ stage \in {"closing", "closed"} /\ cpc[Main] = "failed" =>
       client = NoServer /\ servers = {}

Inv == TypeOK /\ SessionInv /\ StageInv

------------------------------------------------------------------------------
(* The lock                                                                 *)

LEMMA AcquireKeepsLock ==
  ASSUME SessionTypeOK, LockInv, NEW c \in Callers, cpc[c] \notin Locked,
         NEW pc \in {"reconnect", "drop"}, Acquire(c), Goto(c, pc)
  PROVE  LockInv' /\ lock' \in Seq(Callers)
<1> DEFINE n == Len(lock)
<1>1. /\ lock \in Seq(Callers) /\ n \in Nat /\ lock' \in Seq(Callers) /\ Len(lock') = n + 1
      /\ lock'[n + 1] = c /\ \A i \in 1..n : lock'[i] = lock[i] /\ lock[i] \in Callers
  BY DEF SessionTypeOK, Acquire
<1>2. \A i \in 1..n : lock[i] # c
  BY <1>1 DEF LockInv
<1>3. /\ cpc'[c] = pc /\ pc \in Locked /\ pc \notin Holding
      /\ \A d \in Callers \ {c} : cpc'[d] = cpc[d]
  BY DEF SessionTypeOK, Goto, Locked, Holding
<1>4. \A i \in 1..Len(lock') : cpc'[lock'[i]] \in Locked
  BY <1>1, <1>2, <1>3 DEF LockInv
<1>5. \A i, j \in 1..Len(lock') : lock'[i] = lock'[j] => i = j
  BY <1>1, <1>2 DEF LockInv
<1>6. ASSUME NEW d \in Callers, cpc'[d] \in Holding PROVE Holds(d)'
  <2>1. Holds(d)
    BY <1>3, <1>6 DEF LockInv
  <2>2. n > 0 /\ lock[1] = d
    BY <1>1, <2>1 DEF Holds
  <2> QED
    BY <1>1, <2>2 DEF Holds
<1> QED
  BY <1>1, <1>4, <1>5, <1>6 DEF LockInv

LEMMA ReleaseKeepsLock ==
  ASSUME SessionTypeOK, LockInv, NEW c \in Callers, Holds(c),
         NEW pc \in CallStates \ Locked, Release, Goto(c, pc)
  PROVE  LockInv' /\ lock' \in Seq(Callers)
<1> DEFINE n == Len(lock)
<1>1. /\ lock \in Seq(Callers) /\ n \in Nat \ {0} /\ lock[1] = c
      /\ lock' \in Seq(Callers) /\ Len(lock') = n - 1
      /\ \A i \in 1..(n - 1) : lock'[i] = lock[i + 1] /\ lock[i + 1] \in Callers
  BY DEF SessionTypeOK, Release, Holds
<1>2. \A i \in 1..(n - 1) : lock[i + 1] # c
  BY <1>1 DEF LockInv
<1>3. cpc'[c] = pc /\ \A d \in Callers \ {c} : cpc'[d] = cpc[d]
  BY DEF SessionTypeOK, Goto
<1>4. \A i \in 1..Len(lock') : cpc'[lock'[i]] \in Locked
  BY <1>1, <1>2, <1>3 DEF LockInv
<1>5. \A i, j \in 1..Len(lock') : lock'[i] = lock'[j] => i = j
  BY <1>1 DEF LockInv
<1>6. \A d \in Callers : cpc'[d] \notin Holding
  BY <1>3 DEF LockInv, Holds, Locked, Holding
<1> QED
  BY <1>1, <1>4, <1>5, <1>6 DEF LockInv

LEMMA LockKept ==
  ASSUME SessionTypeOK, LockInv, NEW c \in Callers, NEW pc \in CallStates, Goto(c, pc),
         UNCHANGED lock,
         \/ cpc[c] \notin Locked /\ pc \notin Locked
         \/ Holds(c) /\ cpc[c] \in Locked /\ pc \in Locked
  PROVE  LockInv'
<1>1. cpc'[c] = pc /\ \A d \in Callers \ {c} : cpc'[d] = cpc[d]
  BY DEF SessionTypeOK, Goto
<1>2. \A i \in 1..Len(lock) : lock[i] \in Callers
  BY DEF SessionTypeOK
<1> QED
  BY <1>1, <1>2 DEF LockInv, Holds, Locked, Holding

(* Only the first in the queue can hold the lock.                           *)
LEMMA OneHolder ==
  ASSUME LockInv, NEW c \in Callers, Holds(c), NEW d \in Callers, d # c
  PROVE  cpc[d] \notin Holding
BY DEF LockInv, Holds

------------------------------------------------------------------------------
(* The steps of a call                                                      *)

LEMMA AttemptSession ==
  ASSUME SessionInv, NEW c \in Callers, Attempt(c)
  PROVE  SessionInv'
<1> USE SessionAssumption DEF SessionAssumption, SessionInv, SessionTypeOK
<1>1. CASE client = NoServer
  <2>1. Goto(c, "reconnect") /\ Acquire(c) /\ UNCHANGED using
    BY <1>1 DEF Attempt
  <2>2. LockInv' /\ lock' \in Seq(Callers)
    BY <2>1, AcquireKeepsLock DEF Attempt, Locked
  <2> QED
    BY <2>1, <2>2 DEF Attempt, Goto, CallStates, ServersInv, RetriesInv, Closing
<1>2. CASE client # NoServer
  <2>1. Goto(c, "calling") /\ using' = [using EXCEPT ![c] = client] /\ UNCHANGED lock
    BY <1>2 DEF Attempt
  <2>2. LockInv'
    BY <2>1, LockKept DEF Attempt, Locked, CallStates
  <2> QED
    BY <2>1, <2>2 DEF Attempt, Goto, CallStates, ServersInv, RetriesInv, Closing
<1> QED
  BY <1>1, <1>2

LEMMA AnswerSession ==
  ASSUME SessionInv, NEW c \in Callers, CallAnswered(c)
  PROVE  SessionInv'
<1> USE SessionAssumption DEF SessionAssumption, SessionInv, SessionTypeOK
<1>1. PICK pc \in {"ok", "failed", "backoff"} :
        Goto(c, pc) /\ (pc = "backoff" => attempt[c] < MaxRetries)
  BY DEF CallAnswered, AfterFailure
<1>2. LockInv'
  BY <1>1, LockKept DEF CallAnswered, Locked, CallStates, Ended
<1> QED
  BY <1>1, <1>2 DEF CallAnswered, Goto, CallStates, Ended, ServersInv, RetriesInv, Closing

LEMMA BreakSession ==
  ASSUME SessionInv, NEW c \in Callers, CallBroken(c)
  PROVE  SessionInv'
<1> USE SessionAssumption DEF SessionAssumption, SessionInv, SessionTypeOK
<1>1. LockInv' /\ lock' \in Seq(Callers)
  BY AcquireKeepsLock DEF CallBroken, Locked
<1> QED
  BY <1>1 DEF CallBroken, Goto, CallStates, ServersInv, RetriesInv, Closing

LEMMA BackoffSession ==
  ASSUME SessionInv, NEW c \in Callers, Backoff(c)
  PROVE  SessionInv'
<1> USE SessionAssumption DEF SessionAssumption, SessionInv, SessionTypeOK
<1>1. LockInv'
  BY LockKept DEF Backoff, Locked, CallStates
<1>2. attempt' \in [Callers -> 0..MaxRetries]
  BY DEF Backoff, RetriesInv
<1> QED
  BY <1>1, <1>2 DEF Backoff, Goto, CallStates, ServersInv, RetriesInv, Closing

(* The lock is held, nothing runs but the session's server; it is cleared.  *)
LEMMA StartCloseSession ==
  ASSUME SessionInv, NEW c \in Callers, Holds(c), cpc[c] \in Locked \ Holding,
         NEW pc \in Closing, StartClose(c, pc),
         UNCHANGED <<servers, spawned, lock, attempt>>
  PROVE  SessionInv'
<1> USE SessionAssumption DEF SessionAssumption, SessionInv, SessionTypeOK
<1>1. LockInv'
  BY LockKept DEF StartClose, Locked, Closing, CallStates
<1>2. \A d \in Callers \ {c} : cpc[d] \notin Holding /\ cpc'[d] = cpc[d]
  BY OneHolder DEF StartClose, Goto
<1>3. cpc'[c] = pc /\ using'[c] = client /\ client' = NoServer /\ servers = {client}
  BY DEF StartClose, Goto, ServersInv
<1>4. ServersInv'
  BY <1>2, <1>3 DEF ServersInv, Closing, Holding, NoServer
<1> QED
  BY <1>1, <1>3, <1>4 DEF StartClose, Goto, Closing, CallStates, RetriesInv

(* What was closed has exited: nothing runs.                                *)
LEMMA ClosedServers ==
  ASSUME SessionInv, NEW c \in Callers, cpc[c] \in Closing,
         servers' = servers \ {using[c]}
  PROVE  client = NoServer /\ servers' = {} /\ Holds(c)
BY DEF SessionInv, LockInv, ServersInv, Closing, Holding

LEMMA DropSession ==
  ASSUME SessionInv, NEW c \in Callers, Drop(c) \/ Dropped(c)
  PROVE  SessionInv'
<1> USE SessionAssumption DEF SessionAssumption, SessionInv, SessionTypeOK
<1>1. CASE cpc[c] = "drop" /\ StartClose(c, "dropping") /\ Drop(c)
  BY <1>1, StartCloseSession DEF Drop, StartClose, Locked, Holding, Closing
<1>2. ASSUME Holds(c), Release, Goto(c, AfterFailure(c)), client = NoServer, servers' = {},
             cpc[c] \in {"drop", "dropping"},
             UNCHANGED <<client, spawned, attempt, using>>
      PROVE  SessionInv'
  <2>1. /\ AfterFailure(c) \in {"backoff", "failed"}
        /\ AfterFailure(c) = "backoff" => attempt[c] < MaxRetries
    BY DEF AfterFailure
  <2>2. LockInv' /\ lock' \in Seq(Callers)
    BY <1>2, <2>1, ReleaseKeepsLock DEF Locked, CallStates, Ended
  <2> QED
    BY <1>2, <2>1, <2>2
    DEF Goto, CallStates, Ended, ServersInv, RetriesInv, Closing, NoServer
<1>3. CASE Dropped(c)
  BY <1>2, <1>3, ClosedServers DEF Dropped, Closing
<1>4. CASE cpc[c] = "drop" /\ client = NoServer /\ Drop(c)
  <2>1. \A d \in Callers : cpc[d] \notin Closing
    BY <1>4, OneHolder DEF Drop, Holding, Closing
  <2>2. servers' = {}
    BY <1>4, <2>1 DEF Drop, ServersInv
  <2> QED
    BY <1>2, <1>4, <2>2 DEF Drop, StartClose
<1> QED
  BY <1>1, <1>3, <1>4 DEF Drop

LEMMA ReconnectSession ==
  ASSUME SessionInv, NEW c \in Callers, Reconnect(c)
  PROVE  SessionInv'
<1> USE SessionAssumption DEF SessionAssumption, SessionInv, SessionTypeOK
<1>1. CASE StartClose(c, "closing")
  BY <1>1, StartCloseSession DEF Reconnect, StartClose, Locked, Holding, Closing
<1>2. CASE client = NoServer /\ Goto(c, "entering") /\ UNCHANGED <<client, using>>
  <2>1. \A d \in Callers : cpc[d] \notin Holding
    BY OneHolder DEF Reconnect, Holding
  <2>2. servers = {}
    BY <1>2, <2>1 DEF ServersInv, Holding, Closing
  <2>3. LockInv'
    BY <1>2, LockKept DEF Reconnect, Locked, CallStates
  <2> QED
    BY <1>2, <2>1, <2>2, <2>3
    DEF Reconnect, Goto, CallStates, ServersInv, RetriesInv, Holding, Closing
<1> QED
  BY <1>1, <1>2 DEF Reconnect

LEMMA ConnectSession ==
  ASSUME SessionInv, NEW c \in Callers,
         Closed(c) \/ Entered(c) \/ Listed(c) \/ ConnectFailed(c)
  PROVE  SessionInv'
<1> USE SessionAssumption DEF SessionAssumption, SessionInv, SessionTypeOK
<1>0. /\ cpc[c] \in Holding /\ Holds(c)
      /\ \A d \in Callers \ {c} : cpc[d] \notin Holding
  BY OneHolder DEF Closed, Entered, Listed, ConnectFailed, Holding, LockInv
<1>1. CASE Closed(c)
  <2>1. client = NoServer /\ servers' = {}
    BY <1>1, ClosedServers DEF Closed, Closing
  <2>2. LockInv'
    BY <1>0, <1>1, LockKept DEF Closed, Locked, CallStates
  <2> QED
    BY <1>0, <1>1, <2>1, <2>2
    DEF Closed, Goto, CallStates, ServersInv, RetriesInv, Holding, Closing, Servers
<1>2. CASE Entered(c)
  <2>1. servers = {} /\ servers' = {spawned + 1} /\ client' = spawned + 1
    BY <1>2 DEF Entered, ServersInv
  <2>2. LockInv'
    BY <1>0, <1>2, LockKept DEF Entered, Locked, CallStates
  <2> QED
    BY <1>0, <1>2, <2>1, <2>2
    DEF Entered, Goto, CallStates, ServersInv, RetriesInv, Holding, Closing, Servers, NoServer
<1>3. CASE Listed(c)
  <2>1. LockInv' /\ lock' \in Seq(Callers)
    BY <1>0, <1>3, ReleaseKeepsLock DEF Listed, ReleaseWhenListed, Locked, CallStates
  <2> QED
    BY <1>0, <1>3, <2>1
    DEF Listed, Goto, CallStates, ServersInv, RetriesInv, Holding, Closing
<1>4. CASE ConnectFailed(c)
  <2>1. LockInv' /\ lock' \in Seq(Callers)
    BY <1>0, <1>4, ReleaseKeepsLock DEF ConnectFailed, ReleaseOnFailure, Locked, CallStates, Ended
  <2> QED
    BY <1>0, <1>4, <2>1
    DEF ConnectFailed, Goto, CallStates, Ended, ServersInv, RetriesInv, Holding, Closing
<1> QED
  BY <1>1, <1>2, <1>3, <1>4

LEMMA CallStepSession ==
  ASSUME SessionInv, NEW c \in Callers, CallStep(c)
  PROVE  SessionInv'
BY AttemptSession, AnswerSession, BreakSession, BackoffSession, DropSession, ReconnectSession,
   ConnectSession DEF CallStep

------------------------------------------------------------------------------
(* The process                                                              *)

(* What one caller's step does to the others, and to the stages.            *)
LEMMA CallStepLocal ==
  ASSUME SessionTypeOK, NEW c \in Callers, CallStep(c)
  PROVE  /\ \A d \in Callers \ {c} : cpc'[d] = cpc[d] /\ attempt'[d] = attempt[d]
         /\ cpc[c] \notin Ended
BY DEF CallStep, Attempt, CallAnswered, CallBroken, Backoff, Drop, Dropped, Reconnect, Closed,
       Entered, Listed, ConnectFailed, StartClose, Goto, SessionTypeOK, Ended

(* While every agent has stopped, Main's last drop ends with no server.     *)
LEMMA LastDrop ==
  ASSUME SessionInv, ProcessAssumption, CallStep(Main),
         cpc[Main] \in {"drop", "dropping"}, attempt[Main] = MaxRetries,
         \A a \in Agents : cpc[a] \in Ended
  PROVE  /\ attempt'[Main] = MaxRetries
         /\ \/ cpc'[Main] = "dropping"
            \/ cpc'[Main] = "failed" /\ client' = NoServer /\ servers' = {}
<1> USE DEF ProcessAssumption
<1>0. Main \in Callers /\ SessionTypeOK /\ MaxRetries \in Nat
  BY SessionAssumption DEF SessionAssumption, SessionInv
<1>1. Drop(Main) \/ Dropped(Main)
  BY DEF CallStep, Attempt, CallAnswered, CallBroken, Backoff, Reconnect, Closed, Entered,
         Listed, ConnectFailed
<1>2. AfterFailure(Main) = "failed"
  BY <1>0 DEF AfterFailure
<1>3. CASE Dropped(Main)
  <2>1. client = NoServer /\ servers' = {}
    BY <1>0, <1>3, ClosedServers DEF Dropped, Closing
  <2> QED
    BY <1>0, <1>2, <1>3, <2>1 DEF Dropped, Goto, SessionTypeOK
<1>4. CASE Drop(Main)
  <2>1. CASE StartClose(Main, "dropping")
    BY <1>0, <1>4, <2>1 DEF Drop, StartClose, Goto, SessionTypeOK
  <2>2. CASE client = NoServer
    <3>1. \A c \in Callers : cpc[c] \notin Closing
      BY <1>4 DEF Drop, Closing, Ended
    <3>2. servers = {}
      BY <2>2, <3>1 DEF SessionInv, ServersInv
    <3> QED
      BY <1>0, <1>2, <1>4, <2>2, <3>2 DEF Drop, StartClose, Goto, SessionTypeOK
  <2> QED
    BY <1>4, <2>1, <2>2 DEF Drop
<1> QED
  BY <1>1, <1>3, <1>4

LEMMA InitInv == Init => Inv
<1> SUFFICES ASSUME Init PROVE Inv
  OBVIOUS
<1> USE SessionAssumption, ProcessAssumption DEF SessionAssumption, ProcessAssumption,
        Init, SessionInit
<1>1. TypeOK
  <2>1. lock \in Seq(Callers)
    OBVIOUS
  <2>2. shutdown \in BOOLEAN
    BY Zenon
  <2> QED
    BY <2>1, <2>2 DEF TypeOK, SessionTypeOK, Stages, CallStates, Ended, NoServer, Servers
<1>2. LockInv
  BY DEF LockInv, Locked, Holding, Holds
<1>3. ServersInv /\ RetriesInv
  BY DEF ServersInv, RetriesInv, Closing, NoServer
<1>4. StageInv
  BY DEF StageInv, Ended
<1> QED
  BY <1>1, <1>2, <1>3, <1>4 DEF Inv, SessionInv, TypeOK

LEMMA MainInv == ASSUME Inv, MainStep PROVE Inv'
<1> USE ProcessAssumption DEF ProcessAssumption, Inv, TypeOK
<1>0. Main \in Callers /\ MaxRetries \in Nat
  BY SessionAssumption DEF SessionAssumption
<1>1. CASE MainCalls
  <2>1. SessionInv'
    BY <1>0, <1>1, CallStepSession DEF MainCalls
  <2>2. /\ \A d \in Agents : cpc'[d] = cpc[d]
        /\ cpc[Main] \notin Ended
    BY <1>0, <1>1, CallStepLocal DEF MainCalls
  <2>3. TypeOK'
    BY <1>1, <2>1 DEF MainCalls, SessionInv, Stages
  <2>4. CASE stage \in {"connecting", "corroborating"}
    BY <1>1, <2>1, <2>2, <2>3, <2>4 DEF MainCalls, StageInv
  <2>5. CASE stage = "closing"
    <3>1. /\ attempt'[Main] = MaxRetries
          /\ \/ cpc'[Main] = "dropping"
             \/ cpc'[Main] = "failed" /\ client' = NoServer /\ servers' = {}
      BY <1>1, <2>2, <2>5, LastDrop DEF MainCalls, StageInv, Ended
    <3> QED
      BY <1>1, <2>1, <2>2, <2>3, <2>5, <3>1 DEF MainCalls, StageInv
  <2>6. stage \in {"connecting", "corroborating", "closing"}
    BY <1>1, <2>2 DEF MainCalls, StageInv, Exited, Stages
  <2> QED
    BY <2>4, <2>5, <2>6
<1>2. CASE BootFails \/ Boot \/ Exit
  <2>1. SessionInv'
    BY <1>2 DEF BootFails, Boot, Exit, sessionVars, SessionInv, SessionTypeOK, LockInv, Holds,
                ServersInv, RetriesInv
  <2> QED
    BY <1>2, <2>1 DEF BootFails, Boot, Exit, sessionVars, SessionInv, SessionTypeOK, StageInv,
                      Stages, Ended
<1>3. CASE CloseSession
  <2>1. Goto(Main, "drop") /\ Acquire(Main) /\ cpc[Main] \in Ended
    BY <1>3 DEF CloseSession, StartDisconnect, Goto, StageInv
  <2>2. LockInv' /\ lock' \in Seq(Callers)
    BY <1>0, <2>1, AcquireKeepsLock DEF SessionInv, Ended, Locked
  <2>3. SessionInv'
    BY <1>0, <1>3, <2>1, <2>2
    DEF CloseSession, StartDisconnect, SessionInv, SessionTypeOK, ServersInv, RetriesInv,
        Closing, CallStates, Ended
  <2> QED
    BY <1>0, <1>3, <2>1, <2>3
    DEF CloseSession, StartDisconnect, SessionInv, SessionTypeOK, StageInv, Stages, Ended
<1> QED
  BY <1>1, <1>2, <1>3 DEF MainStep

LEMMA AgentInv ==
  ASSUME Inv, NEW a \in Agents, AgentStep(a) \/ BackoffOverflows(a)
  PROVE  Inv'
<1> USE ProcessAssumption DEF ProcessAssumption, Inv, TypeOK
<1>0. a \in Callers /\ a # Main /\ MaxRetries \in Nat /\ stage \in {"running", "closing"}
  BY SessionAssumption DEF SessionAssumption, AgentStep, BackoffOverflows, AgentsRun
<1>1. CASE AgentStep(a) /\ AgentCalls(a)
  <2>1. SessionInv'
    BY <1>0, <1>1, CallStepSession DEF AgentCalls
  <2>2. \A d \in Callers \ {a} : cpc'[d] = cpc[d]
    BY <1>0, <1>1, CallStepLocal DEF AgentCalls, SessionInv
  <2> QED
    BY <1>0, <1>1, <2>1, <2>2 DEF AgentStep, AgentCalls, SessionInv, StageInv
<1>2. CASE AgentStep(a) /\ StartStep(a)
  <2>1. Goto(a, "attempt") /\ cpc[a] \in Ended /\ stage = "running"
    BY <1>0, <1>2 DEF StartStep, StartCall, Goto, StageInv
  <2>2. LockInv'
    BY <1>0, <1>2, <2>1, LockKept DEF StartStep, StartCall, SessionInv, Ended, Locked, CallStates
  <2>3. SessionInv'
    BY <1>0, <1>2, <2>1, <2>2
    DEF StartStep, StartCall, SessionInv, SessionTypeOK, ServersInv, RetriesInv, Closing,
        CallStates, Ended
  <2> QED
    BY <1>0, <1>2, <2>1, <2>3
    DEF AgentStep, StartStep, StartCall, SessionInv, SessionTypeOK, StageInv, Stages
<1>3. CASE \/ AgentStep(a) /\ (StepReturns(a) \/ StepRaises(a) \/ AgentStops(a))
           \/ BackoffOverflows(a)
  <2>1. UNCHANGED sessionVars
    BY <1>3 DEF StepReturns, StepRaises, AgentStops, BackoffOverflows
  <2>2. SessionInv'
    BY <2>1 DEF sessionVars, SessionInv, SessionTypeOK, LockInv, Holds, ServersInv, RetriesInv
  <2>3. StageInv'
    BY <1>0, <1>3, <2>1
    DEF AgentStep, StepReturns, StepRaises, AgentStops, BackoffOverflows, sessionVars, StageInv,
        Ended
  <2> QED
    BY <1>3, <2>2, <2>3
    DEF AgentStep, StepReturns, StepRaises, AgentStops, BackoffOverflows, SessionInv, Stages
<1> QED
  BY <1>1, <1>2, <1>3 DEF AgentStep

LEMMA NextInv == Inv /\ [Next]_vars => Inv'
<1> SUFFICES ASSUME Inv, [Next]_vars PROVE Inv'
  OBVIOUS
<1>1. CASE Signal \/ UNCHANGED vars
  <2>1. shutdown' \in BOOLEAN
    BY <1>1, Zenon DEF Signal, vars, Inv, TypeOK
  <2>2. UNCHANGED <<sessionVars, stage, apc, failures>>
    BY <1>1 DEF Signal, vars
  <2> QED
    BY <2>1, <2>2
    DEF sessionVars, Inv, TypeOK, SessionInv, SessionTypeOK, LockInv, Holds, ServersInv,
        RetriesInv, StageInv
<1> QED
  BY <1>1, MainInv, AgentInv DEF Next

LEMMA Invariance == Spec => []Inv
  BY InitInv, NextInv, PTL DEF Spec

(* The variables of Process and McpSession keep their types: call() makes   *)
(* at most mcp_max_retries + 1 attempts, and sessions are never reused.     *)
THEOREM ProcessTypesOK == Spec => []TypeOK
<1>1. Inv => TypeOK
  BY DEF Inv
<1> QED
  BY <1>1, Invariance, PTL

(* However many agents fail, drop and reconnect together, the lock of       *)
(* AlpacaMcp never lets two MCP server subprocesses run.                    *)
THEOREM OneServerAlways == Spec => []OneServer
<1>1. Inv => OneServer
  <2> SUFFICES ASSUME Inv PROVE OneServer
    OBVIOUS
  <2>1. servers = {} \/ \E s : servers = {s}
    BY DEF Inv, SessionInv, ServersInv
  <2>2. Cardinality(servers) \in {0, 1}
    BY <2>1, FS_EmptySet, FS_Singleton, Zenon
  <2> QED
    BY <2>2 DEF OneServer
<1> QED
  BY <1>1, Invariance, PTL

(* When run() returns after a stop signal, no MCP server it started runs.   *)
THEOREM CleanExit == Spec => []ExitLeavesNoServer
<1>1. Inv => ExitLeavesNoServer
  BY DEF Inv, StageInv, ExitLeavesNoServer
<1> QED
  BY <1>1, Invariance, PTL
==============================================================================
