----------------------------- MODULE McpSession -----------------------------
(***************************************************************************)
(* AlpacaMcp: one session with the broker's MCP server, a subprocess,      *)
(* shared by every agent.  A call that fails in transport drops the        *)
(* session, the next call opens another, both under an asyncio.Lock.       *)
(* Dropping and opening wait for the subprocess, so other callers run in   *)
(* between, and what they then find in _client may be somebody else's.     *)
(*                                                                         *)
(* Which tool is called and with what does not matter here; the refusals   *)
(* at the head of call() never reach the session and are left out.         *)
(* Two things are taken from fastmcp, which is external: leaving a client    *)
(* ends its subprocess, also when __aexit__ raises, and it comes to an end,  *)
(* although the code gives it no timeout.                                  *)
(***************************************************************************)
EXTENDS Naturals, Sequences, FiniteSets

CONSTANTS
  Callers,     (* the coroutines that call tools                            *)
  MaxRetries,  (* mcp_max_retries                                           *)
  MaxServers   (* bound: sessions ever opened                               *)

ASSUME SessionAssumption == MaxRetries \in Nat /\ MaxServers \in Nat

NoServer == 0

Servers == 1..MaxServers

VARIABLES
  client,   (* _client: the current session, or NoServer                    *)
  servers,  (* the subprocesses that run                                    *)
  spawned,  (* how many were ever opened                                    *)
  lock,     (* _lock: the holder, then the waiters in order                 *)
  cpc,      (* where each caller is suspended                               *)
  attempt,  (* its loop variable                                            *)
  using     (* the session its call, or its tear-down, has in hand          *)

sessionVars == <<client, servers, spawned, lock, cpc, attempt, using>>

(* "attempt" is the head of the loop, "reconnect", "closing", "entering" and *)
(* "listing" are inside _reconnect, "drop" and "dropping" inside             *)
(* _reconnect_quietly; a call ends "ok" or "failed".                         *)
Ended == {"idle", "ok", "failed"}

CallStates == Ended \union
  {"attempt", "reconnect", "closing", "entering", "listing", "calling", "drop", "dropping",
   "backoff"}

Goto(c, pc) == cpc' = [cpc EXCEPT ![c] = pc]

HoldsOrBarges(c) == TRUE                                              \* mutant

(* asyncio.Lock serves its waiters in the order they came.                  *)
Holds(c) == lock # <<>> /\ Head(lock) = c

Acquire(c) == lock' = Append(lock, c)

Release == lock' = Tail(lock)

LeaksOnFailure == UNCHANGED lock                                      \* mutant

(* The lock is released although the body raised.                           *)
ReleaseOnFailure == Release

HeldForCorroboration == IF spawned = 1 THEN UNCHANGED lock ELSE Release  \* mutant

(* connect() corroborates the account outside the lock.                     *)
ReleaseWhenListed == Release

------------------------------------------------------------------------------
(* call()                                                                   *)

AfterFailureOnceMore(c) == IF attempt[c] <= MaxRetries THEN "backoff" ELSE "failed"  \* mutant

(* The loop ends with the last error, or sleeps and goes round again.       *)
AfterFailure(c) == IF attempt[c] < MaxRetries THEN "backoff" ELSE "failed"

Attempt(c) ==
  /\ cpc[c] = "attempt"
  /\ IF client = NoServer
       THEN Goto(c, "reconnect") /\ Acquire(c) /\ UNCHANGED using
       ELSE Goto(c, "calling") /\ using' = [using EXCEPT ![c] = client] /\ UNCHANGED lock
  /\ UNCHANGED <<client, servers, spawned, attempt>>

(* The server answers as long as its session is open.                       *)
CallAnswered(c) ==
  /\ cpc[c] = "calling"
  /\ using[c] \in servers
  /\ \/ Goto(c, "ok")
     \/ Goto(c, "failed")          \* a permanent ToolError
     \/ Goto(c, AfterFailure(c))   \* a ToolError worth another attempt
  /\ UNCHANGED <<client, servers, spawned, lock, attempt, using>>

(* A timeout, a broken pipe, or a session closed under the call.            *)
CallBroken(c) ==
  /\ cpc[c] = "calling"
  /\ Goto(c, "drop")
  /\ Acquire(c)
  /\ UNCHANGED <<client, servers, spawned, attempt, using>>

Backoff(c) ==
  /\ cpc[c] = "backoff"
  /\ Goto(c, "attempt")
  /\ attempt' = [attempt EXCEPT ![c] = @ + 1]
  /\ UNCHANGED <<client, servers, spawned, lock, using>>

------------------------------------------------------------------------------
(* _close_locked: _client is cleared before the wait for the subprocess.    *)
StartClose(c, pc) ==
  /\ client # NoServer
  /\ client' = NoServer
  /\ using' = [using EXCEPT ![c] = client]
  /\ Goto(c, pc)

(* _reconnect_quietly: whatever _client is by now, not what the call used.  *)
Drop(c) ==
  /\ cpc[c] = "drop"
  /\ Holds(c)
  /\ \/ StartClose(c, "dropping") /\ UNCHANGED lock
     \/ /\ client = NoServer
        /\ Goto(c, AfterFailure(c))
        /\ Release
        /\ UNCHANGED <<client, using>>
  /\ UNCHANGED <<servers, spawned, attempt>>

(* __aexit__ has returned or raised, and _close_locked swallows what it      *)
(* raises.  Assumed of fastmcp, which runs the subprocess: that it is ended  *)
(* in either case.                                                          *)
Dropped(c) ==
  /\ cpc[c] = "dropping"
  /\ servers' = servers \ {using[c]}
  /\ Goto(c, AfterFailure(c))
  /\ Release
  /\ UNCHANGED <<client, spawned, attempt, using>>

------------------------------------------------------------------------------
(* _reconnect                                                               *)
Reconnect(c) ==
  /\ cpc[c] = "reconnect"
  /\ Holds(c)
  /\ \/ StartClose(c, "closing")
     \/ client = NoServer /\ Goto(c, "entering") /\ UNCHANGED <<client, using>>
  /\ UNCHANGED <<servers, spawned, lock, attempt>>

Closed(c) ==
  /\ cpc[c] = "closing"
  /\ servers' = servers \ {using[c]}
  /\ Goto(c, "entering")
  /\ UNCHANGED <<client, spawned, lock, attempt, using>>

(* _client is set before the tools are listed.                              *)
Entered(c) ==
  /\ cpc[c] = "entering"
  /\ spawned < MaxServers
  /\ spawned' = spawned + 1
  /\ servers' = servers \union {spawned + 1}
  /\ client' = spawned + 1
  /\ Goto(c, "listing")
  /\ UNCHANGED <<lock, attempt, using>>

Listed(c) ==
  /\ cpc[c] = "listing"
  /\ ReleaseWhenListed
  /\ using' = [using EXCEPT ![c] = client]
  /\ Goto(c, "calling")
  /\ UNCHANGED <<client, servers, spawned, attempt>>

(* What _reconnect raises escapes from call(), however many attempts are    *)
(* left; a session whose tools could not be listed stays.                   *)
ConnectFailed(c) ==
  /\ cpc[c] \in {"entering", "listing"}
  /\ ReleaseOnFailure
  /\ Goto(c, "failed")
  /\ UNCHANGED <<client, servers, spawned, attempt, using>>

------------------------------------------------------------------------------
StartCall(c) ==
  /\ cpc' = [cpc EXCEPT ![c] = "attempt"]
  /\ attempt' = [attempt EXCEPT ![c] = 0]
  /\ UNCHANGED <<client, servers, spawned, lock, using>>

(* close(): a drop that is followed by no other attempt.                    *)
StartDisconnect(c) ==
  /\ cpc' = [cpc EXCEPT ![c] = "drop"]
  /\ attempt' = [attempt EXCEPT ![c] = MaxRetries]
  /\ Acquire(c)
  /\ UNCHANGED <<client, servers, spawned, using>>

CallStep(c) ==
  \/ Attempt(c) \/ CallAnswered(c) \/ CallBroken(c) \/ Backoff(c)
  \/ Drop(c) \/ Dropped(c)
  \/ Reconnect(c) \/ Closed(c) \/ Entered(c) \/ Listed(c) \/ ConnectFailed(c)

(* connect() at boot, by a first caller.                                    *)
SessionInit(first) ==
  /\ client = NoServer
  /\ servers = {}
  /\ spawned = 0
  /\ lock = <<first>>
  /\ cpc = [c \in Callers |-> IF c = first THEN "reconnect" ELSE "idle"]
  /\ attempt = [c \in Callers |-> 0]
  /\ using = [c \in Callers |-> NoServer]

SessionTypeOK ==
  /\ client \in {NoServer} \union Servers
  /\ servers \subseteq Servers
  /\ spawned \in 0..MaxServers
  /\ lock \in Seq(Callers)
  /\ cpc \in [Callers -> CallStates]
  /\ attempt \in [Callers -> 0..MaxRetries]
  /\ using \in [Callers -> {NoServer} \union Servers]

------------------------------------------------------------------------------
(* Whatever agents fail together, two MCP servers never run at once.        *)
OneServer == Cardinality(servers) <= 1
==============================================================================
