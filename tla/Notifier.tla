------------------------------ MODULE Notifier ------------------------------
(***************************************************************************)
(* TelegramNotifier and the ERROR bridge: agents hand over messages with a *)
(* call that never waits, one task sends them, and the shutdown of run()   *)
(* flushes what is queued within a time limit.                             *)
(*                                                                         *)
(* The queue is an asyncio.Queue with its count of unfinished tasks, which *)
(* is what join() waits for.  A send that fails or is refused ends like    *)
(* one that succeeds: the message is gone.                                 *)
(***************************************************************************)
EXTENDS Naturals, Sequences

CONSTANTS
  Texts,        (* the messages agents and logged errors produce            *)
  StartText, StopText,
  NoText,       (* not a message                                            *)
  QueueMax,     (* telegram_queue_max                                       *)
  Deduplicate   (* telegram_dedupe_seconds > 0                              *)

Messages == Texts \union {StartText, StopText}

ASSUME NotifierAssumption ==
  /\ QueueMax \in Nat \ {0}
  /\ NoText \notin Messages
  /\ StartText \notin Texts /\ StopText \notin Texts /\ StartText # StopText
  /\ Deduplicate \in BOOLEAN

VARIABLES
  phase,      (* of run(): "booting", "running", "flushing", "closed"       *)
  bridge,     (* the ERROR handler is attached to the root logger           *)
  queue,      (* _queue                                                     *)
  unfinished, (* its count of unfinished tasks                              *)
  recent,     (* the keys of _recent that are inside the window             *)
  sending,    (* what _drain has in hand, or NoText                         *)
  handed,     (* the last message handed to Telegram                        *)
  timedOut    (* aclose gave up                                             *)

notifierVars == <<phase, bridge, queue, unfinished, recent, sending, handed, timedOut>>

------------------------------------------------------------------------------
(* notify()                                                                 *)

DroppedStillOwed(text) ==                                             \* mutant
  IF Len(queue) < QueueMax
    THEN queue' = Append(queue, text) /\ unfinished' = unfinished + 1
    ELSE queue' = Append(Tail(queue), text) /\ unfinished' = unfinished + 1

(* put_nowait, or on QueueFull get_nowait and task_done first: the oldest   *)
(* message goes, and with it the task join() would have waited for.         *)
Enqueue(text) ==
  IF Len(queue) < QueueMax
    THEN queue' = Append(queue, text) /\ unfinished' = unfinished + 1
    ELSE queue' = Append(Tail(queue), text) /\ UNCHANGED unfinished

Duplicate(text) == Deduplicate /\ text \in recent

(* _is_duplicate remembers a text before it is known to be queued or sent.  *)
Notify(text) ==
  IF Duplicate(text)
    THEN UNCHANGED <<queue, unfinished, recent>>
    ELSE /\ Enqueue(text)
         /\ recent' = recent \union {text}

(* The deduplication window of a text passes.                               *)
WindowPasses ==
  /\ phase # "closed"
  /\ \E text \in recent : recent' = recent \ {text}
  /\ UNCHANGED <<phase, bridge, queue, unfinished, sending, handed, timedOut>>

------------------------------------------------------------------------------
(* run()                                                                    *)

(* The drain task starts, then the bridge if TELEGRAM_NOTIFY_ERRORS is on,  *)
(* then the first message.                                                  *)
Start ==
  /\ phase = "booting"
  /\ phase' = "running"
  /\ bridge' \in BOOLEAN
  /\ Notify(StartText)
  /\ UNCHANGED <<sending, handed, timedOut>>

(* An agent announces something.                                            *)
Announce ==
  /\ phase = "running"
  /\ \E text \in Texts : Notify(text)
  /\ UNCHANGED <<phase, bridge, sending, handed, timedOut>>

(* Anything in the process may log an ERROR, also while it shuts down.      *)
LogError ==
  /\ bridge
  /\ phase # "closed"
  /\ \E text \in Texts : Notify(text)
  /\ UNCHANGED <<phase, bridge, sending, handed, timedOut>>

StopBridged ==                                                        \* mutant
  /\ phase = "running"
  /\ phase' = "flushing"
  /\ UNCHANGED bridge
  /\ Notify(StopText)
  /\ UNCHANGED <<sending, handed, timedOut>>

(* The finally clause up to the await of join(): no other code runs between *)
(* the removal of the bridge and the last message.                          *)
Stop ==
  /\ phase = "running"
  /\ phase' = "flushing"
  /\ bridge' = FALSE
  /\ Notify(StopText)
  /\ UNCHANGED <<sending, handed, timedOut>>

(* join() returns, and the drain task is cancelled in its get().            *)
Flushed ==
  /\ phase = "flushing"
  /\ unfinished = 0
  /\ phase' = "closed"
  /\ UNCHANGED <<bridge, queue, unfinished, recent, sending, handed, timedOut>>

WaitsForJoin == FALSE                                                 \* mutant

(* wait_for gives up: the task is cancelled, in a send if there is one.     *)
JoinTimesOut ==
  /\ phase = "flushing"
  /\ unfinished > 0
  /\ phase' = "closed"
  /\ timedOut' = TRUE
  /\ sending' = NoText
  /\ unfinished' = IF sending = NoText THEN unfinished ELSE unfinished - 1
  /\ UNCHANGED <<bridge, queue, recent, handed>>

------------------------------------------------------------------------------
(* _drain()                                                                 *)

Draining == phase \in {"running", "flushing"}

TakeNext ==
  /\ Draining
  /\ sending = NoText
  /\ queue # <<>>
  /\ sending' = Head(queue)
  /\ queue' = Tail(queue)
  /\ UNCHANGED <<phase, bridge, unfinished, recent, handed, timedOut>>

(* _send returns or raises; task_done either way.                           *)
SendEnds ==
  /\ Draining
  /\ sending # NoText
  /\ handed' = sending
  /\ sending' = NoText
  /\ unfinished' = unfinished - 1
  /\ UNCHANGED <<phase, bridge, queue, recent, timedOut>>

------------------------------------------------------------------------------
NotifierInit ==
  /\ phase = "booting"
  /\ bridge = FALSE
  /\ queue = <<>>
  /\ unfinished = 0
  /\ recent = {}
  /\ sending = NoText
  /\ handed = NoText
  /\ timedOut = FALSE

NotifierNext ==
  \/ Start
  \/ Announce
  \/ LogError
  \/ WindowPasses
  \/ Stop
  \/ Flushed
  \/ JoinTimesOut
  \/ TakeNext
  \/ SendEnds

NotifierSpec == NotifierInit /\ [][NotifierNext]_notifierVars

------------------------------------------------------------------------------
NotifierTypeOK ==
  /\ phase \in {"booting", "running", "flushing", "closed"}
  /\ bridge \in BOOLEAN
  /\ queue \in Seq(Messages) /\ Len(queue) <= QueueMax
  /\ unfinished \in Nat
  /\ recent \subseteq Messages
  /\ sending \in Messages \union {NoText}
  /\ handed \in Messages \union {NoText}
  /\ timedOut \in BOOLEAN

(* join() waits for exactly what is queued or being sent, whichever         *)
(* messages were dropped, suppressed or refused (notify.py:333-386): with   *)
(* one task too many aclose would always run into its timeout, with one too *)
(* few it would return with messages in the queue, or task_done would raise. *)
TasksAccounted == unfinished = Len(queue) + (IF sending = NoText THEN 0 ELSE 1)

(* A shutdown that was not cut short has flushed everything, and "stopped"  *)
(* is the last message (__main__.py:102-108): no error of the shutdown is   *)
(* queued behind it, even when the queue was full.                          *)
LastWordIsStop == phase = "closed" /\ ~timedOut => queue = <<>> /\ handed = StopText

(* Telegram cannot hold up the exit of the process (notify.py:313): aclose  *)
(* returns although a send hangs for as long as it likes.                   *)
NotifierCloses == phase = "flushing" ~> phase = "closed"
==============================================================================
