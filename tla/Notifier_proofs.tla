--------------------------- MODULE Notifier_proofs ---------------------------
(* For every capacity of the queue, every set of messages and with or       *)
(* without deduplication: the count join() waits for is exact, and a        *)
(* shutdown that is not cut short ends with "stopped".                      *)
EXTENDS Notifier, TLAPS

(* The count is exact in every reachable state, and the queue in bounds.    *)
CountInv == NotifierTypeOK /\ TasksAccounted

(* What will be handed to Telegram last if nothing is queued any more.      *)
LastWord ==
  IF queue # <<>> THEN queue[Len(queue)]
  ELSE IF sending # NoText THEN sending
  ELSE handed

(* From the moment "stopped" is queued it stays last, because the bridge is *)
(* gone; before that moment it cannot be taken for a duplicate.             *)
StopInv ==
  /\ phase \in {"booting", "running"} => StopText \notin recent
  /\ phase = "flushing" => ~bridge /\ LastWord = StopText
  /\ LastWordIsStop

(* The operation of asyncio.Queue that never raises: a text goes to the     *)
(* end, and what join() waits for grows by what the queue grew by.          *)
LEMMA EnqueueKeepsCount ==
  ASSUME NotifierTypeOK, NEW text \in Messages, Enqueue(text)
  PROVE  /\ queue' \in Seq(Messages) /\ Len(queue') <= QueueMax
         /\ queue' # <<>> /\ queue'[Len(queue')] = text
         /\ unfinished' \in Nat
         /\ unfinished' - Len(queue') = unfinished - Len(queue)
<1> USE NotifierAssumption DEF NotifierAssumption
<1>1. queue \in Seq(Messages) /\ Len(queue) <= QueueMax /\ unfinished \in Nat
  BY DEF NotifierTypeOK
<1>2. CASE Len(queue) < QueueMax
  BY <1>1, <1>2 DEF Enqueue
<1>3. CASE ~(Len(queue) < QueueMax)
  <2>1. queue' = Append(Tail(queue), text) /\ unfinished' = unfinished
    BY <1>3 DEF Enqueue
  <2>2. Len(queue) = QueueMax /\ queue # <<>>
    BY <1>1, <1>3
  <2>3. Tail(queue) \in Seq(Messages) /\ Len(Tail(queue)) = Len(queue) - 1
    BY <1>1, <2>2
  <2> QED BY <1>1, <2>1, <2>2, <2>3
<1> QED BY <1>2, <1>3

(* A message, suppressed or queued, keeps the count.                        *)
LEMMA NotifyKeepsCount ==
  ASSUME CountInv, NEW text \in Messages, Notify(text), sending' = sending
  PROVE  /\ queue' \in Seq(Messages) /\ Len(queue') <= QueueMax
         /\ unfinished' \in Nat /\ recent' \subseteq Messages
         /\ TasksAccounted'
<1>1. CASE Duplicate(text)
  BY <1>1 DEF Notify, CountInv, NotifierTypeOK, TasksAccounted
<1>2. CASE ~Duplicate(text)
  <2>1. Enqueue(text) /\ recent' = recent \union {text}
    BY <1>2 DEF Notify
  <2>2. /\ queue' \in Seq(Messages) /\ Len(queue') <= QueueMax
        /\ unfinished' \in Nat
        /\ unfinished' - Len(queue') = unfinished - Len(queue)
    BY <2>1, EnqueueKeepsCount DEF CountInv
  <2>3. TasksAccounted'
    BY <2>2 DEF CountInv, NotifierTypeOK, TasksAccounted
  <2> QED BY <2>1, <2>2, <2>3 DEF CountInv, NotifierTypeOK
<1> QED BY <1>1, <1>2

LEMMA CountInvInit == NotifierInit => CountInv
<1> SUFFICES ASSUME NotifierInit PROVE CountInv
  OBVIOUS
<1> USE NotifierAssumption DEF NotifierAssumption, NotifierInit
<1>1. queue \in Seq(Messages) /\ Len(queue) = 0
  OBVIOUS
<1>2. bridge \in BOOLEAN /\ timedOut \in BOOLEAN
  BY Zenon
<1>3. NotifierTypeOK
  BY <1>1, <1>2 DEF NotifierTypeOK
<1> QED BY <1>1, <1>3 DEF CountInv, TasksAccounted

LEMMA CountInvStep == CountInv /\ [NotifierNext]_notifierVars => CountInv'
<1> SUFFICES ASSUME CountInv, [NotifierNext]_notifierVars PROVE CountInv'
  OBVIOUS
<1> USE NotifierAssumption DEF NotifierAssumption
<1>0. NotifierTypeOK /\ TasksAccounted /\ Texts \subseteq Messages
      /\ StartText \in Messages /\ StopText \in Messages
  BY DEF CountInv, Messages
<1>1. CASE Start
  <2>1. Notify(StartText) /\ sending' = sending
    BY <1>1 DEF Start
  <2> QED BY <1>0, <1>1, <2>1, NotifyKeepsCount DEF CountInv, NotifierTypeOK, Start
<1>2. CASE Announce
  <2>1. PICK text \in Texts : Notify(text)
    BY <1>2 DEF Announce
  <2> QED BY <1>0, <1>2, <2>1, NotifyKeepsCount DEF CountInv, NotifierTypeOK, Announce
<1>3. CASE LogError
  <2>1. PICK text \in Texts : Notify(text)
    BY <1>3 DEF LogError
  <2> QED BY <1>0, <1>3, <2>1, NotifyKeepsCount DEF CountInv, NotifierTypeOK, LogError
<1>4. CASE WindowPasses
  BY <1>0, <1>4 DEF CountInv, NotifierTypeOK, TasksAccounted, WindowPasses
<1>5. CASE Stop
  <2>1. Notify(StopText) /\ sending' = sending
    BY <1>5 DEF Stop
  <2> QED BY <1>0, <1>5, <2>1, NotifyKeepsCount DEF CountInv, NotifierTypeOK, Stop
<1>6. CASE Flushed
  BY <1>0, <1>6 DEF CountInv, NotifierTypeOK, TasksAccounted, Flushed
<1>7. CASE JoinTimesOut
  BY <1>0, <1>7 DEF CountInv, NotifierTypeOK, TasksAccounted, JoinTimesOut
<1>8. CASE TakeNext
  <2>1. /\ queue \in Seq(Messages) /\ queue # <<>> /\ sending = NoText
        /\ sending' = Head(queue) /\ queue' = Tail(queue)
        /\ unfinished' = unfinished
    BY <1>0, <1>8 DEF NotifierTypeOK, TakeNext
  <2>2. /\ Head(queue) \in Messages /\ Tail(queue) \in Seq(Messages)
        /\ Len(Tail(queue)) = Len(queue) - 1
    BY <2>1
  <2>3. TasksAccounted'
    BY <1>0, <2>1, <2>2 DEF NotifierTypeOK, TasksAccounted
  <2> QED BY <1>0, <1>8, <2>1, <2>2, <2>3 DEF CountInv, NotifierTypeOK, TakeNext
<1>9. CASE SendEnds
  BY <1>0, <1>9 DEF CountInv, NotifierTypeOK, TasksAccounted, SendEnds
<1>10. CASE UNCHANGED notifierVars
  BY <1>0, <1>10 DEF CountInv, NotifierTypeOK, TasksAccounted, notifierVars
<1> QED BY <1>1, <1>2, <1>3, <1>4, <1>5, <1>6, <1>7, <1>8, <1>9, <1>10 DEF NotifierNext

LEMMA CountAlways == NotifierSpec => []CountInv
BY CountInvInit, CountInvStep, PTL DEF NotifierSpec

(* join() of aclose waits for exactly the messages that are queued or being *)
(* sent, whatever is dropped, suppressed, refused or timed out              *)
(* (notify.py:333-386).                                                     *)
THEOREM CountIsExact == NotifierSpec => []TasksAccounted
<1>1. CountInv => TasksAccounted BY DEF CountInv
<1> QED BY <1>1, CountAlways, PTL

------------------------------------------------------------------------------
LEMMA StopInvInit == NotifierInit => StopInv
BY DEF NotifierInit, StopInv, LastWordIsStop

LEMMA StopInvStep ==
  CountInv /\ StopInv /\ [NotifierNext]_notifierVars => StopInv'
<1> SUFFICES ASSUME CountInv, StopInv, [NotifierNext]_notifierVars PROVE StopInv'
  OBVIOUS
<1> USE NotifierAssumption DEF NotifierAssumption
<1>0. NotifierTypeOK /\ TasksAccounted
  BY DEF CountInv
<1>1. CASE Start
  BY <1>1 DEF StopInv, LastWordIsStop, Start, Notify
<1>2. CASE Announce
  <2>1. PICK text \in Texts : Notify(text)
    BY <1>2 DEF Announce
  <2> QED BY <1>2, <2>1 DEF StopInv, LastWordIsStop, Announce, Notify
<1>3. CASE LogError
  <2>1. PICK text \in Texts : Notify(text)
    BY <1>3 DEF LogError
  <2> QED BY <1>3, <2>1 DEF StopInv, LastWordIsStop, LogError, Notify
<1>4. CASE WindowPasses
  BY <1>4 DEF StopInv, LastWordIsStop, LastWord, WindowPasses
<1>5. CASE Stop
  <2>1. StopText \in Messages /\ ~Duplicate(StopText)
    BY <1>5 DEF StopInv, Stop, Duplicate, Messages
  <2>2. Enqueue(StopText)
    BY <1>5, <2>1 DEF Stop, Notify
  <2>3. queue' # <<>> /\ queue'[Len(queue')] = StopText
    BY <1>0, <2>1, <2>2, EnqueueKeepsCount
  <2> QED BY <1>5, <2>3 DEF StopInv, LastWordIsStop, LastWord, Stop
<1>6. CASE Flushed
  <2>1. queue = <<>> /\ sending = NoText
    BY <1>0, <1>6 DEF NotifierTypeOK, TasksAccounted, Flushed
  <2> QED BY <1>6, <2>1 DEF StopInv, LastWordIsStop, LastWord, Flushed
<1>7. CASE JoinTimesOut
  BY <1>7 DEF StopInv, LastWordIsStop, JoinTimesOut
<1>8. CASE TakeNext
  <2>1. /\ queue \in Seq(Messages) /\ queue # <<>>
        /\ sending' = Head(queue) /\ queue' = Tail(queue)
    BY <1>0, <1>8 DEF NotifierTypeOK, TakeNext
  <2>2. Head(queue) = queue[1] /\ Head(queue) # NoText
    BY <2>1
  <2>3. phase' = "flushing" => ~bridge' /\ LastWord' = StopText
    <3>2. Len(queue) = 1 => LastWord' = LastWord
      BY <2>1, <2>2 DEF LastWord
    <3>3. Len(queue) # 1 => LastWord' = LastWord
      BY <2>1 DEF LastWord
    <3> QED BY <1>8, <3>2, <3>3, Zenon DEF StopInv, TakeNext
  <2> QED BY <1>8, <2>3 DEF StopInv, LastWordIsStop, TakeNext, Draining
<1>9. CASE SendEnds
  BY <1>9 DEF StopInv, LastWordIsStop, LastWord, SendEnds, Draining
<1>10. CASE UNCHANGED notifierVars
  BY <1>10 DEF StopInv, LastWordIsStop, LastWord, notifierVars
<1> QED BY <1>1, <1>2, <1>3, <1>4, <1>5, <1>6, <1>7, <1>8, <1>9, <1>10 DEF NotifierNext

(* When the process has closed its notifier and was not cut short, nothing  *)
(* is left in the queue and "stopped" was the last message                  *)
(* (__main__.py:102-108).                                                   *)
THEOREM StopIsTheLastWord == NotifierSpec => []LastWordIsStop
<1>1. NotifierSpec => []StopInv
  BY CountAlways, StopInvInit, StopInvStep, PTL DEF NotifierSpec
<1>2. StopInv => LastWordIsStop BY DEF StopInv
<1> QED BY <1>1, <1>2, PTL
==============================================================================
