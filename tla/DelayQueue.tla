----------------------------- MODULE DelayQueue -----------------------------
(***************************************************************************)
(* The delay queue under the timing wheel (common/timingwheel/             *)
(* delayqueue.go): Offer, called by every goroutine that arms a timer and  *)
(* by the wheel's own worker when it moves timers to a lower wheel; Poll,  *)
(* one goroutine; and the worker that receives from the channel C          *)
(* (timingwheel.go, Start).  Poll sleeps on wakeupC or on a time.After and *)
(* is woken through the flag "sleeping", without a lock.                   *)
(*                                                                         *)
(* A step is what a goroutine does under dq.mu, one atomic operation, or   *)
(* one rendezvous on an unbuffered channel.  Each item is offered once.    *)
(***************************************************************************)
EXTENDS Integers

CONSTANTS Items,    \* the items that are ever offered
          Callers,  \* goroutines that call Offer, the worker apart
          Worker,   \* the goroutine that receives from C and flushes buckets
          MaxTime,  \* bound of the clock and of the expirations
          None      \* no item

ASSUME TimeAssumption == MaxTime \in Nat
ASSUME NoneAssumption == None \notin Items
ASSUME WorkerAssumption == Worker \notin Callers

VARIABLES
  now,       \* the clock, in milliseconds
  prio,      \* item.Priority of the items offered so far, NoTime before
  pq,        \* the items in the priority queue
  sleeping,  \* dq.sleeping
  offerPc,   \* where each goroutine is inside Offer
  pollPc, pollNow, until, pollItem,  \* Poll and its locals
  worker,    \* "recv", "busy" (inside advanceClock and Flush) or "exited"
  closed,    \* exitC is closed
  taken      \* history: the items the worker received

queue == <<prio, pq>>
poll == <<pollNow, until, pollItem>>
vars == <<now, queue, sleeping, offerPc, pollPc, poll, worker, closed, taken>>

NoTime == -1
Offerers == Callers \cup {Worker}

-----------------------------------------------------------------------------
(* The priority queue.  A binary heap with ties: the root is some item of   *)
(* least priority, and a pushed item becomes the root exactly when it is    *)
(* strictly below all others (container/heap moves it up on Less only).     *)

IsFirst_WhenEmpty(e) == pq = {}
IsFirst(e) == \A i \in pq : e < prio[i]

Root_Any == pq
Root == {i \in pq : \A j \in pq : prio[i] <= prio[j]}

-----------------------------------------------------------------------------
(* Offer.                                                                   *)

CanOffer(g) == offerPc[g] = "idle" /\ (g = Worker => worker = "busy")

\* heap.Push under the mutex.
Offer(g, i, e) ==
  /\ CanOffer(g) /\ prio[i] = NoTime
  /\ prio' = [prio EXCEPT ![i] = e]
  /\ pq' = pq \cup {i}
  /\ offerPc' = [offerPc EXCEPT ![g] = IF IsFirst(e) THEN "cas" ELSE "idle"]
  /\ UNCHANGED <<now, sleeping, pollPc, poll, worker, closed, taken>>

\* CompareAndSwapInt32(&dq.sleeping, 1, 0).
OfferCAS_Store(g) ==
  /\ offerPc[g] = "cas"
  /\ sleeping' = 0
  /\ offerPc' = [offerPc EXCEPT ![g] = "send"]
  /\ UNCHANGED <<now, queue, pollPc, poll, worker, closed, taken>>
OfferCAS(g) ==
  /\ offerPc[g] = "cas"
  /\ sleeping' = 0
  /\ offerPc' = [offerPc EXCEPT ![g] = IF sleeping = 1 THEN "send" ELSE "idle"]
  /\ UNCHANGED <<now, queue, pollPc, poll, worker, closed, taken>>

-----------------------------------------------------------------------------
(* Poll.                                                                    *)

ReadNow ==
  /\ pollPc = "now"
  /\ pollNow' = now
  /\ pollPc' = "peek"
  /\ UNCHANGED <<now, queue, sleeping, offerPc, until, pollItem, worker, closed, taken>>

\* PeekAndShift and, when it finds nothing, the store to sleeping, both under
\* the mutex.
PeekAndShift ==
  /\ pollPc = "peek"
  /\ \/ /\ pq = {}
        /\ pollPc' = "waitNew" /\ sleeping' = 1
        /\ UNCHANGED <<pq, until, pollItem>>
     \/ \E i \in Root :
          \/ /\ prio[i] > pollNow
             /\ pollPc' = "wait" /\ sleeping' = 1 /\ until' = prio[i]
             /\ UNCHANGED <<pq, pollItem>>
          \/ /\ prio[i] <= pollNow
             /\ pq' = pq \ {i}
             /\ pollItem' = i
             /\ pollPc' = "send"
             /\ UNCHANGED <<sleeping, until>>
  /\ UNCHANGED <<now, prio, offerPc, pollNow, worker, closed, taken>>

Waiting == {"waitNew", "wait"}

\* The rendezvous on wakeupC, in one of the two selects or after SwapInt32.
Wakeup(g) ==
  /\ pollPc \in Waiting \cup {"drain"} /\ offerPc[g] = "send"
  /\ offerPc' = [offerPc EXCEPT ![g] = "idle"]
  /\ pollPc' = "now"
  /\ UNCHANGED <<now, queue, sleeping, poll, worker, closed, taken>>

\* time.After runs delta ms from a moment not before pollNow was read.  Then
\* SwapInt32(&dq.sleeping, 0): 0 means that a caller of Offer sends on wakeupC.
TimerFires_NoDrain ==
  /\ pollPc = "wait" /\ now >= until
  /\ sleeping' = 0
  /\ pollPc' = "now"
  /\ UNCHANGED <<now, queue, offerPc, poll, worker, closed, taken>>
TimerFires ==
  /\ pollPc = "wait" /\ now >= until
  /\ sleeping' = 0
  /\ pollPc' = IF sleeping = 0 THEN "drain" ELSE "now"
  /\ UNCHANGED <<now, queue, offerPc, poll, worker, closed, taken>>

\* The rendezvous on C.
SendC ==
  /\ pollPc = "send" /\ worker = "recv"
  /\ taken' = taken \cup {pollItem}
  /\ pollItem' = None
  /\ pollPc' = "now"
  /\ worker' = "busy"
  /\ UNCHANGED <<now, queue, sleeping, offerPc, pollNow, until, closed>>

\* A select sees exitC closed; the item in hand is dropped.
PollExit ==
  /\ closed /\ pollPc \in Waiting \cup {"send"}
  /\ pollPc' = "exited"
  /\ sleeping' = 0
  /\ UNCHANGED <<now, queue, offerPc, poll, worker, closed, taken>>

-----------------------------------------------------------------------------
(* The worker, the clock and TimingWheel.Stop.                              *)

FlushDone ==
  /\ worker = "busy" /\ offerPc[Worker] = "idle"
  /\ worker' = "recv"
  /\ UNCHANGED <<now, queue, sleeping, offerPc, pollPc, poll, closed, taken>>

WorkerExit ==
  /\ closed /\ worker = "recv"
  /\ worker' = "exited"
  /\ UNCHANGED <<now, queue, sleeping, offerPc, pollPc, poll, closed, taken>>

Stop ==
  /\ ~closed
  /\ closed' = TRUE
  /\ UNCHANGED <<now, queue, sleeping, offerPc, pollPc, poll, worker, taken>>

Tick ==
  /\ now < MaxTime
  /\ now' = now + 1
  /\ UNCHANGED <<queue, sleeping, offerPc, pollPc, poll, worker, closed, taken>>

-----------------------------------------------------------------------------

Init ==
  /\ now = 0
  /\ prio = [i \in Items |-> NoTime] /\ pq = {}
  /\ sleeping = 0
  /\ offerPc = [g \in Offerers |-> "idle"]
  /\ pollPc = "now" /\ pollNow = 0 /\ until = 0 /\ pollItem = None
  /\ worker = "recv"
  /\ closed = FALSE
  /\ taken = {}

Poll == \/ ReadNow \/ PeekAndShift \/ (\E g \in Offerers : Wakeup(g))
        \/ TimerFires \/ SendC \/ PollExit

Next ==
  \/ \E g \in Offerers, i \in Items, e \in 0 .. MaxTime : Offer(g, i, e)
  \/ \E g \in Offerers : OfferCAS(g)
  \/ Poll
  \/ FlushDone \/ WorkerExit \/ Stop \/ Tick

Spec == Init /\ [][Next]_vars

\* The Go scheduler runs every goroutine and time passes; nobody has to call
\* Offer or Stop.
FairSpec ==
  /\ Spec
  /\ WF_vars(Poll) /\ WF_vars(FlushDone) /\ WF_vars(Tick)
  /\ \A g \in Offerers : WF_vars(OfferCAS(g))

-----------------------------------------------------------------------------
(* Correctness.                                                             *)

Times == 0 .. MaxTime

TypeOK ==
  /\ now \in Times
  /\ prio \in [Items -> Times \cup {NoTime}]
  /\ pq \subseteq Items
  /\ sleeping \in {0, 1}
  /\ offerPc \in [Offerers -> {"idle", "cas", "send"}]
  /\ pollPc \in {"now", "peek", "waitNew", "wait", "drain", "send", "exited"}
  /\ pollNow \in 0 .. now /\ until \in Times
  /\ pollItem \in Items \cup {None}
  /\ worker \in {"recv", "busy", "exited"}
  /\ closed \in BOOLEAN
  /\ taken \subseteq Items

Sending(g) == offerPc[g] = "send"

\* The flag and the channel agree: at most one goroutine sends on wakeupC, and
\* then Poll is at a receive from wakeupC or has left; a Poll that drains
\* wakeupC, or sleeps with the flag already cleared, has a sender to receive
\* from.  So neither side of the rendezvous waits for a partner that is not
\* there, while the wheel runs.
WakeupHandshake ==
  /\ \A g, h \in Offerers : Sending(g) /\ Sending(h) => g = h
  /\ \A g \in Offerers :
       Sending(g) => sleeping = 0 /\ pollPc \in Waiting \cup {"drain", "exited"}
  /\ sleeping = 1 => pollPc \in Waiting
  /\ pollPc = "drain" \/ (pollPc \in Waiting /\ sleeping = 0)
       => \E g \in Offerers : Sending(g)

\* No wakeup is lost: while Poll sleeps, no item in the queue expires before
\* the moment it sleeps until, or a caller of Offer is about to wake it.
NoLostWakeup ==
  pollPc \in Waiting =>
    \/ \E g \in Offerers : offerPc[g] # "idle"
    \/ \A i \in pq : pollPc = "wait" /\ until <= prio[i]

\* Until the wheel is stopped every Offer returns, the worker's own included,
\* which Poll may at that moment be waiting for to receive from C.
OfferReturns ==
  \A g \in Offerers : offerPc[g] # "idle" ~> (offerPc[g] = "idle" \/ closed)

\* Poll and Offer together implement the abstract queue, liveness included.
Abstract == INSTANCE AbstractDelayQueue WITH pending <- pq, head <- pollItem

Implements == Abstract!FairSpec

=============================================================================
