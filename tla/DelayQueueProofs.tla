-------------------------- MODULE DelayQueueProofs --------------------------
(***************************************************************************)
(* Proofs about DelayQueue, for any items, callers and clock bound: the    *)
(* types, the handshake on sleeping and wakeupC, that no wakeup is lost,   *)
(* and that the queue implements the abstract one (its safety part).       *)
(***************************************************************************)
EXTENDS DelayQueue, TLAPS

\* Poll has an item in hand exactly between PeekAndShift and the send on C; the
\* one it leaves with is dropped.
ItemInHand ==
  /\ pollPc = "send" => pollItem \in Items
  /\ pollPc \notin {"send", "exited"} => pollItem = None

TInv == TypeOK /\ ItemInHand

\* Every step keeps the types, given that SendC has an item to send.
LEMMA TypeStep == TInv /\ [Next]_vars => TypeOK'
<1> SUFFICES ASSUME TInv, [Next]_vars PROVE TypeOK'
  OBVIOUS
<1> USE TimeAssumption DEF TInv, TypeOK, Times, NoTime, queue, poll
<1>1. ASSUME NEW g \in Offerers, NEW i \in Items, NEW e \in 0 .. MaxTime, Offer(g, i, e)
      PROVE  TypeOK'
  BY <1>1 DEF Offer, CanOffer
<1>2. ASSUME NEW g \in Offerers, OfferCAS(g) PROVE TypeOK'
  BY <1>2 DEF OfferCAS
<1>3. CASE ReadNow
  BY <1>3 DEF ReadNow
<1>4. CASE PeekAndShift
  BY <1>4 DEF PeekAndShift, Root
<1>5. ASSUME NEW g \in Offerers, Wakeup(g) PROVE TypeOK'
  BY <1>5 DEF Wakeup
<1>6. CASE TimerFires
  BY <1>6 DEF TimerFires
<1>7. CASE SendC
  BY <1>7 DEF SendC, ItemInHand
<1>8. CASE PollExit
  BY <1>8 DEF PollExit
<1>9. CASE FlushDone \/ WorkerExit
  BY <1>9 DEF FlushDone, WorkerExit
<1>10. CASE Stop
  <2>1. closed' \in BOOLEAN
    BY <1>10, Zenon DEF Stop
  <2> QED
    BY <1>10, <2>1 DEF Stop
<1>11. CASE Tick
  BY <1>11 DEF Tick
<1>12. CASE UNCHANGED vars
  BY <1>12 DEF vars
<1> QED
  BY <1>1, <1>2, <1>3, <1>4, <1>5, <1>6, <1>7, <1>8, <1>9, <1>10, <1>11, <1>12
  DEF Next, Poll

\* Poll takes an item in hand and gives it away only where it says so.
LEMMA ItemStep == TInv /\ [Next]_vars => ItemInHand'
<1> SUFFICES ASSUME TInv, [Next]_vars PROVE ItemInHand'
  OBVIOUS
<1> USE DEF TInv, TypeOK, ItemInHand, queue, poll
<1>1. CASE ReadNow \/ (\E g \in Offerers : Wakeup(g)) \/ TimerFires
  BY <1>1 DEF ReadNow, Wakeup, TimerFires, Waiting
<1>2. CASE PeekAndShift
  BY <1>2 DEF PeekAndShift, Root
<1>3. CASE SendC \/ PollExit
  BY <1>3 DEF SendC, PollExit
<1>4. CASE UNCHANGED <<pollPc, pollItem>>
  BY <1>4
<1> QED
  BY <1>1, <1>2, <1>3, <1>4
  DEF Next, Poll, Offer, OfferCAS, FlushDone, WorkerExit, Stop, Tick, vars

\* The types and the item in hand together are inductive.
LEMMA TypesHold == Spec => []TInv
<1>1. Init => TInv
  <2> SUFFICES ASSUME Init PROVE TInv
    OBVIOUS
  <2>1. /\ closed \in BOOLEAN /\ pollItem \in Items \cup {None}
        /\ pq \subseteq Items /\ taken \subseteq Items
    BY Zenon DEF Init
  <2>2. /\ prio \in [Items -> Times \cup {NoTime}]
        /\ offerPc \in [Offerers -> {"idle", "cas", "send"}]
    BY DEF Init
  <2> QED
    BY <2>1, <2>2, TimeAssumption DEF Init, TInv, TypeOK, Times, ItemInHand
<1>2. TInv /\ [Next]_vars => TInv'
  BY TypeStep, ItemStep DEF TInv
<1> QED
  BY <1>1, <1>2, PTL DEF Spec

\* Every variable keeps the type of the Go value it stands for.
THEOREM QueueTypes == Spec => []TypeOK
<1>1. TInv => TypeOK
  BY DEF TInv
<1> QED
  BY <1>1, TypesHold, PTL

-----------------------------------------------------------------------------

\* The flag sleeping and the senders on wakeupC stay in agreement: every way
\* Poll leaves its sleep either clears the flag before anyone could win it, or
\* receives from the one goroutine that did.
LEMMA HandshakeStep == TypeOK /\ WakeupHandshake /\ [Next]_vars => WakeupHandshake'
<1> SUFFICES ASSUME TypeOK, WakeupHandshake, [Next]_vars PROVE WakeupHandshake'
  OBVIOUS
<1> USE DEF TypeOK, WakeupHandshake, Sending, Waiting, queue, poll
<1>1. ASSUME NEW g \in Offerers, NEW i \in Items, NEW e \in 0 .. MaxTime, Offer(g, i, e)
      PROVE  WakeupHandshake'
  <2>1. \A h \in Offerers : offerPc'[h] = "send" <=> offerPc[h] = "send"
    BY <1>1 DEF Offer, CanOffer
  <2> QED
    BY <1>1, <2>1 DEF Offer
<1>2. ASSUME NEW g \in Offerers, OfferCAS(g) PROVE WakeupHandshake'
  <2>1. CASE sleeping = 1
    <3>1. \A h \in Offerers : offerPc'[h] = "send" <=> h = g
      BY <1>2, <2>1 DEF OfferCAS
    <3> QED
      BY <1>2, <2>1, <3>1 DEF OfferCAS
  <2>2. CASE sleeping = 0
    <3>1. \A h \in Offerers : offerPc'[h] = "send" <=> offerPc[h] = "send"
      BY <1>2, <2>2 DEF OfferCAS
    <3> QED
      BY <1>2, <2>2, <3>1 DEF OfferCAS
  <2> QED
    BY <2>1, <2>2
<1>3. CASE ReadNow
  BY <1>3 DEF ReadNow
<1>4. CASE PeekAndShift
  BY <1>4 DEF PeekAndShift
<1>5. ASSUME NEW g \in Offerers, Wakeup(g) PROVE WakeupHandshake'
  <2>1. \A h \in Offerers : offerPc'[h] # "send"
    BY <1>5 DEF Wakeup
  <2> QED
    BY <1>5, <2>1 DEF Wakeup
<1>6. CASE TimerFires
  BY <1>6 DEF TimerFires
<1>7. CASE SendC
  BY <1>7 DEF SendC
<1>8. CASE PollExit
  BY <1>8 DEF PollExit
<1>9. CASE FlushDone \/ WorkerExit \/ Stop \/ Tick \/ UNCHANGED vars
  BY <1>9 DEF FlushDone, WorkerExit, Stop, Tick, vars
<1> QED
  BY <1>1, <1>2, <1>3, <1>4, <1>5, <1>6, <1>7, <1>8, <1>9 DEF Next, Poll

\* Neither side of the wakeup rendezvous ever waits for a partner that is not
\* there, whatever the number of callers of Offer.
THEOREM HandshakeHolds == Spec => []WakeupHandshake
<1>1. Init => WakeupHandshake
  BY DEF Init, WakeupHandshake, Sending, Waiting
<1>2. TypeOK /\ WakeupHandshake /\ [Next]_vars => WakeupHandshake'
  BY HandshakeStep
<1> QED
  BY <1>1, <1>2, QueueTypes, PTL DEF Spec

-----------------------------------------------------------------------------

\* An item that would expire before Poll wakes up comes with a goroutine that
\* is still inside Offer, and that goroutine stays there until Poll is awake.
LEMMA WakeupStep ==
  TypeOK /\ WakeupHandshake /\ NoLostWakeup /\ [Next]_vars => NoLostWakeup'
<1> SUFFICES ASSUME TypeOK, WakeupHandshake, NoLostWakeup, [Next]_vars
             PROVE  NoLostWakeup'
  OBVIOUS
<1> USE TimeAssumption DEF TypeOK, Times, NoTime, NoLostWakeup, Waiting, queue, poll
<1>1. ASSUME NEW g \in Offerers, NEW i \in Items, NEW e \in 0 .. MaxTime, Offer(g, i, e),
             pollPc \in Waiting
      PROVE  NoLostWakeup'
  <2>1. CASE IsFirst(e)
    BY <1>1, <2>1 DEF Offer, CanOffer
  <2>2. CASE ~IsFirst(e)
    <3>1. offerPc' = offerPc
      BY <1>1, <2>2 DEF Offer, CanOffer
    <3>2. PICK j \in pq : prio[j] <= e
      BY <1>1, <2>2 DEF IsFirst
    <3>3. CASE \A k \in pq : pollPc = "wait" /\ until <= prio[k]
      <4>1. until <= e
        BY <3>2, <3>3
      <4>2. \A k \in pq' : pollPc' = "wait" /\ until' <= prio'[k]
        BY <1>1, <3>3, <3>2, <4>1 DEF Offer
      <4> QED
        BY <4>2
    <3> QED
      BY <1>1, <3>1, <3>3 DEF Offer
  <2> QED
    BY <2>1, <2>2
<1>2. ASSUME NEW g \in Offerers, OfferCAS(g), pollPc \in Waiting PROVE NoLostWakeup'
  <2>1. CASE sleeping = 1
    BY <1>2, <2>1 DEF OfferCAS
  <2>2. CASE sleeping = 0
    <3>1. PICK h \in Offerers : offerPc[h] = "send"
      BY <1>2, <2>2 DEF WakeupHandshake, Sending
    <3>2. offerPc'[h] = "send"
      BY <1>2, <3>1 DEF OfferCAS
    <3> QED
      BY <3>2
  <2> QED
    BY <2>1, <2>2
<1>3. CASE PeekAndShift
  BY <1>3 DEF PeekAndShift, Root
<1>4. CASE ReadNow \/ (\E g \in Offerers : Wakeup(g)) \/ TimerFires \/ SendC \/ PollExit
  BY <1>4 DEF ReadNow, Wakeup, TimerFires, SendC, PollExit
<1>5. CASE FlushDone \/ WorkerExit \/ Stop \/ Tick \/ UNCHANGED vars
  BY <1>5 DEF FlushDone, WorkerExit, Stop, Tick, vars
<1>6. CASE pollPc \notin Waiting /\ UNCHANGED pollPc
  BY <1>6
<1> QED
  BY <1>1, <1>2, <1>3, <1>4, <1>5, <1>6 DEF Next, Poll, Offer, OfferCAS

\* While Poll sleeps, every item of the queue expires at the earliest when Poll
\* wakes up, or somebody is about to wake it: no timer waits for another's
\* deadline.
THEOREM NoWakeupIsLost == Spec => []NoLostWakeup
<1>1. Init => NoLostWakeup
  BY DEF Init, NoLostWakeup, Waiting
<1>2. TypeOK /\ WakeupHandshake /\ NoLostWakeup /\ [Next]_vars => NoLostWakeup'
  BY WakeupStep
<1> QED
  BY <1>1, <1>2, QueueTypes, HandshakeHolds, PTL DEF Spec

-----------------------------------------------------------------------------

\* Every step of Offer, Poll, the worker and the clock is a step of the abstract
\* queue or changes nothing it speaks about.
LEMMA Simulation == TInv /\ [Next]_vars => [Abstract!Next]_Abstract!vars
<1> SUFFICES ASSUME TInv, [Next]_vars PROVE [Abstract!Next]_Abstract!vars
  OBVIOUS
<1> USE DEF TInv, TypeOK, queue, poll
<1>1. ASSUME NEW g \in Offerers, NEW i \in Items, NEW e \in 0 .. MaxTime, Offer(g, i, e)
      PROVE  Abstract!Offer(i, e)
  BY <1>1 DEF Offer, Abstract!Offer, NoTime, Abstract!NoTime
<1>2. CASE PeekAndShift
  <2>1. CASE UNCHANGED <<pq, pollItem>>
    BY <1>2, <2>1 DEF PeekAndShift, Abstract!vars
  <2>2. ASSUME NEW i \in Root, prio[i] <= pollNow, pq' = pq \ {i}, pollItem' = i
        PROVE  i \in pq /\ Abstract!Expire(i)
    <3>1. i \in pq /\ prio[i] <= now
      BY <2>2, TimeAssumption DEF Root, Times, NoTime
    <3>2. pollItem = None
      BY <1>2 DEF PeekAndShift, ItemInHand
    <3> QED
      BY <1>2, <2>2, <3>1, <3>2 DEF PeekAndShift, Root, Abstract!Expire
  <2> QED
    BY <1>2, <2>1, <2>2 DEF PeekAndShift, Abstract!Next
<1>3. CASE SendC
  <2>1. Abstract!Take
    BY <1>3, NoneAssumption DEF SendC, ItemInHand, Abstract!Take
  <2> QED
    BY <2>1 DEF Abstract!Next
<1>4. CASE Tick
  <2>1. now' \in now .. MaxTime
    BY <1>4, TimeAssumption DEF Tick, Times
  <2> QED
    BY <1>4, <2>1 DEF Tick, Abstract!Next, Abstract!Tick
<1>5. CASE Stop
  BY <1>5 DEF Stop, Abstract!Next, Abstract!Stop
<1>6. CASE UNCHANGED <<now, prio, pq, pollItem, taken, closed>>
  BY <1>6 DEF Abstract!vars
<1> QED
  BY <1>1, <1>2, <1>3, <1>4, <1>5, <1>6
  DEF Next, Poll, OfferCAS, ReadNow, Wakeup, TimerFires, PollExit, FlushDone, WorkerExit,
      vars, Abstract!Next

\* The delay queue implements the abstract queue: items leave it expired, in the
\* order of their expirations, once each.
THEOREM Refinement == Spec => Abstract!Spec
<1>1. Init => Abstract!Init
  BY DEF Init, Abstract!Init, NoTime, Abstract!NoTime
<1>2. TInv /\ [Next]_vars => [Abstract!Next]_Abstract!vars
  BY Simulation
<1> QED
  BY <1>1, <1>2, TypesHold, PTL DEF Spec, Abstract!Spec

=============================================================================
