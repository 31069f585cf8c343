------------------------- MODULE AbstractDelayQueue -------------------------
(***************************************************************************)
(* What common/timingwheel/delayqueue.go promises the timing wheel: an     *)
(* item leaves the queue only once its delay has expired, the one whose    *)
(* delay expired furthest in the past first, none is lost or handed over   *)
(* twice, and until the wheel is stopped every expired item is handed over.*)
(***************************************************************************)
EXTENDS Integers

CONSTANTS Items,    \* the items that are ever offered
          MaxTime,  \* bound of the clock
          None      \* no item

VARIABLES now,      \* the clock, in milliseconds
          prio,     \* expiration of every item offered so far, NoTime before
          pending,  \* items in the queue
          head,     \* the item that was taken off the queue, or None
          taken,    \* items handed over to the timing wheel
          closed    \* the wheel is stopped

vars == <<now, prio, pending, head, taken, closed>>

NoTime == -1

Init == /\ now = 0
        /\ prio = [i \in Items |-> NoTime]
        /\ pending = {} /\ head = None /\ taken = {}
        /\ closed = FALSE

Offer(i, e) ==
  /\ prio[i] = NoTime
  /\ prio' = [prio EXCEPT ![i] = e]
  /\ pending' = pending \cup {i}
  /\ UNCHANGED <<now, head, taken, closed>>

\* The item that expired furthest in the past leaves the queue.
Expire(i) ==
  /\ head = None
  /\ prio[i] <= now
  /\ \A j \in pending : prio[i] <= prio[j]
  /\ pending' = pending \ {i}
  /\ head' = i
  /\ UNCHANGED <<now, prio, taken, closed>>

Take ==
  /\ head # None
  /\ taken' = taken \cup {head}
  /\ head' = None
  /\ UNCHANGED <<now, prio, pending, closed>>

Tick == /\ now' \in now .. MaxTime
        /\ UNCHANGED <<prio, pending, head, taken, closed>>

Stop == /\ closed' = TRUE
        /\ UNCHANGED <<now, prio, pending, head, taken>>

Next == \/ \E i \in Items, e \in 0 .. MaxTime : Offer(i, e)
        \/ \E i \in pending : Expire(i)
        \/ Take \/ Tick \/ Stop

Spec == Init /\ [][Next]_vars

FairSpec == /\ Spec
            /\ WF_vars(~closed /\ \E i \in pending : Expire(i))
            /\ WF_vars(~closed /\ Take)

=============================================================================
