---------------------------- MODULE TimingWheel ----------------------------
(***************************************************************************)
(* The hierarchical timing wheel (common/timingwheel/timingwheel.go,       *)
(* bucket.go, utils.go) every timer of the state server lives in.  Timers  *)
(* are added by the goroutines that call AfterFunc and ScheduleFunc, by    *)
(* the tasks of scheduled timers and by the worker of Start, which receives*)
(* expired buckets and moves their timers down or runs them.  add takes no *)
(* lock over its steps: the clock is read, the bucket filled under its     *)
(* mutex, its expiration swapped and the bucket offered one after another. *)
(*                                                                         *)
(* The delay queue appears through what AbstractDelayQueue promises: each  *)
(* offered bucket is handed to the worker once, not before its expiration, *)
(* least expiration first among those queued when Poll looks.              *)
(***************************************************************************)
EXTENDS Integers

CONSTANTS Timers,     \* the timers ever created
          Scheduled,  \* those of ScheduleFunc; the others are AfterFunc's
          Stopped,    \* those somebody calls Stop on
          Period,     \* what the Scheduler adds to the previous time
          MaxRuns,    \* times a Scheduler returns a time, at most
          WheelSize, Levels,  \* buckets of a wheel; wheels that may be created
          TickOf,     \* the tick of every wheel
          Delays,   \* the durations of AfterFunc
          MaxTime,  \* bound of the clock and of the expirations
          Worker, None

ASSUME WheelAssumption == WheelSize \in Nat \ {0} /\ Levels \in Nat \ {0}
\* newTimingWheel(tw.interval, ...): a wheel's tick is the interval below it.
ASSUME TickAssumption ==
  /\ TickOf \in [1..Levels -> Nat \ {0}]
  /\ \A w \in 1..Levels - 1 : TickOf[w + 1] = WheelSize * TickOf[w]
ASSUME TimeAssumption == Delays \cup {MaxTime, MaxRuns, Period} \subseteq Nat
ASSUME NamesAssumption ==
  /\ Scheduled \cup Stopped \subseteq Timers
  /\ None \notin Timers \cup ((1..Levels) \X (0..WheelSize - 1))
  /\ Worker \notin Timers \X (0..MaxRuns)

VARIABLES
  now,         \* milliseconds
  exp,         \* t.expiration
  bucketOf,    \* t.b, and with it the list of every bucket
  expiration,  \* b.expiration
  top,         \* the number of wheels, overflow wheels included
  clock,       \* currentTime of every wheel
  queue,       \* the delay queue: [b, e, by], by the goroutine that offered
  polled,      \* the bucket Poll has shifted and is sending on C
  add,         \* every goroutine's locals inside add
  wk,          \* the worker of Start: its step, its bucket, its wheel
  stop,        \* Timer.Stop: step, bucket and result, one caller per timer
  closed,      \* exitC is closed
  created, runs,    \* history: timers created, tasks started
  early, overtaken  \* history, see NotEarly and NoRelock

timers == <<exp, bucketOf, created, runs, early>>
wheels == <<expiration, top, clock>>
vars == <<now, timers, wheels, queue, polled, add, wk, stop, closed, overtaken>>

Wheels == 1..Levels
Buckets == Wheels \X (0..WheelSize - 1)
\* <<t, 0>> creates t; <<t, n>> runs its n-th task.
Tasks == Timers \X (0..MaxRuns)
Goroutines == Tasks \cup {Worker}
Idle == [pc |-> "idle", t |-> None, w |-> 1, vexp |-> 0]
AddPcs == {"idle", "task", "load", "overflow", "add", "set", "offer"}

Interval(w) == WheelSize * TickOf[w]
truncate(x, m) == x - (x % m)
\* tw.buckets[virtualID % tw.wheelSize], from virtualID * tw.tick.
BucketAt(w, vexp) == <<w, (vexp \div TickOf[w]) % WheelSize>>
Bucket(g) == BucketAt(add[g].w, add[g].vexp)
\* The bucket whose mutex the worker holds.
Locked == IF wk.pc \in {"flush", "reinsert"} THEN wk.b ELSE None

-----------------------------------------------------------------------------
(* add.  Every operator is one step of goroutine g.                         *)

Idled(g) == [add EXCEPT ![g] = Idle]

\* go t.task(), counted as early a millisecond or more before its time.  The
\* task of a timer of ScheduleFunc goes on in a goroutine of its own.
Run(g, t) ==
  /\ runs' = [runs EXCEPT ![t] = @ + 1]
  /\ early' = IF exp[t] > now THEN early \cup {t} ELSE early
  /\ add' = IF t \in Scheduled /\ runs[t] < MaxRuns
            THEN [Idled(g) EXCEPT ![<<t, runs[t] + 1>>] = [Idle EXCEPT !.pc = "task", !.t = t]]
            ELSE Idled(g)

Expired_OneTickSoon(w, t) == exp[t] <= clock[w] + TickOf[w]
Expired(w, t) == exp[t] < clock[w] + TickOf[w]

\* The read of currentTime and the three ways out.  A timer too late for an
\* overflow wheel has been overtaken: it was too far for the wheel below.
AddLoad(g) ==
  LET w == add[g].w  t == add[g].t IN
  /\ add[g].pc = "load"
  /\ \/ /\ Expired(w, t)
        /\ Run(g, t)
        /\ overtaken' = (overtaken \/ w > 1)
     \/ /\ ~Expired(w, t)
        /\ exp[t] < clock[w] + Interval(w)
        /\ add' = [add EXCEPT ![g].pc = "add", ![g].vexp = (exp[t] \div TickOf[w]) * TickOf[w]]
        /\ UNCHANGED <<runs, early, overtaken>>
     \/ /\ ~Expired(w, t) /\ exp[t] >= clock[w] + Interval(w)
        /\ w < Levels
        /\ add' = [add EXCEPT ![g].pc = "overflow", ![g].vexp = clock[w]]
        /\ UNCHANGED <<runs, early, overtaken>>
  /\ UNCHANGED <<now, exp, bucketOf, created, wheels, queue, polled, wk, stop, closed>>

\* The overflow wheel is created from the currentTime read before, unless it
\* is there already.
AddOverflow(g) ==
  LET w == add[g].w IN
  /\ add[g].pc = "overflow"
  /\ IF top > w THEN UNCHANGED <<top, clock>>
     ELSE /\ top' = w + 1
          /\ clock' = [clock EXCEPT ![w + 1] = truncate(add[g].vexp, TickOf[w + 1])]
  /\ add' = [add EXCEPT ![g].pc = "load", ![g].w = w + 1]
  /\ UNCHANGED <<now, timers, expiration, queue, polled, wk, stop, closed, overtaken>>

\* b.Add, under the mutex of the bucket.
BucketAdd(g) ==
  /\ add[g].pc = "add"
  /\ Bucket(g) # Locked
  /\ bucketOf' = [bucketOf EXCEPT ![add[g].t] = Bucket(g)]
  /\ add' = [add EXCEPT ![g].pc = "set"]
  /\ UNCHANGED <<now, exp, created, runs, early, wheels, queue, polled, wk, stop, closed, overtaken>>

\* b.SetExpiration.  g is overtaken when the time of its bucket has passed.
SetExpiration(g) ==
  LET b == Bucket(g) IN
  /\ add[g].pc = "set"
  /\ expiration' = [expiration EXCEPT ![b] = add[g].vexp]
  /\ IF expiration[b] # add[g].vexp
     THEN add' = [add EXCEPT ![g].pc = "offer"] ELSE add' = Idled(g)
  /\ overtaken' = (overtaken \/ now > add[g].vexp)
  /\ UNCHANGED <<now, timers, top, clock, queue, polled, wk, stop, closed>>

\* tw.queue.Offer(b, b.Expiration()): the expiration is read again.
Offer(g) ==
  /\ add[g].pc = "offer"
  /\ queue' = queue \cup {[b |-> Bucket(g), e |-> expiration[Bucket(g)], by |-> g]}
  /\ add' = Idled(g)
  /\ overtaken' = (overtaken \/ now > add[g].vexp)
  /\ UNCHANGED <<now, timers, wheels, polled, wk, stop, closed>>

Add(g) == AddLoad(g) \/ AddOverflow(g) \/ BucketAdd(g) \/ SetExpiration(g) \/ Offer(g)

-----------------------------------------------------------------------------
(* The calls of the users of the wheel.                                     *)

\* AfterFunc and the first part of ScheduleFunc, whose Scheduler may return
\* the zero time: then there is no timer and nothing happens.
AfterFunc(t, d) ==
  /\ t \notin created /\ now + d <= MaxTime
  /\ created' = created \cup {t}
  /\ exp' = [exp EXCEPT ![t] = now + d]
  /\ add' = [add EXCEPT ![<<t, 0>>] = [Idle EXCEPT !.pc = "load", !.t = t]]
  /\ UNCHANGED <<now, bucketOf, runs, early, wheels, queue, polled, wk, stop, closed, overtaken>>

\* The task ScheduleFunc builds: the timer is armed again before f is called,
\* unless the Scheduler has no next time.
Reschedule(g) ==
  /\ add[g].pc = "task"
  /\ LET e == exp[add[g].t] + Period IN
     \/ /\ e <= MaxTime
        /\ exp' = [exp EXCEPT ![add[g].t] = e]
        /\ add' = [add EXCEPT ![g].pc = "load"]
     \/ e > MaxTime /\ add' = Idled(g) /\ UNCHANGED exp
  /\ UNCHANGED <<now, bucketOf, created, runs, early, wheels, queue, polled, wk, stop, closed, overtaken>>

\* Timer.Stop: read the bucket, remove under its mutex, look again; "missed" is
\* a return of false for a timer that has not run.  The caller has the timer
\* from AfterFunc, which has returned.
StopResult(t) == IF stop[t].ok \/ runs[t] > 0 THEN "done" ELSE "missed"
StopRead(t) ==
  /\ t \in created /\ add[<<t, 0>>].pc = "idle"
  /\ stop[t].pc \in {"idle", "again"}
  /\ stop' = IF bucketOf[t] = None THEN [stop EXCEPT ![t].pc = StopResult(t)]
             ELSE [stop EXCEPT ![t].pc = "remove", ![t].b = bucketOf[t]]
  /\ UNCHANGED <<now, timers, wheels, queue, polled, add, wk, closed, overtaken>>

\* bucket.Remove: nothing when the timer has left the bucket meanwhile.
remove_Unchecked(t, b) ==
  /\ bucketOf' = [bucketOf EXCEPT ![t] = None]
  /\ stop' = [stop EXCEPT ![t].pc = "again", ![t].ok = TRUE]
remove(t, b) ==
  LET ok == bucketOf[t] = b IN
  /\ bucketOf' = IF ok THEN [bucketOf EXCEPT ![t] = None] ELSE bucketOf
  /\ stop' = [stop EXCEPT ![t].pc = "again", ![t].ok = ok]
StopRemove(t) ==
  /\ stop[t].pc = "remove" /\ stop[t].b # Locked
  /\ remove(t, stop[t].b)
  /\ UNCHANGED <<now, exp, created, runs, early, wheels, queue, polled, add, wk, closed, overtaken>>

\* TimingWheel.Stop, up to the wait for the two goroutines.
Stop ==
  /\ ~closed /\ closed' = TRUE
  /\ UNCHANGED <<now, timers, wheels, queue, polled, add, wk, stop, overtaken>>

-----------------------------------------------------------------------------
(* Poll and the worker of Start.                                            *)

Poll ==
  /\ polled = None
  /\ \E q \in queue :
       /\ q.e <= now /\ \A r \in queue : q.e <= r.e
       /\ queue' = queue \ {q}
       /\ polled' = q.b
  /\ UNCHANGED <<now, timers, wheels, add, wk, stop, closed, overtaken>>

Receive ==
  /\ wk.pc = "recv" /\ polled # None
  /\ wk' = [pc |-> "read", b |-> polled, w |-> 1, e |-> 0]
  /\ polled' = None
  /\ UNCHANGED <<now, timers, wheels, queue, add, stop, closed, overtaken>>

ReadExpiration ==
  /\ wk.pc = "read"
  /\ wk' = [wk EXCEPT !.pc = "advance", !.e = expiration[wk.b]]
  /\ UNCHANGED <<now, timers, wheels, queue, polled, add, stop, closed, overtaken>>

\* One wheel per step; the mutex of the bucket is taken after the last.
advanceClock_Never ==
  /\ wk.pc = "advance"
  /\ wk' = [wk EXCEPT !.pc = "flush"]
  /\ UNCHANGED <<now, timers, wheels, queue, polled, add, stop, closed, overtaken>>
advanceClock ==
  /\ wk.pc = "advance"
  /\ \/ /\ wk.w <= top /\ wk.e >= clock[wk.w] + TickOf[wk.w]
        /\ LET c == truncate(wk.e, TickOf[wk.w]) IN
           /\ clock' = [clock EXCEPT ![wk.w] = c]
           /\ wk' = [wk EXCEPT !.w = @ + 1, !.e = c]
     \/ /\ wk.w <= top => wk.e < clock[wk.w] + TickOf[wk.w]
        /\ wk' = [wk EXCEPT !.pc = "flush"]
        /\ UNCHANGED clock
  /\ UNCHANGED <<now, timers, expiration, top, queue, polled, add, stop, closed, overtaken>>

\* Flush: a timer leaves the bucket and goes through addOrRun.
FlushNext ==
  /\ wk.pc = "flush"
  /\ \E t \in Timers :
       /\ bucketOf[t] = wk.b
       /\ bucketOf' = [bucketOf EXCEPT ![t] = None]
       /\ add' = [add EXCEPT ![Worker] = [Idle EXCEPT !.pc = "load", !.t = t]]
  /\ wk' = [wk EXCEPT !.pc = "reinsert"]
  /\ UNCHANGED <<now, exp, created, runs, early, wheels, queue, polled, stop, closed, overtaken>>

FlushBack ==
  /\ wk.pc = "reinsert" /\ add[Worker].pc = "idle"
  /\ wk' = [wk EXCEPT !.pc = "flush"]
  /\ UNCHANGED <<now, timers, wheels, queue, polled, add, stop, closed, overtaken>>

FlushEnd_KeepExpiration ==
  /\ wk.pc = "flush" /\ \A t \in Timers : bucketOf[t] # wk.b
  /\ wk' = [wk EXCEPT !.pc = "recv"]
  /\ UNCHANGED <<now, timers, wheels, queue, polled, add, stop, closed, overtaken>>
FlushEnd ==
  /\ wk.pc = "flush" /\ \A t \in Timers : bucketOf[t] # wk.b
  /\ expiration' = [expiration EXCEPT ![wk.b] = -1]
  /\ wk' = [wk EXCEPT !.pc = "recv"]
  /\ UNCHANGED <<now, timers, top, clock, queue, polled, add, stop, closed, overtaken>>

Exit ==
  /\ closed /\ wk.pc = "recv"
  /\ wk' = [wk EXCEPT !.pc = "exited"]
  /\ UNCHANGED <<now, timers, wheels, queue, polled, add, stop, closed, overtaken>>

-----------------------------------------------------------------------------
Tick ==
  /\ now < MaxTime /\ now' = now + 1
  /\ UNCHANGED <<timers, wheels, queue, polled, add, wk, stop, closed, overtaken>>

Init ==
  /\ now = 0 /\ exp = [t \in Timers |-> 0]
  /\ bucketOf = [t \in Timers |-> None]
  /\ expiration = [b \in Buckets |-> -1]
  /\ top = 1 /\ clock = [w \in Wheels |-> 0]
  /\ queue = {} /\ polled = None
  /\ add = [g \in Goroutines |-> Idle]
  /\ wk = [pc |-> "recv", b |-> None, w |-> 1, e |-> 0]
  /\ stop = [t \in Timers |-> [pc |-> "idle", b |-> None, ok |-> FALSE]]
  /\ closed = FALSE
  /\ created = {} /\ runs = [t \in Timers |-> 0]
  /\ early = {} /\ overtaken = FALSE

WorkerStep ==
  \/ Receive \/ ReadExpiration \/ advanceClock \/ FlushNext \/ FlushBack \/ FlushEnd \/ Exit
Next ==
  \/ \E t \in Timers, d \in Delays : AfterFunc(t, d)
  \/ \E g \in Goroutines : Add(g) \/ Reschedule(g)
  \/ \E t \in Stopped : StopRead(t) \/ StopRemove(t)
  \/ Stop \/ Poll \/ WorkerStep \/ Tick

Spec == Init /\ [][Next]_vars
\* Goroutines run; the clock and Poll go on.  Calls of users may not happen.
FairSpec ==
  /\ Spec
  /\ WF_vars(Tick) /\ WF_vars(Poll) /\ WF_vars(WorkerStep)
  /\ \A g \in Goroutines : WF_vars(Add(g) \/ Reschedule(g))

-----------------------------------------------------------------------------
\* The variables have their types: in particular every bucket computed by add exists.
TypeOK ==
  /\ now \in 0..MaxTime /\ exp \in [Timers -> Nat]
  /\ bucketOf \in [Timers -> Buckets \cup {None}]
  /\ expiration \in [Buckets -> Int]
  /\ top \in Wheels /\ clock \in [Wheels -> Int]
  /\ queue \subseteq [b : Buckets, e : Int, by : Goroutines]
  /\ polled \in Buckets \cup {None}
  /\ add \in [Goroutines -> [pc : AddPcs, t : Timers \cup {None}, w : Wheels, vexp : Int]]
  /\ wk \in [pc : {"recv", "read", "advance", "flush", "reinsert", "exited"},
             b : Buckets \cup {None}, w : 1..Levels + 1, e : Int]
  /\ stop \in [Timers -> [pc : {"idle", "remove", "again", "missed", "done"},
                          b : Buckets \cup {None}, ok : BOOLEAN]]
  /\ closed \in BOOLEAN /\ created \subseteq Timers /\ runs \in [Timers -> Nat]
  /\ early \subseteq Timers /\ overtaken \in BOOLEAN

\* Somebody will hand b to the worker, or the worker is about to flush it.
Coming(b) ==
  \/ polled = b
  \/ \E q \in queue : q.b = b
  \/ \E g \in Goroutines : add[g].pc = "offer" /\ Bucket(g) = b
  \/ wk.b = b /\ wk.pc \notin {"recv", "exited"}

\* No timer is stranded: a bucket that holds a timer is queued, on its way to
\* the worker or being flushed, or the goroutine that filled it has its
\* expiration still to swap.  add decides by the swapped value alone whether to
\* offer, without a lock, against a Flush that resets it.
NoTimerStranded ==
  \A t \in Timers : bucketOf[t] # None =>
    \/ Coming(bucketOf[t])
    \/ \E g \in Goroutines : add[g].pc = "set" /\ Bucket(g) = bucketOf[t]

\* A timer that Stop reports as stopped is in no bucket and in no goroutine's
\* hands: Flush cannot have kept it to run or to move it.
StopIsFinal ==
  \A t \in Timers \ Scheduled :
    stop[t].ok /\ stop[t].pc = "done" =>
      /\ bucketOf[t] = None /\ runs[t] = 0
      /\ \A g \in Goroutines : add[g].t = t => add[g].pc \in {"set", "offer"}

\* A task runs at its time or later, never a millisecond before, unless a
\* goroutine stayed inside add for longer than its timer's delay.
NotEarly == early = {} \/ overtaken

\* A wheel between two others is behind the first: it was created from a
\* currentTime that add had read before the clock moved on, or advanceClock has
\* not come to it yet.
Lagging == \E v \in 2..top - 1 : clock[1] + TickOf[1] > clock[v] + TickOf[v]

\* Flush never reinserts a timer into the bucket whose mutex it holds (the
\* comment in Flush), unless a goroutine was overtaken inside add, or created a
\* wheel between two others behind the clock.
NoRelock == overtaken \/ Lagging \/ ~(add[Worker].pc = "add" /\ Bucket(Worker) = Locked)

\* Every timer that is armed runs or is stopped.
EveryTimerRuns ==
  \A t \in Timers :
    (t \in created /\ runs[t] = 0) ~> (runs[t] > 0 \/ stop[t].ok \/ closed \/ overtaken)
=============================================================================
