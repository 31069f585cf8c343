------------------------- MODULE TimingWheelProofs -------------------------
(***************************************************************************)
(* Proofs about TimingWheel, for any timers, wheels, delays and number of  *)
(* goroutines inside add: the types, that no timer is stranded in a bucket *)
(* nobody will flush, that a timer Stop reports as stopped is gone, that   *)
(* no task runs early, and that Flush does not lock a bucket twice.        *)
(***************************************************************************)
EXTENDS TimingWheel, TLAPS

\* What the step of a goroutine inside add says about its locals r.
StepOK(r) ==
  /\ r.pc = "overflow" => r.w < Levels
  /\ r.pc \in {"add", "set", "offer"} => r.vexp \in Nat
  /\ r.pc # "idle" => r.t \in created
  /\ r.pc = "idle" => r.t = None
  /\ r.pc = "task" => r.t \in Scheduled
StepInv == \A g \in Goroutines : StepOK(add[g])

\* The goroutine of a task exists only once the task has been started, so that
\* a new task never takes over a goroutine that is still at work.
TaskInv ==
  /\ \A t \in Timers, n \in 0..MaxRuns :
       add[<<t, n>>].pc # "idle" => n <= runs[t] /\ t \in created
  /\ \A t \in Timers : bucketOf[t] # None => t \in created

\* The worker is inside add exactly while Flush reinserts a timer.
WorkerInv ==
  /\ wk.pc # "reinsert" => add[Worker].pc = "idle"
  /\ add[Worker].pc # "task"
  /\ wk.pc \notin {"recv", "exited"} => wk.b \in Buckets

TInv == TypeOK /\ StepInv /\ TaskInv /\ WorkerInv

\* A bucket that has an expiration will reach the worker: this is what add
\* relies on when SetExpiration reports no change and the bucket is not offered.
ExpirationInv == \A b \in Buckets : expiration[b] # -1 => Coming(b)

StrandInv == ExpirationInv /\ NoTimerStranded

\* Goroutine g has timer t in hand, in no bucket.
Holds(g, t) == add[g].t = t /\ add[g].pc \in {"load", "overflow", "add", "task"}
\* A timer of AfterFunc is in one place: not created, in the hands of one
\* goroutine, in a bucket, run, or stopped.
Place(t) ==
  /\ \A g, h \in Goroutines : Holds(g, t) /\ Holds(h, t) => g = h
  /\ \A g \in Goroutines : Holds(g, t) => bucketOf[t] = None /\ runs[t] = 0 /\ ~stop[t].ok /\ t \in created
  /\ bucketOf[t] # None => runs[t] = 0 /\ ~stop[t].ok /\ t \in created
  /\ stop[t].ok => runs[t] = 0 /\ stop[t].pc \in {"again", "done"} /\ t \in created
  /\ stop[t].pc = "remove" => stop[t].b # None
  /\ t \notin created => runs[t] = 0
PlaceInv == \A t \in Timers \ Scheduled : Place(t)

-----------------------------------------------------------------------------
(* Arithmetic of the buckets.                                               *)

USE DEF Goroutines, Tasks, Wheels, Idle, AddPcs, timers, wheels

AddStates == [pc : AddPcs, t : Timers \cup {None}, w : Wheels, vexp : Int]

\* The index of a bucket is in range, whatever the expiration (the modulo of add).
LEMMA BucketExists ==
  ASSUME NEW w \in Wheels, NEW x \in Int
  PROVE  BucketAt(w, x) \in Buckets
<1>1. TickOf[w] \in Nat /\ TickOf[w] > 0 /\ WheelSize \in Nat /\ WheelSize > 0
  BY TickAssumption, WheelAssumption
<1>2. x \div TickOf[w] \in Int
  BY <1>1
<1>3. (x \div TickOf[w]) % WheelSize \in 0..WheelSize - 1
  BY <1>1, <1>2
<1> QED BY <1>3 DEF BucketAt, Buckets

\* truncate gives a multiple of the tick, an integer at least.
LEMMA TruncateInt ==
  ASSUME NEW x \in Int, NEW w \in Wheels
  PROVE  truncate(x, TickOf[w]) \in Int
  BY TickAssumption DEF truncate

\* virtualID * tick of add is a natural number.
LEMMA VirtualNat ==
  ASSUME NEW x \in Nat, NEW w \in Wheels
  PROVE  (x \div TickOf[w]) * TickOf[w] \in Nat
<1>1. TickOf[w] \in Nat /\ TickOf[w] > 0
  BY TickAssumption
<1>2. x \div TickOf[w] \in Nat
  BY <1>1
<1> QED BY <1>1, <1>2, SMT

-----------------------------------------------------------------------------
(* Types, and what the steps say about the locals of the goroutines.        *)

\* Goroutine g takes a step inside add, from one record of locals to another.
Moves(g, pc, t, w, vexp) ==
  /\ add' \in [Goroutines -> AddStates]
  /\ add'[g].pc = pc /\ add'[g].t = t /\ add'[g].w = w /\ add'[g].vexp = vexp
  /\ \A h \in Goroutines \ {g} : add'[h] = add[h]

\* A goroutine at work takes a step inside add, or leaves it.
LEMMA AddStep ==
  ASSUME TInv, NEW g \in Goroutines,
         NEW pc, NEW t, NEW w, NEW vexp, Moves(g, pc, t, w, vexp),
         add[g].pc # "idle", pc # "task",
         pc = "overflow" => w < Levels,
         pc \in {"add", "set", "offer"} => vexp \in Nat,
         pc # "idle" => t \in created, pc = "idle" => t = None,
         UNCHANGED <<created, wk>>,
         \A u \in Timers : bucketOf'[u] = bucketOf[u] \/ u \in created,
         runs' \in [Timers -> Nat], \A u \in Timers : runs[u] <= runs'[u]
  PROVE  add' \in [Goroutines -> AddStates] /\ StepInv' /\ TaskInv' /\ WorkerInv'
<1>1. add \in [Goroutines -> AddStates] /\ runs \in [Timers -> Nat]
  BY DEF TInv, TypeOK, AddStates
<1>2. StepInv'
  BY DEF TInv, StepInv, StepOK, Moves
<1>3. TaskInv'
  <2> SUFFICES ASSUME NEW u \in Timers, NEW n \in 0..MaxRuns, add'[<<u, n>>].pc # "idle"
               PROVE  n <= runs'[u] /\ u \in created'
    BY DEF TInv, TaskInv
  <2>1. <<u, n>> \in Goroutines
    OBVIOUS
  <2>2. add[<<u, n>>].pc # "idle"
    BY <2>1 DEF Moves
  <2>3. n <= runs[u] /\ u \in created
    BY <2>2 DEF TInv, TaskInv
  <2> QED BY <1>1, <2>3, TimeAssumption
<1>4. WorkerInv'
  BY DEF TInv, WorkerInv, Moves
<1> QED BY <1>2, <1>3, <1>4 DEF Moves

\* The same for a step that runs no task.
LEMMA QuietStep ==
  ASSUME TInv, NEW g \in Goroutines,
         NEW pc, NEW t, NEW w, NEW vexp, Moves(g, pc, t, w, vexp),
         add[g].pc # "idle", pc # "task",
         pc = "overflow" => w < Levels,
         pc \in {"add", "set", "offer"} => vexp \in Nat,
         pc # "idle" => t \in created, pc = "idle" => t = None,
         UNCHANGED <<created, wk, runs>>,
         \A u \in Timers : bucketOf'[u] = bucketOf[u] \/ u \in created
  PROVE  add' \in [Goroutines -> AddStates] /\ StepInv' /\ TaskInv' /\ WorkerInv'
<1>1. runs' \in [Timers -> Nat] /\ \A u \in Timers : runs[u] <= runs'[u]
  BY DEF TInv, TypeOK
<1> QED BY <1>1, AddStep

\* Leaving add.
LEMMA IdledMoves ==
  ASSUME TInv, NEW g \in Goroutines, add' = Idled(g)
  PROVE  Moves(g, "idle", None, 1, 0)
<1>1. add \in [Goroutines -> AddStates]
  BY DEF TInv, TypeOK, AddStates
<1>2. Idle \in AddStates
  BY WheelAssumption DEF AddStates
<1> QED BY <1>1, <1>2 DEF Moves, Idled

\* go t.task(): the goroutine leaves add, and a new one may start.
LEMMA RunStep ==
  ASSUME TInv, NEW g \in Goroutines, NEW t \in Timers, Run(g, t), add[g].pc # "idle",
         add[g].t = t, UNCHANGED <<created, bucketOf, wk>>
  PROVE  /\ add' \in [Goroutines -> AddStates] /\ StepInv' /\ TaskInv' /\ WorkerInv'
         /\ runs' \in [Timers -> Nat] /\ early' \subseteq Timers
         /\ add'[g].pc = "idle" /\ add'[g].w = 1
         /\ \A h \in Goroutines \ {g} :
              add'[h] = add[h] \/ (t \in Scheduled /\ add[h].pc = "idle" /\ add'[h].pc = "task" /\ add'[h].t = t /\ add'[h].w = 1)
         /\ \E k \in Goroutines : \A h \in Goroutines \ {g, k} : add'[h] = add[h]
<1>1. add \in [Goroutines -> AddStates] /\ runs \in [Timers -> Nat] /\ early \subseteq Timers
  BY DEF TInv, TypeOK, AddStates
<1>2. /\ runs' \in [Timers -> Nat] /\ early' \subseteq Timers
      /\ runs'[t] = runs[t] + 1 /\ \A u \in Timers : runs[u] <= runs'[u]
  BY <1>1 DEF Run
<1>3. Idle \in AddStates /\ Idle.w = 1
  BY WheelAssumption DEF AddStates
<1>4. CASE ~(t \in Scheduled /\ runs[t] < MaxRuns)
  <2>1. Moves(g, "idle", None, 1, 0)
    BY <1>4, IdledMoves DEF Run
  <2>2. add' \in [Goroutines -> AddStates] /\ StepInv' /\ TaskInv' /\ WorkerInv'
    BY <2>1, <1>2, AddStep
  <2> QED BY <1>2, <2>1, <2>2 DEF Moves
<1>5. CASE t \in Scheduled /\ runs[t] < MaxRuns
  <2> DEFINE k == <<t, runs[t] + 1>>
             r == [Idle EXCEPT !.pc = "task", !.t = t]
  <2>1. k \in Goroutines /\ k # Worker
    BY <1>1, <1>5, TimeAssumption, NamesAssumption
  <2>2. r \in AddStates /\ r.pc = "task" /\ r.t = t /\ r.w = 1
    <3> HIDE DEF Idle
    <3> QED BY <1>3 DEF AddStates
  <2>3. add' = [[add EXCEPT ![g] = Idle] EXCEPT ![k] = r]
    BY <1>5, Zenon DEF Run, Idled
  <2>4. \A n \in 0..MaxRuns : add[<<t, n>>].pc # "idle" => n <= runs[t]
    BY DEF TInv, TaskInv
  <2>5. k # g /\ add[k].pc = "idle"
    BY <2>4, <1>1, <2>1, <1>5, TimeAssumption
  <2> HIDE DEF k, r
  <2>6. \A h \in Goroutines : add'[h] = IF h = k THEN r ELSE IF h = g THEN Idle ELSE add[h]
    BY <1>1, <2>1, <2>3, <2>5
  <2>7. add' \in [Goroutines -> AddStates]
    BY <1>1, <1>3, <2>2, <2>3
  <2>8. t \in created
    BY DEF TInv, StepInv, StepOK
  <2>9. StepInv'
    BY <1>5, <2>2, <2>6, <2>8 DEF TInv, StepInv, StepOK
  <2>10. TaskInv'
    <3> SUFFICES ASSUME NEW u \in Timers, NEW n \in 0..MaxRuns, add'[<<u, n>>].pc # "idle"
                 PROVE  n <= runs'[u] /\ u \in created'
      BY DEF TInv, TaskInv
    <3>1. CASE <<u, n>> = k
      BY <3>1, <1>1, <1>2, <2>8, TimeAssumption DEF k
    <3>2. CASE <<u, n>> # k
      BY <3>2, <1>1, <1>2, <2>6, TimeAssumption DEF TInv, TaskInv
    <3> QED BY <3>1, <3>2
  <2>11. WorkerInv'
    BY <2>1, <2>6 DEF TInv, WorkerInv
  <2> QED BY <1>2, <1>5, <2>1, <2>2, <2>5, <2>6, <2>7, <2>9, <2>10, <2>11
<1> QED BY <1>4, <1>5

\* The read of currentTime in add.
LEMMA T_AddLoad == ASSUME TInv, NEW g \in Goroutines, AddLoad(g) PROVE TInv'
<1> DEFINE w == add[g].w  t == add[g].t
<1>1. add \in [Goroutines -> AddStates] /\ exp \in [Timers -> Nat] /\ clock \in [Wheels -> Int]
  BY DEF TInv, TypeOK, AddStates
<1>2. w \in Wheels /\ t \in created /\ t \in Timers /\ add[g].pc = "load" /\ exp[t] \in Nat
  BY <1>1 DEF TInv, StepInv, StepOK, TypeOK, AddStates, AddLoad
<1>3. /\ UNCHANGED <<now, exp, bucketOf, created, wheels, queue, polled, wk, stop, closed>>
      /\ overtaken' \in BOOLEAN
  BY <1>1, <1>2 DEF AddLoad, TInv, TypeOK
<1>4. CASE Run(g, t)
  BY <1>2, <1>3, <1>4, RunStep DEF TInv, TypeOK, AddStates
<1>5. ASSUME NEW p \in {"add", "overflow"}, NEW v \in Int, p = "add" => v \in Nat, p = "overflow" => w < Levels,
             add' = [add EXCEPT ![g].pc = p, ![g].vexp = v], UNCHANGED <<runs, early>>
      PROVE  TInv'
  <2>1. Moves(g, p, t, w, v)
    BY <1>1, <1>2, <1>5 DEF AddStates, Moves
  <2>2. add' \in [Goroutines -> AddStates] /\ StepInv' /\ TaskInv' /\ WorkerInv'
    BY <1>2, <1>3, <1>5, <2>1, QuietStep
  <2> QED BY <1>3, <1>5, <2>2 DEF TInv, TypeOK, AddStates
<1>6. clock[w] \in Int /\ (exp[t] \div TickOf[w]) * TickOf[w] \in Nat
  BY <1>1, <1>2, VirtualNat
<1> QED BY <1>4, <1>5, <1>6 DEF AddLoad

\* The creation of an overflow wheel.
LEMMA T_AddOverflow == ASSUME TInv, NEW g \in Goroutines, AddOverflow(g) PROVE TInv'
<1> DEFINE w == add[g].w  t == add[g].t  v == add[g].vexp
<1>1. add \in [Goroutines -> AddStates] /\ clock \in [Wheels -> Int] /\ top \in Wheels
  BY DEF TInv, TypeOK, AddStates
<1>2. /\ w \in Wheels /\ w + 1 \in Wheels /\ t \in created /\ t \in Timers
      /\ add[g].pc = "overflow" /\ v \in Int
  BY <1>1, WheelAssumption DEF TInv, StepInv, StepOK, TypeOK, AddStates, AddOverflow
<1>3. Moves(g, "load", t, w + 1, v)
  BY <1>1, <1>2 DEF AddOverflow, AddStates, Moves
<1>4. UNCHANGED <<now, timers, expiration, queue, polled, wk, stop, closed, overtaken>>
  BY DEF AddOverflow
<1>5. top' \in Wheels /\ clock' \in [Wheels -> Int]
  BY <1>1, <1>2, TruncateInt DEF AddOverflow
<1>6. add' \in [Goroutines -> AddStates] /\ StepInv' /\ TaskInv' /\ WorkerInv'
  BY <1>2, <1>3, <1>4, QuietStep
<1> QED BY <1>4, <1>5, <1>6 DEF TInv, TypeOK, AddStates

\* The locals of a goroutine past the choice of its bucket, which exists.
LEMMA Chosen ==
  ASSUME TInv, NEW g \in Goroutines, add[g].pc \in {"add", "set", "offer"}
  PROVE  /\ add \in [Goroutines -> AddStates]
         /\ add[g].t \in created /\ add[g].t \in Timers
         /\ add[g].vexp \in Nat /\ add[g].w \in Wheels /\ Bucket(g) \in Buckets
<1>1. add \in [Goroutines -> AddStates]
  BY DEF TInv, TypeOK, AddStates
<1>2. /\ add[g].t \in created /\ add[g].t \in Timers
      /\ add[g].vexp \in Nat /\ add[g].w \in Wheels
  BY <1>1 DEF TInv, StepInv, StepOK, TypeOK, AddStates
<1> QED BY <1>1, <1>2, BucketExists DEF Bucket

\* bucket.Add.
LEMMA T_BucketAdd == ASSUME TInv, NEW g \in Goroutines, BucketAdd(g) PROVE TInv'
<1> DEFINE w == add[g].w  t == add[g].t  v == add[g].vexp
<1>1. /\ add \in [Goroutines -> AddStates] /\ add[g].pc = "add"
      /\ t \in created /\ t \in Timers /\ v \in Nat /\ w \in Wheels /\ Bucket(g) \in Buckets
  BY Chosen DEF BucketAdd
<1>2. Moves(g, "set", t, w, v)
  BY <1>1 DEF BucketAdd, AddStates, Moves
<1>3. bucketOf' \in [Timers -> Buckets \cup {None}] /\ \A u \in Timers : bucketOf'[u] = bucketOf[u] \/ u \in created
  BY <1>1 DEF BucketAdd, TInv, TypeOK
<1>4. UNCHANGED <<now, exp, created, runs, early, wheels, queue, polled, wk, stop, closed, overtaken>>
  BY DEF BucketAdd
<1>5. add' \in [Goroutines -> AddStates] /\ StepInv' /\ TaskInv' /\ WorkerInv'
  BY <1>1, <1>2, <1>3, <1>4, QuietStep
<1> QED BY <1>3, <1>4, <1>5 DEF TInv, TypeOK, AddStates

\* bucket.SetExpiration.
LEMMA T_SetExpiration == ASSUME TInv, NEW g \in Goroutines, SetExpiration(g) PROVE TInv'
<1> DEFINE w == add[g].w  t == add[g].t  v == add[g].vexp
<1>1. /\ add \in [Goroutines -> AddStates] /\ add[g].pc = "set"
      /\ t \in created /\ t \in Timers /\ v \in Nat /\ w \in Wheels /\ Bucket(g) \in Buckets
  BY Chosen DEF SetExpiration
<1>2. Moves(g, "offer", t, w, v) \/ Moves(g, "idle", None, 1, 0)
  <2>1. CASE add' = [add EXCEPT ![g].pc = "offer"]
    BY <1>1, <2>1 DEF AddStates, Moves
  <2>2. CASE add' = Idled(g)
    BY <2>2, IdledMoves
  <2> QED BY <2>1, <2>2 DEF SetExpiration
<1>3. expiration' \in [Buckets -> Int] /\ overtaken' \in BOOLEAN
  BY <1>1 DEF SetExpiration, TInv, TypeOK
<1>4. UNCHANGED <<now, timers, top, clock, queue, polled, wk, stop, closed>>
  BY DEF SetExpiration
<1>5. add' \in [Goroutines -> AddStates] /\ StepInv' /\ TaskInv' /\ WorkerInv'
  BY <1>1, <1>2, <1>4, QuietStep
<1> QED BY <1>3, <1>4, <1>5 DEF TInv, TypeOK, AddStates

\* queue.Offer.
LEMMA T_Offer == ASSUME TInv, NEW g \in Goroutines, Offer(g) PROVE TInv'
<1>1. /\ add[g].pc = "offer" /\ Bucket(g) \in Buckets
  BY Chosen DEF Offer
<1>2. Moves(g, "idle", None, 1, 0)
  BY IdledMoves DEF Offer
<1>3. queue' \subseteq [b : Buckets, e : Int, by : Goroutines] /\ overtaken' \in BOOLEAN
  BY <1>1 DEF Offer, TInv, TypeOK
<1>4. UNCHANGED <<now, timers, wheels, polled, wk, stop, closed>>
  BY DEF Offer
<1>5. add' \in [Goroutines -> AddStates] /\ StepInv' /\ TaskInv' /\ WorkerInv'
  BY <1>1, <1>2, <1>4, QuietStep
<1> QED BY <1>3, <1>4, <1>5 DEF TInv, TypeOK, AddStates

\* The task of ScheduleFunc.
LEMMA T_Reschedule == ASSUME TInv, NEW g \in Goroutines, Reschedule(g) PROVE TInv'
<1> DEFINE w == add[g].w  t == add[g].t  v == add[g].vexp
<1>1. /\ add \in [Goroutines -> AddStates] /\ exp \in [Timers -> Nat]
      /\ t \in created /\ t \in Timers /\ add[g].pc = "task" /\ v \in Int /\ w \in Wheels
  BY DEF TInv, StepInv, StepOK, TypeOK, AddStates, Reschedule
<1>2. Moves(g, "load", t, w, v) \/ Moves(g, "idle", None, 1, 0)
  <2>1. CASE add' = [add EXCEPT ![g].pc = "load"]
    BY <1>1, <2>1 DEF AddStates, Moves
  <2>2. CASE add' = Idled(g)
    BY <2>2, IdledMoves
  <2> QED BY <2>1, <2>2 DEF Reschedule
<1>3. exp' \in [Timers -> Nat]
  BY <1>1, TimeAssumption DEF Reschedule
<1>4. UNCHANGED <<now, bucketOf, created, runs, early, wheels, queue, polled, wk, stop, closed, overtaken>>
  BY DEF Reschedule
<1>5. add' \in [Goroutines -> AddStates] /\ StepInv' /\ TaskInv' /\ WorkerInv'
  BY <1>1, <1>2, <1>4, QuietStep
<1> QED BY <1>3, <1>4, <1>5 DEF TInv, TypeOK, AddStates

\* A step that leaves add alone.
LEMMA Untouched ==
  ASSUME TInv, UNCHANGED <<add, created, runs>>,
         wk'.pc \in {"recv", "exited"} \/ wk'.b \in Buckets,
         wk'.pc # "reinsert" => add[Worker].pc = "idle",
         \A t \in Timers : bucketOf'[t] = bucketOf[t] \/ bucketOf'[t] = None
  PROVE  StepInv' /\ TaskInv' /\ WorkerInv'
  BY DEF TInv, StepInv, StepOK, TaskInv, WorkerInv

\* AfterFunc and the start of ScheduleFunc: a goroutine of its own enters add.
LEMMA T_AfterFunc ==
  ASSUME TInv, NEW t \in Timers, NEW d \in Delays, AfterFunc(t, d)
  PROVE  TInv'
<1> DEFINE k == <<t, 0>>  r == [Idle EXCEPT !.pc = "load", !.t = t]
<1>1. /\ add \in [Goroutines -> AddStates] /\ exp \in [Timers -> Nat] /\ now \in Nat /\ d \in Nat
      /\ created \subseteq Timers
  BY TimeAssumption DEF TInv, TypeOK, AddStates
<1>2. k \in Goroutines /\ k # Worker
  BY NamesAssumption, TimeAssumption
<1>3. Idle \in AddStates
  BY WheelAssumption DEF AddStates
<1>4. r \in AddStates /\ r.pc = "load" /\ r.t = t
  <2> HIDE DEF Idle
  <2> QED BY <1>3 DEF AddStates
<1>5. /\ add' = [add EXCEPT ![k] = r] /\ created' = created \cup {t} /\ exp' = [exp EXCEPT ![t] = now + d]
      /\ UNCHANGED <<now, bucketOf, runs, early, wheels, queue, polled, wk, stop, closed, overtaken>>
  BY DEF AfterFunc
<1> HIDE DEF k, r
<1>6. add' \in [Goroutines -> AddStates] /\ \A h \in Goroutines : add'[h] = IF h = k THEN r ELSE add[h]
  BY <1>1, <1>2, <1>4, <1>5
<1>7. StepInv'
  BY <1>4, <1>5, <1>6 DEF TInv, StepInv, StepOK
<1>8. TaskInv'
  <2>1. runs \in [Timers -> Nat]
    BY DEF TInv, TypeOK
  <2>2. \A u \in Timers, n \in 0..MaxRuns : <<u, n>> = k => u = t /\ n = 0
    BY DEF k
  <2>3. \A u \in Timers, n \in 0..MaxRuns : add'[<<u, n>>].pc # "idle" => n <= runs'[u] /\ u \in created'
    BY <1>1, <1>2, <1>5, <1>6, <2>1, <2>2 DEF TInv, TaskInv
  <2> QED BY <1>5, <2>3 DEF TInv, TaskInv
<1>9. WorkerInv'
  BY <1>2, <1>5, <1>6 DEF TInv, WorkerInv
<1>10. exp' \in [Timers -> Nat]
  BY <1>1, <1>5
<1> QED BY <1>1, <1>5, <1>6, <1>7, <1>8, <1>9, <1>10 DEF TInv, TypeOK, AddStates

\* Timer.Stop and TimingWheel.Stop.
LEMMA T_Stop ==
  ASSUME TInv, Stop \/ \E t \in Stopped : StopRead(t) \/ StopRemove(t)
  PROVE  TInv'
<1> DEFINE S == [pc : {"idle", "remove", "again", "missed", "done"}, b : Buckets \cup {None}, ok : BOOLEAN]
<1>1. stop \in [Timers -> S] /\ bucketOf \in [Timers -> Buckets \cup {None}]
  BY DEF TInv, TypeOK
<1>2. CASE Stop
  <2>1. UNCHANGED <<now, timers, wheels, queue, polled, add, wk, stop, overtaken>> /\ closed' \in BOOLEAN
    BY <1>2 DEF Stop
  <2> QED BY <2>1, Untouched DEF TInv, TypeOK, WorkerInv
<1>3. ASSUME NEW t \in Stopped, StopRead(t) PROVE TInv'
  <2>1. t \in Timers
    BY NamesAssumption
  <2>2. stop' \in [Timers -> S]
    BY <1>1, <1>3, <2>1 DEF StopRead, StopResult
  <2>3. UNCHANGED <<now, timers, wheels, queue, polled, add, wk, closed, overtaken>>
    BY <1>3 DEF StopRead
  <2> QED BY <2>2, <2>3, Untouched DEF TInv, TypeOK, WorkerInv
<1>4. ASSUME NEW t \in Stopped, StopRemove(t) PROVE TInv'
  <2>1. t \in Timers
    BY NamesAssumption
  <2>2. stop' \in [Timers -> S]
    BY <1>1, <1>4, <2>1 DEF StopRemove, remove
  <2>3. bucketOf' \in [Timers -> Buckets \cup {None}] /\ \A u \in Timers : bucketOf'[u] = bucketOf[u] \/ bucketOf'[u] = None
    BY <1>1, <1>4, <2>1 DEF StopRemove, remove
  <2>4. UNCHANGED <<now, exp, created, runs, early, wheels, queue, polled, add, wk, closed, overtaken>>
    BY <1>4 DEF StopRemove
  <2>5. StepInv' /\ TaskInv' /\ WorkerInv'
    BY <2>3, <2>4, Untouched DEF TInv, WorkerInv
  <2> QED BY <2>2, <2>3, <2>4, <2>5 DEF TInv, TypeOK
<1> QED BY <1>2, <1>3, <1>4

WorkerStates ==
  [pc : {"recv", "read", "advance", "flush", "reinsert", "exited"}, b : Buckets \cup {None}, w : 1..Levels + 1, e : Int]

\* Poll, the clock, and the steps of the worker outside Flush.
LEMMA T_Poll == ASSUME TInv, Poll PROVE TInv'
<1>1. queue \subseteq [b : Buckets, e : Int, by : Goroutines]
  BY DEF TInv, TypeOK
<1>2. polled' \in Buckets \cup {None} /\ queue' \subseteq [b : Buckets, e : Int, by : Goroutines]
  BY <1>1 DEF Poll
<1>3. UNCHANGED <<now, timers, wheels, add, wk, stop, closed, overtaken>>
  BY DEF Poll
<1>4. StepInv' /\ TaskInv' /\ WorkerInv'
  BY <1>3, Untouched DEF TInv, WorkerInv
<1> QED BY <1>2, <1>3, <1>4 DEF TInv, TypeOK

LEMMA T_Tick == ASSUME TInv, Tick PROVE TInv'
<1>1. now \in 0..MaxTime /\ MaxTime \in Nat
  BY TimeAssumption DEF TInv, TypeOK
<1>2. now' \in 0..MaxTime /\ UNCHANGED <<timers, wheels, queue, polled, add, wk, stop, closed, overtaken>>
  BY <1>1 DEF Tick
<1>3. StepInv' /\ TaskInv' /\ WorkerInv'
  BY <1>2, Untouched DEF TInv, WorkerInv
<1> QED BY <1>2, <1>3 DEF TInv, TypeOK

LEMMA T_Receive == ASSUME TInv, Receive PROVE TInv'
<1>1. /\ wk' = [pc |-> "read", b |-> polled, w |-> 1, e |-> 0] /\ polled' = None /\ polled \in Buckets
      /\ wk.pc = "recv"
      /\ UNCHANGED <<now, timers, wheels, queue, add, stop, closed, overtaken>>
  BY DEF Receive, TInv, TypeOK
<1>2. wk' \in WorkerStates /\ wk'.pc = "read" /\ wk'.b \in Buckets
  BY <1>1, WheelAssumption DEF WorkerStates
<1>3. StepInv' /\ TaskInv' /\ WorkerInv'
  BY <1>1, <1>2, Untouched DEF TInv, WorkerInv
<1> QED BY <1>1, <1>2, <1>3 DEF TInv, TypeOK, WorkerStates

LEMMA T_ReadExpiration == ASSUME TInv, ReadExpiration PROVE TInv'
<1>1. wk \in WorkerStates /\ expiration \in [Buckets -> Int] /\ wk.pc = "read" /\ wk.b \in Buckets
  BY DEF ReadExpiration, TInv, TypeOK, WorkerInv, WorkerStates
<1>2. wk' \in WorkerStates /\ wk'.pc = "advance" /\ wk'.b = wk.b
  BY <1>1 DEF ReadExpiration, WorkerStates
<1>3. UNCHANGED <<now, timers, wheels, queue, polled, add, stop, closed, overtaken>>
  BY DEF ReadExpiration
<1>4. StepInv' /\ TaskInv' /\ WorkerInv'
  BY <1>1, <1>2, <1>3, Untouched DEF TInv, WorkerInv
<1> QED BY <1>2, <1>3, <1>4 DEF TInv, TypeOK, WorkerStates

LEMMA T_advanceClock == ASSUME TInv, advanceClock PROVE TInv'
<1>1. /\ wk \in WorkerStates /\ clock \in [Wheels -> Int] /\ top \in Wheels
      /\ wk.pc = "advance" /\ wk.b \in Buckets /\ add[Worker].pc = "idle"
  BY DEF advanceClock, TInv, TypeOK, WorkerInv, WorkerStates
<1>2. wk.w <= top => wk.w \in Wheels /\ wk.w + 1 \in 1..Levels + 1 /\ truncate(wk.e, TickOf[wk.w]) \in Int
  <2>1. wk.w \in 1..Levels + 1 /\ wk.e \in Int /\ Levels \in Nat
    BY <1>1, WheelAssumption DEF WorkerStates
  <2>2. wk.w <= top => wk.w \in Wheels /\ wk.w + 1 \in 1..Levels + 1
    BY <1>1, <2>1
  <2> QED BY <2>1, <2>2, TruncateInt
<1>3. clock' \in [Wheels -> Int]
  BY <1>1, <1>2 DEF advanceClock
<1>4. wk' \in WorkerStates /\ wk'.pc \in {"advance", "flush"} /\ wk'.b = wk.b
  BY <1>1, <1>2 DEF advanceClock, WorkerStates
<1>5. UNCHANGED <<now, timers, expiration, top, queue, polled, add, stop, closed, overtaken>>
  BY DEF advanceClock
<1>6. StepInv' /\ TaskInv' /\ WorkerInv'
  BY <1>1, <1>4, <1>5, Untouched DEF TInv, WorkerInv
<1> QED BY <1>3, <1>4, <1>5, <1>6 DEF TInv, TypeOK, WorkerStates

LEMMA T_FlushBack == ASSUME TInv, FlushBack \/ FlushEnd \/ Exit PROVE TInv'
<1>1. wk \in WorkerStates /\ expiration \in [Buckets -> Int]
  BY DEF TInv, TypeOK, WorkerStates
<1>2. /\ wk' \in WorkerStates /\ wk'.b = wk.b /\ wk'.pc \in {"flush", "recv", "exited"}
      /\ add[Worker].pc = "idle" /\ (wk'.pc = "flush" => wk.b \in Buckets)
  BY <1>1 DEF FlushBack, FlushEnd, Exit, WorkerStates, TInv, WorkerInv
<1>3. expiration' \in [Buckets -> Int]
  BY <1>1 DEF FlushBack, FlushEnd, Exit
<1>4. UNCHANGED <<now, timers, top, clock, queue, polled, add, stop, closed, overtaken>>
  BY DEF FlushBack, FlushEnd, Exit
<1>5. StepInv' /\ TaskInv' /\ WorkerInv'
  BY <1>2, <1>4, Untouched
<1> QED BY <1>2, <1>3, <1>4, <1>5 DEF TInv, TypeOK, WorkerStates

\* Flush takes a timer out of its bucket and calls addOrRun.
LEMMA T_FlushNext == ASSUME TInv, FlushNext PROVE TInv'
<1>1. PICK t \in Timers :
        /\ bucketOf[t] = wk.b
        /\ bucketOf' = [bucketOf EXCEPT ![t] = None]
        /\ add' = [add EXCEPT ![Worker] = [Idle EXCEPT !.pc = "load", !.t = t]]
  BY DEF FlushNext
<1> DEFINE r == [Idle EXCEPT !.pc = "load", !.t = t]
<1>2. /\ add \in [Goroutines -> AddStates] /\ bucketOf \in [Timers -> Buckets \cup {None}]
      /\ wk \in WorkerStates /\ wk.pc = "flush" /\ wk.b \in Buckets
  BY DEF TInv, TypeOK, AddStates, WorkerStates, WorkerInv, FlushNext
<1>3. Idle \in AddStates
  BY WheelAssumption DEF AddStates
<1>4. r \in AddStates /\ r.pc = "load" /\ r.t = t
  <2> HIDE DEF Idle
  <2> QED BY <1>3 DEF AddStates
<1> HIDE DEF r
<1>5. /\ wk' \in WorkerStates /\ wk'.pc = "reinsert" /\ wk'.b = wk.b
      /\ UNCHANGED <<now, exp, created, runs, early, wheels, queue, polled, stop, closed, overtaken>>
  BY <1>2 DEF FlushNext, WorkerStates
<1>6. add' \in [Goroutines -> AddStates] /\ \A h \in Goroutines : add'[h] = IF h = Worker THEN r ELSE add[h]
  BY <1>1, <1>2, <1>4 DEF r
<1>7. bucketOf' \in [Timers -> Buckets \cup {None}] /\ \A u \in Timers : bucketOf'[u] = bucketOf[u] \/ bucketOf'[u] = None
  BY <1>1, <1>2
<1>8. t \in created
  BY <1>1, <1>2, NamesAssumption DEF TInv, TaskInv, Buckets
<1>9. StepInv'
  BY <1>4, <1>5, <1>6, <1>8 DEF TInv, StepInv, StepOK
<1>10. TaskInv'
  BY <1>5, <1>6, <1>7, NamesAssumption DEF TInv, TaskInv
<1>11. WorkerInv'
  BY <1>2, <1>4, <1>5, <1>6 DEF WorkerInv
<1> QED BY <1>5, <1>6, <1>7, <1>9, <1>10, <1>11 DEF TInv, TypeOK, AddStates, WorkerStates

LEMMA TInvInit == Init => TInv
<1> SUFFICES ASSUME Init PROVE TInv
  OBVIOUS
<1>1. Idle \in AddStates
  BY WheelAssumption DEF AddStates
<1>2. add \in [Goroutines -> AddStates] /\ \A g \in Goroutines : add[g] = Idle
  BY <1>1 DEF Init
<1>3. wk \in WorkerStates
  BY WheelAssumption DEF Init, WorkerStates
<1>4. TypeOK
  <2>1. now \in 0..MaxTime /\ top \in Wheels
    BY WheelAssumption, TimeAssumption DEF Init
  <2>2. exp \in [Timers -> Nat] /\ bucketOf \in [Timers -> Buckets \cup {None}] /\ runs \in [Timers -> Nat]
    BY DEF Init
  <2>3. expiration \in [Buckets -> Int] /\ clock \in [Wheels -> Int]
    BY DEF Init
  <2>4. stop \in [Timers -> [pc : {"idle", "remove", "again", "missed", "done"},
                          b : Buckets \cup {None}, ok : BOOLEAN]]
    BY DEF Init
  <2>5. /\ queue = {} /\ polled = None /\ closed = FALSE /\ created = {} /\ early = {} /\ overtaken = FALSE
    BY DEF Init
  <2> QED BY <1>2, <1>3, <2>1, <2>2, <2>3, <2>4, <2>5 DEF TypeOK, AddStates, WorkerStates
<1>5. StepInv /\ TaskInv /\ WorkerInv
  BY <1>2 DEF Init, StepInv, StepOK, TaskInv, WorkerInv
<1> QED BY <1>4, <1>5 DEF TInv

LEMMA TInvStep == TInv /\ [Next]_vars => TInv'
<1> SUFFICES ASSUME TInv, [Next]_vars PROVE TInv'
  OBVIOUS
<1>1. CASE UNCHANGED vars
  BY <1>1 DEF vars, TInv, TypeOK, StepInv, StepOK, TaskInv, WorkerInv
<1>2. CASE WorkerStep
  BY <1>2, T_Receive, T_ReadExpiration, T_advanceClock, T_FlushNext, T_FlushBack DEF WorkerStep
<1>3. ASSUME NEW g \in Goroutines, Add(g) \/ Reschedule(g) PROVE TInv'
  BY <1>3, T_AddLoad, T_AddOverflow, T_BucketAdd, T_SetExpiration, T_Offer, T_Reschedule DEF Add
<1> QED BY <1>1, <1>2, <1>3, T_AfterFunc, T_Stop, T_Poll, T_Tick DEF Next

\* Every variable of the wheel keeps its type: in particular every bucket add
\* computes exists, and advanceClock stays within the wheels there are.
THEOREM WheelTypes == Spec => []TypeOK
<1>1. TInv => TypeOK
  BY DEF TInv
<1> QED BY <1>1, TInvInit, TInvStep, PTL DEF Spec

-----------------------------------------------------------------------------
(* No timer is stranded.                                                    *)

Working == wk.pc \notin {"recv", "exited"}

\* A bucket on its way to the worker stays so while the goroutines about to
\* offer, the queue, Poll and the worker keep what they have.
LEMMA ComingKept ==
  ASSUME NEW b, Coming(b),
         \A h \in Goroutines : add[h].pc = "offer" => add'[h] = add[h],
         polled' = polled, queue \subseteq queue',
         Working => Working' /\ wk'.b = wk.b
  PROVE  Coming(b)'
<1>1. \A h \in Goroutines : add'[h] = add[h] => Bucket(h)' = Bucket(h)
  BY DEF Bucket
<1> QED BY <1>1 DEF Coming, Working

\* A step that neither fills a bucket nor sets an expiration, and that no
\* goroutine at the end of add takes.
LEMMA StrandKept ==
  ASSUME StrandInv,
         \A h \in Goroutines : add[h].pc \in {"set", "offer"} => add'[h] = add[h],
         polled' = polled, queue \subseteq queue', expiration' = expiration,
         Working => Working' /\ wk'.b = wk.b,
         \A t \in Timers : bucketOf'[t] = bucketOf[t] \/ bucketOf'[t] = None
  PROVE  StrandInv'
<1>1. \A b : Coming(b) => Coming(b)'
  BY ComingKept
<1>2. \A h \in Goroutines : add'[h] = add[h] => Bucket(h)' = Bucket(h)
  BY DEF Bucket
<1>3. ExpirationInv'
  BY <1>1 DEF StrandInv, ExpirationInv
<1>4. NoTimerStranded'
  BY <1>1, <1>2 DEF StrandInv, NoTimerStranded
<1> QED BY <1>3, <1>4 DEF StrandInv

\* The steps of add before a bucket is filled, and the tasks.
LEMMA S_Before ==
  ASSUME TInv, StrandInv, NEW g \in Goroutines, AddLoad(g) \/ AddOverflow(g) \/ Reschedule(g)
  PROVE  StrandInv'
<1>1. add[g].pc \in {"load", "overflow", "task"} /\ add \in [Goroutines -> AddStates]
  BY DEF AddLoad, AddOverflow, Reschedule, TInv, TypeOK, AddStates
<1>2. \A h \in Goroutines : add[h].pc \in {"set", "offer"} => add'[h] = add[h]
  <2>1. CASE AddLoad(g) /\ Run(g, add[g].t)
    <3>1. add[g].t \in Timers
      BY <1>1 DEF TInv, StepInv, StepOK, TypeOK
    <3>2. \A h \in Goroutines \ {g} : add'[h] = add[h] \/ add[h].pc = "idle"
      BY <1>1, <2>1, <3>1, RunStep DEF AddLoad
    <3> QED BY <1>1, <3>2
  <2>2. CASE \A h \in Goroutines \ {g} : add'[h] = add[h]
    BY <1>1, <2>2
  <2>3. CASE \E r : add' = [add EXCEPT ![g] = r]
    BY <1>1, <2>2, <2>3
  <2> QED BY <1>1, <2>1, <2>2 DEF AddLoad, AddOverflow, Reschedule, Idled
<1> QED BY <1>2, StrandKept DEF AddLoad, AddOverflow, Reschedule, Working

LEMMA S_AfterFunc ==
  ASSUME TInv, StrandInv, NEW t \in Timers, NEW d \in Delays, AfterFunc(t, d)
  PROVE  StrandInv'
<1>1. add \in [Goroutines -> AddStates] /\ add[<<t, 0>>].pc = "idle"
  <2>1. 0 \in 0..MaxRuns /\ t \notin created
    BY TimeAssumption DEF AfterFunc
  <2>2. add[<<t, 0>>].pc = "idle"
    BY <2>1 DEF TInv, TaskInv
  <2> QED BY <2>2 DEF TInv, TypeOK, AddStates
<1>2. \A h \in Goroutines : h # <<t, 0>> => add'[h] = add[h]
  BY <1>1 DEF AfterFunc
<1>3. \A h \in Goroutines : add[h].pc \in {"set", "offer"} => add'[h] = add[h]
  BY <1>1, <1>2
<1> QED BY <1>3, StrandKept DEF AfterFunc, Working

LEMMA S_Stop ==
  ASSUME TInv, StrandInv, Stop \/ Tick \/ \E t \in Stopped : StopRead(t) \/ StopRemove(t)
  PROVE  StrandInv'
<1>1. \A u \in Timers : bucketOf'[u] = bucketOf[u] \/ bucketOf'[u] = None
  <2>1. bucketOf \in [Timers -> Buckets \cup {None}]
    BY DEF TInv, TypeOK
  <2>2. ASSUME NEW t \in Stopped, remove(t, stop[t].b)
        PROVE  \A u \in Timers : bucketOf'[u] = bucketOf[u] \/ bucketOf'[u] = None
    BY <2>1, <2>2 DEF remove
  <2> QED BY <2>2 DEF Stop, Tick, StopRead, StopRemove
<1>2. UNCHANGED <<add, wk, polled, queue, expiration>>
  BY DEF Stop, Tick, StopRead, StopRemove
<1> QED BY <1>1, <1>2, StrandKept DEF Working

\* The steps of the worker that keep its bucket.
LEMMA S_Worker ==
  ASSUME TInv, StrandInv, ReadExpiration \/ advanceClock \/ FlushNext \/ FlushBack \/ Exit
  PROVE  StrandInv'
<1>1. wk \in WorkerStates /\ bucketOf \in [Timers -> Buckets \cup {None}] /\ add \in [Goroutines -> AddStates]
  BY DEF TInv, TypeOK, WorkerStates, AddStates
<1>2. Working => Working' /\ wk'.b = wk.b
  BY <1>1 DEF ReadExpiration, advanceClock, FlushNext, FlushBack, Exit, Working, WorkerStates
<1>3. \A u \in Timers : bucketOf'[u] = bucketOf[u] \/ bucketOf'[u] = None
  BY <1>1 DEF ReadExpiration, advanceClock, FlushNext, FlushBack, Exit
<1>4. \A h \in Goroutines : add'[h] = add[h] \/ add[h].pc = "idle"
  BY <1>1 DEF ReadExpiration, advanceClock, FlushNext, FlushBack, Exit, TInv, WorkerInv
<1>5. UNCHANGED <<polled, queue, expiration>>
  BY DEF ReadExpiration, advanceClock, FlushNext, FlushBack, Exit
<1> QED BY <1>2, <1>3, <1>4, <1>5, StrandKept

\* Poll and the worker hand a bucket on, none is lost between them.
LEMMA S_Hand == ASSUME TInv, StrandInv, Poll \/ Receive PROVE StrandInv'
<1>1. UNCHANGED <<add, expiration, bucketOf>>
  BY DEF Poll, Receive
<1>2. \A b \in Buckets : Coming(b) => Coming(b)'
  <2> SUFFICES ASSUME NEW b \in Buckets, Coming(b) PROVE Coming(b)'
    OBVIOUS
  <2>0. b # None
    BY NamesAssumption DEF Buckets
  <2>1. \A h \in Goroutines : Bucket(h)' = Bucket(h)
    BY <1>1 DEF Bucket
  <2>2. CASE Poll
    <3>1. PICK q \in queue : queue' = queue \ {q} /\ polled' = q.b
      BY <2>2 DEF Poll
    <3>2. polled = None /\ wk' = wk
      BY <2>2 DEF Poll
    <3> QED BY <1>1, <2>0, <2>1, <3>1, <3>2 DEF Coming
  <2>3. CASE Receive
    <3>1. wk'.b = polled /\ wk'.pc = "read" /\ wk.pc = "recv" /\ queue' = queue
      BY <2>3 DEF Receive
    <3> QED BY <1>1, <2>1, <3>1 DEF Coming
  <2> QED BY <2>2, <2>3
<1>3. \A h \in Goroutines : Bucket(h)' = Bucket(h)
  BY <1>1 DEF Bucket
<1>4. \A t \in Timers : bucketOf[t] = None \/ bucketOf[t] \in Buckets
  BY DEF TInv, TypeOK
<1>5. ExpirationInv'
  BY <1>1, <1>2 DEF StrandInv, ExpirationInv
<1>6. NoTimerStranded'
  BY <1>1, <1>2, <1>3, <1>4 DEF StrandInv, NoTimerStranded
<1> QED BY <1>5, <1>6 DEF StrandInv

\* bucket.Add: the goroutine that filled the bucket has its expiration to swap.
LEMMA S_BucketAdd == ASSUME TInv, StrandInv, NEW g \in Goroutines, BucketAdd(g) PROVE StrandInv'
<1> DEFINE w == add[g].w  t == add[g].t  v == add[g].vexp
<1>1. /\ add \in [Goroutines -> AddStates] /\ add[g].pc = "add"
      /\ t \in created /\ t \in Timers /\ v \in Nat /\ w \in Wheels /\ Bucket(g) \in Buckets
  BY Chosen DEF BucketAdd
<1>2. Moves(g, "set", t, w, v)
  BY <1>1 DEF BucketAdd, AddStates, Moves
<1>3. UNCHANGED <<expiration, queue, polled, wk>>
  BY DEF BucketAdd
<1>4. \A h \in Goroutines : add[h].pc \in {"set", "offer"} => add'[h] = add[h]
  BY <1>1, <1>2 DEF Moves
<1>5. \A b : Coming(b) => Coming(b)'
  BY <1>3, <1>4, ComingKept DEF Working
<1>6. \A h \in Goroutines : add'[h] = add[h] => Bucket(h)' = Bucket(h)
  BY DEF Bucket
<1>7. add'[g].pc = "set" /\ Bucket(g)' = Bucket(g)
  BY <1>2 DEF Moves, Bucket
<1>8. bucketOf'[t] = Bucket(g) /\ \A u \in Timers \ {t} : bucketOf'[u] = bucketOf[u]
  BY <1>1 DEF BucketAdd, TInv, TypeOK
<1>9. ExpirationInv'
  BY <1>3, <1>5 DEF StrandInv, ExpirationInv
<1>10. NoTimerStranded'
  BY <1>4, <1>5, <1>6, <1>7, <1>8 DEF StrandInv, NoTimerStranded
<1> QED BY <1>9, <1>10 DEF StrandInv

\* bucket.SetExpiration: the goroutine goes on to offer the bucket, or finds the
\* value it was about to set, and somebody else has offered it.
LEMMA S_SetExpiration == ASSUME TInv, StrandInv, NEW g \in Goroutines, SetExpiration(g) PROVE StrandInv'
<1> DEFINE v == add[g].vexp
<1>0. PICK b : b = Bucket(g)
  OBVIOUS
<1>1. /\ add \in [Goroutines -> AddStates] /\ add[g].pc = "set"
      /\ v \in Nat /\ add[g].w \in Wheels /\ b \in Buckets
  BY <1>0, Chosen DEF SetExpiration
<1>2. UNCHANGED <<bucketOf, queue, polled, wk>>
  BY DEF SetExpiration
<1>3. \A h \in Goroutines : h # g => add'[h] = add[h]
  BY <1>1 DEF SetExpiration, Idled
<1>4. \A c : Coming(c) => Coming(c)'
  BY <1>1, <1>2, <1>3, ComingKept DEF Working
<1>5. \A h \in Goroutines : add'[h] = add[h] => Bucket(h)' = Bucket(h)
  BY DEF Bucket
<1>6. Coming(b)'
  <2>1. CASE expiration[b] # v
    <3>1. add' = [add EXCEPT ![g].pc = "offer"]
      BY <1>0, <2>1 DEF SetExpiration
    <3>2. add'[g].pc = "offer" /\ add'[g].w = add[g].w /\ add'[g].vexp = add[g].vexp
      BY <1>1, <3>1 DEF AddStates
    <3>3. Bucket(g)' = b
      BY <1>0, <3>2 DEF Bucket
    <3> QED BY <3>2, <3>3 DEF Coming
  <2>2. CASE expiration[b] = v
    <3>1. expiration[b] # -1
      BY <1>1, <2>2
    <3> QED BY <1>1, <1>4, <3>1 DEF StrandInv, ExpirationInv
  <2> QED BY <2>1, <2>2
<1>7. \A c \in Buckets : c # b => expiration'[c] = expiration[c]
  BY <1>0, <1>1 DEF SetExpiration, TInv, TypeOK
<1>8. ExpirationInv'
  BY <1>4, <1>6, <1>7 DEF StrandInv, ExpirationInv
<1>9. NoTimerStranded'
  <2> SUFFICES ASSUME NEW t \in Timers, bucketOf'[t] # None
               PROVE  \/ Coming(bucketOf[t])'
                      \/ \E h \in Goroutines : add'[h].pc = "set" /\ Bucket(h)' = bucketOf[t]
    BY <1>2 DEF NoTimerStranded
  <2>1. CASE Coming(bucketOf[t])
    BY <1>2, <1>4, <2>1
  <2>2. ASSUME NEW h \in Goroutines, add[h].pc = "set", Bucket(h) = bucketOf[t]
        PROVE  Coming(bucketOf[t])' \/ (add'[h].pc = "set" /\ Bucket(h)' = bucketOf[t])
    <3>1. CASE h = g
      BY <1>0, <1>2, <1>6, <2>2, <3>1
    <3>2. CASE h # g
      BY <1>3, <1>5, <2>2, <3>2
    <3> QED BY <3>1, <3>2
  <2> QED BY <1>2, <2>1, <2>2 DEF StrandInv, NoTimerStranded
<1> QED BY <1>8, <1>9 DEF StrandInv

\* queue.Offer.
LEMMA S_Offer == ASSUME TInv, StrandInv, NEW g \in Goroutines, Offer(g) PROVE StrandInv'
<1>1. add \in [Goroutines -> AddStates] /\ add[g].pc = "offer"
  BY DEF Offer, TInv, TypeOK, AddStates
<1>2. UNCHANGED <<bucketOf, expiration, polled, wk>> /\ queue \subseteq queue' /\ \E q \in queue' : q.b = Bucket(g)
  <2> DEFINE q == [b |-> Bucket(g), e |-> expiration[Bucket(g)], by |-> g]
  <2>1. queue' = queue \cup {q} /\ q.b = Bucket(g)
    BY DEF Offer
  <2> HIDE DEF q
  <2> QED BY <2>1 DEF Offer
<1>3. \A h \in Goroutines : h # g => add'[h] = add[h]
  BY <1>1 DEF Offer, Idled
<1>4. \A h \in Goroutines : add'[h] = add[h] => Bucket(h)' = Bucket(h)
  BY DEF Bucket
<1>5. \A b : Coming(b) => Coming(b)'
  BY <1>1, <1>2, <1>3, <1>4 DEF Coming
<1>6. ExpirationInv'
  BY <1>2, <1>5 DEF StrandInv, ExpirationInv
<1>7. NoTimerStranded'
  BY <1>1, <1>2, <1>3, <1>4, <1>5 DEF StrandInv, NoTimerStranded
<1> QED BY <1>6, <1>7 DEF StrandInv

\* The end of Flush: the bucket is empty and its expiration is reset with it.
LEMMA S_FlushEnd == ASSUME TInv, StrandInv, FlushEnd PROVE StrandInv'
<1>1. /\ wk.b \in Buckets /\ expiration \in [Buckets -> Int]
      /\ expiration' = [expiration EXCEPT ![wk.b] = -1]
      /\ \A t \in Timers : bucketOf[t] # wk.b
      /\ UNCHANGED <<bucketOf, add, queue, polled>>
  BY DEF FlushEnd, TInv, TypeOK, WorkerInv
<1>2. \A h \in Goroutines : Bucket(h)' = Bucket(h)
  BY <1>1 DEF Bucket
<1>3. \A b : b # wk.b /\ Coming(b) => Coming(b)'
  BY <1>1, <1>2 DEF Coming
<1>4. expiration'[wk.b] = -1 /\ \A b \in Buckets : b # wk.b => expiration'[b] = expiration[b]
  BY <1>1
<1>5. ExpirationInv'
  BY <1>3, <1>4 DEF StrandInv, ExpirationInv
<1>6. NoTimerStranded'
  BY <1>1, <1>2, <1>3 DEF StrandInv, NoTimerStranded
<1> QED BY <1>5, <1>6 DEF StrandInv

LEMMA StrandInit == Init => StrandInv
  BY DEF Init, StrandInv, ExpirationInv, NoTimerStranded

LEMMA StrandStep == TInv /\ StrandInv /\ [Next]_vars => StrandInv'
<1> SUFFICES ASSUME TInv, StrandInv, [Next]_vars PROVE StrandInv'
  OBVIOUS
<1>1. CASE UNCHANGED vars
  BY <1>1, StrandKept DEF vars, Working
<1>2. CASE WorkerStep
  BY <1>2, S_Worker, S_Hand, S_FlushEnd DEF WorkerStep
<1>3. ASSUME NEW g \in Goroutines, Add(g) \/ Reschedule(g) PROVE StrandInv'
  BY <1>3, S_Before, S_BucketAdd, S_SetExpiration, S_Offer DEF Add
<1> QED BY <1>1, <1>2, <1>3, S_AfterFunc, S_Stop, S_Hand DEF Next

\* A bucket that holds a timer is always on its way to the worker, although add
\* fills it, swaps its expiration and offers it in steps of their own, against a
\* Flush that empties it and resets the expiration, and although only the
\* goroutine that saw the expiration change offers.
THEOREM NobodyIsStranded == Spec => []NoTimerStranded
<1>1. StrandInv => NoTimerStranded
  BY DEF StrandInv
<1> QED BY <1>1, TInvInit, TInvStep, StrandInit, StrandStep, PTL DEF Spec

-----------------------------------------------------------------------------
(* Stop is final.                                                           *)

\* A step in which no goroutine takes hold of the timer and nothing else
\* happens to it.
LEMMA PlaceKept ==
  ASSUME NEW t, Place(t), \A g \in Goroutines : Holds(g, t)' => Holds(g, t),
         bucketOf'[t] = bucketOf[t], runs'[t] = runs[t], stop'[t] = stop[t], created' = created
  PROVE  Place(t)'
  BY DEF Place

\* A goroutine that stays on its timer, or leaves add, takes hold of none.
LEMMA HoldsKept ==
  ASSUME NEW g \in Goroutines, NEW t,
         \A h \in Goroutines : h # g => add'[h] = add[h],
         add'[g].pc # "idle" => Holds(g, add'[g].t),
         NEW h \in Goroutines, Holds(h, t)'
  PROVE  Holds(h, t)
  BY DEF Holds

LEMMA P_AddLoad == ASSUME TInv, PlaceInv, NEW g \in Goroutines, AddLoad(g) PROVE PlaceInv'
<1> SUFFICES ASSUME NEW t \in Timers \ Scheduled PROVE Place(t)'
  BY DEF PlaceInv
<1>1. /\ add \in [Goroutines -> AddStates] /\ runs \in [Timers -> Nat] /\ Place(t)
      /\ add[g].t \in Timers /\ add[g].pc = "load" /\ Holds(g, add[g].t)
  BY DEF TInv, TypeOK, AddStates, PlaceInv, AddLoad, StepInv, StepOK, Holds
<1>2. UNCHANGED <<bucketOf, created, stop>>
  BY DEF AddLoad
<1>3. CASE Run(g, add[g].t)
  <2>1. /\ add'[g].pc = "idle"
        /\ \A h \in Goroutines \ {g} : add'[h] = add[h] \/ (add'[h].t \in Scheduled)
    BY <1>1, <1>3, RunStep DEF AddLoad
  <2>2. \A h \in Goroutines : Holds(h, t)' => h # g /\ Holds(h, t)
    BY <2>1 DEF Holds
  <2>3. CASE add[g].t = t
    <3>1. \A h \in Goroutines : ~Holds(h, t)'
      BY <1>1, <2>2, <2>3 DEF Place
    <3> QED BY <1>1, <1>2, <2>3, <3>1 DEF Place
  <2>4. CASE add[g].t # t
    <3>1. runs'[t] = runs[t]
      BY <1>1, <1>3, <2>4 DEF Run
    <3> QED BY <1>1, <1>2, <2>2, <3>1, PlaceKept
  <2> QED BY <2>3, <2>4
<1>4. CASE ~Run(g, add[g].t)
  <2>1. runs' = runs /\ add'[g].t = add[g].t /\ \A h \in Goroutines : h # g => add'[h] = add[h]
    BY <1>1, <1>4 DEF AddLoad, AddStates
  <2>2. \A h \in Goroutines : Holds(h, t)' => Holds(h, t)
    BY <1>1, <2>1, HoldsKept
  <2> QED BY <1>1, <1>2, <2>1, <2>2, PlaceKept
<1> QED BY <1>3, <1>4

\* The other steps of add that leave the timer where it is.
LEMMA P_Add ==
  ASSUME TInv, PlaceInv, NEW g \in Goroutines,
         AddOverflow(g) \/ SetExpiration(g) \/ Offer(g) \/ Reschedule(g)
  PROVE  PlaceInv'
<1> SUFFICES ASSUME NEW t \in Timers \ Scheduled PROVE Place(t)'
  BY DEF PlaceInv
<1>1. add \in [Goroutines -> AddStates] /\ Place(t)
  BY DEF TInv, TypeOK, AddStates, PlaceInv
<1>2. UNCHANGED <<bucketOf, created, stop, runs>>
  BY DEF AddOverflow, SetExpiration, Offer, Reschedule
<1>3. \A h \in Goroutines : h # g => add'[h] = add[h]
  BY <1>1 DEF AddOverflow, SetExpiration, Offer, Reschedule, Idled
<1>4. add'[g].pc \in {"idle", "offer"} \/ (add'[g].t = add[g].t /\ add[g].pc \in {"overflow", "task"})
  BY <1>1 DEF AddOverflow, SetExpiration, Offer, Reschedule, Idled, AddStates
<1>5. \A h \in Goroutines : Holds(h, t)' => Holds(h, t)
  BY <1>3, <1>4 DEF Holds
<1> QED BY <1>1, <1>2, <1>5, PlaceKept

LEMMA P_BucketAdd == ASSUME TInv, PlaceInv, NEW g \in Goroutines, BucketAdd(g) PROVE PlaceInv'
<1> SUFFICES ASSUME NEW t \in Timers \ Scheduled PROVE Place(t)'
  BY DEF PlaceInv
<1>1. add \in [Goroutines -> AddStates] /\ Place(t) /\ add[g].pc = "add" /\ add[g].t \in Timers /\ Bucket(g) \in Buckets
  BY Chosen DEF PlaceInv, BucketAdd
<1>2. UNCHANGED <<created, stop, runs>>
  BY DEF BucketAdd
<1>3. add'[g].pc = "set" /\ \A h \in Goroutines : h # g => add'[h] = add[h]
  BY <1>1 DEF BucketAdd, AddStates
<1>4. \A h \in Goroutines : Holds(h, t)' => h # g /\ Holds(h, t)
  BY <1>3 DEF Holds
<1>5. bucketOf'[add[g].t] = Bucket(g) /\ \A u \in Timers : u # add[g].t => bucketOf'[u] = bucketOf[u]
  BY <1>1 DEF BucketAdd, TInv, TypeOK
<1>6. CASE add[g].t = t
  <2>1. Holds(g, t)
    BY <1>1, <1>6 DEF Holds
  <2>2. \A h \in Goroutines : ~Holds(h, t)'
    BY <1>1, <1>4, <2>1 DEF Place
  <2> QED BY <1>1, <1>2, <2>1, <2>2 DEF Place
<1>7. CASE add[g].t # t
  BY <1>1, <1>2, <1>4, <1>5, <1>7, PlaceKept
<1> QED BY <1>6, <1>7

LEMMA P_AfterFunc ==
  ASSUME TInv, PlaceInv, NEW u \in Timers, NEW d \in Delays, AfterFunc(u, d)
  PROVE  PlaceInv'
<1> SUFFICES ASSUME NEW t \in Timers \ Scheduled PROVE Place(t)'
  BY DEF PlaceInv
<1> DEFINE k == <<u, 0>>  r == [Idle EXCEPT !.pc = "load", !.t = u]
<1>1. add \in [Goroutines -> AddStates] /\ Place(t) /\ k \in Goroutines
  BY TimeAssumption DEF TInv, TypeOK, AddStates, PlaceInv
<1>2. u \notin created /\ created' = created \cup {u} /\ UNCHANGED <<bucketOf, runs, stop>>
  BY DEF AfterFunc
<1>3. r.t = u
  BY DEF AddStates
<1>4. add' = [add EXCEPT ![k] = r]
  BY DEF AfterFunc
<1> HIDE DEF k, r
<1>5. add'[k].t = u /\ \A h \in Goroutines : h # k => add'[h] = add[h]
  BY <1>1, <1>3, <1>4
<1>6. CASE u = t
  <2>1. \A h \in Goroutines : Holds(h, t)' => h = k
    BY <1>1, <1>2, <1>5, <1>6 DEF Holds, Place
  <2>2. bucketOf[t] = None /\ runs[t] = 0 /\ ~stop[t].ok
    BY <1>1, <1>2, <1>6 DEF Place
  <2> QED BY <1>1, <1>2, <1>6, <2>1, <2>2 DEF Place
<1>7. CASE u # t
  <2>1. \A h \in Goroutines : Holds(h, t)' => Holds(h, t)
    BY <1>5, <1>7 DEF Holds
  <2> QED BY <1>1, <1>2, <1>7, <2>1 DEF Place
<1> QED BY <1>6, <1>7

LEMMA P_StopRead == ASSUME TInv, PlaceInv, NEW u \in Stopped, StopRead(u) PROVE PlaceInv'
<1> SUFFICES ASSUME NEW t \in Timers \ Scheduled PROVE Place(t)'
  BY DEF PlaceInv
<1>1. /\ stop \in [Timers -> [pc : {"idle", "remove", "again", "missed", "done"}, b : Buckets \cup {None}, ok : BOOLEAN]]
      /\ Place(t) /\ u \in Timers
  BY NamesAssumption DEF TInv, TypeOK, PlaceInv
<1>2. UNCHANGED <<bucketOf, runs, created, add>>
  BY DEF StopRead
<1>3. \A h \in Goroutines : Holds(h, t)' => Holds(h, t)
  BY <1>2 DEF Holds
<1>4. CASE u = t
  <2>1. stop'[t].ok = stop[t].ok
    BY <1>1, <1>4 DEF StopRead
  <2>2. stop'[t].pc = "remove" => stop'[t].b # None
    BY <1>1, <1>4 DEF StopRead, StopResult
  <2>3. stop[t].ok => stop'[t].pc = "done"
    <3>1. stop[t].ok => bucketOf[t] = None
      BY <1>1 DEF Place
    <3> QED BY <1>1, <1>4, <3>1 DEF StopRead, StopResult
  <2> QED BY <1>1, <1>2, <1>3, <2>1, <2>2, <2>3 DEF Place
<1>5. CASE u # t
  <2>1. stop'[t] = stop[t]
    BY <1>1, <1>5 DEF StopRead
  <2> QED BY <1>1, <1>2, <1>3, <2>1, PlaceKept
<1> QED BY <1>4, <1>5

\* bucket.Remove: a timer that has left the bucket Stop read is not stopped.
LEMMA P_StopRemove == ASSUME TInv, PlaceInv, NEW u \in Stopped, StopRemove(u) PROVE PlaceInv'
<1> SUFFICES ASSUME NEW t \in Timers \ Scheduled PROVE Place(t)'
  BY DEF PlaceInv
<1>1. /\ stop \in [Timers -> [pc : {"idle", "remove", "again", "missed", "done"}, b : Buckets \cup {None}, ok : BOOLEAN]]
      /\ Place(t) /\ u \in Timers /\ bucketOf \in [Timers -> Buckets \cup {None}]
  BY NamesAssumption DEF TInv, TypeOK, PlaceInv
<1>2. UNCHANGED <<runs, created, add>>
  BY DEF StopRemove
<1>3. \A h \in Goroutines : Holds(h, t)' => Holds(h, t)
  BY <1>2 DEF Holds
<1>4. CASE u = t
  <2>1. stop[t].pc = "remove" /\ stop[t].b # None /\ ~stop[t].ok
    BY <1>1, <1>4 DEF StopRemove, Place
  <2>2. stop'[t].pc = "again" /\ (stop'[t].ok <=> bucketOf[t] = stop[t].b)
    BY <1>1, <1>4 DEF StopRemove, remove
  <2>3. bucketOf'[t] = IF bucketOf[t] = stop[t].b THEN None ELSE bucketOf[t]
    BY <1>1, <1>4 DEF StopRemove, remove
  <2> QED BY <1>1, <1>2, <1>3, <2>1, <2>2, <2>3 DEF Place
<1>5. CASE u # t
  <2>1. stop'[t] = stop[t] /\ bucketOf'[t] = bucketOf[t]
    BY <1>1, <1>5 DEF StopRemove, remove
  <2> QED BY <1>1, <1>2, <1>3, <2>1, PlaceKept
<1> QED BY <1>4, <1>5

\* Flush takes hold of a timer of its bucket, which nobody else has.
LEMMA P_FlushNext == ASSUME TInv, PlaceInv, FlushNext PROVE PlaceInv'
<1> SUFFICES ASSUME NEW t \in Timers \ Scheduled PROVE Place(t)'
  BY DEF PlaceInv
<1>1. PICK u \in Timers :
        /\ bucketOf[u] = wk.b
        /\ bucketOf' = [bucketOf EXCEPT ![u] = None]
        /\ add' = [add EXCEPT ![Worker] = [Idle EXCEPT !.pc = "load", !.t = u]]
  BY DEF FlushNext
<1> DEFINE r == [Idle EXCEPT !.pc = "load", !.t = u]
<1>2. /\ add \in [Goroutines -> AddStates] /\ bucketOf \in [Timers -> Buckets \cup {None}] /\ Place(t)
      /\ wk.b \in Buckets
  BY DEF TInv, TypeOK, AddStates, WorkerInv, FlushNext, PlaceInv
<1>3. r.t = u
  OBVIOUS
<1> HIDE DEF r
<1>4. add'[Worker].t = u /\ \A h \in Goroutines : h # Worker => add'[h] = add[h]
  BY <1>1, <1>2, <1>3 DEF r
<1>5. UNCHANGED <<runs, created, stop>>
  BY DEF FlushNext
<1>6. bucketOf[u] # None
  BY <1>1, <1>2, NamesAssumption DEF Buckets
<1>7. CASE u = t
  <2>1. \A h \in Goroutines : Holds(h, t)' => h = Worker
    BY <1>2, <1>4, <1>6, <1>7 DEF Holds, Place
  <2>2. bucketOf'[t] = None
    BY <1>1, <1>2, <1>7
  <2> QED BY <1>2, <1>5, <1>6, <1>7, <2>1, <2>2 DEF Place
<1>8. CASE u # t
  <2>1. \A h \in Goroutines : Holds(h, t)' => Holds(h, t)
    BY <1>4, <1>8 DEF Holds
  <2>2. bucketOf'[t] = bucketOf[t]
    BY <1>1, <1>2, <1>8
  <2> QED BY <1>2, <1>5, <2>1, <2>2, PlaceKept
<1> QED BY <1>7, <1>8

\* The steps that concern no timer.
LEMMA P_Other ==
  ASSUME PlaceInv, UNCHANGED <<add, bucketOf, runs, created, stop>>
  PROVE  PlaceInv'
<1> SUFFICES ASSUME NEW t \in Timers \ Scheduled PROVE Place(t)'
  BY DEF PlaceInv
<1> QED BY PlaceKept DEF PlaceInv, Holds

LEMMA PlaceInit == Init => PlaceInv
<1> SUFFICES ASSUME Init, NEW t \in Timers \ Scheduled PROVE Place(t)
  BY DEF PlaceInv
<1>1. \A g \in Goroutines : add[g].pc = "idle"
  BY DEF Init
<1>2. /\ bucketOf[t] = None /\ runs[t] = 0 /\ created = {}
      /\ stop[t].pc = "idle" /\ stop[t].ok = FALSE
  BY DEF Init
<1> QED BY <1>1, <1>2 DEF Place, Holds

LEMMA PlaceStep == TInv /\ PlaceInv /\ [Next]_vars => PlaceInv'
<1> SUFFICES ASSUME TInv, PlaceInv, [Next]_vars PROVE PlaceInv'
  OBVIOUS
<1>1. CASE UNCHANGED vars \/ Stop \/ Poll \/ Tick
  BY <1>1, P_Other DEF vars, Stop, Poll, Tick
<1>2. CASE WorkerStep
  <2>1. CASE FlushNext
    BY <2>1, P_FlushNext
  <2>2. CASE ~FlushNext
    BY <1>2, <2>2, P_Other DEF WorkerStep, Receive, ReadExpiration, advanceClock, FlushBack, FlushEnd, Exit
  <2> QED BY <2>1, <2>2
<1>3. ASSUME NEW g \in Goroutines, Add(g) \/ Reschedule(g) PROVE PlaceInv'
  BY <1>3, P_AddLoad, P_Add, P_BucketAdd DEF Add
<1> QED BY <1>1, <1>2, <1>3, P_AfterFunc, P_StopRead, P_StopRemove DEF Next

\* When Stop says a timer of AfterFunc is stopped, no bucket holds it, its task
\* has not run and no goroutine has it left to run or to move: Flush, which
\* takes a timer out of its bucket before it reinserts it, cannot bring it back.
THEOREM StoppedForGood == Spec => []StopIsFinal
<1>1. TInv /\ PlaceInv => StopIsFinal
  <2> SUFFICES ASSUME TInv, PlaceInv, NEW t \in Timers \ Scheduled, stop[t].ok, stop[t].pc = "done"
               PROVE  /\ bucketOf[t] = None /\ runs[t] = 0
                      /\ \A g \in Goroutines : add[g].t = t => add[g].pc \in {"set", "offer"}
    BY DEF StopIsFinal
  <2>1. bucketOf[t] = None /\ runs[t] = 0 /\ \A g \in Goroutines : ~Holds(g, t)
    BY DEF PlaceInv, Place
  <2>2. ASSUME NEW g \in Goroutines, add[g].t = t PROVE add[g].pc \in {"set", "offer"}
    <3>1. add[g].pc # "idle"
      BY <2>2, NamesAssumption DEF TInv, StepInv, StepOK
    <3>2. add[g].pc \in AddPcs
      BY DEF TInv, TypeOK
    <3> QED BY <2>1, <2>2, <3>1, <3>2 DEF Holds
  <2> QED BY <2>1, <2>2
<1> QED BY <1>1, TInvInit, TInvStep, PlaceInit, PlaceStep, PTL DEF Spec

-----------------------------------------------------------------------------
(* Multiples of a tick: the arithmetic of the buckets of one wheel.         *)

Multiple(x, m) == x = (x \div m) * m

\* Multiplication by a tick is monotone.
LEMMA MulMono ==
  ASSUME NEW a \in Int, NEW b \in Int, NEW m \in Nat, a <= b
  PROVE a * m <= b * m
  BY SMT

\* Quotient and remainder.
LEMMA DivMod ==
  ASSUME NEW x \in Int, NEW m \in Nat, m > 0
  PROVE /\ x \div m \in Int /\ x % m \in 0..m-1
        /\ x = ((x \div m) * m) + (x % m)
  BY SMT

\* A product divided by its second factor.
LEMMA DivMul ==
  ASSUME NEW k \in Int, NEW m \in Nat, m > 0
  PROVE (k * m) \div m = k
<1> DEFINE q == (k*m) \div m  r == (k*m) % m
<1>1. k * m \in Int
  OBVIOUS
<1>2. q \in Int /\ r \in 0..m-1 /\ k*m = q*m + r
  BY <1>1, DivMod
<1> HIDE DEF q, r
<1>3. CASE q + 1 <= k
  <2>1. (q+1) * m <= k*m
    BY <1>2, <1>3, MulMono
  <2>2. (q+1)*m = q*m + m
    BY <1>2, SMT
  <2> QED BY <1>1, <1>2, <2>1, <2>2
<1>4. CASE k + 1 <= q
  <2>1. (k+1) * m <= q*m
    BY <1>2, <1>4, MulMono
  <2>2. (k+1)*m = k*m + m
    BY <1>2, SMT
  <2> QED BY <1>1, <1>2, <2>1, <2>2
<1> QED BY <1>2, <1>3, <1>4 DEF q

\* truncate gives the last multiple that is not above its argument.
LEMMA TruncateIs ==
  ASSUME NEW x \in Int, NEW m \in Nat, m > 0
  PROVE /\ truncate(x, m) = (x \div m) * m /\ Multiple(truncate(x, m), m)
        /\ truncate(x, m) \in Int /\ truncate(x, m) <= x /\ x < truncate(x, m) + m
<1>1. /\ x \div m \in Int /\ x % m \in 0..m-1 /\ x = ((x \div m) * m) + (x % m)
  BY DivMod
<1>2. (x \div m) * m \in Int
  BY <1>1
<1>3. truncate(x, m) = (x \div m) * m 
  BY <1>1, <1>2 DEF truncate
<1>4. Multiple(truncate(x, m), m)
  BY <1>1, <1>3, DivMul DEF Multiple
<1> QED BY <1>1, <1>2, <1>3, <1>4

\* Two multiples less than a tick apart are in order.
LEMMA NearMultiples ==
  ASSUME NEW x \in Int, NEW y \in Int, NEW m \in Nat, m > 0, Multiple(x, m), Multiple(y, m), x < y + m
  PROVE x <= y
<1> DEFINE a == x \div m  b == y \div m
<1>1. a \in Int /\ b \in Int /\ x = a * m /\ y = b * m
  BY DivMod DEF Multiple
<1> HIDE DEF a, b
<1>2. CASE a <= b
  BY <1>1, <1>2, MulMono
<1>3. CASE b + 1 <= a
  <2>1. (b+1) * m <= a * m
    BY <1>1, <1>3, MulMono
  <2>2. (b+1) * m = b * m + m
    BY <1>1, SMT
  <2> QED BY <1>1, <2>1, <2>2
<1> QED BY <1>1, <1>2, <1>3

\* Two expirations of one bucket are a turn of the wheel apart.
LEMMA Sparse ==
  ASSUME NEW x \in Int, NEW y \in Int, NEW m \in Nat, NEW n \in Nat, m > 0, n > 0, Multiple(x, m), Multiple(y, m),
        (x \div m) % n = (y \div m) % n, x < y
  PROVE x + n * m <= y
<1> DEFINE a == x \div m  b == y \div m
<1>1. a \in Int /\ b \in Int /\ x = a * m /\ y = b * m /\ a % n = b % n
  BY DivMod DEF Multiple
<1> HIDE DEF a, b
<1>2. a < b
  <2>1. CASE b <= a
     BY <1>1, <2>1, MulMono
  <2> QED BY <1>1, <2>1
<1> DEFINE p == a \div n  q == b \div n  r == b % n
<1>3. /\ p \in Int /\ q \in Int /\ r \in 0..n-1 /\ a = p * n + r /\ b = q * n + r
  BY <1>1, DivMod
<1> HIDE DEF p, q, r
<1>4. p + 1 <= q
  <2>1. CASE q <= p
     <3>1. q * n <= p * n 
       BY <1>3, <2>1, MulMono
     <3> QED BY <1>2, <1>3, <3>1
  <2> QED BY <1>3, <2>1
<1>5. (p + 1) * n <= q * n
  BY <1>3, <1>4, MulMono
<1>6. (p + 1) * n = p * n + n
  BY <1>3, SMT
<1>7. a + n <= b
  BY <1>3, <1>5, <1>6
<1>8. (a + n) * m <= b * m
  BY <1>1, <1>7, MulMono
<1>9. (a + n) * m = a * m + n * m
  BY <1>1, SMT
<1> QED BY <1>1, <1>8, <1>9

\* The numbers of a wheel.
LEMMA WheelNumbers ==
  ASSUME NEW w \in Wheels
  PROVE  /\ TickOf[w] \in Nat /\ TickOf[w] > 0
         /\ WheelSize \in Nat /\ WheelSize > 0
         /\ Interval(w) \in Nat /\ Interval(w) > 0 /\ Interval(w) = WheelSize * TickOf[w]
         /\ w + 1 \in Wheels => TickOf[w + 1] = Interval(w)
<1>1. TickOf[w] \in Nat /\ TickOf[w] > 0 /\ WheelSize \in Nat /\ WheelSize > 0
  BY TickAssumption, WheelAssumption
<1>2. Interval(w) \in Nat
  BY <1>1 DEF Interval
<1>3. Interval(w) > 0
  <2>1. 1 * TickOf[w] <= WheelSize * TickOf[w]
    BY <1>1, MulMono
  <2>2. 1 * TickOf[w] = TickOf[w]
    BY <1>1
  <2> QED BY <1>1, <1>2, <2>1, <2>2 DEF Interval
<1>4. w + 1 \in Wheels => TickOf[w + 1] = Interval(w)
  BY TickAssumption, WheelAssumption DEF Interval
<1> QED BY <1>1, <1>2, <1>3, <1>4 DEF Interval

\* Two expirations of bucket b that are both less than a turn above c agree.
LEMMA SameBucket ==
  ASSUME NEW w \in Wheels, NEW x \in Int, NEW y \in Int, NEW c \in Int,
         Multiple(x, TickOf[w]), Multiple(y, TickOf[w]), BucketAt(w, x) = BucketAt(w, y),
         c <= y, x < c + Interval(w)
  PROVE  x <= y
<1>1. /\ TickOf[w] \in Nat /\ TickOf[w] > 0 /\ WheelSize \in Nat /\ WheelSize > 0
      /\ Interval(w) \in Nat /\ Interval(w) = WheelSize * TickOf[w]
  BY WheelNumbers
<1>2. (x \div TickOf[w]) % WheelSize = (y \div TickOf[w]) % WheelSize
  BY DEF BucketAt
<1>3. y < x => y + WheelSize * TickOf[w] <= x
  BY <1>1, <1>2, Sparse
<1> QED BY <1>1, <1>3

-----------------------------------------------------------------------------
(* A timer is in one place, and in the bucket of its expiration.            *)

\* Goroutines that have timer t in hand: one at most, and then no bucket.
OnePlace(t) ==
  /\ \A g, h \in Goroutines : Holds(g, t) /\ Holds(h, t) => g = h
  /\ \A g \in Goroutines : Holds(g, t) => bucketOf[t] = None
OnePlaceInv == \A t \in Timers : OnePlace(t)

\* A step in which no goroutine takes hold of the timer and no bucket gets it.
LEMMA OnePlaceKept ==
  ASSUME NEW t, OnePlace(t), \A g \in Goroutines : Holds(g, t)' => Holds(g, t),
         bucketOf'[t] = bucketOf[t] \/ bucketOf'[t] = None
  PROVE  OnePlace(t)'
  BY DEF OnePlace

LEMMA O_AddLoad == ASSUME TInv, OnePlaceInv, NEW g \in Goroutines, AddLoad(g) PROVE OnePlaceInv'
<1> SUFFICES ASSUME NEW t \in Timers PROVE OnePlace(t)'
  BY DEF OnePlaceInv
<1>1. /\ add \in [Goroutines -> AddStates] /\ OnePlace(t)
      /\ add[g].t \in Timers /\ add[g].pc = "load" /\ Holds(g, add[g].t)
  BY DEF TInv, TypeOK, AddStates, OnePlaceInv, AddLoad, StepInv, StepOK, Holds
<1>2. UNCHANGED bucketOf
  BY DEF AddLoad
<1>3. CASE Run(g, add[g].t)
  <2>1. /\ add'[g].pc = "idle"
        /\ \A h \in Goroutines \ {g} : add'[h] = add[h] \/ add'[h].t = add[g].t
    BY <1>1, <1>3, RunStep DEF AddLoad
  <2>2. PICK k \in Goroutines : \A h \in Goroutines \ {g, k} : add'[h] = add[h]
    BY <1>1, <1>3, RunStep DEF AddLoad
  <2>3. CASE add[g].t = t
    <3>1. \A h \in Goroutines : Holds(h, t)' => h = k
      BY <1>1, <2>1, <2>2, <2>3 DEF Holds, OnePlace
    <3>2. bucketOf[t] = None
      BY <1>1, <2>3 DEF OnePlace
    <3> QED BY <1>2, <3>1, <3>2 DEF OnePlace
  <2>4. CASE add[g].t # t
    <3>1. \A h \in Goroutines : Holds(h, t)' => Holds(h, t)
      BY <2>1, <2>4 DEF Holds
    <3> QED BY <1>1, <1>2, <3>1, OnePlaceKept
  <2> QED BY <2>3, <2>4
<1>4. CASE ~Run(g, add[g].t)
  <2>1. add'[g].t = add[g].t /\ \A h \in Goroutines : h # g => add'[h] = add[h]
    BY <1>1, <1>4 DEF AddLoad, AddStates
  <2>2. \A h \in Goroutines : Holds(h, t)' => Holds(h, t)
    BY <1>1, <2>1, HoldsKept
  <2> QED BY <1>1, <1>2, <2>2, OnePlaceKept
<1> QED BY <1>3, <1>4

LEMMA O_Add ==
  ASSUME TInv, OnePlaceInv, NEW g \in Goroutines,
         AddOverflow(g) \/ SetExpiration(g) \/ Offer(g) \/ Reschedule(g)
  PROVE  OnePlaceInv'
<1> SUFFICES ASSUME NEW t \in Timers PROVE OnePlace(t)'
  BY DEF OnePlaceInv
<1>1. add \in [Goroutines -> AddStates] /\ OnePlace(t)
  BY DEF TInv, TypeOK, AddStates, OnePlaceInv
<1>2. UNCHANGED bucketOf
  BY DEF AddOverflow, SetExpiration, Offer, Reschedule
<1>3. \A h \in Goroutines : h # g => add'[h] = add[h]
  BY <1>1 DEF AddOverflow, SetExpiration, Offer, Reschedule, Idled
<1>4. add'[g].pc \in {"idle", "offer"} \/ (add'[g].t = add[g].t /\ add[g].pc \in {"overflow", "task"})
  BY <1>1 DEF AddOverflow, SetExpiration, Offer, Reschedule, Idled, AddStates
<1>5. \A h \in Goroutines : Holds(h, t)' => Holds(h, t)
  BY <1>3, <1>4 DEF Holds
<1> QED BY <1>1, <1>2, <1>5, OnePlaceKept

LEMMA O_BucketAdd == ASSUME TInv, OnePlaceInv, NEW g \in Goroutines, BucketAdd(g) PROVE OnePlaceInv'
<1> SUFFICES ASSUME NEW t \in Timers PROVE OnePlace(t)'
  BY DEF OnePlaceInv
<1>1. add \in [Goroutines -> AddStates] /\ OnePlace(t) /\ add[g].pc = "add" /\ add[g].t \in Timers
  BY Chosen DEF OnePlaceInv, BucketAdd
<1>2. add'[g].pc = "set" /\ \A h \in Goroutines : h # g => add'[h] = add[h]
  BY <1>1 DEF BucketAdd, AddStates
<1>3. \A h \in Goroutines : Holds(h, t)' => h # g /\ Holds(h, t)
  BY <1>2 DEF Holds
<1>4. \A u \in Timers : u # add[g].t => bucketOf'[u] = bucketOf[u]
  BY <1>1 DEF BucketAdd, TInv, TypeOK
<1>5. CASE add[g].t = t
  <2>1. Holds(g, t)
    BY <1>1, <1>5 DEF Holds
  <2>2. \A h \in Goroutines : ~Holds(h, t)'
    BY <1>1, <1>3, <2>1 DEF OnePlace
  <2> QED BY <2>2 DEF OnePlace
<1>6. CASE add[g].t # t
  BY <1>1, <1>3, <1>4, <1>6, OnePlaceKept
<1> QED BY <1>5, <1>6

LEMMA O_AfterFunc ==
  ASSUME TInv, OnePlaceInv, NEW u \in Timers, NEW d \in Delays, AfterFunc(u, d)
  PROVE  OnePlaceInv'
<1> SUFFICES ASSUME NEW t \in Timers PROVE OnePlace(t)'
  BY DEF OnePlaceInv
<1> DEFINE k == <<u, 0>>  r == [Idle EXCEPT !.pc = "load", !.t = u]
<1>1. add \in [Goroutines -> AddStates] /\ OnePlace(t) /\ k \in Goroutines
  BY TimeAssumption DEF TInv, TypeOK, AddStates, OnePlaceInv
<1>2. u \notin created /\ UNCHANGED bucketOf
  BY DEF AfterFunc
<1>3. r.t = u
  BY DEF AddStates
<1>4. add' = [add EXCEPT ![k] = r]
  BY DEF AfterFunc
<1> HIDE DEF k, r
<1>5. add'[k].t = u /\ \A h \in Goroutines : h # k => add'[h] = add[h]
  BY <1>1, <1>3, <1>4
<1>6. CASE u = t
  <2>1. \A h \in Goroutines : ~Holds(h, t)
    BY <1>2, <1>6 DEF Holds, TInv, StepInv, StepOK
  <2>2. bucketOf[t] = None
    BY <1>2, <1>6 DEF TInv, TaskInv
  <2>3. \A h \in Goroutines : Holds(h, t)' => h = k
    BY <1>5, <2>1 DEF Holds
  <2> QED BY <1>2, <2>2, <2>3 DEF OnePlace
<1>7. CASE u # t
  <2>1. \A h \in Goroutines : Holds(h, t)' => Holds(h, t)
    BY <1>5, <1>7 DEF Holds
  <2> QED BY <1>1, <1>2, <2>1, OnePlaceKept
<1> QED BY <1>6, <1>7

LEMMA O_StopRemove == ASSUME TInv, OnePlaceInv, NEW u \in Stopped, StopRemove(u) PROVE OnePlaceInv'
<1> SUFFICES ASSUME NEW t \in Timers PROVE OnePlace(t)'
  BY DEF OnePlaceInv
<1>1. OnePlace(t) /\ bucketOf \in [Timers -> Buckets \cup {None}]
  BY DEF TInv, TypeOK, OnePlaceInv
<1>2. \A h \in Goroutines : Holds(h, t)' => Holds(h, t)
  BY DEF StopRemove, Holds
<1>3. bucketOf'[t] = bucketOf[t] \/ bucketOf'[t] = None
  BY <1>1 DEF StopRemove, remove
<1> QED BY <1>1, <1>2, <1>3, OnePlaceKept

LEMMA O_FlushNext == ASSUME TInv, OnePlaceInv, FlushNext PROVE OnePlaceInv'
<1> SUFFICES ASSUME NEW t \in Timers PROVE OnePlace(t)'
  BY DEF OnePlaceInv
<1>1. PICK u \in Timers :
        /\ bucketOf[u] = wk.b
        /\ bucketOf' = [bucketOf EXCEPT ![u] = None]
        /\ add' = [add EXCEPT ![Worker] = [Idle EXCEPT !.pc = "load", !.t = u]]
  BY DEF FlushNext
<1> DEFINE r == [Idle EXCEPT !.pc = "load", !.t = u]
<1>2. /\ add \in [Goroutines -> AddStates] /\ bucketOf \in [Timers -> Buckets \cup {None}] /\ OnePlace(t)
      /\ wk.b \in Buckets
  BY DEF TInv, TypeOK, AddStates, WorkerInv, FlushNext, OnePlaceInv
<1>3. r.t = u
  OBVIOUS
<1> HIDE DEF r
<1>4. add'[Worker].t = u /\ \A h \in Goroutines : h # Worker => add'[h] = add[h]
  BY <1>1, <1>2, <1>3 DEF r
<1>5. bucketOf[u] # None
  BY <1>1, <1>2, NamesAssumption DEF Buckets
<1>6. CASE u = t
  <2>1. \A h \in Goroutines : Holds(h, t)' => h = Worker
    BY <1>2, <1>4, <1>5, <1>6 DEF Holds, OnePlace
  <2>2. bucketOf'[t] = None
    BY <1>1, <1>2, <1>6
  <2> QED BY <2>1, <2>2 DEF OnePlace
<1>7. CASE u # t
  <2>1. \A h \in Goroutines : Holds(h, t)' => Holds(h, t)
    BY <1>4, <1>7 DEF Holds
  <2>2. bucketOf'[t] = bucketOf[t]
    BY <1>1, <1>2, <1>7
  <2> QED BY <1>2, <2>1, <2>2, OnePlaceKept
<1> QED BY <1>6, <1>7

LEMMA O_Other == ASSUME OnePlaceInv, UNCHANGED <<add, bucketOf>> PROVE OnePlaceInv'
<1> SUFFICES ASSUME NEW t \in Timers PROVE OnePlace(t)'
  BY DEF OnePlaceInv
<1> QED BY OnePlaceKept DEF OnePlaceInv, Holds

LEMMA OnePlaceInit == Init => OnePlaceInv
<1> SUFFICES ASSUME Init, NEW t \in Timers PROVE OnePlace(t)
  BY DEF OnePlaceInv
<1>1. \A g \in Goroutines : add[g].pc = "idle"
  BY DEF Init
<1> QED BY <1>1 DEF OnePlace, Holds

LEMMA OnePlaceStep == TInv /\ OnePlaceInv /\ [Next]_vars => OnePlaceInv'
<1> SUFFICES ASSUME TInv, OnePlaceInv, [Next]_vars PROVE OnePlaceInv'
  OBVIOUS
<1>1. CASE UNCHANGED vars \/ Stop \/ Poll \/ Tick
  BY <1>1, O_Other DEF vars, Stop, Poll, Tick
<1>2. CASE WorkerStep
  <2>1. CASE FlushNext
    BY <2>1, O_FlushNext
  <2>2. CASE ~FlushNext
    BY <1>2, <2>2, O_Other DEF WorkerStep, Receive, ReadExpiration, advanceClock, FlushBack, FlushEnd, Exit
  <2> QED BY <2>1, <2>2
<1>3. ASSUME NEW g \in Goroutines, Add(g) \/ Reschedule(g) PROVE OnePlaceInv'
  BY <1>3, O_AddLoad, O_Add, O_BucketAdd DEF Add
<1>4. ASSUME NEW t \in Stopped, StopRead(t) PROVE OnePlaceInv'
  BY <1>4, O_Other DEF StopRead
<1> QED BY <1>1, <1>2, <1>3, <1>4, O_AfterFunc, O_StopRemove DEF Next

-----------------------------------------------------------------------------
(* The clocks, and what add concludes from them.                            *)

\* A clock is a multiple of its tick; a wheel that does not exist has none yet.
ClockInv ==
  /\ \A w \in Wheels : clock[w] >= 0 /\ Multiple(clock[w], TickOf[w])
  /\ \A w \in Wheels : top < w => clock[w] = 0

\* What a goroutine inside add has found out about its timer still holds,
\* because clocks do not go back.
ChoiceOK(r) ==
  /\ r.w <= top
  /\ r.pc = "overflow" => 0 <= r.vexp /\ r.vexp <= clock[r.w]
  /\ r.pc \in {"add", "set", "offer"} =>
       Multiple(r.vexp, TickOf[r.w]) /\ r.vexp < clock[r.w] + Interval(r.w)
  /\ r.pc = "add" => r.vexp = truncate(exp[r.t], TickOf[r.w])
ChoiceInv == \A g \in Goroutines : ChoiceOK(add[g])

\* The bucket that holds a timer is that of its expiration.
Filed(t, b) ==
  LET x == truncate(exp[t], TickOf[b[1]]) IN
  BucketAt(b[1], x) = b /\ x < clock[b[1]] + Interval(b[1])
FiledInv == \A t \in Timers : bucketOf[t] # None => Filed(t, bucketOf[t])

\* While Flush reinserts a timer, the wheels it has been too far for stand still.
PassedOK(r) ==
  /\ r.pc \in {"load", "add"} /\ r.w > 1 => exp[r.t] >= clock[r.w - 1] + Interval(r.w - 1)
  /\ r.pc = "overflow" => exp[r.t] >= clock[r.w] + Interval(r.w)
  /\ r.pc = "add" => exp[r.t] >= clock[r.w] + TickOf[r.w]
PassedInv == PassedOK(add[Worker])

FlowInv == ClockInv /\ ChoiceInv /\ FiledInv /\ PassedInv

ClocksGrow == top <= top' /\ \A w \in Wheels : clock[w] <= clock'[w]

\* The types the arithmetic needs.
LEMMA FlowTypes ==
  ASSUME TInv
  PROVE  /\ add \in [Goroutines -> AddStates] /\ exp \in [Timers -> Nat]
         /\ clock \in [Wheels -> Int] /\ top \in Wheels /\ now \in Nat
         /\ bucketOf \in [Timers -> Buckets \cup {None}] /\ expiration \in [Buckets -> Int]
         /\ queue \subseteq [b : Buckets, e : Int, by : Goroutines]
         /\ wk \in WorkerStates /\ polled \in Buckets \cup {None}
         /\ 1 \in Wheels /\ None \notin Buckets
<1>1. TypeOK
  BY DEF TInv
<1>2. now \in Nat
  BY <1>1, TimeAssumption DEF TypeOK
<1>3. 1 \in Wheels /\ None \notin Buckets
  BY WheelAssumption, NamesAssumption DEF Buckets
<1> QED BY <1>1, <1>2, <1>3 DEF TypeOK, AddStates, WorkerStates

\* A step gives no new expiration to a timer in a bucket or on its way into one.
LEMMA ExpStays ==
  ASSUME TInv, OnePlaceInv, [Next]_vars, NEW u \in Timers,
         bucketOf[u] # None \/ \E h \in Goroutines : add[h].t = u /\ add[h].pc \in {"load", "overflow", "add"}
  PROVE  exp'[u] = exp[u]
<1>1. exp \in [Timers -> Nat] /\ add \in [Goroutines -> AddStates]
  BY FlowTypes
<1>2. u \in created
  BY DEF TInv, TaskInv, StepInv, StepOK
<1>3. ASSUME NEW t \in Timers, NEW d \in Delays, AfterFunc(t, d) PROVE exp'[u] = exp[u]
  BY <1>1, <1>2, <1>3 DEF AfterFunc
<1>4. ASSUME NEW g \in Goroutines, Reschedule(g) PROVE exp'[u] = exp[u]
  <2>1. add[g].pc = "task"
    BY <1>4 DEF Reschedule
  <2>2. add[g].t # u
    BY <2>1 DEF Holds, OnePlaceInv, OnePlace
  <2> QED BY <1>1, <1>4, <2>2 DEF Reschedule
<1>5. ASSUME NEW g \in Goroutines, Add(g) PROVE exp'[u] = exp[u]
  BY <1>5 DEF Add, AddLoad, AddOverflow, BucketAdd, SetExpiration, Offer
<1>6. CASE WorkerStep
  BY <1>6 DEF WorkerStep, Receive, ReadExpiration, advanceClock, FlushNext, FlushBack, FlushEnd, Exit
<1>7. ASSUME NEW t \in Stopped, StopRead(t) \/ StopRemove(t) PROVE exp'[u] = exp[u]
  BY <1>7 DEF StopRead, StopRemove
<1>8. CASE UNCHANGED vars \/ Stop \/ Poll \/ Tick
  BY <1>8 DEF vars, Stop, Poll, Tick
<1> QED BY <1>3, <1>4, <1>5, <1>6, <1>7, <1>8 DEF Next

\* The last multiple of a tick below a natural number is one.
LEMMA TruncateNat ==
  ASSUME NEW x \in Int, NEW m \in Nat, m > 0, 0 <= x
  PROVE  0 <= truncate(x, m)
<1>0. truncate(x, m) \in Int /\ Multiple(truncate(x, m), m) /\ x < truncate(x, m) + m
  BY TruncateIs
<1>1. 0 < truncate(x, m) + m
  BY <1>0
<1>2. 0 * m = 0
  OBVIOUS
<1>3. (0 * m) \div m = 0
  BY DivMul
<1>4. Multiple(0, m)
  BY <1>2, <1>3 DEF Multiple
<1> QED BY <1>0, <1>1, <1>4, NearMultiples

\* A new overflow wheel starts behind the wheel below it.
LEMMA C_AddOverflow ==
  ASSUME TInv, ClockInv, ChoiceInv, NEW g \in Goroutines, AddOverflow(g)
  PROVE  /\ ClockInv' /\ ClocksGrow
         /\ \A w \in Wheels : w <= top => clock'[w] = clock[w]
         /\ \E v \in Wheels : \A w \in Wheels : clock'[w] = clock[w] \/ clock'[w] <= clock[v]
         /\ add[g].w + 1 \in Wheels /\ add[g].w + 1 <= top'
<1> DEFINE w == add[g].w  v == add[g].vexp
<1>1. /\ add \in [Goroutines -> AddStates] /\ clock \in [Wheels -> Int] /\ top \in Wheels /\ Levels \in Nat
      /\ add[g].pc = "overflow" /\ w < Levels
  BY FlowTypes, WheelAssumption DEF AddOverflow, TInv, StepInv, StepOK
<1>2. w \in Wheels /\ w + 1 \in Wheels /\ v \in Int /\ w <= top /\ 0 <= v /\ v <= clock[w]
  BY <1>1 DEF AddStates, ChoiceInv, ChoiceOK
<1>3. CASE top > w
  BY <1>1, <1>2, <1>3 DEF AddOverflow, ClockInv, ClocksGrow
<1>4. CASE ~(top > w)
  <2> DEFINE c == truncate(v, TickOf[w + 1])
  <2>1. TickOf[w + 1] \in Nat /\ TickOf[w + 1] > 0
    BY <1>2, WheelNumbers
  <2>2. c \in Int /\ Multiple(c, TickOf[w + 1]) /\ 0 <= c /\ c <= v
    BY <1>2, <2>1, TruncateIs, TruncateNat
  <2>3. top = w /\ top' = w + 1 /\ clock' = [clock EXCEPT ![w + 1] = c]
    BY <1>1, <1>2, <1>4 DEF AddOverflow
  <2> HIDE DEF c
  <2>4. clock[w + 1] = 0
    BY <1>1, <1>2, <2>3 DEF ClockInv
  <2>5. \A u \in Wheels : clock'[u] = IF u = w + 1 THEN c ELSE clock[u]
    BY <1>1, <2>3
  <2>6. ClockInv'
    BY <1>1, <1>2, <2>2, <2>3, <2>5 DEF ClockInv
  <2>7. ClocksGrow
    BY <1>1, <1>2, <2>2, <2>3, <2>4, <2>5 DEF ClocksGrow
  <2>8. \A u \in Wheels : u <= top => clock'[u] = clock[u]
    BY <1>1, <1>2, <2>3, <2>5
  <2>9. \A u \in Wheels : clock'[u] = clock[u] \/ clock'[u] <= clock[w]
    BY <1>1, <1>2, <2>2, <2>5
  <2> QED BY <1>1, <1>2, <2>3, <2>6, <2>7, <2>8, <2>9
<1> QED BY <1>3, <1>4

\* advanceClock moves one clock on, to a multiple of its tick.
LEMMA C_advanceClock ==
  ASSUME TInv, ClockInv, advanceClock
  PROVE  /\ ClockInv' /\ ClocksGrow
         /\ \A w \in Wheels : clock'[w] = clock[w] \/ clock'[w] <= wk.e
         /\ wk'.pc = "advance" => /\ wk'.e <= wk.e /\ wk'.w > 1
                                  /\ wk.w = 1 => wk.e < clock'[1] + TickOf[1]
<1>1. /\ clock \in [Wheels -> Int] /\ top \in Wheels /\ wk \in WorkerStates /\ Levels \in Nat /\ wk.pc = "advance"
      /\ UNCHANGED top /\ 1 \in Wheels
  BY FlowTypes, WheelAssumption DEF advanceClock
<1> DEFINE w == wk.w  c == truncate(wk.e, TickOf[wk.w])
<1>2. w \in 1..Levels + 1 /\ wk.e \in Int
  BY <1>1 DEF WorkerStates
<1>3. CASE w <= top /\ wk.e >= clock[w] + TickOf[w] /\ clock' = [clock EXCEPT ![w] = c] /\ wk' = [wk EXCEPT !.w = @ + 1, !.e = c]
  <2>1. w \in Wheels
    BY <1>1, <1>2, <1>3
  <2>2. TickOf[w] \in Nat /\ TickOf[w] > 0
    BY <2>1, WheelNumbers
  <2>3. c \in Int /\ Multiple(c, TickOf[w]) /\ c <= wk.e /\ wk.e < c + TickOf[w]
    BY <1>2, <2>2, TruncateIs
  <2>4. wk'.e = c /\ wk'.w = w + 1 /\ wk'.pc = "advance"
    BY <1>1, <1>3 DEF WorkerStates
  <2>5. clock[w] <= c
    BY <1>1, <1>2, <1>3, <2>1, <2>2, <2>3
  <2> HIDE DEF c
  <2>6. \A u \in Wheels : clock'[u] = IF u = w THEN c ELSE clock[u]
    BY <1>1, <1>3, <2>1
  <2>7. ClockInv'
    BY <1>1, <1>2, <1>3, <2>1, <2>3, <2>5, <2>6 DEF ClockInv
  <2>8. ClocksGrow
    BY <1>1, <2>1, <2>3, <2>5, <2>6 DEF ClocksGrow
  <2> QED BY <1>1, <1>2, <2>1, <2>3, <2>4, <2>6, <2>7, <2>8
<1>4. CASE wk' = [wk EXCEPT !.pc = "flush"] /\ UNCHANGED clock
  <2>1. wk'.pc = "flush"
    BY <1>1, <1>4 DEF WorkerStates
  <2> QED BY <1>1, <1>4, <2>1 DEF ClockInv, ClocksGrow
<1> QED BY <1>3, <1>4 DEF advanceClock

\* Clocks never go back, and stay multiples of their tick.
LEMMA ClockStep ==
  ASSUME TInv, ClockInv, ChoiceInv, [Next]_vars
  PROVE  ClockInv' /\ ClocksGrow
<1>1. CASE UNCHANGED <<top, clock>>
  BY <1>1, FlowTypes DEF ClockInv, ClocksGrow
<1>2. CASE ~UNCHANGED <<top, clock>>
  <2>1. CASE WorkerStep
    BY <1>2, <2>1, C_advanceClock DEF WorkerStep, Receive, ReadExpiration, FlushNext, FlushBack, FlushEnd, Exit
  <2>2. ASSUME NEW g \in Goroutines, Add(g) \/ Reschedule(g) PROVE ClockInv' /\ ClocksGrow
    BY <1>2, <2>2, C_AddOverflow DEF Add, AddLoad, BucketAdd, SetExpiration, Offer, Reschedule
  <2> QED BY <1>2, <2>1, <2>2 DEF Next, vars, Stop, Poll, Tick, AfterFunc, StopRead, StopRemove
<1> QED BY <1>1, <1>2

\* A goroutine that takes no step, and one that has found nothing out yet.
LEMMA ChoiceKept ==
  ASSUME TInv, OnePlaceInv, ChoiceInv, [Next]_vars, ClocksGrow, NEW h \in Goroutines, add'[h] = add[h]
  PROVE  ChoiceOK(add[h])'
<1>1. /\ add \in [Goroutines -> AddStates] /\ clock \in [Wheels -> Int] /\ top \in Wheels
      /\ top' \in Wheels /\ clock' \in [Wheels -> Int]
  BY FlowTypes, TInvStep DEF TInv, TypeOK
<1>2. add[h].w \in Wheels /\ add[h].vexp \in Int /\ Interval(add[h].w) \in Nat /\ clock[add[h].w] <= clock'[add[h].w]
  BY <1>1, WheelNumbers DEF AddStates, ClocksGrow
<1>3. add[h].pc = "add" => exp'[add[h].t] = exp[add[h].t]
  BY Chosen, ExpStays
<1>4. ChoiceOK(add[h]) /\ top <= top'
  BY DEF ChoiceInv, ClocksGrow
<1> QED BY <1>1, <1>2, <1>3, <1>4 DEF ChoiceOK

LEMMA ChoiceFree ==
  ASSUME NEW h \in Goroutines, add'[h].pc \in {"idle", "task", "load"}, add'[h].w <= top'
  PROVE  ChoiceOK(add[h])'
  BY DEF ChoiceOK

LEMMA F_AddLoad ==
  ASSUME TInv, OnePlaceInv, ClockInv, ChoiceInv, ClocksGrow, [Next]_vars, NEW g \in Goroutines, AddLoad(g)
  PROVE  ChoiceInv'
<1> SUFFICES ASSUME NEW h \in Goroutines, add'[h] # add[h] PROVE ChoiceOK(add[h])'
  BY ChoiceKept DEF ChoiceInv
<1> DEFINE w == add[g].w  t == add[g].t
<1>1. /\ add \in [Goroutines -> AddStates] /\ exp \in [Timers -> Nat] /\ clock \in [Wheels -> Int] /\ top \in Wheels
      /\ 1 \in Wheels
  BY FlowTypes
<1>2. /\ add[g].pc = "load" /\ t \in Timers /\ w \in Wheels /\ w <= top
      /\ UNCHANGED <<exp, clock, top, created, bucketOf, wk>>
  BY <1>1 DEF AddLoad, TInv, StepInv, StepOK, TypeOK, AddStates, ChoiceInv, ChoiceOK
<1>3. CASE Run(g, t)
  <2>1. add'[h].pc \in {"idle", "task"} /\ add'[h].w = 1
    BY <1>2, <1>3, RunStep
  <2> QED BY <1>1, <1>2, <2>1, ChoiceFree
<1>4. CASE /\ exp[t] < clock[w] + Interval(w)
           /\ add' = [add EXCEPT ![g].pc = "add", ![g].vexp = (exp[t] \div TickOf[w]) * TickOf[w]]
  <2>1. exp[t] \in Int /\ TickOf[w] \in Nat /\ TickOf[w] > 0 /\ clock[w] \in Int /\ Interval(w) \in Nat
    BY <1>1, <1>2, WheelNumbers
  <2> DEFINE x == truncate(exp[t], TickOf[w])
  <2>2. x = (exp[t] \div TickOf[w]) * TickOf[w] /\ Multiple(x, TickOf[w]) /\ x \in Int /\ x <= exp[t]
    BY <2>1, TruncateIs
  <2>3. x < clock[w] + Interval(w)
    BY <1>4, <2>1, <2>2
  <2>4. h = g /\ add'[g].pc = "add" /\ add'[g].t = t /\ add'[g].w = w /\ add'[g].vexp = x
    BY <1>1, <1>4, <2>2 DEF AddStates
  <2> HIDE DEF x
  <2>5. x = truncate(exp[t], TickOf[w])
    BY DEF x
  <2> QED BY <1>2, <2>2, <2>3, <2>4, <2>5 DEF ChoiceOK
<1>5. CASE add' = [add EXCEPT ![g].pc = "overflow", ![g].vexp = clock[w]]
  <2>1. h = g /\ add'[g].pc = "overflow" /\ add'[g].w = w /\ add'[g].vexp = clock[w]
    BY <1>1, <1>5 DEF AddStates
  <2>2. clock[w] \in Int /\ 0 <= clock[w]
    BY <1>1, <1>2 DEF ClockInv
  <2> QED BY <1>2, <2>1, <2>2 DEF ChoiceOK
<1> QED BY <1>3, <1>4, <1>5 DEF AddLoad

LEMMA F_Add ==
  ASSUME TInv, OnePlaceInv, ClockInv, ChoiceInv, ClocksGrow, [Next]_vars, NEW g \in Goroutines,
         AddOverflow(g) \/ BucketAdd(g) \/ SetExpiration(g) \/ Offer(g) \/ Reschedule(g)
  PROVE  ChoiceInv'
<1> SUFFICES ASSUME NEW h \in Goroutines, add'[h] # add[h] PROVE ChoiceOK(add[h])'
  BY ChoiceKept DEF ChoiceInv
<1>1. /\ add \in [Goroutines -> AddStates] /\ ChoiceOK(add[g]) /\ top \in Wheels /\ 1 <= top
  BY FlowTypes DEF ChoiceInv
<1>2. h = g
  BY <1>1 DEF AddOverflow, BucketAdd, SetExpiration, Offer, Reschedule, Idled
<1>3. CASE AddOverflow(g)
  <2>1. add'[g].pc = "load" /\ add'[g].w = add[g].w + 1
    BY <1>1, <1>3 DEF AddOverflow, AddStates
  <2>2. add[g].w + 1 <= top'
    BY <1>3, C_AddOverflow
  <2> QED BY <1>2, <2>1, <2>2, ChoiceFree
<1>4. CASE add' = Idled(g) /\ UNCHANGED top
  <2>1. Moves(g, "idle", None, 1, 0)
    BY <1>4, IdledMoves
  <2> QED BY <1>1, <1>2, <1>4, <2>1, ChoiceFree DEF Moves
<1>5. CASE add' = [add EXCEPT ![g].pc = "load"] /\ UNCHANGED top
  <2>1. add'[g].pc = "load" /\ add'[g].w = add[g].w
    BY <1>1, <1>5 DEF AddStates
  <2> QED BY <1>1, <1>2, <1>5, <2>1, ChoiceFree DEF ChoiceOK
<1>6. ASSUME NEW p \in {"set", "offer"}, add' = [add EXCEPT ![g].pc = p],
             add[g].pc \in {"add", "set"}, UNCHANGED <<top, clock>>
      PROVE  ChoiceOK(add[h])'
  <2>1. add'[g].pc = p /\ add'[g].w = add[g].w /\ add'[g].vexp = add[g].vexp
    BY <1>1, <1>6 DEF AddStates
  <2> QED BY <1>1, <1>2, <1>6, <2>1 DEF ChoiceOK
<1> QED BY <1>3, <1>4, <1>5, <1>6 DEF AddOverflow, BucketAdd, SetExpiration, Offer, Reschedule

\* The entry into add, of a user's goroutine and of the worker.
LEMMA F_Enter ==
  ASSUME TInv, OnePlaceInv, ChoiceInv, ClocksGrow, [Next]_vars,
         NEW k \in Goroutines, NEW t \in Timers,
         add' = [add EXCEPT ![k] = [Idle EXCEPT !.pc = "load", !.t = t]], UNCHANGED top
  PROVE  ChoiceInv'
<1> DEFINE r == [Idle EXCEPT !.pc = "load", !.t = t]
<1>1. add \in [Goroutines -> AddStates] /\ top \in Wheels /\ 1 <= top
  BY FlowTypes
<1>2. r.pc = "load" /\ r.w = 1 /\ add' = [add EXCEPT ![k] = r]
  OBVIOUS
<1> HIDE DEF r
<1>3. add'[k] = r /\ \A h \in Goroutines : h # k => add'[h] = add[h]
  BY <1>1, <1>2
<1>4. ChoiceOK(add[k])'
  BY <1>1, <1>2, <1>3, ChoiceFree
<1> QED BY <1>3, <1>4, ChoiceKept DEF ChoiceInv

LEMMA ChoiceStep ==
  ASSUME TInv, OnePlaceInv, ClockInv, ChoiceInv, ClocksGrow, [Next]_vars
  PROVE  ChoiceInv'
<1>1. CASE UNCHANGED add
  BY <1>1, ChoiceKept DEF ChoiceInv
<1>2. CASE FlushNext
  BY <1>2, F_Enter DEF FlushNext
<1>3. ASSUME NEW t \in Timers, NEW d \in Delays, AfterFunc(t, d) PROVE ChoiceInv'
  <2>1. <<t, 0>> \in Goroutines
    BY TimeAssumption
  <2> QED BY <1>3, <2>1, F_Enter DEF AfterFunc
<1>4. ASSUME NEW g \in Goroutines, Add(g) \/ Reschedule(g) PROVE ChoiceInv'
  BY <1>4, F_AddLoad, F_Add DEF Add
<1>5. ASSUME NEW t \in Stopped, StopRead(t) \/ StopRemove(t) PROVE ChoiceInv'
  BY <1>1, <1>5 DEF StopRead, StopRemove
<1>6. CASE WorkerStep
  BY <1>1, <1>2, <1>6 DEF WorkerStep, Receive, ReadExpiration, advanceClock, FlushBack, FlushEnd, Exit
<1>7. CASE UNCHANGED vars \/ Stop \/ Poll \/ Tick
  BY <1>1, <1>7 DEF vars, Stop, Poll, Tick
<1> QED BY <1>3, <1>4, <1>5, <1>6, <1>7 DEF Next

\* A timer stays filed under its expiration.
LEMMA FiledStep ==
  ASSUME TInv, OnePlaceInv, ClockInv, ChoiceInv, FiledInv, ClocksGrow, [Next]_vars
  PROVE  FiledInv'
<1> SUFFICES ASSUME NEW t \in Timers, bucketOf'[t] # None PROVE Filed(t, bucketOf[t])'
  BY DEF FiledInv
<1>1. /\ add \in [Goroutines -> AddStates] /\ exp \in [Timers -> Nat] /\ clock \in [Wheels -> Int]
      /\ bucketOf \in [Timers -> Buckets \cup {None}] /\ clock' \in [Wheels -> Int]
  BY FlowTypes, TInvStep DEF TInv, TypeOK
<1>2. CASE bucketOf'[t] = bucketOf[t]
  <2>1. exp'[t] = exp[t] /\ Filed(t, bucketOf[t])
    BY <1>2, ExpStays DEF FiledInv
  <2> DEFINE w == bucketOf[t][1]
  <2>2. w \in Wheels
    BY <1>1, <1>2 DEF Buckets
  <2>3. /\ clock[w] <= clock'[w] /\ clock[w] \in Int /\ clock'[w] \in Int /\ Interval(w) \in Nat
        /\ truncate(exp[t], TickOf[w]) \in Int
    <3>1. exp[t] \in Int /\ TickOf[w] \in Nat /\ TickOf[w] > 0 /\ Interval(w) \in Nat
      BY <1>1, <2>2, WheelNumbers
    <3>2. truncate(exp[t], TickOf[w]) \in Int
      BY <3>1, TruncateIs
    <3> QED BY <1>1, <2>2, <3>1, <3>2 DEF ClocksGrow
  <2> QED BY <1>2, <2>1, <2>3 DEF Filed
<1>3. CASE bucketOf'[t] # bucketOf[t]
  <2>1. PICK g \in Goroutines : BucketAdd(g)
    <3>1. ASSUME NEW g \in Goroutines, Add(g) \/ Reschedule(g), ~BucketAdd(g) PROVE FALSE
      BY <1>3, <3>1 DEF Add, AddLoad, AddOverflow, SetExpiration, Offer, Reschedule
    <3>2. ASSUME WorkerStep PROVE FALSE
      BY <1>1, <1>3, <3>2 DEF WorkerStep, Receive, ReadExpiration, advanceClock, FlushNext, FlushBack, FlushEnd, Exit
    <3>3. ASSUME NEW u \in Stopped, StopRead(u) \/ StopRemove(u) PROVE FALSE
      BY <1>1, <1>3, <3>3 DEF StopRead, StopRemove, remove
    <3> QED BY <1>3, <3>1, <3>2, <3>3 DEF Next, vars, Stop, Poll, Tick, AfterFunc
  <2>2. /\ add[g].pc = "add" /\ t = add[g].t /\ bucketOf'[t] = Bucket(g) /\ add[g].w \in Wheels
        /\ UNCHANGED <<exp, clock>>
    BY <1>1, <1>3, <2>1 DEF BucketAdd, AddStates
  <2>3. Bucket(g)[1] = add[g].w /\ Bucket(g) = BucketAt(add[g].w, add[g].vexp)
    BY DEF Bucket, BucketAt
  <2>4. add[g].vexp = truncate(exp[t], TickOf[add[g].w]) /\ add[g].vexp < clock[add[g].w] + Interval(add[g].w)
    BY <2>2 DEF ChoiceInv, ChoiceOK
  <2> QED BY <2>2, <2>3, <2>4 DEF Filed
<1> QED BY <1>2, <1>3

\* While the worker reinserts a timer, the clocks it has read stand still.
LEMMA PassedKept ==
  ASSUME TInv, OnePlaceInv, ChoiceInv, PassedInv, [Next]_vars, add'[Worker] = add[Worker],
         add[Worker].pc \in {"load", "overflow", "add"} => \A w \in Wheels : w <= top => clock'[w] = clock[w]
  PROVE  PassedInv'
<1> DEFINE r == add[Worker]
<1>1. CASE ~(r.pc \in {"load", "overflow", "add"})
  BY <1>1 DEF PassedInv, PassedOK
<1>2. CASE r.pc \in {"load", "overflow", "add"}
  <2>1. r.t \in Timers /\ r.w \in Wheels /\ r.w <= top /\ top \in Wheels
    BY <1>2, FlowTypes DEF AddStates, TInv, StepInv, StepOK, TypeOK, ChoiceInv, ChoiceOK
  <2>2. exp'[r.t] = exp[r.t]
    BY <1>2, <2>1, ExpStays
  <2>3. clock'[r.w] = clock[r.w] /\ (r.w > 1 => clock'[r.w - 1] = clock[r.w - 1])
    <3>1. r.w > 1 => r.w - 1 \in Wheels /\ r.w - 1 <= top
      BY <2>1, WheelAssumption
    <3> QED BY <1>2, <2>1, <3>1
  <2> QED BY <2>2, <2>3 DEF PassedInv, PassedOK
<1> QED BY <1>1, <1>2

LEMMA PassedStep ==
  ASSUME TInv, OnePlaceInv, ClockInv, ChoiceInv, PassedInv, [Next]_vars
  PROVE  PassedInv'
<1> DEFINE r == add[Worker]  w == r.w  t == r.t
<1>1. /\ add \in [Goroutines -> AddStates] /\ exp \in [Timers -> Nat] /\ clock \in [Wheels -> Int] /\ top \in Wheels
      /\ r.pc # "task" /\ w \in Wheels
  BY FlowTypes DEF AddStates, TInv, WorkerInv
<1>2. CASE AddLoad(Worker)
  <2>1. t \in Timers /\ UNCHANGED <<exp, clock, created, bucketOf, wk>> /\ r.pc = "load"
    BY <1>2 DEF AddLoad, TInv, StepInv, StepOK, TypeOK
  <2>2. CASE Run(Worker, t)
    <3>1. add'[Worker].pc = "idle"
      BY <2>1, <2>2, RunStep
    <3> QED BY <3>1 DEF PassedInv, PassedOK
  <2>3. exp[t] \in Int /\ TickOf[w] \in Nat /\ clock[w] \in Int /\ Interval(w) \in Nat
    BY <1>1, <2>1, WheelNumbers
  <2>4. CASE ~Expired(w, t) /\ add' = [add EXCEPT ![Worker].pc = "add", ![Worker].vexp = (exp[t] \div TickOf[w]) * TickOf[w]]
    <3>1. add'[Worker].pc = "add" /\ add'[Worker].w = w /\ add'[Worker].t = t
      BY <1>1, <2>4 DEF AddStates
    <3>2. exp[t] >= clock[w] + TickOf[w]
      BY <2>3, <2>4 DEF Expired
    <3> QED BY <2>1, <3>1, <3>2 DEF PassedInv, PassedOK
  <2>5. CASE exp[t] >= clock[w] + Interval(w) /\ add' = [add EXCEPT ![Worker].pc = "overflow", ![Worker].vexp = clock[w]]
    <3>1. add'[Worker].pc = "overflow" /\ add'[Worker].w = w /\ add'[Worker].t = t
      BY <1>1, <2>5 DEF AddStates
    <3> QED BY <2>1, <2>5, <3>1 DEF PassedInv, PassedOK
  <2> QED BY <1>2, <2>2, <2>4, <2>5 DEF AddLoad
<1>3. CASE AddOverflow(Worker)
  <2>1. add'[Worker].pc = "load" /\ add'[Worker].w = w + 1 /\ add'[Worker].t = t /\ UNCHANGED exp /\ r.pc = "overflow"
    BY <1>1, <1>3 DEF AddOverflow, AddStates
  <2>2. w <= top
    BY DEF ChoiceInv, ChoiceOK
  <2>3. clock'[w] = clock[w]
    BY <1>1, <1>3, <2>2, C_AddOverflow
  <2>4. exp[t] >= clock[w] + Interval(w) /\ (w + 1) - 1 = w
    BY <1>1, <2>1 DEF PassedInv, PassedOK
  <2> QED BY <2>1, <2>3, <2>4 DEF PassedInv, PassedOK
<1>4. CASE BucketAdd(Worker) \/ SetExpiration(Worker) \/ Offer(Worker)
  <2>1. add'[Worker].pc \in {"set", "offer", "idle"}
    BY <1>1, <1>4 DEF BucketAdd, SetExpiration, Offer, Idled, AddStates
  <2> QED BY <2>1 DEF PassedInv, PassedOK
<1>5. ASSUME NEW g \in Goroutines, g # Worker, Add(g) \/ Reschedule(g) PROVE PassedInv'
  <2>1. add'[Worker] = add[Worker] \/ add[Worker].pc = "idle"
    <3>1. CASE AddLoad(g) /\ Run(g, add[g].t)
      <4>1. add[g].t \in Timers /\ add[g].pc = "load" /\ UNCHANGED <<created, bucketOf, wk>>
        BY <3>1 DEF AddLoad, TInv, StepInv, StepOK, TypeOK
      <4> QED BY <1>5, <3>1, <4>1, RunStep
    <3>2. CASE ~(AddLoad(g) /\ Run(g, add[g].t))
      BY <1>1, <1>5, <3>2 DEF Add, AddLoad, AddOverflow, BucketAdd, SetExpiration, Offer, Reschedule, Idled
    <3> QED BY <3>1, <3>2
  <2>2. \A u \in Wheels : u <= top => clock'[u] = clock[u]
    BY <1>5, C_AddOverflow DEF Add, AddLoad, BucketAdd, SetExpiration, Offer, Reschedule
  <2>3. CASE add'[Worker] = add[Worker]
    BY <2>2, <2>3, PassedKept
  <2>4. CASE add[Worker].pc = "idle" /\ add'[Worker] # add[Worker]
    <3>1. CASE AddLoad(g) /\ Run(g, add[g].t)
      <4>1. add[g].t \in Timers /\ add[g].pc = "load" /\ UNCHANGED <<created, bucketOf, wk>>
        BY <3>1 DEF AddLoad, TInv, StepInv, StepOK, TypeOK
      <4>2. add'[Worker].pc = "task"
        BY <1>5, <2>4, <3>1, <4>1, RunStep
      <4> QED BY <4>2 DEF PassedInv, PassedOK
    <3>2. CASE ~(AddLoad(g) /\ Run(g, add[g].t))
      BY <1>1, <1>5, <2>4, <3>2 DEF Add, AddLoad, AddOverflow, BucketAdd, SetExpiration, Offer, Reschedule, Idled
    <3> QED BY <3>1, <3>2
  <2> QED BY <2>1, <2>3, <2>4
<1>6. CASE FlushNext
  <2>1. PICK u \in Timers : add' = [add EXCEPT ![Worker] = [Idle EXCEPT !.pc = "load", !.t = u]]
    BY <1>6 DEF FlushNext
  <2> DEFINE k == [Idle EXCEPT !.pc = "load", !.t = u]
  <2>2. k.pc = "load" /\ k.w = 1 /\ add' = [add EXCEPT ![Worker] = k]
    BY <2>1
  <2> HIDE DEF k
  <2>3. add'[Worker].pc = "load" /\ add'[Worker].w = 1
    BY <1>1, <2>2
  <2> QED BY <2>3 DEF PassedInv, PassedOK
<1>7. CASE WorkerStep /\ ~FlushNext
  <2>1. UNCHANGED add
    BY <1>7 DEF WorkerStep, Receive, ReadExpiration, advanceClock, FlushBack, FlushEnd, Exit
  <2>2. add[Worker].pc # "idle" => UNCHANGED clock
    BY <1>7 DEF WorkerStep, Receive, ReadExpiration, advanceClock, FlushBack, FlushEnd, Exit, TInv, WorkerInv
  <2> QED BY <2>1, <2>2, PassedKept
<1>8. ASSUME NEW u \in Timers, NEW d \in Delays, AfterFunc(u, d) PROVE PassedInv'
  <2>1. <<u, 0>> # Worker /\ UNCHANGED clock
    BY <1>8, NamesAssumption, TimeAssumption DEF AfterFunc
  <2>2. add'[Worker] = add[Worker]
    BY <1>1, <1>8, <2>1 DEF AfterFunc
  <2> QED BY <2>1, <2>2, PassedKept
<1>9. ASSUME NEW u \in Stopped, StopRead(u) \/ StopRemove(u) PROVE PassedInv'
  BY <1>9, PassedKept DEF StopRead, StopRemove
<1>10. CASE UNCHANGED vars \/ Stop \/ Poll \/ Tick
  BY <1>10, PassedKept DEF vars, Stop, Poll, Tick
<1>11. ASSUME Add(Worker) \/ Reschedule(Worker) PROVE PassedInv'
  BY <1>1, <1>2, <1>3, <1>4, <1>11 DEF Add, Reschedule
<1> QED BY <1>5, <1>6, <1>7, <1>8, <1>9, <1>10, <1>11 DEF Next

LEMMA FlowInit == Init => FlowInv
<1> SUFFICES ASSUME Init PROVE FlowInv
  OBVIOUS
<1>1. \A g \in Goroutines : add[g] = Idle
  BY DEF Init
<1>2. Idle.pc = "idle" /\ Idle.w = 1 /\ top = 1 /\ \A w \in Wheels : clock[w] = 0
  BY DEF Init
<1>3. \A w \in Wheels : Multiple(0, TickOf[w])
  <2> SUFFICES ASSUME NEW w \in Wheels PROVE Multiple(0, TickOf[w])
    OBVIOUS
  <2>1. TickOf[w] \in Nat /\ TickOf[w] > 0
    BY WheelNumbers
  <2>2. 0 * TickOf[w] = 0
    BY <2>1
  <2>3. (0 * TickOf[w]) \div TickOf[w] = 0
    BY <2>1, DivMul
  <2> QED BY <2>2, <2>3 DEF Multiple
<1>4. ClockInv
  BY <1>2, <1>3 DEF ClockInv
<1> HIDE DEF Idle
<1>5. ChoiceInv /\ PassedInv
  BY <1>1, <1>2 DEF ChoiceInv, ChoiceOK, PassedInv, PassedOK
<1>6. FiledInv
  BY DEF Init, FiledInv
<1> QED BY <1>4, <1>5, <1>6 DEF FlowInv

LEMMA FlowStep == TInv /\ OnePlaceInv /\ FlowInv /\ [Next]_vars => FlowInv'
<1> SUFFICES ASSUME TInv, OnePlaceInv, FlowInv, [Next]_vars PROVE FlowInv'
  OBVIOUS
<1>1. ClockInv' /\ ClocksGrow
  BY ClockStep DEF FlowInv
<1> QED BY <1>1, ChoiceStep, FiledStep, PassedStep DEF FlowInv

-----------------------------------------------------------------------------
(* No goroutine overtaken: every bucket on its way to the worker has one    *)
(* expiration, which the clocks have not passed.                            *)

Has(b) == Working /\ wk.b = b
InFlight(b) == polled = b \/ Has(b) \/ \E q \in queue : q.b = b
\* Goroutine g is about to offer its bucket, in time.
Offers(g) == add[g].pc = "offer" /\ now <= add[g].vexp
\* A bucket is in one hand on its way from SetExpiration to the end of Flush.
OneHolder ==
  /\ \A q, r \in queue : q.b = r.b => q = r
  /\ \A q \in queue : q.b # polled /\ ~Has(q.b)
  /\ polled # None => ~Has(polled)
  /\ \A g \in Goroutines : Offers(g) => ~InFlight(Bucket(g))
  /\ \A g, h \in Goroutines : Offers(g) /\ Offers(h) /\ Bucket(g) = Bucket(h) => g = h
\* The expiration of b is within a turn of its wheel, and no clock is past it.
InWindow(b) ==
  /\ Multiple(expiration[b], TickOf[b[1]]) /\ BucketAt(b[1], expiration[b]) = b
  /\ expiration[b] < clock[b[1]] + Interval(b[1])
  /\ \A v \in Wheels : clock[v] <= expiration[b]
Windows ==
  /\ \A b \in Buckets : InFlight(b) => InWindow(b)
  /\ \A q \in queue : q.e = expiration[q.b]
  /\ \A g \in Goroutines : Offers(g) => expiration[Bucket(g)] = add[g].vexp
\* Buckets reach the worker in the order of their expirations, never too soon.
Order ==
  /\ \A w \in Wheels : clock[w] <= now
  /\ polled # None => expiration[polled] <= now /\ \A q \in queue : expiration[polled] <= q.e
  /\ Working => /\ expiration[wk.b] <= now
                /\ \A q \in queue : expiration[wk.b] <= q.e
                /\ polled # None => expiration[wk.b] <= expiration[polled]
\* The worker brings the first clock up to the expiration of its bucket.
Advance ==
  /\ wk.pc = "read" => wk.w = 1
  /\ wk.pc = "advance" => /\ wk.e <= expiration[wk.b]
                          /\ wk.w = 1 => wk.e = expiration[wk.b]
                          /\ wk.w > 1 => expiration[wk.b] < clock[1] + TickOf[1]
  /\ wk.pc \in {"flush", "reinsert"} => expiration[wk.b] < clock[1] + TickOf[1]
\* The timer Flush reinserts expires within the tick of its bucket.
Reinserted ==
  add[Worker].pc \in {"load", "overflow", "add"} =>
    exp[add[Worker].t] < expiration[wk.b] + TickOf[wk.b[1]]
InTime == OneHolder /\ Windows /\ Order /\ Advance /\ Reinserted
InTimeInv == overtaken \/ InTime

PathInv == TInv /\ OnePlaceInv /\ FlowInv

\* A bucket that is being offered is in its window already.
LEMMA OfferWindow ==
  ASSUME PathInv, Windows, Order, NEW g \in Goroutines, Offers(g)
  PROVE  InWindow(Bucket(g))
<1> DEFINE w == add[g].w  v == add[g].vexp
<1>1. /\ w \in Wheels /\ v \in Int /\ now \in Nat /\ clock \in [Wheels -> Int]
      /\ Bucket(g) = BucketAt(w, v) /\ Bucket(g)[1] = w
  BY FlowTypes DEF PathInv, AddStates, Bucket, BucketAt
<1>2. Multiple(v, TickOf[w]) /\ v < clock[w] + Interval(w)
  BY DEF PathInv, FlowInv, ChoiceInv, ChoiceOK, Offers
<1>3. expiration[Bucket(g)] = v /\ now <= v
  BY DEF Windows, Offers
<1>4. \A u \in Wheels : clock[u] <= v
  BY <1>1, <1>3 DEF Order
<1> QED BY <1>1, <1>2, <1>3, <1>4 DEF InWindow

\* A goroutine that sets the expiration of a bucket in its window finds the
\* value it was about to set.
LEMMA Agreed ==
  ASSUME PathInv, Order, NEW g \in Goroutines, add[g].pc = "set", now <= add[g].vexp, InWindow(Bucket(g))
  PROVE  expiration[Bucket(g)] = add[g].vexp
<1> DEFINE w == add[g].w  v == add[g].vexp  e == expiration[Bucket(g)]
<1>1. /\ w \in Wheels /\ v \in Int /\ now \in Nat /\ clock \in [Wheels -> Int] /\ clock[w] \in Int
      /\ Bucket(g) = BucketAt(w, v) /\ Bucket(g)[1] = w
  BY FlowTypes DEF PathInv, AddStates, Bucket, BucketAt
<1>2. e \in Int
  BY FlowTypes, Chosen DEF PathInv
<1>3. Multiple(v, TickOf[w]) /\ v < clock[w] + Interval(w) /\ clock[w] <= v
  BY <1>1 DEF PathInv, FlowInv, ChoiceInv, ChoiceOK, Order
<1>4. Multiple(e, TickOf[w]) /\ BucketAt(w, e) = BucketAt(w, v) /\ e < clock[w] + Interval(w) /\ clock[w] <= e
  BY <1>1 DEF InWindow
<1> HIDE DEF w, v, e
<1>5. v <= e /\ e <= v
  BY <1>1, <1>2, <1>3, <1>4, SameBucket
<1>6. v = e
  BY <1>1, <1>2, <1>5
<1> QED BY <1>6 DEF v, e

-----------------------------------------------------------------------------
(* What keeps the parts of InTime.                                          *)

\* The hands stay as they are, or open.
HandsKept ==
  /\ queue' = queue /\ polled' = polled
  /\ Working' => Working /\ wk'.b = wk.b
  /\ \A h \in Goroutines : Offers(h)' => Offers(h) /\ add'[h] = add[h]

LEMMA InFlightKept ==
  ASSUME HandsKept, NEW b, InFlight(b)'
  PROVE  InFlight(b)
  BY DEF HandsKept, InFlight, Has

LEMMA OneHolderKept ==
  ASSUME OneHolder, HandsKept
  PROVE  OneHolder'
<1>1. \A h \in Goroutines : Offers(h)' => Offers(h) /\ Bucket(h)' = Bucket(h)
  BY DEF HandsKept, Bucket
<1>2. \A b : Has(b)' => Has(b)
  BY DEF HandsKept, Has
<1>3. \A b : InFlight(b)' => InFlight(b)
  BY InFlightKept
<1>4. \A q \in queue' : q.b # polled' /\ ~Has(q.b)'
  BY <1>2 DEF HandsKept, OneHolder
<1>5. polled' # None => ~Has(polled)'
  BY DEF HandsKept, OneHolder, Has
<1>6. \A g \in Goroutines : Offers(g)' => ~InFlight(Bucket(g))'
  <2> SUFFICES ASSUME NEW g \in Goroutines, Offers(g)', InFlight(Bucket(g))' PROVE FALSE
    OBVIOUS
  <2>1. PICK b : b = Bucket(g)
    OBVIOUS
  <2>2. Bucket(g)' = b /\ Offers(g)
    BY <1>1, <2>1
  <2>3. InFlight(b)'
    BY <2>2 DEF InFlight, Has
  <2> QED BY <1>3, <2>1, <2>2, <2>3 DEF OneHolder
<1>7. \A q, r \in queue' : q.b = r.b => q = r
  BY DEF HandsKept, OneHolder
<1>8. \A g, h \in Goroutines : Offers(g)' /\ Offers(h)' /\ Bucket(g)' = Bucket(h)' => g = h
  BY <1>1 DEF OneHolder
<1> QED BY <1>4, <1>5, <1>6, <1>7, <1>8 DEF OneHolder

\* The clocks move on, but not past an expiration on its way.
LEMMA WindowKept ==
  ASSUME PathInv, NEW b \in Buckets, InWindow(b), ClocksGrow, TInv',
         expiration'[b] = expiration[b], \A v \in Wheels : clock'[v] <= expiration[b]
  PROVE  InWindow(b)'
<1>1. /\ clock \in [Wheels -> Int] /\ clock' \in [Wheels -> Int] /\ expiration[b] \in Int
      /\ b[1] \in Wheels
  BY FlowTypes DEF PathInv, TInv, TypeOK, Buckets
<1>2. Interval(b[1]) \in Nat
  BY <1>1, WheelNumbers
<1>3. clock[b[1]] <= clock'[b[1]]
  BY <1>1 DEF ClocksGrow
<1> QED BY <1>1, <1>2, <1>3 DEF InWindow

LEMMA WindowsKept ==
  ASSUME PathInv, Windows, HandsKept, ClocksGrow, TInv', expiration' = expiration,
         \A b \in Buckets : InFlight(b)' => \A v \in Wheels : clock'[v] <= expiration[b]
  PROVE  Windows'
<1>1. \A h \in Goroutines : Offers(h)' => Offers(h) /\ Bucket(h)' = Bucket(h) /\ add'[h] = add[h]
  BY DEF HandsKept, Bucket
<1>2. ASSUME NEW b \in Buckets, InFlight(b)' PROVE InWindow(b)'
  BY <1>2, InFlightKept, WindowKept DEF Windows
<1>3. \A q \in queue' : q.e = expiration'[q.b]
  BY DEF HandsKept, Windows
<1>4. \A h \in Goroutines : Offers(h)' => expiration'[Bucket(h)'] = add'[h].vexp
  BY <1>1 DEF Windows
<1> QED BY <1>2, <1>3, <1>4 DEF Windows

LEMMA OrderKept ==
  ASSUME PathInv, Order, HandsKept, TInv', expiration' = expiration, now <= now',
         \A v \in Wheels : clock'[v] <= now'
  PROVE  Order'
<1>1. now \in Int /\ now' \in Int /\ \A b \in Buckets : expiration[b] \in Int
  BY FlowTypes DEF PathInv, TInv, TypeOK
<1>2. polled # None => polled \in Buckets
  BY FlowTypes DEF PathInv
<1>3. Working => wk.b \in Buckets
  BY DEF PathInv, TInv, WorkerInv, Working
<1>4. polled' # None => expiration'[polled'] <= now' /\ \A q \in queue' : expiration'[polled'] <= q.e
  BY <1>1, <1>2 DEF Order, HandsKept
<1>5. Working' => /\ expiration'[wk'.b] <= now'
                  /\ \A q \in queue' : expiration'[wk'.b] <= q.e
                  /\ polled' # None => expiration'[wk'.b] <= expiration'[polled']
  BY <1>1, <1>3 DEF Order, HandsKept
<1> QED BY <1>4, <1>5 DEF Order

\* The worker goes on with the timer in hand.
LEMMA ReinsertedKept ==
  ASSUME PathInv, Reinserted, [Next]_vars,
         add'[Worker].pc \in {"load", "overflow", "add"} =>
           /\ add[Worker].pc \in {"load", "overflow", "add"} /\ add'[Worker].t = add[Worker].t
           /\ wk'.b = wk.b /\ expiration'[wk.b] = expiration[wk.b]
  PROVE  Reinserted'
<1>1. add[Worker].pc # "idle" => add[Worker].t \in Timers
  BY DEF PathInv, TInv, StepInv, StepOK, TypeOK
<1>2. add[Worker].pc \in {"load", "overflow", "add"} => exp'[add[Worker].t] = exp[add[Worker].t]
  BY <1>1, ExpStays DEF PathInv
<1> QED BY <1>2 DEF Reinserted

-----------------------------------------------------------------------------
(* The steps, while nobody is overtaken.                                    *)

LEMMA PathNext ==
  ASSUME PathInv, [Next]_vars
  PROVE  /\ TInv' /\ ClocksGrow
         /\ now' \in Int /\ clock' \in [Wheels -> Int] /\ expiration' \in [Buckets -> Int]
<1>1. TInv' /\ ClocksGrow
  BY TInvStep, ClockStep DEF PathInv, FlowInv
<1>2. TypeOK'
  BY <1>1 DEF TInv
<1> QED BY <1>1, <1>2 DEF TypeOK

\* A bucket on its way exists.
LEMMA FlightBuckets ==
  ASSUME PathInv
  PROVE  /\ \A q \in queue : q.b \in Buckets /\ q.e \in Int
         /\ polled # None => polled \in Buckets
         /\ Working => wk.b \in Buckets /\ Has(wk.b)
         /\ \A b \in Buckets : expiration[b] \in Int
  BY FlowTypes DEF PathInv, TInv, WorkerInv, Working, Has

\* A step outside the worker that opens no hand and moves no clock.
LEMMA StillTime ==
  ASSUME PathInv, InTime, [Next]_vars, HandsKept, UNCHANGED <<expiration, clock, wk>>, now <= now',
         add'[Worker].pc \in {"load", "overflow", "add"} =>
           add[Worker].pc \in {"load", "overflow", "add"} /\ add'[Worker].t = add[Worker].t
  PROVE  InTime'
<1>1. TInv' /\ ClocksGrow
  BY PathNext
<1>2. OneHolder'
  BY OneHolderKept DEF InTime
<1>3. Windows'
  <2>1. \A b \in Buckets : InFlight(b)' => \A v \in Wheels : clock'[v] <= expiration[b]
    BY InFlightKept DEF InTime, Windows, InWindow
  <2> QED BY <1>1, <2>1, WindowsKept DEF InTime
<1>4. Order'
  <2>1. \A v \in Wheels : clock'[v] <= now'
    <3>1. now \in Int /\ now' \in Int /\ clock \in [Wheels -> Int]
      BY FlowTypes, PathNext DEF PathInv
    <3> QED BY <3>1 DEF InTime, Order
  <2> QED BY <1>1, <2>1, OrderKept DEF InTime
<1>5. Advance'
  BY DEF InTime, Advance
<1>6. Reinserted'
  BY ReinsertedKept DEF InTime
<1> QED BY <1>2, <1>3, <1>4, <1>5, <1>6 DEF InTime

LEMMA I_AddLoad ==
  ASSUME PathInv, InTime, NEW g \in Goroutines, AddLoad(g), [Next]_vars
  PROVE  InTime'
<1> DEFINE t == add[g].t
<1>0. add[g].pc = "load" /\ UNCHANGED <<now, created, bucketOf, queue, polled, wk, expiration, clock>>
  BY DEF AddLoad
<1>1. /\ add \in [Goroutines -> AddStates] /\ t \in Timers /\ add[g].pc = "load"
      /\ UNCHANGED <<now, created, bucketOf, queue, polled, wk, expiration, clock>> /\ now <= now'
  <2>1. t \in Timers
    BY <1>0 DEF PathInv, TInv, StepInv, StepOK, TypeOK
  <2>2. add \in [Goroutines -> AddStates] /\ now \in Nat
    BY FlowTypes DEF PathInv
  <2> QED BY <1>0, <2>1, <2>2
<1>2. \A h \in Goroutines : h # g => add'[h] = add[h] \/ add'[h].pc = "task"
  <2>1. CASE Run(g, t)
    BY <1>1, <2>1, RunStep DEF PathInv
  <2>2. CASE ~Run(g, t)
    BY <1>1, <2>2 DEF AddLoad
  <2> QED BY <2>1, <2>2
<1>3. add'[g].pc = "idle" \/ (add'[g].pc \in {"add", "overflow"} /\ add'[g].t = t)
  <2>1. CASE Run(g, t)
    BY <1>1, <2>1, RunStep DEF PathInv
  <2>2. CASE ~Run(g, t)
    BY <1>1, <2>2 DEF AddLoad, AddStates
  <2> QED BY <2>1, <2>2
<1>4. HandsKept
  BY <1>1, <1>2, <1>3 DEF HandsKept, Offers, Working
<1>5. add'[Worker].pc \in {"load", "overflow", "add"} =>
        add[Worker].pc \in {"load", "overflow", "add"} /\ add'[Worker].t = add[Worker].t
  BY <1>1, <1>2, <1>3
<1> QED BY <1>1, <1>4, <1>5, StillTime

\* A goroutine enters add, fills its bucket or finds its expiration set.
LEMMA I_Still ==
  ASSUME PathInv, InTime, NEW g \in Goroutines, [Next]_vars,
         BucketAdd(g) \/ Reschedule(g) \/ (SetExpiration(g) /\ expiration[Bucket(g)] = add[g].vexp)
  PROVE  InTime'
<1>1. /\ add \in [Goroutines -> AddStates] /\ expiration \in [Buckets -> Int]
      /\ UNCHANGED <<now, queue, polled, wk, clock>> /\ now <= now'
  BY FlowTypes DEF PathInv, BucketAdd, Reschedule, SetExpiration
<1>2. UNCHANGED expiration
  BY <1>1 DEF BucketAdd, Reschedule, SetExpiration
<1>3. /\ \A h \in Goroutines : h # g => add'[h] = add[h]
      /\ add'[g].pc \in {"idle", "set"} \/ (add'[g].pc = "load" /\ add[g].pc = "task")
  BY <1>1 DEF BucketAdd, Reschedule, SetExpiration, Idled, AddStates
<1>4. HandsKept
  BY <1>1, <1>3 DEF HandsKept, Offers, Working
<1>5. add'[Worker].pc \in {"load", "overflow", "add"} =>
        add[Worker].pc \in {"load", "overflow", "add"} /\ add'[Worker].t = add[Worker].t
  BY <1>3 DEF PathInv, TInv, WorkerInv
<1> QED BY <1>1, <1>2, <1>4, <1>5, StillTime

\* A new goroutine, the clock, and the callers of Stop.
LEMMA I_Users ==
  ASSUME PathInv, InTime, [Next]_vars,
         \/ UNCHANGED vars \/ Tick \/ Stop
         \/ \E t \in Stopped : StopRead(t) \/ StopRemove(t)
         \/ \E t \in Timers, d \in Delays : AfterFunc(t, d)
  PROVE  InTime'
<1>1. /\ add \in [Goroutines -> AddStates] /\ now \in Nat
      /\ UNCHANGED <<queue, polled, wk, clock, expiration>> /\ (now' = now \/ now' = now + 1)
  BY FlowTypes DEF PathInv, vars, Tick, Stop, StopRead, StopRemove, AfterFunc
<1>2. \A h \in Goroutines : add'[h] = add[h] \/ (h # Worker /\ add'[h].pc = "load")
  <2>1. ASSUME NEW t \in Timers, NEW d \in Delays, AfterFunc(t, d), NEW h \in Goroutines
        PROVE  add'[h] = add[h] \/ (h # Worker /\ add'[h].pc = "load")
    <3> DEFINE k == <<t, 0>>  r == [Idle EXCEPT !.pc = "load", !.t = t]
    <3>1. k # Worker /\ k \in Goroutines
      BY NamesAssumption, TimeAssumption
    <3>2. r.pc = "load"
      OBVIOUS
    <3>3. add' = [add EXCEPT ![k] = r]
      BY <2>1 DEF AfterFunc
    <3> HIDE DEF k, r
    <3> QED BY <1>1, <3>1, <3>2, <3>3
  <2>2. CASE UNCHANGED add
    BY <2>2
  <2> QED BY <2>1, <2>2 DEF vars, Tick, Stop, StopRead, StopRemove
<1>3. HandsKept
  <2>1. \A h \in Goroutines : add[h].vexp \in Int
    BY <1>1 DEF AddStates
  <2>2. \A h \in Goroutines : Offers(h)' => Offers(h) /\ add'[h] = add[h]
    BY <1>1, <1>2, <2>1 DEF Offers
  <2> QED BY <1>1, <2>2 DEF HandsKept, Working
<1>4. add'[Worker].pc \in {"load", "overflow", "add"} =>
        add[Worker].pc \in {"load", "overflow", "add"} /\ add'[Worker].t = add[Worker].t
  BY <1>2
<1> QED BY <1>1, <1>3, <1>4, StillTime

\* A new wheel starts no later than the wheel below it.
LEMMA I_AddOverflow ==
  ASSUME PathInv, InTime, NEW g \in Goroutines, AddOverflow(g), [Next]_vars
  PROVE  InTime'
<1>1. /\ add \in [Goroutines -> AddStates] /\ add[g].pc = "overflow"
      /\ UNCHANGED <<now, queue, polled, wk, expiration>> /\ clock \in [Wheels -> Int] /\ now \in Int
  BY FlowTypes DEF PathInv, AddOverflow
<1>2. TInv' /\ ClocksGrow /\ clock' \in [Wheels -> Int]
  BY PathNext
<1>3. PICK u \in Wheels : \A w \in Wheels : clock'[w] = clock[w] \/ clock'[w] <= clock[u]
  BY C_AddOverflow DEF PathInv, FlowInv
<1>4. /\ \A h \in Goroutines : h # g => add'[h] = add[h]
      /\ add'[g].pc = "load" /\ add'[g].t = add[g].t
  BY <1>1 DEF AddOverflow, AddStates
<1>5. HandsKept
  BY <1>1, <1>4 DEF HandsKept, Offers, Working
<1>6. OneHolder'
  BY <1>5, OneHolderKept DEF InTime
<1>7. Windows'
  <2>1. ASSUME NEW b \in Buckets, InFlight(b)', NEW v \in Wheels PROVE clock'[v] <= expiration[b]
    <3>1. expiration[b] \in Int /\ clock[u] <= expiration[b] /\ clock[v] <= expiration[b]
      BY <1>5, <2>1, InFlightKept, FlightBuckets DEF InTime, Windows, InWindow
    <3> QED BY <1>1, <1>2, <1>3, <3>1
  <2> QED BY <1>1, <1>2, <1>5, <2>1, WindowsKept DEF InTime
<1>8. Order'
  <2>1. \A v \in Wheels : clock'[v] <= now'
    BY <1>1, <1>2, <1>3 DEF InTime, Order
  <2> QED BY <1>1, <1>2, <1>5, <2>1, OrderKept DEF InTime
<1>9. Advance'
  <2>1. \A w \in Wheels : w <= top => clock'[w] = clock[w]
    BY C_AddOverflow DEF PathInv, FlowInv
  <2>2. 1 \in Wheels /\ 1 <= top
    BY FlowTypes DEF PathInv
  <2>3. clock'[1] = clock[1]
    BY <2>1, <2>2
  <2> QED BY <1>1, <2>3 DEF InTime, Advance
<1>10. Reinserted'
  BY <1>1, <1>4, ReinsertedKept DEF InTime
<1> QED BY <1>6, <1>7, <1>8, <1>9, <1>10 DEF InTime

\* The goroutine that changes the expiration of a bucket: nobody else has it.
LEMMA I_SetExpiration ==
  ASSUME PathInv, InTime, NEW g \in Goroutines, SetExpiration(g), now <= add[g].vexp, [Next]_vars
  PROVE  InTime'
<1> DEFINE v == add[g].vexp
<1>0. PICK b \in Buckets : b = Bucket(g)
  BY Chosen DEF SetExpiration, PathInv
<1>1. /\ add \in [Goroutines -> AddStates] /\ expiration \in [Buckets -> Int] /\ add[g].pc = "set"
      /\ UNCHANGED <<now, queue, polled, wk, clock>> /\ expiration' = [expiration EXCEPT ![b] = v]
  BY <1>0, FlowTypes DEF PathInv, SetExpiration
<1>2. CASE expiration[b] = v
  BY <1>0, <1>2, I_Still
<1>3. CASE expiration[b] # v
  <2>1. ~InWindow(b)
    BY <1>0, <1>1, <1>3, Agreed DEF InTime
  <2>2. ~InFlight(b)
    BY <2>1 DEF InTime, Windows
  <2>3. \A h \in Goroutines : Offers(h) => Bucket(h) # b
    BY <2>1, OfferWindow DEF InTime
  <2>4. \A c \in Buckets : c # b => expiration'[c] = expiration[c]
    BY <1>1
  <2>5. /\ \A h \in Goroutines : h # g => add'[h] = add[h]
        /\ add'[g].pc = "offer" /\ add'[g].vexp = v /\ add'[g].w = add[g].w
    BY <1>0, <1>1, <1>3 DEF SetExpiration, AddStates
  <2>6. \A h \in Goroutines : Bucket(h)' = Bucket(h)
    BY <2>5 DEF Bucket
  <2>7. \A h \in Goroutines : h # g => (Offers(h)' <=> Offers(h))
    BY <1>1, <2>5 DEF Offers
  <2>8. \A c : InFlight(c)' <=> InFlight(c)
    BY <1>1 DEF InFlight, Has, Working
  <2>9. TInv' /\ ClocksGrow
    BY PathNext
  <2>10. Windows'
    <3>1. ASSUME NEW c \in Buckets, InFlight(c)' PROVE InWindow(c)'
      <4>1. c # b /\ InWindow(c)
        BY <2>2, <2>8, <3>1 DEF InTime, Windows
      <4>2. \A u \in Wheels : clock'[u] <= expiration[c]
        BY <1>1, <4>1 DEF InWindow
      <4> QED BY <2>4, <2>9, <4>1, <4>2, WindowKept
    <3>2. \A q \in queue' : q.e = expiration'[q.b]
      <4>1. \A q \in queue : q.b # b /\ q.b \in Buckets
        BY <2>2, FlightBuckets DEF InFlight
      <4> QED BY <1>1, <2>4, <4>1 DEF InTime, Windows
    <3>3. \A h \in Goroutines : Offers(h)' => expiration'[Bucket(h)'] = add'[h].vexp
      <4>1. expiration'[b] = v
        BY <1>1
      <4>2. ASSUME NEW h \in Goroutines, h # g, Offers(h)' PROVE expiration'[Bucket(h)'] = add'[h].vexp
        <5>1. Offers(h) /\ Bucket(h) # b
          BY <2>3, <2>7, <4>2
        <5>2. Bucket(h) \in Buckets
          BY <5>1, Chosen DEF PathInv, Offers
        <5> QED BY <2>4, <2>5, <2>6, <4>2, <5>1, <5>2 DEF InTime, Windows
      <4> QED BY <1>0, <2>5, <2>6, <4>1, <4>2
    <3> QED BY <3>1, <3>2, <3>3 DEF Windows
  <2>11. OneHolder'
    <3>1. \A h \in Goroutines : Offers(h)' => ~InFlight(Bucket(h))'
      <4> SUFFICES ASSUME NEW h \in Goroutines, Offers(h)', InFlight(Bucket(h))' PROVE FALSE
        OBVIOUS
      <4>1. PICK c : c = Bucket(h)
        OBVIOUS
      <4>2. Bucket(h)' = c
        BY <2>6, <4>1
      <4>3. InFlight(c)'
        BY <4>2 DEF InFlight, Has
      <4>4. InFlight(c)
        BY <2>8, <4>3
      <4>5. CASE h = g
        BY <1>0, <2>2, <4>1, <4>4, <4>5
      <4>6. CASE h # g
        BY <2>7, <4>1, <4>4, <4>6 DEF InTime, OneHolder
      <4> QED BY <4>5, <4>6
    <3>2. \A h, k \in Goroutines : Offers(h)' /\ Offers(k)' /\ Bucket(h)' = Bucket(k)' => h = k
      BY <1>0, <2>3, <2>6, <2>7 DEF InTime, OneHolder
    <3>3. /\ \A q, r \in queue' : q.b = r.b => q = r
          /\ \A q \in queue' : q.b # polled' /\ ~Has(q.b)'
          /\ polled' # None => ~Has(polled)'
      BY <1>1 DEF InTime, OneHolder, Has, Working
    <3> QED BY <3>1, <3>2, <3>3 DEF OneHolder
  <2>12. Order' /\ Advance'
    <3>1. polled # None => polled \in Buckets /\ expiration'[polled] = expiration[polled]
      BY <2>2, <2>4, FlightBuckets DEF InFlight
    <3>2. Working => wk.b \in Buckets /\ wk.b # b /\ expiration'[wk.b] = expiration[wk.b]
      BY <2>2, <2>4, FlightBuckets DEF InFlight, Has
    <3>3. Order'
      BY <1>1, <3>1, <3>2 DEF InTime, Order, Working
    <3>4. Advance'
      BY <1>1, <3>2 DEF InTime, Advance, Working
    <3> QED BY <3>3, <3>4
  <2>13. Reinserted'
    <3>1. add'[Worker].pc \in {"load", "overflow", "add"} => add'[Worker] = add[Worker]
      BY <2>5
    <3>2. add[Worker].pc \in {"load", "overflow", "add"} => expiration'[wk.b] = expiration[wk.b]
      BY <2>2, <2>4, FlightBuckets DEF PathInv, TInv, WorkerInv, InFlight, Has, Working
    <3> QED BY <1>1, <3>1, <3>2, ReinsertedKept DEF InTime
  <2> QED BY <2>10, <2>11, <2>12, <2>13 DEF InTime
<1> QED BY <1>2, <1>3

\* queue.Offer: the hand of the goroutine becomes an entry of the queue.
LEMMA I_Offer ==
  ASSUME PathInv, InTime, NEW g \in Goroutines, Offer(g), now <= add[g].vexp, [Next]_vars
  PROVE  InTime'
<1> DEFINE v == add[g].vexp
<1>0. PICK b \in Buckets : b = Bucket(g)
  BY Chosen DEF Offer, PathInv
<1>1. /\ add \in [Goroutines -> AddStates] /\ add[g].pc = "offer" /\ v \in Int /\ now \in Int
      /\ UNCHANGED <<now, polled, wk, clock, expiration>> /\ add' = Idled(g)
  BY FlowTypes DEF PathInv, Offer, AddStates
<1>2. Offers(g)
  BY <1>1 DEF Offers
<1>3. expiration[b] = v /\ ~InFlight(b) /\ InWindow(b)
  BY <1>0, <1>2, OfferWindow DEF InTime, Windows, OneHolder
<1> DEFINE q0 == [b |-> Bucket(g), e |-> expiration[Bucket(g)], by |-> g]
<1>4. queue' = queue \cup {q0} /\ q0.b = b /\ q0.e = v
  BY <1>0, <1>3 DEF Offer
<1> HIDE DEF q0
<1>5. add'[g].pc = "idle" /\ \A h \in Goroutines : h # g => add'[h] = add[h]
  BY <1>1, IdledMoves DEF PathInv, Moves
<1>6. \A h \in Goroutines : Offers(h)' => h # g /\ Offers(h) /\ add'[h] = add[h] /\ Bucket(h)' = Bucket(h)
  BY <1>1, <1>5 DEF Offers, Bucket
<1>7. \A c : InFlight(c)' => InFlight(c) \/ c = b
  BY <1>1, <1>4 DEF InFlight, Has, Working
<1>8. \A q \in queue : q.b # b
  BY <1>3 DEF InFlight
<1>9. polled # b /\ ~Has(b)
  BY <1>3 DEF InFlight
<1>10. TInv' /\ ClocksGrow
  BY PathNext
<1>11. OneHolder'
  <2>1. \A q, r \in queue' : q.b = r.b => q = r
    BY <1>4, <1>8 DEF InTime, OneHolder
  <2>2. \A q \in queue' : q.b # polled' /\ ~Has(q.b)'
    BY <1>1, <1>4, <1>9 DEF InTime, OneHolder, Has, Working
  <2>3. polled' # None => ~Has(polled)'
    BY <1>1 DEF InTime, OneHolder, Has, Working
  <2>4. \A h \in Goroutines : Offers(h)' => ~InFlight(Bucket(h))'
    <3> SUFFICES ASSUME NEW h \in Goroutines, Offers(h)', InFlight(Bucket(h))' PROVE FALSE
      OBVIOUS
    <3>1. PICK c : c = Bucket(h)
      OBVIOUS
    <3>2. Bucket(h)' = c /\ h # g /\ Offers(h)
      BY <1>6, <3>1
    <3>3. InFlight(c)'
      BY <3>2 DEF InFlight, Has
    <3>4. c = b
      BY <1>7, <3>1, <3>2, <3>3 DEF InTime, OneHolder
    <3> QED BY <1>0, <1>2, <3>1, <3>2, <3>4 DEF InTime, OneHolder
  <2>5. \A h, k \in Goroutines : Offers(h)' /\ Offers(k)' /\ Bucket(h)' = Bucket(k)' => h = k
    BY <1>6 DEF InTime, OneHolder
  <2> QED BY <2>1, <2>2, <2>3, <2>4, <2>5 DEF OneHolder
<1>12. Windows'
  <2>1. ASSUME NEW c \in Buckets, InFlight(c)' PROVE InWindow(c)'
    <3>1. InWindow(c)
      BY <1>3, <1>7, <2>1 DEF InTime, Windows
    <3>2. \A u \in Wheels : clock'[u] <= expiration[c]
      BY <1>1, <3>1 DEF InWindow
    <3> QED BY <1>1, <1>10, <3>1, <3>2, WindowKept
  <2>2. \A q \in queue' : q.e = expiration'[q.b]
    BY <1>1, <1>3, <1>4 DEF InTime, Windows
  <2>3. \A h \in Goroutines : Offers(h)' => expiration'[Bucket(h)'] = add'[h].vexp
    BY <1>1, <1>6 DEF InTime, Windows
  <2> QED BY <2>1, <2>2, <2>3 DEF Windows
<1>13. Order'
  <2>1. polled # None => expiration[polled] <= v
    BY <1>1, FlightBuckets DEF InTime, Order
  <2>2. Working => expiration[wk.b] <= v
    BY <1>1, FlightBuckets DEF InTime, Order
  <2> QED BY <1>1, <1>4, <2>1, <2>2 DEF InTime, Order, Working
<1>14. Advance'
  BY <1>1 DEF InTime, Advance
<1>15. Reinserted'
  BY <1>1, <1>5, ReinsertedKept DEF InTime
<1> QED BY <1>11, <1>12, <1>13, <1>14, <1>15 DEF InTime

\* Poll hands the worker's next bucket over: the first of the queue.
LEMMA I_Poll == ASSUME PathInv, InTime, Poll, [Next]_vars PROVE InTime'
<1>1. PICK q \in queue :
        /\ q.e <= now /\ \A r \in queue : q.e <= r.e
        /\ queue' = queue \ {q} /\ polled' = q.b
  BY DEF Poll
<1>2. polled = None /\ UNCHANGED <<now, expiration, clock, wk, add>>
  BY DEF Poll
<1>3. q.b \in Buckets /\ q.e = expiration[q.b]
  BY FlightBuckets DEF InTime, Windows
<1>4. \A c : InFlight(c)' => InFlight(c)
  BY <1>1, <1>2 DEF InFlight, Has, Working
<1>5. \A h \in Goroutines : Bucket(h)' = Bucket(h) /\ (Offers(h)' <=> Offers(h))
  BY <1>2 DEF Bucket, Offers
<1>6. TInv' /\ ClocksGrow
  BY PathNext
<1>7. OneHolder'
  <2>1. \A r, s \in queue' : r.b = s.b => r = s
    BY <1>1 DEF InTime, OneHolder
  <2>2. \A r \in queue' : r.b # polled' /\ ~Has(r.b)'
    BY <1>1, <1>2 DEF InTime, OneHolder, Has, Working
  <2>3. polled' # None => ~Has(polled)'
    BY <1>1, <1>2 DEF InTime, OneHolder, Has, Working
  <2>4. \A h \in Goroutines : Offers(h)' => ~InFlight(Bucket(h))'
    <3> SUFFICES ASSUME NEW h \in Goroutines, Offers(h)', InFlight(Bucket(h))' PROVE FALSE
      OBVIOUS
    <3>1. PICK c : c = Bucket(h)
      OBVIOUS
    <3>2. Bucket(h)' = c
      BY <1>5, <3>1
    <3>3. InFlight(c)'
      BY <3>2 DEF InFlight, Has
    <3> QED BY <1>4, <1>5, <3>1, <3>3 DEF InTime, OneHolder
  <2>5. \A h, k \in Goroutines : Offers(h)' /\ Offers(k)' /\ Bucket(h)' = Bucket(k)' => h = k
    BY <1>5 DEF InTime, OneHolder
  <2> QED BY <2>1, <2>2, <2>3, <2>4, <2>5 DEF OneHolder
<1>8. Windows'
  <2>1. ASSUME NEW c \in Buckets, InFlight(c)' PROVE InWindow(c)'
    <3>1. InWindow(c)
      BY <1>4, <2>1 DEF InTime, Windows
    <3>2. \A u \in Wheels : clock'[u] <= expiration[c]
      BY <1>2, <3>1 DEF InWindow
    <3> QED BY <1>2, <1>6, <3>1, <3>2, WindowKept
  <2> QED BY <1>1, <1>2, <1>5, <2>1 DEF InTime, Windows
<1>9. Order'
  <2>1. Working => expiration[wk.b] <= q.e
    BY DEF InTime, Order
  <2>2. \A r \in queue' : r \in queue
    BY <1>1
  <2>3. expiration'[polled'] <= now' /\ \A r \in queue' : expiration'[polled'] <= r.e
    BY <1>1, <1>2, <1>3, <2>2
  <2>4. Working' => /\ expiration'[wk'.b] <= now' /\ \A r \in queue' : expiration'[wk'.b] <= r.e
                    /\ expiration'[wk'.b] <= expiration'[polled']
    BY <1>1, <1>2, <1>3, <2>1, <2>2 DEF InTime, Order, Working
  <2>5. \A w \in Wheels : clock'[w] <= now'
    BY <1>2 DEF InTime, Order
  <2> QED BY <2>3, <2>4, <2>5 DEF Order
<1>10. Advance'
  BY <1>2 DEF InTime, Advance
<1>11. Reinserted'
  BY <1>2, ReinsertedKept DEF InTime
<1> QED BY <1>7, <1>8, <1>9, <1>10, <1>11 DEF InTime

\* The worker receives the bucket of Poll.
LEMMA I_Receive == ASSUME PathInv, InTime, Receive, [Next]_vars PROVE InTime'
<1>1. /\ wk.pc = "recv" /\ polled \in Buckets /\ polled' = None
      /\ wk' = [pc |-> "read", b |-> polled, w |-> 1, e |-> 0]
      /\ UNCHANGED <<now, expiration, clock, queue, add>>
  BY FlightBuckets DEF Receive
<1>2. wk'.pc = "read" /\ wk'.b = polled /\ wk'.w = 1 /\ ~Working /\ Working'
  BY <1>1 DEF Working
<1>3. None \notin Buckets
  BY FlowTypes DEF PathInv
<1>4. \A c \in Buckets : InFlight(c)' => InFlight(c)
  BY <1>1, <1>2, <1>3 DEF InFlight, Has
<1>5. \A h \in Goroutines : Bucket(h)' = Bucket(h) /\ (Offers(h)' <=> Offers(h))
  BY <1>1 DEF Bucket, Offers
<1>6. TInv' /\ ClocksGrow
  BY PathNext
<1>7. OneHolder'
  <2>1. \A r, s \in queue' : r.b = s.b => r = s
    BY <1>1 DEF InTime, OneHolder
  <2>2. \A r \in queue' : r.b # polled' /\ ~Has(r.b)'
    BY <1>1, <1>2, <1>3, FlightBuckets DEF InTime, OneHolder, Has
  <2>4. \A h \in Goroutines : Offers(h)' => ~InFlight(Bucket(h))'
    <3> SUFFICES ASSUME NEW h \in Goroutines, Offers(h)', InFlight(Bucket(h))' PROVE FALSE
      OBVIOUS
    <3>1. PICK c \in Buckets : c = Bucket(h)
      BY <1>5, Chosen DEF PathInv, Offers
    <3>2. Bucket(h)' = c
      BY <1>5, <3>1
    <3>3. InFlight(c)'
      BY <3>2 DEF InFlight, Has
    <3> QED BY <1>4, <1>5, <3>1, <3>3 DEF InTime, OneHolder
  <2>5. \A h, k \in Goroutines : Offers(h)' /\ Offers(k)' /\ Bucket(h)' = Bucket(k)' => h = k
    BY <1>5 DEF InTime, OneHolder
  <2> QED BY <1>1, <2>1, <2>2, <2>4, <2>5 DEF OneHolder
<1>8. Windows'
  <2>1. ASSUME NEW c \in Buckets, InFlight(c)' PROVE InWindow(c)'
    <3>1. InWindow(c)
      BY <1>4, <2>1 DEF InTime, Windows
    <3>2. \A u \in Wheels : clock'[u] <= expiration[c]
      BY <1>1, <3>1 DEF InWindow
    <3> QED BY <1>1, <1>6, <3>1, <3>2, WindowKept
  <2> QED BY <1>1, <1>5, <2>1 DEF InTime, Windows
<1>9. Order'
  BY <1>1, <1>2, <1>3 DEF InTime, Order
<1>10. Advance'
  BY <1>2 DEF Advance
<1>11. Reinserted'
  BY <1>1, ReinsertedKept DEF PathInv, TInv, WorkerInv, InTime
<1> QED BY <1>7, <1>8, <1>9, <1>10, <1>11 DEF InTime

\* A step of the worker that keeps its bucket and moves no clock past it.
LEMMA WorkerTime ==
  ASSUME PathInv, InTime, [Next]_vars, HandsKept, UNCHANGED <<expiration, now>>,
         \A v \in Wheels : clock'[v] = clock[v] \/ (Working /\ clock'[v] <= expiration[wk.b]),
         Advance', Reinserted'
  PROVE  InTime'
<1>1. /\ TInv' /\ ClocksGrow /\ clock' \in [Wheels -> Int] /\ now \in Int
      /\ \A b \in Buckets : expiration[b] \in Int
  BY PathNext, FlowTypes DEF PathInv
<1>2. OneHolder'
  BY OneHolderKept DEF InTime
<1>3. Windows'
  <2>1. ASSUME NEW b \in Buckets, InFlight(b)', NEW v \in Wheels PROVE clock'[v] <= expiration[b]
    <3>1. InFlight(b) /\ InWindow(b)
      BY <2>1, InFlightKept DEF InTime, Windows
    <3>2. CASE clock'[v] = clock[v]
      BY <3>1, <3>2 DEF InWindow
    <3>3. CASE Working /\ clock'[v] <= expiration[wk.b]
      <4>1. b # None
        BY FlowTypes DEF PathInv
      <4>2. expiration[wk.b] <= expiration[b]
        <5>1. wk.b \in Buckets
          BY <3>3, FlightBuckets
        <5>2. CASE polled = b
          BY <3>3, <4>1, <5>2 DEF InTime, Order
        <5>3. CASE Has(b)
          BY <1>1, <5>1, <5>3 DEF Has
        <5>4. ASSUME NEW q \in queue, q.b = b PROVE expiration[wk.b] <= expiration[b]
          BY <3>3, <5>4 DEF InTime, Order, Windows
        <5> QED BY <3>1, <5>2, <5>3, <5>4 DEF InFlight
      <4>3. clock'[v] \in Int /\ expiration[wk.b] \in Int /\ expiration[b] \in Int
        BY <1>1, <3>3, FlightBuckets
      <4> QED BY <3>3, <4>2, <4>3
    <3> QED BY <3>2, <3>3
  <2> QED BY <1>1, <2>1, WindowsKept DEF InTime
<1>4. Order'
  <2>1. ASSUME NEW v \in Wheels PROVE clock'[v] <= now'
    <3>1. CASE clock'[v] = clock[v]
      BY <3>1 DEF InTime, Order
    <3>2. CASE Working /\ clock'[v] <= expiration[wk.b]
      <4>1. expiration[wk.b] \in Int /\ clock'[v] \in Int /\ expiration[wk.b] <= now
        BY <1>1, <3>2, FlightBuckets DEF InTime, Order
      <4> QED BY <1>1, <3>2, <4>1
    <3> QED BY <3>1, <3>2
  <2> QED BY <1>1, <2>1, OrderKept DEF InTime
<1> QED BY <1>2, <1>3, <1>4 DEF InTime

LEMMA I_ReadExpiration == ASSUME PathInv, InTime, ReadExpiration, [Next]_vars PROVE InTime'
<1>1. /\ wk \in WorkerStates /\ wk.pc = "read" /\ wk.b \in Buckets /\ expiration[wk.b] \in Int
      /\ wk' = [wk EXCEPT !.pc = "advance", !.e = expiration[wk.b]]
      /\ UNCHANGED <<now, expiration, clock, queue, polled, add>>
  BY FlowTypes, FlightBuckets DEF PathInv, ReadExpiration, Working
<1>2. wk'.pc = "advance" /\ wk'.b = wk.b /\ wk'.w = wk.w /\ wk'.e = expiration[wk.b]
  BY <1>1 DEF WorkerStates
<1>3. HandsKept
  BY <1>1, <1>2 DEF HandsKept, Offers, Working
<1>4. Advance'
  BY <1>1, <1>2 DEF InTime, Advance
<1>5. Reinserted'
  BY <1>1, <1>2, ReinsertedKept DEF InTime
<1> QED BY <1>1, <1>3, <1>4, <1>5, WorkerTime

\* advanceClock reaches, and does not pass, the expiration of the bucket.
LEMMA I_advanceClock == ASSUME PathInv, InTime, advanceClock, [Next]_vars PROVE InTime'
<1>1. /\ wk \in WorkerStates /\ wk.pc = "advance" /\ wk.b \in Buckets /\ expiration[wk.b] \in Int /\ Working
      /\ UNCHANGED <<now, expiration, queue, polled, add>> /\ 1 \in Wheels /\ 1 <= top
  BY FlowTypes, FlightBuckets DEF PathInv, advanceClock, Working
<1>2. wk'.b = wk.b /\ wk'.pc \in {"advance", "flush"} /\ wk.e \in Int /\ wk.w \in 1..Levels + 1
  BY <1>1 DEF advanceClock, WorkerStates
<1>3. /\ \A w \in Wheels : clock'[w] = clock[w] \/ clock'[w] <= wk.e
      /\ wk'.pc = "advance" => /\ wk'.e <= wk.e /\ wk'.w > 1
                               /\ wk.w = 1 => wk.e < clock'[1] + TickOf[1]
  BY C_advanceClock DEF PathInv, FlowInv
<1>4. /\ wk.e <= expiration[wk.b]
      /\ wk.w = 1 => wk.e = expiration[wk.b]
      /\ wk.w > 1 => expiration[wk.b] < clock[1] + TickOf[1]
  BY <1>1 DEF InTime, Advance
<1>5. clock' \in [Wheels -> Int] /\ clock \in [Wheels -> Int] /\ clock[1] <= clock'[1]
  BY <1>1, PathNext, FlowTypes DEF PathInv, ClocksGrow
<1>6. TickOf[1] \in Nat /\ Levels \in Nat
  BY <1>1, WheelNumbers, WheelAssumption
<1>7. HandsKept
  BY <1>1, <1>2 DEF HandsKept, Offers, Working
<1>8. \A v \in Wheels : clock'[v] = clock[v] \/ (Working /\ clock'[v] <= expiration[wk.b])
  BY <1>1, <1>2, <1>3, <1>4, <1>5
<1>9. wk.w = 1 \/ wk.w > 1
  BY <1>2
<1>10. wk'.pc = "advance" => /\ wk'.e <= expiration[wk.b] /\ wk'.w > 1
                             /\ expiration[wk.b] < clock'[1] + TickOf[1]
  <2> SUFFICES ASSUME wk'.pc = "advance"
               PROVE  wk'.e <= expiration[wk.b] /\ wk'.w > 1 /\ expiration[wk.b] < clock'[1] + TickOf[1]
    OBVIOUS
  <2>1. wk'.e \in Int
    BY PathNext DEF TInv, TypeOK
  <2>2. expiration[wk.b] < clock'[1] + TickOf[1]
    BY <1>1, <1>3, <1>4, <1>5, <1>6, <1>9
  <2> QED BY <1>1, <1>2, <1>3, <1>4, <2>1, <2>2
<1>11. wk'.pc = "flush" => expiration[wk.b] < clock'[1] + TickOf[1]
  <2> SUFFICES ASSUME wk'.pc = "flush" PROVE expiration[wk.b] < clock'[1] + TickOf[1]
    OBVIOUS
  <2>1. UNCHANGED clock /\ (wk.w <= top => wk.e < clock[wk.w] + TickOf[wk.w])
    BY <1>1 DEF advanceClock, WorkerStates
  <2> QED BY <1>1, <1>4, <1>9, <2>1
<1>12. Advance'
  BY <1>1, <1>2, <1>10, <1>11 DEF Advance
<1>13. Reinserted'
  BY <1>1, <1>2, ReinsertedKept DEF InTime
<1> QED BY <1>1, <1>7, <1>8, <1>12, <1>13, WorkerTime

\* Flush takes a timer out of the bucket: it expires within the bucket's tick.
LEMMA I_FlushNext == ASSUME PathInv, InTime, FlushNext, [Next]_vars PROVE InTime'
<1>1. PICK t \in Timers :
        /\ bucketOf[t] = wk.b
        /\ add' = [add EXCEPT ![Worker] = [Idle EXCEPT !.pc = "load", !.t = t]]
  BY DEF FlushNext
<1> DEFINE r == [Idle EXCEPT !.pc = "load", !.t = t]  b == wk.b  w == b[1]  E == expiration[b]
           x == truncate(exp[t], TickOf[w])
<1>2. /\ add \in [Goroutines -> AddStates] /\ wk \in WorkerStates /\ exp[t] \in Int
      /\ b \in Buckets /\ b # None /\ E \in Int /\ w \in Wheels /\ clock[w] \in Int /\ Has(b)
      /\ wk.pc = "flush" /\ wk' = [wk EXCEPT !.pc = "reinsert"]
      /\ UNCHANGED <<now, exp, expiration, clock, queue, polled>>
  BY FlowTypes, FlightBuckets DEF PathInv, FlushNext, Working, Buckets
<1>3. r.pc = "load" /\ r.t = t /\ add' = [add EXCEPT ![Worker] = r]
  BY <1>1
<1> HIDE DEF r
<1>4. add'[Worker] = r /\ \A h \in Goroutines : h # Worker => add'[h] = add[h]
  BY <1>2, <1>3
<1>5. wk'.pc = "reinsert" /\ wk'.b = b
  BY <1>2 DEF WorkerStates
<1>6. HandsKept
  BY <1>2, <1>3, <1>4, <1>5 DEF HandsKept, Offers, Working
<1>7. Advance'
  BY <1>2, <1>5 DEF InTime, Advance
<1>8. exp[t] < E + TickOf[w]
  <2>1. BucketAt(w, x) = b /\ x < clock[w] + Interval(w)
    BY <1>1, <1>2 DEF PathInv, FlowInv, FiledInv, Filed
  <2>2. Multiple(E, TickOf[w]) /\ BucketAt(w, E) = b /\ clock[w] <= E
    BY <1>2 DEF InTime, Windows, InFlight, InWindow
  <2>3. TickOf[w] \in Nat /\ TickOf[w] > 0
    BY <1>2, WheelNumbers
  <2>4. x \in Int /\ Multiple(x, TickOf[w]) /\ exp[t] < x + TickOf[w]
    BY <1>2, <2>3, TruncateIs
  <2> HIDE DEF x, w, E, b
  <2>5. x <= E
    BY <1>2, <2>1, <2>2, <2>4, SameBucket
  <2> QED BY <1>2, <2>3, <2>4, <2>5
<1>9. Reinserted'
  BY <1>2, <1>3, <1>4, <1>5, <1>8 DEF Reinserted
<1> QED BY <1>2, <1>6, <1>7, <1>9, WorkerTime

LEMMA I_FlushBack == ASSUME PathInv, InTime, FlushBack \/ Exit, [Next]_vars PROVE InTime'
<1>1. /\ wk \in WorkerStates /\ add[Worker].pc = "idle"
      /\ UNCHANGED <<now, expiration, clock, queue, polled, add>>
  BY FlowTypes DEF PathInv, FlushBack, Exit, TInv, WorkerInv
<1>2. wk'.b = wk.b /\ (wk'.pc = "exited" \/ (wk.pc = "reinsert" /\ wk'.pc = "flush"))
  BY <1>1 DEF FlushBack, Exit, WorkerStates
<1>3. HandsKept
  BY <1>1, <1>2 DEF HandsKept, Offers, Working
<1>4. Advance'
  BY <1>1, <1>2 DEF InTime, Advance
<1>5. Reinserted'
  BY <1>1 DEF Reinserted
<1> QED BY <1>1, <1>3, <1>4, <1>5, WorkerTime

\* The end of Flush opens the worker's hand, the only one on the bucket.
LEMMA I_FlushEnd == ASSUME PathInv, InTime, FlushEnd, [Next]_vars PROVE InTime'
<1>1. /\ wk \in WorkerStates /\ expiration \in [Buckets -> Int] /\ wk.pc = "flush" /\ wk.b \in Buckets /\ Has(wk.b)
      /\ add[Worker].pc = "idle" /\ wk' = [wk EXCEPT !.pc = "recv"]
      /\ expiration' = [expiration EXCEPT ![wk.b] = -1]
      /\ UNCHANGED <<now, clock, queue, polled, add>>
  BY FlowTypes, FlightBuckets DEF PathInv, FlushEnd, TInv, WorkerInv, Working
<1>2. wk'.pc = "recv"
  BY <1>1 DEF WorkerStates
<1>3. HandsKept /\ ~Working'
  BY <1>1, <1>2 DEF HandsKept, Offers, Working
<1>4. \A c \in Buckets : c # wk.b => expiration'[c] = expiration[c]
  BY <1>1
<1>5. OneHolder'
  BY <1>3, OneHolderKept DEF InTime
<1>7. \A q \in queue : q.b # wk.b /\ q.b \in Buckets
  BY <1>1, FlightBuckets DEF InTime, OneHolder
<1>8. polled # None => polled # wk.b /\ polled \in Buckets
  BY <1>1, FlightBuckets DEF InTime, OneHolder
<1>9. TInv' /\ ClocksGrow
  BY PathNext
<1>10. Windows'
  <2>1. ASSUME NEW c \in Buckets, InFlight(c)' PROVE InWindow(c)'
    <3>1. c # None
      BY FlowTypes DEF PathInv
    <3>2. c # wk.b
      BY <1>1, <1>3, <1>7, <1>8, <2>1, <3>1 DEF InFlight, Has
    <3>3. InWindow(c)
      BY <1>3, <2>1, InFlightKept DEF InTime, Windows
    <3>4. \A u \in Wheels : clock'[u] <= expiration[c]
      BY <1>1, <3>3 DEF InWindow
    <3> QED BY <1>4, <1>9, <3>2, <3>3, <3>4, WindowKept
  <2>2. \A q \in queue' : q.e = expiration'[q.b]
    BY <1>1, <1>4, <1>7 DEF InTime, Windows
  <2>3. ASSUME NEW h \in Goroutines, Offers(h)' PROVE expiration'[Bucket(h)'] = add'[h].vexp
    <3>1. Offers(h) /\ Bucket(h)' = Bucket(h)
      BY <1>1, <2>3 DEF Offers, Bucket
    <3>2. Bucket(h) \in Buckets /\ Bucket(h) # wk.b
      BY <1>1, <3>1, Chosen DEF PathInv, Offers, InTime, OneHolder, InFlight
    <3> QED BY <1>1, <1>4, <3>1, <3>2 DEF InTime, Windows
  <2> QED BY <2>1, <2>2, <2>3 DEF Windows
<1>11. Order'
  BY <1>1, <1>3, <1>4, <1>8 DEF InTime, Order
<1>12. Advance'
  BY <1>2 DEF Advance
<1>13. Reinserted'
  BY <1>1 DEF Reinserted
<1> QED BY <1>5, <1>10, <1>11, <1>12, <1>13 DEF InTime

LEMMA InTimeInit == Init => InTimeInv
<1> SUFFICES ASSUME Init PROVE InTime
  BY DEF InTimeInv
<1>1. /\ queue = {} /\ polled = None /\ wk.pc = "recv" /\ now = 0
      /\ \A g \in Goroutines : add[g].pc = "idle"
      /\ \A w \in Wheels : clock[w] = 0
  BY DEF Init
<1>2. None \notin Buckets /\ Worker \in Goroutines
  BY NamesAssumption DEF Buckets
<1>3. ~Working /\ \A b \in Buckets : ~InFlight(b)
  BY <1>1, <1>2 DEF Working, InFlight, Has
<1>4. OneHolder /\ Windows
  BY <1>1, <1>3 DEF OneHolder, Windows, Offers
<1>5. Order /\ Advance /\ Reinserted
  BY <1>1, <1>2, <1>3 DEF Order, Advance, Reinserted
<1> QED BY <1>4, <1>5 DEF InTime

\* overtaken is a history variable: once true, it stays so.
LEMMA StaysOvertaken == [Next]_vars /\ overtaken => overtaken'
<1> SUFFICES ASSUME [Next]_vars, overtaken PROVE overtaken'
  OBVIOUS
<1>1. ASSUME NEW g \in Goroutines, Add(g) PROVE overtaken'
  BY <1>1, Zenon DEF Add, AddLoad, AddOverflow, BucketAdd, SetExpiration, Offer
<1>2. ASSUME NEW g \in Goroutines, Reschedule(g) PROVE overtaken'
  BY <1>2, Zenon DEF Reschedule
<1>3. CASE UNCHANGED vars
  BY <1>3, Zenon DEF vars
<1>4. CASE Stop \/ Poll \/ WorkerStep \/ Tick
  BY <1>4, Zenon DEF Stop, Poll, Tick, WorkerStep, Receive, ReadExpiration, advanceClock,
                     FlushNext, FlushBack, FlushEnd, Exit
<1>5. ASSUME NEW t \in Timers, NEW d \in Delays, AfterFunc(t, d) PROVE overtaken'
  BY <1>5, Zenon DEF AfterFunc
<1>6. ASSUME NEW t \in Stopped, StopRead(t) \/ StopRemove(t) PROVE overtaken'
  BY <1>6, Zenon DEF StopRead, StopRemove
<1> QED BY <1>1, <1>2, <1>3, <1>4, <1>5, <1>6, Zenon DEF Next

\* A goroutine that is not overtaken sets and offers a bucket whose time has not passed.
LEMMA InTimeAdd ==
  ASSUME PathInv, NEW g \in Goroutines, SetExpiration(g) \/ Offer(g), ~overtaken'
  PROVE  now <= add[g].vexp
<1>1. ~(now > add[g].vexp)
  BY Zenon DEF SetExpiration, Offer
<1>2. add \in [Goroutines -> AddStates] /\ now \in Int
  BY FlowTypes DEF PathInv
<1>3. add[g].vexp \in Int
  BY <1>2 DEF AddStates
<1> QED BY <1>1, <1>2, <1>3

LEMMA InTimeStep == PathInv /\ InTimeInv /\ [Next]_vars => InTimeInv'
<1> SUFFICES ASSUME PathInv, InTimeInv, [Next]_vars, ~overtaken' PROVE InTime'
  BY DEF InTimeInv
<1>0. InTime
  BY StaysOvertaken DEF InTimeInv
<1>1. ASSUME NEW g \in Goroutines, Add(g) \/ Reschedule(g) PROVE InTime'
  <2>1. CASE AddLoad(g)
    BY <1>0, <2>1, I_AddLoad
  <2>2. CASE AddOverflow(g)
    BY <1>0, <2>2, I_AddOverflow
  <2>3. CASE BucketAdd(g) \/ Reschedule(g)
    BY <1>0, <2>3, I_Still
  <2>4. CASE SetExpiration(g)
    BY <1>0, <2>4, InTimeAdd, I_SetExpiration
  <2>5. CASE Offer(g)
    BY <1>0, <2>5, InTimeAdd, I_Offer
  <2> QED BY <1>1, <2>1, <2>2, <2>3, <2>4, <2>5 DEF Add
<1>2. CASE WorkerStep
  BY <1>0, <1>2, I_Receive, I_ReadExpiration, I_advanceClock, I_FlushNext, I_FlushBack, I_FlushEnd
     DEF WorkerStep
<1>3. CASE Poll
  BY <1>0, <1>3, I_Poll
<1>4. ASSUME \/ UNCHANGED vars \/ Tick \/ Stop
             \/ \E t \in Stopped : StopRead(t) \/ StopRemove(t)
             \/ \E t \in Timers, d \in Delays : AfterFunc(t, d)
      PROVE  InTime'
  BY <1>0, <1>4, I_Users
<1> QED BY <1>1, <1>2, <1>3, <1>4, Zenon DEF Next

LEMMA PathInit == Init => PathInv
  BY TInvInit, OnePlaceInit, FlowInit DEF PathInv

LEMMA PathStep == PathInv /\ [Next]_vars => PathInv'
  BY TInvStep, OnePlaceStep, FlowStep DEF PathInv

-----------------------------------------------------------------------------
(* A task is not run before its time.                                       *)

\* A timer that add finds expired on the first wheel, whose tick is a
\* millisecond, has expired by the clock of the machine.
LEMMA RunsLate ==
  ASSUME TickOf[1] = 1, PathInv, InTime, NEW t \in Timers, Expired(1, t)
  PROVE  ~(exp[t] > now)
<1>1. exp[t] \in Nat /\ clock[1] \in Int /\ now \in Nat /\ clock[1] <= now
  BY FlowTypes DEF PathInv, InTime, Order
<1> QED BY <1>1 DEF Expired

LEMMA EarlyStep ==
  ASSUME TickOf[1] = 1, PathInv, InTimeInv, NotEarly, [Next]_vars
  PROVE  NotEarly'
<1> SUFFICES ASSUME ~overtaken' PROVE early' = {}
  BY DEF NotEarly
<1>1. ~overtaken
  BY StaysOvertaken
<1>2. early = {} /\ InTime
  BY <1>1 DEF NotEarly, InTimeInv
<1>3. ASSUME NEW g \in Goroutines, AddLoad(g), early' # early PROVE FALSE
  <2> DEFINE w == add[g].w  t == add[g].t
  <2>1. Expired(w, t) /\ Run(g, t) /\ ~(w > 1)
    BY <1>3, Zenon DEF AddLoad
  <2>2. w \in Wheels /\ t \in Timers
    BY <1>3, FlowTypes DEF PathInv, AddStates, AddLoad, TInv, StepInv, StepOK, TypeOK
  <2>3. w = 1
    BY <2>1, <2>2, WheelAssumption
  <2>4. ~(exp[t] > now)
    BY <1>2, <2>1, <2>2, <2>3, RunsLate
  <2> QED BY <1>3, <2>1, <2>4 DEF Run
<1>4. CASE ~\E g \in Goroutines : AddLoad(g)
  <2>1. ASSUME NEW g \in Goroutines, Add(g) \/ Reschedule(g) PROVE early' = early
    BY <1>4, <2>1 DEF Add, AddOverflow, BucketAdd, SetExpiration, Offer, Reschedule
  <2>2. CASE WorkerStep
    BY <1>2, <2>2 DEF WorkerStep, Receive, ReadExpiration, advanceClock, FlushNext, FlushBack, FlushEnd, Exit
  <2>3. ASSUME NEW t \in Timers, NEW d \in Delays, AfterFunc(t, d) PROVE early' = early
    BY <2>3 DEF AfterFunc
  <2>4. ASSUME NEW t \in Stopped, StopRead(t) \/ StopRemove(t) PROVE early' = early
    BY <2>4 DEF StopRead, StopRemove
  <2>5. CASE UNCHANGED vars \/ Stop \/ Poll \/ Tick
    BY <1>2, <2>5 DEF vars, Stop, Poll, Tick
  <2> QED BY <1>2, <2>1, <2>2, <2>3, <2>4, <2>5 DEF Next
<1> QED BY <1>2, <1>3, <1>4

\* No task is run a millisecond before its time, however many wheels there are
\* and goroutines inside addOrRun, unless one of these is overtaken: a bucket is
\* never handed to the worker before its expiration, advanceClock does not pass
\* it, and add runs a timer when it expires within the tick of the first wheel,
\* a millisecond for the wheel of the state server (state/timer.go).
THEOREM NeverEarly ==
  ASSUME TickOf[1] = 1
  PROVE  Spec => []NotEarly
<1>1. Init => NotEarly
  BY DEF Init, NotEarly
<1>2. PathInv /\ InTimeInv /\ NotEarly /\ [Next]_vars => NotEarly'
  BY EarlyStep
<1> QED BY <1>1, <1>2, PathInit, PathStep, InTimeInit, InTimeStep, PTL DEF Spec

-----------------------------------------------------------------------------
(* Flush does not come back to the bucket it has locked.                    *)

\* The expiration of a bucket is a multiple of the tick of the wheel below.
LEMMA MultipleBelow ==
  ASSUME NEW w \in Wheels, w + 1 \in Wheels, NEW x \in Int, Multiple(x, TickOf[w + 1])
  PROVE  Multiple(x, TickOf[w])
<1>1. /\ TickOf[w] \in Nat /\ TickOf[w] > 0 /\ WheelSize \in Nat
      /\ TickOf[w + 1] = WheelSize * TickOf[w] /\ TickOf[w + 1] \in Nat /\ TickOf[w + 1] > 0
  BY WheelNumbers
<1>2. PICK k \in Int : k = x \div TickOf[w + 1] /\ x = k * TickOf[w + 1]
  BY <1>1, DivMod DEF Multiple
<1>3. x = (k * WheelSize) * TickOf[w] /\ k * WheelSize \in Int
  BY <1>1, <1>2, SMT
<1>4. x \div TickOf[w] = k * WheelSize
  BY <1>1, <1>3, DivMul
<1> QED BY <1>3, <1>4 DEF Multiple

LEMMA RelockNever ==
  ASSUME PathInv, InTime, ~Lagging, add[Worker].pc = "add", Bucket(Worker) = Locked
  PROVE  FALSE
<1> DEFINE w == add[Worker].w  E == expiration[wk.b]  x == exp[add[Worker].t]
<1>1. wk.pc = "reinsert" /\ wk.b \in Buckets /\ Working
  BY DEF PathInv, TInv, WorkerInv, Working
<1>2. /\ add[Worker] \in AddStates /\ add[Worker].t \in Timers /\ top \in Wheels
      /\ clock \in [Wheels -> Int] /\ exp \in [Timers -> Nat] /\ 1 \in Wheels
  BY FlowTypes DEF PathInv, TInv, TypeOK, StepInv, StepOK
<1>3. w \in Wheels /\ x \in Nat /\ E \in Int /\ w <= top
  BY <1>1, <1>2, FlightBuckets DEF AddStates, PathInv, FlowInv, ChoiceInv, ChoiceOK
<1>4. wk.b[1] = w
  BY <1>1 DEF Locked, Bucket, BucketAt
<1>5. x < E + TickOf[w] /\ E < clock[1] + TickOf[1]
  BY <1>1, <1>4 DEF InTime, Reinserted, Advance
<1>6. Multiple(E, TickOf[w])
  BY <1>1, <1>4 DEF InTime, Windows, InWindow, InFlight, Has
<1>7. /\ x >= clock[w] + TickOf[w]
      /\ w > 1 => x >= clock[w - 1] + Interval(w - 1)
  BY DEF PathInv, FlowInv, PassedInv, PassedOK
<1>8. \A v \in Wheels : /\ clock[v] \in Int /\ Multiple(clock[v], TickOf[v])
                        /\ TickOf[v] \in Nat /\ TickOf[v] > 0
  BY <1>2, WheelNumbers DEF PathInv, FlowInv, ClockInv
<1> HIDE DEF w, E, x
<1>9. CASE w = 1
  <2>1. E <= clock[1]
    BY <1>2, <1>3, <1>5, <1>6, <1>8, <1>9, NearMultiples
  <2> QED BY <1>2, <1>3, <1>5, <1>7, <1>8, <1>9, <2>1
<1>10. CASE w > 1
  <2> DEFINE v == w - 1
  <2>1. v \in Wheels /\ v + 1 = w /\ v + 1 \in Wheels /\ v \in Int
    BY <1>3, <1>10, WheelAssumption
  <2>2. TickOf[w] = Interval(v)
    BY <2>1, WheelNumbers
  <2>3. Multiple(E, TickOf[v])
    BY <1>3, <1>6, <2>1, MultipleBelow
  <2>4. E < clock[v] + TickOf[v]
    <3>1. CASE v = 1
      BY <1>5, <3>1
    <3>2. CASE v # 1
      <4>1. v \in 2..top - 1
        BY <1>2, <1>3, <2>1, <3>2, WheelAssumption
      <4>2. ~(clock[1] + TickOf[1] > clock[v] + TickOf[v])
        BY <4>1 DEF Lagging
      <4> QED BY <1>2, <1>3, <1>5, <1>8, <2>1, <4>2
    <3> QED BY <3>1, <3>2
  <2> HIDE DEF v
  <2>5. E <= clock[v]
    BY <1>3, <1>8, <2>1, <2>3, <2>4, NearMultiples
  <2>6. x >= clock[v] + TickOf[w]
    BY <1>7, <1>10, <2>2 DEF v
  <2> QED BY <1>3, <1>5, <1>8, <2>1, <2>5, <2>6
<1> QED BY <1>3, <1>9, <1>10, WheelAssumption

\* Flush calls addOrRun with the mutex of its bucket held.  It never comes back
\* to that mutex, whatever the number of wheels: a timer it takes out expires
\* within the tick of the bucket, and advanceClock has brought the wheels below
\* up to the bucket's expiration first.  The exceptions are a goroutine
\* overtaken inside add, and a wheel between two others that lags behind.
THEOREM FlushNeverRelocks == Spec => []NoRelock
<1>1. PathInv /\ InTimeInv => NoRelock
  BY RelockNever DEF InTimeInv, NoRelock
<1> QED BY <1>1, PathInit, PathStep, InTimeInit, InTimeStep, PTL DEF Spec
=============================================================================
