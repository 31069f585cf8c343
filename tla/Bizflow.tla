------------------------------ MODULE Bizflow ------------------------------
(***************************************************************************)
(* The business flow engine (common/bizflow): AddNode builds a graph of    *)
(* nodes, Run is the master that hands ready nodes to a pool of workers    *)
(* and receives their outcomes over eventChan.                             *)
(*                                                                         *)
(* Two things of the code decide what can go wrong.  The closures given to *)
(* the pool capture loop variables, which go 1.17 (go.mod) shares between  *)
(* the iterations: a worker runs whatever item the variable holds when it  *)
(* starts.  And masterChanClosed asks whether eventChan is closed by       *)
(* receiving from it: it takes an event another worker is sending.         *)
(***************************************************************************)
EXTENDS Integers, Sequences, FiniteSets

CONSTANTS Flows,    \* order of AddNode, deps, RetryNum and the outcomes of every node's Run
          Workers, Pools,  \* workers; what the ants pool may consist of (workSize)
          Caps      \* FlowParallelNum: capacities of eventChan

Outcomes == {"ok", "retry", "nonretry", "abort", "unknown"}
None == "none"

ASSUME FlowsAssumption ==
  \A f \in Flows :
    LET N == DOMAIN f.deps IN
    /\ f.order \in Seq(N) /\ None \notin N /\ IsFiniteSet(N)
    /\ f.deps \in [N -> SUBSET N] /\ f.retry \in [N -> Nat]
    /\ f.ends \in [N -> (SUBSET Outcomes) \ {{}}]
ASSUME PoolsAssumption == Caps \subseteq Nat /\ Pools \subseteq SUBSET Workers /\ {} \notin Pools

VARIABLES
  flow, cap, pool,  \* fixed by Init
  added,        \* the nodes added so far
  first, last,  \* firstNodeName, lastNodeName
  nexts, depsNum, retryNum, event,  \* the items, by name
  master,       \* Run: step, item in hand, items execNext has not reached, what to submit
  result,       \* what Run ended with
  frames,       \* the loop variable of every call of execNext
  buf, closed,  \* eventChan
  wk,           \* workers: step, task, item
  swapped,      \* history: a closure ran an item other than the one it was made for
  stolen,       \* history: masterChanClosed took an event
  early, runs   \* history: a node ran before its deps were done; runs of every node

graph == <<flow, cap, pool, added, first, last, nexts>>
items == <<depsNum, retryNum, event>>
hist == <<swapped, stolen, early, runs>>
vars == <<graph, items, master, result, frames, buf, closed, wk, hist>>

Nodes == DOMAIN flow.deps
Idle == [pc |-> "idle", src |-> "first", f |-> 0, made |-> None, it |-> None]
Range1(s) == {s[i] : i \in 1..Len(s)}

-----------------------------------------------------------------------------
(* AddNode, with the panics that check the graph.                           *)

AddNode ==
  /\ master.pc = "build" /\ Len(added) < Len(flow.order)
  /\ LET n == flow.order[Len(added) + 1]
         deps == flow.deps[n]
         fine == /\ deps = {} => first = None
                 /\ deps \subseteq Range1(added)
     IN
     /\ added' = Append(added, n)
     /\ first' = IF deps = {} /\ first = None THEN n ELSE first
     /\ last' = n
     /\ depsNum' = [depsNum EXCEPT ![n] = Cardinality(deps)]
     /\ retryNum' = [retryNum EXCEPT ![n] = flow.retry[n]]
     /\ nexts' = [p \in Nodes |-> IF p \in deps THEN nexts[p] \cup {n} ELSE nexts[p]]
     /\ master' = IF fine THEN master ELSE [master EXCEPT !.pc = "done"]
     /\ result' = IF fine THEN result ELSE "badGraph"
  /\ UNCHANGED <<flow, cap, pool, event, frames, buf, closed, wk, hist>>

-----------------------------------------------------------------------------
(* The master.                                                              *)

\* workPool.Submit blocks until a worker is idle.
Submit(src, f, n) ==
  \E w \in pool :
    /\ wk[w].pc = "idle"
    /\ wk' = [wk EXCEPT ![w] = [pc |-> "got", src |-> src, f |-> f, made |-> n, it |-> None]]

End(r) == master' = [master EXCEPT !.pc = "done"] /\ result' = r

\* close panics on a channel that is closed already, and takes Run with it; a
\* worker blocked in a send panics in the pool, which recovers it.
Close(then) ==
  /\ closed' = TRUE
  /\ wk' = [w \in Workers |-> IF wk[w].pc = "send" THEN Idle ELSE wk[w]]
  /\ IF closed THEN End("panic") ELSE then

\* Run up to the first receive.  A graph of one node runs in the caller.
RunStart ==
  /\ master.pc = "build" /\ Len(added) = Len(flow.order)
  /\ \/ /\ first = last
        /\ \E o \in flow.ends[first] : End(IF o = "ok" THEN "nil" ELSE "err")
        /\ UNCHANGED <<event, wk>>
     \/ /\ first # last
        /\ Submit("first", 0, first)
        /\ master' = [master EXCEPT !.pc = "recv"]
        /\ UNCHANGED <<event, result>>
  /\ UNCHANGED <<graph, depsNum, retryNum, frames, buf, closed, hist>>

Senders == {w \in Workers : wk[w].pc = "send"}
\* eventChan with the event of a worker that waits to send: a receive lets it in
\* behind the buffer, if there is one, and sets the worker free.
Queue(v) == Append(buf, wk[v].it)
\* The receive of `for it := range g.eventChan`.
RunRecv ==
  /\ master.pc = "recv"
  /\ \/ /\ Senders = {} /\ buf # <<>>
        /\ master' = [master EXCEPT !.pc = "handle", !.it = Head(buf)]
        /\ buf' = Tail(buf)
        /\ UNCHANGED <<wk, result>>
     \/ /\ \E v \in Senders :
             /\ master' = [master EXCEPT !.pc = "handle", !.it = Head(Queue(v))]
             /\ buf' = Tail(Queue(v))
             /\ wk' = [wk EXCEPT ![v] = Idle]
        /\ UNCHANGED result
     \/ /\ buf = <<>> /\ closed
        /\ End("nil") /\ UNCHANGED <<buf, wk>>
  /\ UNCHANGED <<graph, items, frames, closed, hist>>

\* The switch on the event, as it is when the master reads it.
HandleOK ==
  /\ master.pc = "handle" /\ event[master.it] = "ok"
  /\ master' = [master EXCEPT !.pc = "next", !.todo = nexts[master.it]]
  /\ frames' = Append(frames, None)
  /\ UNCHANGED <<graph, items, result, buf, closed, wk, hist>>

HandleRetry ==
  /\ master.pc = "handle" /\ event[master.it] = "retry"
  /\ \/ /\ retryNum[master.it] > 0
        /\ retryNum' = [retryNum EXCEPT ![master.it] = @ - 1]
        /\ Submit("retry", 0, master.it)
     \/ /\ retryNum[master.it] <= 0
        /\ UNCHANGED <<retryNum, wk>>
  /\ master' = [master EXCEPT !.pc = "recv"]
  /\ UNCHANGED <<graph, depsNum, event, result, frames, buf, closed, hist>>

HandleNonRetry ==
  /\ master.pc = "handle" /\ event[master.it] = "nonretry"
  /\ \/ last = master.it /\ Close(End("err"))
     \/ last # master.it /\ End("err") /\ UNCHANGED <<closed, wk>>
  /\ UNCHANGED <<graph, items, frames, buf, hist>>

HandleAbort_NoClose ==
  /\ master.pc = "handle" /\ event[master.it] = "abort"
  /\ End("aborted")
  /\ UNCHANGED <<graph, items, frames, buf, closed, wk, hist>>
HandleAbort ==
  /\ master.pc = "handle" /\ event[master.it] = "abort"
  /\ Close(End("aborted"))
  /\ UNCHANGED <<graph, items, frames, buf, hist>>

\* An error the node's Meta does not name sets no event: no case matches.
HandleUnknown ==
  /\ master.pc = "handle" /\ event[master.it] = None
  /\ master' = [master EXCEPT !.pc = "recv"]
  /\ UNCHANGED <<graph, items, result, frames, buf, closed, wk, hist>>

\* One iteration of execNext; the map is ranged over in any order.
Ready_Any(n) == TRUE
Ready(n) == depsNum[n] - 1 <= 0
ExecNext ==
  /\ master.pc = "next" /\ master.todo # {}
  /\ \E n \in master.todo :
       /\ frames' = [frames EXCEPT ![Len(frames)] = n]
       /\ depsNum' = [depsNum EXCEPT ![n] = @ - 1]
       /\ master' = [master EXCEPT !.pc = IF Ready(n) THEN "submit" ELSE "next", !.todo = @ \ {n}, !.sub = n]
  /\ UNCHANGED <<graph, retryNum, event, result, buf, closed, wk, hist>>
ExecSubmit ==
  /\ master.pc = "submit"
  /\ Submit("next", Len(frames), master.sub)
  /\ master' = [master EXCEPT !.pc = "next"]
  /\ UNCHANGED <<graph, items, result, frames, buf, closed, hist>>

\* tryStop after execNext.
tryStop_Never ==
  /\ master.pc = "next" /\ master.todo = {}
  /\ master' = [master EXCEPT !.pc = "recv"] /\ UNCHANGED <<result, closed, wk>>
  /\ UNCHANGED <<graph, items, frames, buf, hist>>
tryStop ==
  /\ master.pc = "next" /\ master.todo = {}
  /\ \/ last = master.it /\ Close(master' = [master EXCEPT !.pc = "recv"] /\ UNCHANGED result)
     \/ last # master.it /\ master' = [master EXCEPT !.pc = "recv"] /\ UNCHANGED <<result, closed, wk>>
  /\ UNCHANGED <<graph, items, frames, buf, hist>>

-----------------------------------------------------------------------------
(* The workers.                                                             *)

\* The item the closure of a task stands for when it starts.
Captured(w) ==
  CASE wk[w].src = "first" -> first
    [] wk[w].src = "next" -> frames[wk[w].f]
    [] wk[w].src = "retry" -> master.it

\* masterChanClosed, then the worker goes to `pc` or, if it was closed, back to the pool.
masterChanClosed(w, it, pc) ==
  \/ /\ Senders = {} /\ buf # <<>>
     /\ buf' = Tail(buf) /\ stolen' = TRUE
     /\ wk' = [wk EXCEPT ![w].it = it, ![w].pc = pc]
  \/ /\ \E v \in Senders :
          /\ buf' = Tail(Queue(v))
          /\ wk' = [wk EXCEPT ![v] = Idle, ![w].it = it, ![w].pc = pc]
     /\ stolen' = TRUE
  \/ /\ buf = <<>> /\ Senders = {}
     /\ wk' = IF closed THEN [wk EXCEPT ![w] = Idle] ELSE [wk EXCEPT ![w].it = it, ![w].pc = pc]
     /\ UNCHANGED <<buf, stolen>>

WorkBegin(w) ==
  /\ wk[w].pc = "got"
  /\ masterChanClosed(w, Captured(w), "run")
  /\ swapped' = (swapped \/ Captured(w) # wk[w].made)
  /\ UNCHANGED <<graph, items, master, result, frames, closed, early, runs>>

\* GetNode, by which a node reads what it depends on, panics unless the node is completed.
GetNode(n) == event[n] = "ok"

\* Node.Run and setEvent.
WorkRun(w) ==
  /\ wk[w].pc = "run"
  /\ LET n == wk[w].it IN
       /\ \E o \in flow.ends[n] : event' = [event EXCEPT ![n] = IF o = "unknown" THEN @ ELSE o]
       /\ early' = (early \/ \E d \in flow.deps[n] : ~GetNode(d))
       /\ runs' = [runs EXCEPT ![n] = @ + 1]
  /\ wk' = [wk EXCEPT ![w].pc = "check"]
  /\ UNCHANGED <<graph, depsNum, retryNum, master, result, frames, buf, closed, swapped, stolen>>

\* The deferred function: masterChanClosed again, then the send.
WorkCheck(w) ==
  /\ wk[w].pc = "check"
  /\ masterChanClosed(w, wk[w].it, "put")
  /\ UNCHANGED <<graph, items, master, result, frames, closed, swapped, early, runs>>

WorkPut(w) ==
  /\ wk[w].pc = "put"
  /\ \/ /\ closed
        /\ wk' = [wk EXCEPT ![w] = Idle] /\ UNCHANGED buf
     \/ /\ ~closed /\ Len(buf) < cap
        /\ wk' = [wk EXCEPT ![w] = Idle] /\ buf' = Append(buf, wk[w].it)
     \/ /\ ~closed /\ Len(buf) >= cap
        /\ wk' = [wk EXCEPT ![w].pc = "send"] /\ UNCHANGED buf
  /\ UNCHANGED <<graph, items, master, result, frames, closed, hist>>

-----------------------------------------------------------------------------
Init ==
  /\ flow \in Flows /\ cap \in Caps /\ pool \in Pools
  /\ added = <<>> /\ first = None /\ last = None
  /\ nexts = [n \in Nodes |-> {}] /\ depsNum = [n \in Nodes |-> 0]
  /\ retryNum = [n \in Nodes |-> 0] /\ event = [n \in Nodes |-> None]
  /\ master = [pc |-> "build", it |-> None, todo |-> {}, sub |-> None] /\ result = None
  /\ frames = <<>> /\ buf = <<>> /\ closed = FALSE
  /\ wk = [w \in Workers |-> Idle]
  /\ swapped = FALSE /\ stolen = FALSE /\ early = FALSE /\ runs = [n \in Nodes |-> 0]

Handling == HandleOK \/ HandleRetry \/ HandleNonRetry \/ HandleAbort \/ HandleUnknown
Mastering == RunStart \/ RunRecv \/ Handling \/ ExecNext \/ ExecSubmit \/ tryStop
Working(w) == WorkBegin(w) \/ WorkRun(w) \/ WorkCheck(w) \/ WorkPut(w)
Next == AddNode \/ Mastering \/ \E w \in Workers : Working(w)

Spec == Init /\ [][Next]_vars
\* The caller's goroutine and the workers run.
FairSpec == Spec /\ WF_vars(AddNode) /\ WF_vars(Mastering) /\ \A w \in Workers : WF_vars(Working(w))

-----------------------------------------------------------------------------
\* The variables have their types: counters stay in range, eventChan within its capacity.
TypeOK ==
  /\ added \in Seq(Nodes) /\ {first, last} \subseteq Nodes \cup {None}
  /\ \A n \in Nodes : nexts[n] \subseteq Nodes /\ depsNum[n] \in Int /\ retryNum[n] \in 0..flow.retry[n]
  /\ event \in [Nodes -> Outcomes \cup {None}]
  /\ master \in [pc : {"build", "recv", "handle", "next", "submit", "done"},
                 it : Nodes \cup {None}, todo : SUBSET Nodes, sub : Nodes \cup {None}]
  /\ result \in {None, "nil", "err", "aborted", "badGraph", "panic"}
  /\ buf \in Seq(Nodes) /\ Len(buf) <= cap

\* A node that follows the declared dependencies finds them completed, and GetNode does
\* not panic in its Run, unless a closure of execNext ran with a later loop variable.
DepsCompletedUnlessSwapped == early => swapped

\* The master waits for a worker while every worker waits for the master.
Starved == master.pc \in {"handle", "submit"} /\ \A w \in pool : wk[w].pc = "send"
\* A node has failed for good and is not one that ends the run.
GaveUp ==
  \E n \in Nodes :
    (event[n] = None /\ runs[n] > 0) \/ (event[n] = "retry" /\ retryNum[n] = 0)
\* Run returns, unless the pool is too small for the width of the graph, an event
\* was taken by a worker, a closure ran another item, or a node gave up.
RunEnds == <>[](master.pc = "done" \/ Starved \/ stolen \/ swapped \/ GaveUp)

\* Every worker goes back to the pool once Run is over, unless it returned the
\* error of a node, when eventChan stays open and a worker may send for ever.
WorkersComeBack == <>[](master.pc = "done" /\ result # "err" => \A w \in pool : wk[w].pc = "idle")
=============================================================================
