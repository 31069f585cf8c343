--------------------------- MODULE BizflowProofs ---------------------------
(***************************************************************************)
(* A node runs after the nodes it depends on (DepsCompletedUnlessSwapped), *)
(* for every graph, pool of workers and capacity of eventChan.             *)
(*                                                                         *)
(* The engine only counts: depsNum[n] goes down at every "ok" of a dep,    *)
(* and n is submitted when nothing is left.  That n then finds its deps    *)
(* completed rests on two facts the counter does not show.  No item is in  *)
(* two places at once - a worker, the buffer, the master's hand (OneOut) - *)
(* so a dep is counted once; and a node whose "ok" was handled never runs  *)
(* again (FiredInv), so that its event stays "ok".  Both fail once a       *)
(* closure runs another item than its own, hence "unless swapped".         *)
(***************************************************************************)
EXTENDS Bizflow, FiniteSetTheorems, SequenceTheorems, TLAPS

\* The task a worker has, and the item the master has in its hand.
Tasks == [pc : {"idle", "got", "run", "check", "put", "send"}, src : {"first", "next", "retry"},
          f : Nat, made : Nodes \cup {None}, it : Nodes \cup {None}]
Busy(w) == wk[w].pc # "idle"
Holds(w) == IF wk[w].pc = "got" THEN wk[w].made ELSE wk[w].it
InHand == IF master.pc = "handle" THEN master.it ELSE IF master.pc = "submit" THEN master.sub ELSE None
Out(n) ==
  \/ \E w \in Workers : Busy(w) /\ Holds(w) = n
  \/ \E i \in 1..Len(buf) : buf[i] = n
  \/ InHand = n

GraphTypes ==
  /\ flow \in Flows /\ pool \subseteq Workers /\ first \in Nodes \cup {None}
  /\ DOMAIN event = Nodes /\ DOMAIN depsNum = Nodes /\ nexts \in [Nodes -> SUBSET Nodes]
RunTypes ==
  /\ master \in [pc : {"build", "recv", "handle", "next", "submit", "done"},
                 it : Nodes \cup {None}, todo : SUBSET Nodes, sub : Nodes \cup {None}]
  /\ wk \in [Workers -> Tasks] /\ buf \in Seq(Nodes) /\ frames \in Seq(Nodes \cup {None})
  /\ \A w \in Workers : Busy(w) => Holds(w) \in Nodes
  /\ master.pc \in {"handle", "next", "submit"} => master.it \in Nodes
  /\ master.pc = "submit" => master.sub \in Nodes

\* The graph while it is built: nothing runs, and the first node waits for no other.
BuildInv ==
  master.pc = "build" =>
    /\ \A w \in Workers : ~Busy(w)
    /\ buf = <<>> /\ added \in Seq(Nodes)
    /\ last = None <=> added = <<>>
    /\ first = None <=> added = <<>>
    /\ first # None => flow.deps[first] = {}
\* A node added follows each of its deps.
EdgeInv ==
  \A p \in Nodes : \A n \in nexts[p] :
    p \in flow.deps[n] /\ \A d \in flow.deps[n] : n \in nexts[d]

\* An item is in one place at most.
OneWorker == \A w, v \in Workers : Busy(w) /\ Busy(v) /\ Holds(w) = Holds(v) => w = v
OneEvent == \A i, j \in 1..Len(buf) : buf[i] = buf[j] => i = j
Apart ==
  /\ \A w \in Workers : Busy(w) => Holds(w) # InHand
  /\ \A w \in Workers : Busy(w) => \A i \in 1..Len(buf) : Holds(w) # buf[i]
  /\ \A i \in 1..Len(buf) : buf[i] # InHand
OneOut == OneWorker /\ OneEvent /\ Apart

\* The deps of n that execNext has counted down, fired being the nodes whose "ok"
\* the master has handled.
Counted(fired, n) ==
  {d \in fired : ~(d = master.it /\ master.pc \in {"next", "submit"} /\ n \in master.todo)}
Fired(fired) ==
  /\ master.pc = "build" => fired = {}
  /\ master.pc \in {"next", "submit"} => master.it \in fired /\ master.todo \subseteq nexts[master.it]
  /\ \A n \in fired : event[n] = "ok" /\ ~Out(n)
  /\ \A n \in Nodes : Out(n) \/ n \in fired => flow.deps[n] \subseteq Counted(fired, n)
  /\ \A p \in Nodes : \A n \in nexts[p] :
       depsNum[n] = Cardinality(flow.deps[n] \ Counted(fired, n))
FiredInv == \E fired \in SUBSET Nodes : Fired(fired)

Orderly == GraphTypes /\ RunTypes /\ BuildInv /\ EdgeInv /\ OneOut /\ FiredInv /\ ~early
FlowInv == ~swapped => Orderly

-----------------------------------------------------------------------------
LEMMA FlowIs ==
  ASSUME flow \in Flows
  PROVE  /\ flow.order \in Seq(Nodes) /\ None \notin Nodes /\ IsFiniteSet(Nodes)
         /\ flow.deps \in [Nodes -> SUBSET Nodes]
         /\ \A n \in Nodes : IsFiniteSet(flow.deps[n])
<1>1. /\ flow.order \in Seq(Nodes) /\ None \notin Nodes /\ IsFiniteSet(Nodes)
      /\ flow.deps \in [Nodes -> SUBSET Nodes]
  BY FlowsAssumption DEF Nodes
<1>2. \A n \in Nodes : IsFiniteSet(flow.deps[n])
  BY <1>1, FS_Subset
<1> QED BY <1>1, <1>2

LEMMA IdleIs == Idle.pc = "idle" /\ (None \in Nodes \cup {None} => Idle \in Tasks)
BY DEF Idle, Tasks

\* Items disappear: nothing is in two places that was not before.
LEMMA DropKeeps ==
  ASSUME GraphTypes, RunTypes, OneOut, flow' = flow,
         \A w \in Workers : Busy(w)' => Busy(w) /\ Holds(w)' = Holds(w),
         buf' = buf \/ (buf # <<>> /\ buf' = Tail(buf)),
         InHand' = InHand \/ InHand' = None
  PROVE  OneOut' /\ \A n \in Nodes : Out(n)' => Out(n)
<1>1. None \notin Nodes /\ buf \in Seq(Nodes) /\ \A w \in Workers : Busy(w) => Holds(w) \in Nodes
  BY FlowIs DEF GraphTypes, RunTypes
<1>2. PICK k \in {0, 1} : /\ Len(buf') = Len(buf) - k /\ Len(buf) \in Nat
                          /\ \A i \in 1..Len(buf') : i + k \in 1..Len(buf) /\ buf'[i] = buf[i + k]
  <2>1. CASE buf' = buf
    <3>1. /\ Len(buf') = Len(buf) - 0 /\ Len(buf) \in Nat
          /\ \A i \in 1..Len(buf') : i + 0 \in 1..Len(buf) /\ buf'[i] = buf[i + 0]
      BY <1>1, <2>1
    <3> QED BY <3>1
  <2>2. CASE buf # <<>> /\ buf' = Tail(buf)
    <3>1. /\ Len(buf') = Len(buf) - 1 /\ Len(buf) \in Nat
          /\ \A i \in 1..Len(buf') : buf'[i] = buf[i + 1]
      BY <1>1, <2>2, HeadTailProperties
    <3>2. \A i \in 1..Len(buf') : i + 1 \in 1..Len(buf)
      BY <3>1
    <3> QED BY <3>1, <3>2
  <2> QED BY <2>1, <2>2
<1>3. \A i \in 1..Len(buf') : buf'[i] \in Nodes
  BY <1>1, <1>2
<1>4. OneWorker'
  BY DEF OneOut, OneWorker
<1>5. OneEvent'
  <2> SUFFICES ASSUME NEW i \in 1..Len(buf'), NEW j \in 1..Len(buf'), buf'[i] = buf'[j]
               PROVE  i = j
    BY DEF OneEvent
  <2>1. i + k = j + k
    BY <1>2 DEF OneOut, OneEvent
  <2> QED BY <1>2, <2>1
<1>6. Apart'
  <2>1. \A w \in Workers : Busy(w)' => Holds(w)' # InHand'
    BY <1>1 DEF OneOut, Apart
  <2>2. \A w \in Workers : Busy(w)' => \A i \in 1..Len(buf') : Holds(w)' # buf'[i]
    BY <1>2 DEF OneOut, Apart
  <2>3. \A i \in 1..Len(buf') : buf'[i] # InHand'
    BY <1>1, <1>2, <1>3 DEF OneOut, Apart
  <2> QED BY <2>1, <2>2, <2>3 DEF Apart
<1>7. \A n \in Nodes : Out(n)' => Out(n)
  BY <1>1, <1>2 DEF Out
<1> QED BY <1>4, <1>5, <1>6, <1>7 DEF OneOut

\* The pool takes an item the master has in its hand, or a first one.
LEMMA SubmitIs ==
  ASSUME GraphTypes, RunTypes, NEW n \in Nodes, NEW src \in {"first", "next", "retry"},
         NEW f \in Nat, Submit(src, f, n)
  PROVE  \E w \in Workers :
           /\ ~Busy(w) /\ wk' \in [Workers -> Tasks] /\ wk'[w].pc = "got" /\ wk'[w].made = n
           /\ \A v \in Workers : v # w => wk'[v] = wk[v]
<1>1. PICK w \in pool :
        /\ wk[w].pc = "idle"
        /\ wk' = [wk EXCEPT ![w] = [pc |-> "got", src |-> src, f |-> f, made |-> n, it |-> None]]
  BY DEF Submit
<1>2. w \in Workers
  BY DEF GraphTypes
<1>3. [pc |-> "got", src |-> src, f |-> f, made |-> n, it |-> None] \in Tasks
  BY DEF Tasks
<1> QED BY <1>1, <1>2, <1>3 DEF RunTypes, Busy

LEMMA SubmitKeeps ==
  ASSUME GraphTypes, RunTypes, OneOut, flow' = flow, NEW n \in Nodes, NEW u \in Workers,
         ~Busy(u), wk'[u].pc = "got", wk'[u].made = n,
         \A v \in Workers : v # u => wk'[v] = wk[v],
         buf' = buf, InHand' = None, InHand = n \/ (InHand = None /\ ~Out(n))
  PROVE  /\ OneOut' /\ \A m \in Nodes : Out(m)' => Out(m) \/ m = n
         /\ \A w \in Workers : Busy(w)' => Holds(w)' \in Nodes
<1>1. None \notin Nodes /\ buf \in Seq(Nodes) /\ \A w \in Workers : Busy(w) => Holds(w) \in Nodes
  BY FlowIs DEF GraphTypes, RunTypes
<1>2. \A i \in 1..Len(buf) : buf[i] \in Nodes /\ buf[i] # n
  <2>1. \A i \in 1..Len(buf) : buf[i] \in Nodes
    BY <1>1
  <2> QED BY <2>1 DEF OneOut, Apart, Out
<1>3. \A w \in Workers : Busy(w) => Holds(w) # n
  BY DEF OneOut, Apart, Out
<1>4. Busy(u)' /\ Holds(u)' = n
  BY DEF Busy, Holds
<1>5. \A w \in Workers : w # u => (Busy(w)' <=> Busy(w)) /\ Holds(w)' = Holds(w)
  BY DEF Busy, Holds
<1>6. OneWorker'
  BY <1>3, <1>4, <1>5 DEF OneOut, OneWorker
<1>7. OneEvent'
  BY DEF OneOut, OneEvent
<1>8. \A w \in Workers : Busy(w)' => Holds(w)' \in Nodes
  BY <1>1, <1>4, <1>5
<1>9. Apart'
  <2>1. \A w \in Workers : Busy(w)' => Holds(w)' # InHand'
    BY <1>1, <1>8
  <2>2. \A w \in Workers : Busy(w)' => \A i \in 1..Len(buf') : Holds(w)' # buf'[i]
    BY <1>2, <1>4, <1>5 DEF OneOut, Apart
  <2>3. \A i \in 1..Len(buf') : buf'[i] # InHand'
    BY <1>1, <1>2
  <2> QED BY <2>1, <2>2, <2>3 DEF Apart
<1>10. \A m \in Nodes : Out(m)' => Out(m) \/ m = n
  BY <1>1, <1>4, <1>5 DEF Out
<1> QED BY <1>6, <1>7, <1>8, <1>9, <1>10 DEF OneOut

\* The master receives an event, from the buffer or from a worker that waits to send.
LEMMA RecvBufKeeps ==
  ASSUME GraphTypes, RunTypes, OneOut, flow' = flow, wk' = wk, buf # <<>>, buf' = Tail(buf),
         InHand = None, InHand' = Head(buf)
  PROVE  OneOut' /\ \A n \in Nodes : Out(n)' => Out(n)
<1>1. buf \in Seq(Nodes) /\ \A w \in Workers : Busy(w)' = Busy(w) /\ Holds(w)' = Holds(w)
  BY DEF RunTypes, Busy, Holds
<1>2. /\ Len(buf) \in Nat /\ Len(buf') = Len(buf) - 1 /\ Head(buf) = buf[1] /\ 1 \in 1..Len(buf)
      /\ \A i \in 1..Len(buf') : buf'[i] = buf[i + 1]
  BY <1>1, HeadTailProperties, EmptySeq
<1>3. \A i \in 1..Len(buf') : i + 1 \in 1..Len(buf) /\ i + 1 # 1
  BY <1>2
<1>4. OneWorker'
  BY <1>1 DEF OneOut, OneWorker
<1>5. OneEvent'
  <2> SUFFICES ASSUME NEW i \in 1..Len(buf'), NEW j \in 1..Len(buf'), buf'[i] = buf'[j]
               PROVE  i = j
    BY DEF OneEvent
  <2>1. i + 1 = j + 1
    BY <1>2, <1>3 DEF OneOut, OneEvent
  <2> QED BY <1>2, <2>1
<1>6. Apart'
  <2>1. \A w \in Workers : Busy(w)' => Holds(w)' # InHand'
    BY <1>1, <1>2 DEF OneOut, Apart
  <2>2. \A w \in Workers : Busy(w)' => \A i \in 1..Len(buf') : Holds(w)' # buf'[i]
    BY <1>1, <1>2, <1>3 DEF OneOut, Apart
  <2>3. \A i \in 1..Len(buf') : buf'[i] # InHand'
    BY <1>2, <1>3 DEF OneOut, OneEvent
  <2> QED BY <2>1, <2>2, <2>3 DEF Apart
<1>7. \A n \in Nodes : Out(n)' => Out(n)
  BY <1>1, <1>2, <1>3 DEF Out
<1> QED BY <1>4, <1>5, <1>6, <1>7 DEF OneOut

\* What a receive does to the queue.
LEMMA QueueIs ==
  ASSUME NEW S, NEW s \in Seq(S), NEW e \in S
  PROVE  /\ Append(s, e) \in Seq(S) /\ Tail(Append(s, e)) \in Seq(S)
         /\ s = <<>> => Head(Append(s, e)) = e /\ Tail(Append(s, e)) = <<>>
         /\ s # <<>> => /\ Head(Append(s, e)) = s[1] /\ 1 \in 1..Len(s)
                        /\ Len(Tail(Append(s, e))) = Len(s)
                        /\ \A i \in 1..Len(s) - 1 : Tail(Append(s, e))[i] = s[i + 1]
                        /\ Tail(Append(s, e))[Len(s)] = e
<1> DEFINE q == Append(s, e)
<1>1. /\ q \in Seq(S) /\ Len(q) = Len(s) + 1 /\ Len(s) \in Nat
      /\ \A i \in 1..Len(s) : q[i] = s[i]
      /\ q[Len(s) + 1] = e
  OBVIOUS
<1> HIDE DEF q
<1>2. q # <<>>
  BY <1>1
<1>3. /\ Head(q) = q[1] /\ Tail(q) \in Seq(S) /\ Len(Tail(q)) = Len(s)
      /\ \A i \in 1..Len(s) : Tail(q)[i] = q[i + 1]
  BY <1>1, <1>2, HeadTailProperties
<1>4. CASE s = <<>>
  <2>1. Len(s) = 0
    BY <1>4
  <2> QED BY <1>1, <1>3, <1>4, <2>1, EmptySeq DEF q
<1>5. CASE s # <<>>
  <2>1. Len(s) >= 1
    BY <1>5, <1>1, EmptySeq
  <2>2. \A i \in 1..Len(s) - 1 : Tail(q)[i] = s[i + 1]
    BY <1>1, <1>3, <2>1
  <2>3. Tail(q)[Len(s)] = e
    BY <1>1, <1>3, <2>1
  <2>4. Head(q) = s[1]
    BY <1>1, <1>3, <2>1
  <2> QED BY <1>1, <1>3, <1>5, <2>1, <2>2, <2>3, <2>4 DEF q
<1> QED BY <1>4, <1>5

\* An event leaves the buffer, for the master's hand or for nobody, and the one of a
\* worker that waited to send comes in behind.
LEMMA ShiftKeeps ==
  ASSUME GraphTypes, RunTypes, OneOut, flow' = flow, NEW u \in Workers, wk[u].pc = "send",
         ~Busy(u)', \A w \in Workers : Busy(w)' => Busy(w) /\ Holds(w)' = Holds(w),
         buf # <<>>, buf' = Tail(Queue(u)),
         InHand' = InHand \/ (InHand = None /\ InHand' = Head(Queue(u)))
  PROVE  OneOut' /\ buf' \in Seq(Nodes) /\ \A n \in Nodes : Out(n)' => Out(n)
<1>0. PICK e : e = wk[u].it
  OBVIOUS
<1>1. Busy(u) /\ Holds(u) = e
  BY <1>0 DEF Busy, Holds
<1>2. buf \in Seq(Nodes) /\ e \in Nodes /\ None \notin Nodes /\ Len(buf) \in Nat
  BY <1>1, FlowIs DEF RunTypes, GraphTypes
<1>3. /\ buf' \in Seq(Nodes) /\ Head(Queue(u)) = buf[1] /\ 1 \in 1..Len(buf)
      /\ Len(buf') = Len(buf)
      /\ \A i \in 1..Len(buf) - 1 : buf'[i] = buf[i + 1]
      /\ buf'[Len(buf)] = e
  BY <1>0, <1>2, QueueIs DEF Queue
<1>4. \A i \in 1..Len(buf') : i = Len(buf) \/ (i \in 1..Len(buf) - 1 /\ i + 1 \in 1..Len(buf) /\ i + 1 # 1)
  BY <1>2, <1>3
<1>5. \A i \in 1..Len(buf) : buf[i] # e
  BY <1>1 DEF OneOut, Apart
<1>6. InHand # e /\ \A w \in Workers : Busy(w)' => Holds(w)' # e /\ w # u
  BY <1>1 DEF OneOut, Apart, OneWorker
<1>7. OneWorker'
  BY DEF OneOut, OneWorker
<1>8. OneEvent'
  <2> SUFFICES ASSUME NEW i \in 1..Len(buf'), NEW j \in 1..Len(buf'), buf'[i] = buf'[j]
               PROVE  i = j
    BY DEF OneEvent
  <2>1. CASE i = Len(buf) \/ j = Len(buf)
    BY <1>3, <1>4, <1>5, <2>1
  <2>2. CASE i # Len(buf) /\ j # Len(buf)
    <3>1. i + 1 = j + 1
      BY <1>3, <1>4, <2>2 DEF OneOut, OneEvent
    <3> QED BY <1>3, <3>1
  <2> QED BY <2>1, <2>2
<1>9. Apart'
  <2>1. \A w \in Workers : Busy(w)' => Holds(w)' # InHand'
    BY <1>3 DEF OneOut, Apart
  <2>2. \A w \in Workers : Busy(w)' => \A i \in 1..Len(buf') : Holds(w)' # buf'[i]
    BY <1>3, <1>4, <1>6 DEF OneOut, Apart
  <2>3. \A i \in 1..Len(buf') : buf'[i] # InHand'
    <3> TAKE i \in 1..Len(buf')
    <3>1. CASE i = Len(buf)
      BY <1>3, <1>5, <1>6, <3>1
    <3>2. CASE i # Len(buf)
      BY <1>3, <1>4, <3>2 DEF OneOut, Apart, OneEvent
    <3> QED BY <3>1, <3>2
  <2> QED BY <2>1, <2>2, <2>3 DEF Apart
<1>10. \A n \in Nodes : Out(n)' => Out(n)
  <2> SUFFICES ASSUME NEW n \in Nodes, Out(n)' PROVE Out(n)
    OBVIOUS
  <2>1. CASE \E w \in Workers : Busy(w)' /\ Holds(w)' = n
    BY <2>1 DEF Out
  <2>2. CASE \E i \in 1..Len(buf') : buf'[i] = n
    BY <1>1, <1>3, <1>4, <2>2 DEF Out
  <2>3. CASE InHand' = n
    BY <1>3, <2>3 DEF Out
  <2> QED BY <2>1, <2>2, <2>3 DEF Out
<1> QED BY <1>3, <1>7, <1>8, <1>9, <1>10 DEF OneOut

LEMMA RecvSenderKeeps ==
  ASSUME GraphTypes, RunTypes, OneOut, flow' = flow, NEW u \in Workers, wk[u].pc = "send",
         ~Busy(u)', \A v \in Workers : v # u => wk'[v] = wk[v],
         buf' = buf, InHand = None, InHand' = wk[u].it
  PROVE  OneOut' /\ \A n \in Nodes : Out(n)' => Out(n)
<1>1. \A w \in Workers : Busy(w)' => w # u /\ Busy(w) /\ Holds(w)' = Holds(w)
  BY DEF Busy, Holds
<1>2. Busy(u) /\ Holds(u) = wk[u].it
  BY DEF Busy, Holds
<1>3. OneWorker'
  BY <1>1 DEF OneOut, OneWorker
<1>4. OneEvent'
  BY DEF OneOut, OneEvent
<1>5. Apart'
  <2>1. \A w \in Workers : Busy(w)' => Holds(w)' # InHand'
    BY <1>1, <1>2 DEF OneOut, OneWorker
  <2>2. \A w \in Workers : Busy(w)' => \A i \in 1..Len(buf') : Holds(w)' # buf'[i]
    BY <1>1 DEF OneOut, Apart
  <2>3. \A i \in 1..Len(buf') : buf'[i] # InHand'
    BY <1>2 DEF OneOut, Apart
  <2> QED BY <2>1, <2>2, <2>3 DEF Apart
<1>6. \A n \in Nodes : Out(n)' => Out(n)
  BY <1>1, <1>2 DEF Out
<1> QED BY <1>3, <1>4, <1>5, <1>6 DEF OneOut

\* A worker sends its event to the buffer.
LEMMA PutKeeps ==
  ASSUME GraphTypes, RunTypes, OneOut, flow' = flow, NEW u \in Workers, Busy(u),
         ~Busy(u)', \A v \in Workers : v # u => wk'[v] = wk[v],
         buf' = Append(buf, Holds(u)), InHand' = InHand
  PROVE  OneOut' /\ buf' \in Seq(Nodes) /\ \A n \in Nodes : Out(n)' => Out(n)
<1>1. \A w \in Workers : Busy(w)' => w # u /\ Busy(w) /\ Holds(w)' = Holds(w)
  BY DEF Busy, Holds
<1>2. PICK n \in Nodes : n = Holds(u)
  BY DEF RunTypes
<1>3. /\ buf' \in Seq(Nodes) /\ Len(buf) \in Nat /\ Len(buf') = Len(buf) + 1
      /\ buf'[Len(buf) + 1] = n /\ \A i \in 1..Len(buf) : buf'[i] = buf[i]
  <2>1. buf \in Seq(Nodes) /\ buf' = Append(buf, n)
    BY <1>2 DEF RunTypes
  <2> QED BY <2>1
<1>4. \A i \in 1..Len(buf') : i \in 1..Len(buf) \/ i = Len(buf) + 1
  BY <1>3
<1>5. \A i \in 1..Len(buf) : buf[i] # n
  BY <1>2 DEF OneOut, Apart
<1>6. OneWorker'
  BY <1>1 DEF OneOut, OneWorker
<1>7. OneEvent'
  BY <1>3, <1>4, <1>5 DEF OneOut, OneEvent
<1>8. Apart'
  <2>1. \A w \in Workers : Busy(w)' => Holds(w)' # InHand'
    BY <1>1 DEF OneOut, Apart
  <2>2. \A w \in Workers : Busy(w)' => \A i \in 1..Len(buf') : Holds(w)' # buf'[i]
    <3>1. \A w \in Workers : Busy(w)' => Holds(w)' # n
      BY <1>1, <1>2 DEF OneOut, OneWorker
    <3>2. \A w \in Workers : Busy(w)' => \A i \in 1..Len(buf) : Holds(w)' # buf[i]
      BY <1>1 DEF OneOut, Apart
    <3> QED BY <1>3, <1>4, <3>1, <3>2
  <2>3. \A i \in 1..Len(buf') : buf'[i] # InHand'
    BY <1>2, <1>3, <1>4 DEF OneOut, Apart
  <2> QED BY <2>1, <2>2, <2>3 DEF Apart
<1>9. \A m \in Nodes : Out(m)' => Out(m)
  BY <1>1, <1>2, <1>3, <1>4 DEF Out
<1> QED BY <1>3, <1>6, <1>7, <1>8, <1>9 DEF OneOut

-----------------------------------------------------------------------------
\* Items only move or disappear, and nothing is counted.
LEMMA FiredKeeps ==
  ASSUME GraphTypes, FiredInv, UNCHANGED <<flow, nexts, depsNum>>,
         \A n \in Nodes : Out(n)' => Out(n),
         \A n \in Nodes : ~Out(n) => event'[n] = event[n],
         master'.pc = "build" => master.pc = "build",
         \/ /\ master'.pc \notin {"next", "submit"}
            /\ master.pc \notin {"next", "submit"} \/ master.todo = {}
         \/ /\ master'.pc \in {"next", "submit"} /\ master.pc \in {"next", "submit"}
            /\ master'.it = master.it /\ master'.todo = master.todo
  PROVE  FiredInv'
<1>1. PICK fired \in SUBSET Nodes : Fired(fired)
  BY DEF FiredInv
<1>2. Nodes' = Nodes
  BY DEF Nodes
<1>3. \A n \in Nodes : Counted(fired, n)' = Counted(fired, n)
  BY DEF Counted
<1>4. master'.pc = "build" => fired = {}
  BY <1>1 DEF Fired
<1>5. master'.pc \in {"next", "submit"} => master'.it \in fired /\ master'.todo \subseteq nexts'[master'.it]
  BY <1>1 DEF Fired
<1>6. \A n \in fired : event'[n] = "ok" /\ ~Out(n)'
  BY <1>1 DEF Fired
<1>7. \A n \in Nodes : Out(n)' \/ n \in fired => flow'.deps[n] \subseteq Counted(fired, n)'
  BY <1>1, <1>3 DEF Fired
<1>8. \A p \in Nodes : \A n \in nexts'[p] :
        depsNum'[n] = Cardinality(flow'.deps[n] \ Counted(fired, n)')
  BY <1>1, <1>3 DEF Fired, GraphTypes
<1>9. Fired(fired)'
  BY <1>2, <1>4, <1>5, <1>6, <1>7, <1>8 DEF Fired
<1> QED BY <1>2, <1>9 DEF FiredInv

-----------------------------------------------------------------------------
\* What every step of a running flow shows, apart from HandleOK and ExecNext.
LEMMA StepKeeps ==
  ASSUME Orderly, UNCHANGED <<graph, depsNum>>, RunTypes', OneOut', ~early',
         \A n \in Nodes : Out(n)' => Out(n),
         DOMAIN event' = Nodes, \A n \in Nodes : ~Out(n) => event'[n] = event[n],
         master'.pc # "build",
         \/ /\ master'.pc \notin {"next", "submit"}
            /\ master.pc \notin {"next", "submit"} \/ master.todo = {}
         \/ /\ master'.pc \in {"next", "submit"} /\ master.pc \in {"next", "submit"}
            /\ master'.it = master.it /\ master'.todo = master.todo
  PROVE  Orderly'
<1>1. GraphTypes /\ EdgeInv /\ FiredInv
  BY DEF Orderly
<1>2. UNCHANGED <<flow, pool, first, nexts, depsNum, Nodes>>
  BY DEF graph, Nodes
<1>3. GraphTypes'
  BY <1>1, <1>2 DEF GraphTypes
<1>4. EdgeInv'
  BY <1>1, <1>2 DEF EdgeInv
<1>5. BuildInv'
  BY DEF BuildInv
<1>6. FiredInv'
  BY <1>1, <1>2, FiredKeeps
<1> QED BY <1>3, <1>4, <1>5, <1>6 DEF Orderly

\* A step of the master that submits nothing: workers lose items at most.
LEMMA DropSteps ==
  ASSUME Orderly, UNCHANGED <<graph, depsNum, event, early, frames>>, RunTypes',
         \A w \in Workers : Busy(w)' => Busy(w) /\ Holds(w)' = Holds(w),
         buf' = buf \/ (buf # <<>> /\ buf' = Tail(buf)),
         InHand' = InHand \/ InHand' = None,
         master'.pc # "build",
         \/ /\ master'.pc \notin {"next", "submit"}
            /\ master.pc \notin {"next", "submit"} \/ master.todo = {}
         \/ /\ master'.pc \in {"next", "submit"} /\ master.pc \in {"next", "submit"}
            /\ master'.it = master.it /\ master'.todo = master.todo
  PROVE  Orderly'
<1>1. GraphTypes /\ RunTypes /\ OneOut /\ ~early /\ DOMAIN event = Nodes
  BY DEF Orderly, GraphTypes
<1>2. flow' = flow
  BY DEF graph
<1>3. OneOut' /\ \A n \in Nodes : Out(n)' => Out(n)
  BY <1>1, <1>2, DropKeeps
<1> QED BY <1>1, <1>3, StepKeeps

\* The types of a step.
LEMMA RunTypesKeep ==
  ASSUME Orderly, flow' = flow, wk' \in [Workers -> Tasks], buf' \in Seq(Nodes),
         frames' \in Seq(Nodes \cup {None}),
         master' \in [pc : {"build", "recv", "handle", "next", "submit", "done"},
                      it : Nodes \cup {None}, todo : SUBSET Nodes, sub : Nodes \cup {None}],
         \A w \in Workers : Busy(w)' => Holds(w)' \in Nodes,
         master'.pc \in {"handle", "next", "submit"} => master'.it \in Nodes,
         master'.pc = "submit" => master'.sub \in Nodes
  PROVE  RunTypes'
<1>1. Nodes' = Nodes /\ Tasks' = Tasks
  BY DEF Nodes, Tasks
<1> QED BY <1>1 DEF RunTypes

LEMMA CloseIs ==
  ASSUME RunTypes, closed' = TRUE,
         wk' = [w \in Workers |-> IF wk[w].pc = "send" THEN Idle ELSE wk[w]]
  PROVE  /\ wk' \in [Workers -> Tasks]
         /\ \A w \in Workers : Busy(w)' => Busy(w) /\ Holds(w)' = Holds(w)
<1>1. \A w \in Workers : wk'[w] = wk[w] \/ wk'[w].pc = "idle"
  BY IdleIs
<1>2. wk' \in [Workers -> Tasks]
  BY IdleIs DEF RunTypes
<1> QED BY <1>1, <1>2 DEF Busy, Holds

\* The master ends, or goes back to its receive, with the item in its hand dropped.
LEMMA MasterDrops ==
  ASSUME Orderly, UNCHANGED <<graph, depsNum, event, early, frames, buf>>,
         NEW pc \in {"recv", "done"}, master' = [master EXCEPT !.pc = pc],
         master.pc \notin {"next", "submit"} \/ master.todo = {},
         \/ wk' = wk
         \/ closed' = TRUE /\ wk' = [w \in Workers |-> IF wk[w].pc = "send" THEN Idle ELSE wk[w]]
  PROVE  Orderly'
<1>1. RunTypes /\ flow' = flow
  BY DEF Orderly, graph
<1>2. /\ wk' \in [Workers -> Tasks]
      /\ \A w \in Workers : Busy(w)' => Busy(w) /\ Holds(w)' = Holds(w)
  BY <1>1, CloseIs DEF RunTypes, Busy, Holds
<1>3. /\ master' \in [pc : {"build", "recv", "handle", "next", "submit", "done"},
                      it : Nodes \cup {None}, todo : SUBSET Nodes, sub : Nodes \cup {None}]
      /\ master'.pc = pc
  BY <1>1 DEF RunTypes
<1>4. buf' \in Seq(Nodes) /\ frames' \in Seq(Nodes \cup {None})
      /\ \A w \in Workers : Busy(w)' => Holds(w)' \in Nodes
  BY <1>1, <1>2 DEF RunTypes
<1>5. RunTypes'
  BY <1>1, <1>2, <1>3, <1>4, RunTypesKeep
<1>6. InHand' = None
  BY <1>3 DEF InHand
<1> QED BY <1>2, <1>3, <1>5, <1>6, DropSteps

LEMMA RunRecvKeeps ==
  ASSUME Orderly, RunRecv
  PROVE  Orderly'
<1>1. GraphTypes /\ RunTypes /\ OneOut /\ ~early /\ DOMAIN event = Nodes
  BY DEF Orderly, GraphTypes
<1>2. /\ master.pc = "recv" /\ InHand = None
      /\ UNCHANGED <<graph, flow, depsNum, event, early, frames>>
  BY DEF RunRecv, InHand, graph, items, hist
<1>3. CASE buf # <<>> /\ master' = [master EXCEPT !.pc = "handle", !.it = Head(buf)]
           /\ buf' = Tail(buf) /\ wk' = wk
  <2>1. Head(buf) \in Nodes /\ Tail(buf) \in Seq(Nodes)
    BY <1>1, <1>3 DEF RunTypes
  <2>2. /\ master' \in [pc : {"build", "recv", "handle", "next", "submit", "done"},
                        it : Nodes \cup {None}, todo : SUBSET Nodes, sub : Nodes \cup {None}]
        /\ master'.pc = "handle" /\ master'.it = Head(buf)
    BY <1>1, <1>3, <2>1 DEF RunTypes
  <2>3. RunTypes'
    <3>1. \A w \in Workers : Busy(w)' => Holds(w)' \in Nodes
      BY <1>1, <1>3 DEF RunTypes, Busy, Holds
    <3>2. wk' \in [Workers -> Tasks] /\ frames' \in Seq(Nodes \cup {None})
      BY <1>1, <1>2, <1>3 DEF RunTypes
    <3> QED BY <1>2, <1>3, <2>1, <2>2, <3>1, <3>2, RunTypesKeep
  <2>4. InHand' = Head(buf)
    BY <2>2 DEF InHand
  <2>5. OneOut' /\ \A n \in Nodes : Out(n)' => Out(n)
    BY <1>1, <1>2, <1>3, <2>4, RecvBufKeeps
  <2> QED BY <1>1, <1>2, <2>2, <2>3, <2>5, StepKeeps
<1>4. CASE \E v \in Senders :
             /\ master' = [master EXCEPT !.pc = "handle", !.it = Head(Queue(v))]
             /\ buf' = Tail(Queue(v))
             /\ wk' = [wk EXCEPT ![v] = Idle]
  <2>0. PICK u \in Workers :
          /\ wk[u].pc = "send" /\ wk' = [wk EXCEPT ![u] = Idle]
          /\ buf' = Tail(Queue(u))
          /\ master' = [master EXCEPT !.pc = "handle", !.it = Head(Queue(u))]
    BY <1>4 DEF Senders
  <2>1. PICK x : /\ wk[u].pc = "send" /\ wk' = [wk EXCEPT ![u] = Idle]
                 /\ buf' = Tail(Queue(u)) /\ x = Head(Queue(u))
                 /\ master' = [master EXCEPT !.pc = "handle", !.it = x]
    BY <2>0
  <2>2. /\ wk[u].it \in Nodes /\ x \in Nodes /\ buf' \in Seq(Nodes)
        /\ buf = <<>> => x = wk[u].it /\ buf' = buf
    <3>1. wk[u].it \in Nodes /\ buf \in Seq(Nodes)
      BY <1>1, <2>1 DEF RunTypes, Busy, Holds
    <3>2. buf # <<>> => buf[1] \in Nodes
      BY <3>1, EmptySeq
    <3> QED BY <2>1, <3>1, <3>2, QueueIs DEF Queue
  <2>3. /\ wk' \in [Workers -> Tasks] /\ wk'[u].pc = "idle"
        /\ \A v \in Workers : v # u => wk'[v] = wk[v]
    BY <1>1, <2>1, IdleIs DEF RunTypes
  <2>4. /\ master' \in [pc : {"build", "recv", "handle", "next", "submit", "done"},
                        it : Nodes \cup {None}, todo : SUBSET Nodes, sub : Nodes \cup {None}]
        /\ master'.pc = "handle" /\ master'.it = x
    BY <1>1, <2>1, <2>2 DEF RunTypes
  <2>5. RunTypes'
    <3>1. \A w \in Workers : Busy(w)' => Holds(w)' \in Nodes
      BY <1>1, <2>3 DEF RunTypes, Busy, Holds
    <3>2. frames' \in Seq(Nodes \cup {None})
      BY <1>1, <1>2 DEF RunTypes
    <3> QED BY <1>2, <2>2, <2>3, <2>4, <3>1, <3>2, RunTypesKeep
  <2>6. InHand' = x /\ ~Busy(u)'
    BY <2>3, <2>4 DEF InHand, Busy
  <2>7. OneOut' /\ \A n \in Nodes : Out(n)' => Out(n)
    <3>1. CASE buf = <<>>
      BY <1>1, <1>2, <2>1, <2>2, <2>3, <2>6, <3>1, RecvSenderKeeps
    <3>2. CASE buf # <<>>
      <4>1. \A w \in Workers : Busy(w)' => Busy(w) /\ Holds(w)' = Holds(w)
        BY <2>3 DEF Busy, Holds
      <4> QED BY <1>1, <1>2, <2>1, <2>6, <3>2, <4>1, ShiftKeeps
    <3> QED BY <3>1, <3>2
  <2> QED BY <1>1, <1>2, <2>4, <2>5, <2>7, StepKeeps
<1>5. CASE master' = [master EXCEPT !.pc = "done"] /\ UNCHANGED <<buf, wk>>
  BY <1>2, <1>5, MasterDrops
<1> QED BY <1>3, <1>4, <1>5 DEF RunRecv, End

\* The master hands an item it has to a worker.
LEMMA HandOver ==
  ASSUME Orderly, UNCHANGED <<graph, depsNum, event, early, frames, buf>>,
         master.pc \in {"handle", "submit"}, NEW n \in Nodes, InHand = n,
         NEW src \in {"next", "retry"}, NEW f \in Nat, Submit(src, f, n),
         NEW pc \in {"recv", "next"}, master' = [master EXCEPT !.pc = pc],
         pc = "next" <=> master.pc = "submit"
  PROVE  Orderly'
<1>1. GraphTypes /\ RunTypes /\ OneOut /\ ~early /\ DOMAIN event = Nodes
  BY DEF Orderly, GraphTypes
<1>2. flow' = flow
  BY DEF graph
<1>3. PICK u \in Workers :
        /\ ~Busy(u) /\ wk' \in [Workers -> Tasks] /\ wk'[u].pc = "got" /\ wk'[u].made = n
        /\ \A v \in Workers : v # u => wk'[v] = wk[v]
  BY <1>1, SubmitIs
<1>4. /\ master' \in [pc : {"build", "recv", "handle", "next", "submit", "done"},
                      it : Nodes \cup {None}, todo : SUBSET Nodes, sub : Nodes \cup {None}]
      /\ master'.pc = pc /\ master'.it = master.it /\ master'.todo = master.todo
      /\ master.it \in Nodes
  BY <1>1 DEF RunTypes
<1>5. InHand' = None
  BY <1>4 DEF InHand
<1>6. /\ OneOut' /\ \A m \in Nodes : Out(m)' => Out(m) \/ m = n
      /\ \A w \in Workers : Busy(w)' => Holds(w)' \in Nodes
  BY <1>1, <1>2, <1>3, <1>5, SubmitKeeps
<1>7. \A m \in Nodes : Out(m)' => Out(m)
  BY <1>6 DEF Out
<1>8. RunTypes'
  <2>1. buf' \in Seq(Nodes) /\ frames' \in Seq(Nodes \cup {None})
    BY <1>1 DEF RunTypes
  <2> QED BY <1>2, <1>3, <1>4, <1>6, <2>1, RunTypesKeep
<1> QED BY <1>1, <1>4, <1>6, <1>7, <1>8, StepKeeps

-----------------------------------------------------------------------------
\* masterChanClosed may take somebody's event; the worker keeps its own item, or
\* gives it up when the channel is closed.
LEMMA ChanKeeps ==
  ASSUME Orderly, NEW u \in Workers, wk[u].pc \in {"got", "check"}, NEW n, n = Holds(u),
         NEW pc \in {"run", "put"}, masterChanClosed(u, n, pc),
         UNCHANGED <<graph, depsNum, event, early, frames, master>>
  PROVE  Orderly'
<1>1. RunTypes /\ BuildInv /\ flow' = flow
  BY DEF Orderly, graph
<1>2. Busy(u) /\ n \in Nodes /\ master.pc # "build"
  BY <1>1 DEF RunTypes, BuildInv, Busy
<1>3. /\ wk' \in [Workers -> Tasks]
      /\ buf' \in Seq(Nodes)
      /\ \/ buf' = buf
         \/ buf # <<>> /\ buf' = Tail(buf)
         \/ buf # <<>> /\ \E v \in Workers : wk[v].pc = "send" /\ wk'[v].pc = "idle" /\ buf' = Tail(Queue(v))
      /\ wk'[u].pc = "idle" \/ (wk'[u].pc = pc /\ wk'[u].it = n)
      /\ \A w \in Workers : w # u => wk'[w] = wk[w] \/ wk'[w].pc = "idle"
  <2>1. wk \in [Workers -> Tasks] /\ wk[u] \in Tasks /\ Idle \in Tasks /\ Idle.pc = "idle"
    BY <1>1, IdleIs DEF RunTypes
  <2> DEFINE t == [wk[u] EXCEPT !.it = n, !.pc = pc]
  <2>2. t \in Tasks /\ t.it = n /\ t.pc = pc
    BY <1>2, <2>1 DEF Tasks
  <2> HIDE DEF t
  <2>0. buf \in Seq(Nodes) /\ (buf # <<>> => Tail(buf) \in Seq(Nodes))
    BY <1>1 DEF RunTypes
  <2>3. CASE buf # <<>> /\ buf' = Tail(buf) /\ wk' = [wk EXCEPT ![u].it = n, ![u].pc = pc]
    <3>1. wk' = [wk EXCEPT ![u] = t]
      BY <2>1, <2>3 DEF t
    <3> QED BY <2>0, <2>1, <2>2, <2>3, <3>1
  <2>4. CASE \E v \in Senders : /\ buf' = Tail(Queue(v))
                                /\ wk' = [wk EXCEPT ![v] = Idle, ![u].it = n, ![u].pc = pc]
    <3>1. PICK v \in Workers :
            /\ v # u /\ wk[v].pc = "send" /\ buf' = Tail(Queue(v))
            /\ wk' = [wk EXCEPT ![v] = Idle, ![u].it = n, ![u].pc = pc]
      BY <2>4 DEF Senders
    <3>2. wk' = [wk EXCEPT ![v] = Idle, ![u] = t]
      BY <2>1, <3>1 DEF t
    <3>3. wk' \in [Workers -> Tasks]
      BY <2>1, <2>2, <3>2
    <3>4. wk'[u] = t
      BY <2>1, <3>1, <3>2
    <3>5. \A w \in Workers : w # u => wk'[w] = wk[w] \/ wk'[w] = Idle
      BY <2>1, <3>1, <3>2
    <3>6. wk[v].it \in Nodes
      BY <1>1, <3>1 DEF RunTypes, Busy, Holds
    <3>7. buf' \in Seq(Nodes) /\ (buf = <<>> => buf' = buf)
      BY <2>0, <3>1, <3>6, QueueIs DEF Queue
    <3>8. wk'[v].pc = "idle"
      BY <2>1, <3>1, <3>2
    <3> QED BY <2>1, <2>2, <3>1, <3>3, <3>4, <3>5, <3>7, <3>8
  <2>5. CASE /\ buf' = buf
             /\ wk' = IF closed THEN [wk EXCEPT ![u] = Idle]
                      ELSE [wk EXCEPT ![u].it = n, ![u].pc = pc]
    <3>1. wk' = [wk EXCEPT ![u] = Idle] \/ wk' = [wk EXCEPT ![u] = t]
      BY <2>1, <2>5 DEF t
    <3> QED BY <2>0, <2>1, <2>2, <2>5, <3>1
  <2> QED BY <2>3, <2>4, <2>5 DEF masterChanClosed
<1>4. \A w \in Workers : Busy(w)' => Busy(w) /\ Holds(w)' = Holds(w)
  BY <1>2, <1>3 DEF Busy, Holds
<1>5. RunTypes'
  <2>1. \A w \in Workers : Busy(w)' => Holds(w)' \in Nodes
    BY <1>1, <1>4 DEF RunTypes
  <2> QED BY <1>1, <1>3, <2>1, RunTypesKeep DEF RunTypes
<1>6. InHand' = InHand
  BY DEF InHand
<1>7. CASE buf' = buf \/ (buf # <<>> /\ buf' = Tail(buf))
  BY <1>2, <1>4, <1>5, <1>6, <1>7, DropSteps
<1>8. CASE buf # <<>> /\ \E v \in Workers : wk[v].pc = "send" /\ wk'[v].pc = "idle" /\ buf' = Tail(Queue(v))
  <2>1. PICK v \in Workers : wk[v].pc = "send" /\ ~Busy(v)' /\ buf' = Tail(Queue(v))
    BY <1>8 DEF Busy
  <2>2. GraphTypes /\ OneOut /\ ~early /\ DOMAIN event = Nodes
    BY DEF Orderly, GraphTypes
  <2>3. OneOut' /\ \A m \in Nodes : Out(m)' => Out(m)
    BY <1>1, <1>4, <1>6, <1>8, <2>1, <2>2, ShiftKeeps
  <2> QED BY <1>2, <1>5, <2>2, <2>3, StepKeeps
<1> QED BY <1>3, <1>7, <1>8

LEMMA WorkBeginKeeps ==
  ASSUME Orderly, NEW u \in Workers, WorkBegin(u), ~swapped'
  PROVE  Orderly'
<1>1. wk[u].pc = "got" /\ masterChanClosed(u, Captured(u), "run")
      /\ UNCHANGED <<graph, depsNum, event, early, frames, master>>
  BY DEF WorkBegin, items
<1>2. Captured(u) = wk[u].made
  BY Zenon DEF WorkBegin
<1>3. PICK n : n = Captured(u)
  OBVIOUS
<1>4. n = Holds(u)
  BY <1>1, <1>2, <1>3 DEF Holds
<1> QED BY <1>1, <1>3, <1>4, ChanKeeps

LEMMA WorkCheckKeeps ==
  ASSUME Orderly, NEW u \in Workers, WorkCheck(u)
  PROVE  Orderly'
<1>1. wk[u].pc = "check" /\ masterChanClosed(u, wk[u].it, "put")
      /\ UNCHANGED <<graph, depsNum, event, early, frames, master>>
  BY DEF WorkCheck, items
<1>2. PICK n : n = wk[u].it
  OBVIOUS
<1>3. n = Holds(u)
  BY <1>1, <1>2 DEF Holds
<1> QED BY <1>1, <1>2, <1>3, ChanKeeps

\* A node runs: all it depends on has been handled, and is still "ok".
LEMMA WorkRunKeeps ==
  ASSUME Orderly, NEW u \in Workers, WorkRun(u)
  PROVE  Orderly'
<1>1. GraphTypes /\ RunTypes /\ BuildInv /\ OneOut /\ FiredInv /\ ~early /\ flow' = flow
  BY DEF Orderly, WorkRun, graph
<1>2. PICK n \in Nodes : n = wk[u].it /\ n = Holds(u) /\ wk[u].pc = "run"
  BY <1>1 DEF WorkRun, RunTypes, Busy, Holds
<1>3. /\ \E o \in flow.ends[n] : event' = [event EXCEPT ![n] = IF o = "unknown" THEN @ ELSE o]
      /\ early' = (early \/ \E d \in flow.deps[n] : ~GetNode(d))
      /\ wk' = [wk EXCEPT ![u].pc = "check"]
      /\ UNCHANGED <<graph, depsNum, frames, master, buf>>
  BY <1>2 DEF WorkRun
<1>4. Busy(u) /\ Out(n) /\ master.pc # "build"
  BY <1>1, <1>2 DEF Out, Busy, BuildInv
<1>5. DOMAIN event' = Nodes /\ \A m \in Nodes : m # n => event'[m] = event[m]
  BY <1>1, <1>3 DEF GraphTypes
<1>6. ~early'
  <2>1. PICK fired \in SUBSET Nodes : Fired(fired)
    BY <1>1 DEF FiredInv
  <2>2. flow.deps[n] \subseteq Counted(fired, n)
    BY <1>4, <2>1 DEF Fired
  <2>3. \A d \in flow.deps[n] : event[d] = "ok"
    BY <2>1, <2>2 DEF Fired, Counted
  <2> QED BY <1>1, <1>3, <2>3, Zenon DEF GetNode
<1>7. /\ wk' \in [Workers -> Tasks] /\ wk'[u].pc = "check" /\ wk'[u].it = n
      /\ \A w \in Workers : w # u => wk'[w] = wk[w]
  <2>1. wk \in [Workers -> Tasks] /\ wk[u] \in Tasks
    BY <1>1 DEF RunTypes
  <2> DEFINE t == [wk[u] EXCEPT !.pc = "check"]
  <2>2. t \in Tasks /\ t.it = n /\ t.pc = "check"
    BY <1>2, <2>1 DEF Tasks
  <2>3. wk' = [wk EXCEPT ![u] = t]
    BY <1>3
  <2> HIDE DEF t
  <2> QED BY <2>1, <2>2, <2>3
<1>8. \A w \in Workers : Busy(w)' => Busy(w) /\ Holds(w)' = Holds(w)
  BY <1>2, <1>4, <1>7 DEF Busy, Holds
<1>9. RunTypes'
  <2>1. \A w \in Workers : Busy(w)' => Holds(w)' \in Nodes
    BY <1>1, <1>8 DEF RunTypes
  <2> QED BY <1>1, <1>3, <1>7, <2>1, RunTypesKeep DEF RunTypes
<1>10. InHand' = InHand
  BY <1>3 DEF InHand
<1>11. OneOut' /\ \A m \in Nodes : Out(m)' => Out(m)
  BY <1>1, <1>3, <1>8, <1>10, DropKeeps
<1>12. \A m \in Nodes : ~Out(m) => event'[m] = event[m]
  BY <1>4, <1>5
<1> QED BY <1>3, <1>4, <1>5, <1>6, <1>9, <1>11, <1>12, StepKeeps

LEMMA WorkPutKeeps ==
  ASSUME Orderly, NEW u \in Workers, WorkPut(u)
  PROVE  Orderly'
<1>1. GraphTypes /\ RunTypes /\ BuildInv /\ OneOut /\ ~early /\ flow' = flow /\ DOMAIN event = Nodes
  BY DEF Orderly, WorkPut, graph, GraphTypes
<1>2. wk[u].pc = "put" /\ UNCHANGED <<graph, depsNum, event, early, frames, master>>
  BY DEF WorkPut, items, hist
<1>3. Busy(u) /\ Holds(u) = wk[u].it /\ master.pc # "build" /\ InHand' = InHand
  BY <1>1, <1>2 DEF Busy, Holds, BuildInv, InHand
<1>4. wk \in [Workers -> Tasks] /\ wk[u] \in Tasks /\ Idle \in Tasks /\ Idle.pc = "idle"
  BY <1>1, IdleIs DEF RunTypes
<1>5. CASE wk' = [wk EXCEPT ![u] = Idle] /\ buf' = Append(buf, wk[u].it)
  <2>1. /\ wk' \in [Workers -> Tasks] /\ ~Busy(u)'
        /\ \A w \in Workers : w # u => wk'[w] = wk[w]
    BY <1>4, <1>5 DEF Busy
  <2>2. OneOut' /\ buf' \in Seq(Nodes) /\ \A n \in Nodes : Out(n)' => Out(n)
    BY <1>1, <1>3, <1>5, <2>1, PutKeeps
  <2>3. \A w \in Workers : Busy(w)' => Holds(w)' \in Nodes
    BY <1>1, <2>1 DEF RunTypes, Busy, Holds
  <2>4. RunTypes'
    BY <1>1, <1>2, <2>1, <2>2, <2>3, RunTypesKeep DEF RunTypes
  <2> QED BY <1>1, <1>2, <1>3, <2>2, <2>4, StepKeeps
<1>6. CASE buf' = buf /\ (wk' = [wk EXCEPT ![u] = Idle] \/ wk' = [wk EXCEPT ![u].pc = "send"])
  <2>1. /\ wk' \in [Workers -> Tasks]
        /\ wk'[u].pc = "idle" \/ (wk'[u].pc = "send" /\ wk'[u].it = wk[u].it)
        /\ \A w \in Workers : w # u => wk'[w] = wk[w]
    <3> DEFINE t == [wk[u] EXCEPT !.pc = "send"]
    <3>1. t \in Tasks /\ t.it = wk[u].it /\ t.pc = "send"
      BY <1>4 DEF Tasks
    <3>2. wk' = [wk EXCEPT ![u] = Idle] \/ wk' = [wk EXCEPT ![u] = t]
      BY <1>6
    <3> HIDE DEF t
    <3> QED BY <1>4, <3>1, <3>2
  <2>2. \A w \in Workers : Busy(w)' => Busy(w) /\ Holds(w)' = Holds(w)
    BY <1>2, <2>1 DEF Busy, Holds
  <2>3. \A w \in Workers : Busy(w)' => Holds(w)' \in Nodes
    BY <1>1, <2>2 DEF RunTypes
  <2>4. RunTypes'
    BY <1>1, <1>2, <1>6, <2>1, <2>3, RunTypesKeep DEF RunTypes
  <2> QED BY <1>2, <1>3, <1>6, <2>2, <2>4, DropSteps
<1> QED BY <1>5, <1>6 DEF WorkPut

-----------------------------------------------------------------------------
LEMMA HandleRetryKeeps ==
  ASSUME Orderly, HandleRetry
  PROVE  Orderly'
<1>1. /\ master.pc = "handle" /\ master' = [master EXCEPT !.pc = "recv"]
      /\ Submit("retry", 0, master.it) \/ wk' = wk
      /\ UNCHANGED <<graph, depsNum, event, early, frames, buf>>
  BY DEF HandleRetry, hist
<1>2. PICK n \in Nodes : n = master.it
  BY <1>1 DEF Orderly, RunTypes
<1>3. InHand = n
  BY <1>1, <1>2 DEF InHand
<1>4. CASE Submit("retry", 0, master.it)
  BY <1>1, <1>2, <1>3, <1>4, HandOver
<1>5. CASE wk' = wk
  BY <1>1, <1>5, MasterDrops
<1> QED BY <1>1, <1>4, <1>5

LEMMA ExecSubmitKeeps ==
  ASSUME Orderly, ExecSubmit
  PROVE  Orderly'
<1>1. /\ master.pc = "submit" /\ master' = [master EXCEPT !.pc = "next"]
      /\ Submit("next", Len(frames), master.sub)
      /\ UNCHANGED <<graph, depsNum, event, early, frames, buf>>
  BY DEF ExecSubmit, items, hist
<1>2. PICK n \in Nodes : n = master.sub
  BY <1>1 DEF Orderly, RunTypes
<1>3. PICK f \in Nat : f = Len(frames)
  BY DEF Orderly, RunTypes
<1>4. InHand = n
  BY <1>1, <1>2 DEF InHand
<1> QED BY <1>1, <1>2, <1>3, <1>4, HandOver

\* Run is over, or waits for the next event.
LEMMA EndKeeps ==
  ASSUME Orderly, HandleNonRetry \/ HandleAbort \/ HandleUnknown \/ tryStop
  PROVE  Orderly'
<1>1. UNCHANGED <<graph, depsNum, event, early, frames, buf>>
  BY DEF HandleNonRetry, HandleAbort, HandleUnknown, tryStop, items, hist
<1>2. master.pc \notin {"next", "submit"} \/ master.todo = {}
  BY DEF HandleNonRetry, HandleAbort, HandleUnknown, tryStop
<1>3. \/ wk' = wk
      \/ closed' = TRUE /\ wk' = [w \in Workers |-> IF wk[w].pc = "send" THEN Idle ELSE wk[w]]
  BY DEF HandleNonRetry, HandleAbort, HandleUnknown, tryStop, Close
<1>4. master' = [master EXCEPT !.pc = "recv"] \/ master' = [master EXCEPT !.pc = "done"]
  BY DEF HandleNonRetry, HandleAbort, HandleUnknown, tryStop, Close, End
<1> QED BY <1>1, <1>2, <1>3, <1>4, MasterDrops

\* The master handles an "ok": the node is fired, and nothing of it is left.
LEMMA HandleOKKeeps ==
  ASSUME Orderly, HandleOK
  PROVE  Orderly'
<1>1. /\ GraphTypes /\ RunTypes /\ EdgeInv /\ OneOut /\ FiredInv /\ ~early
      /\ flow' = flow /\ Nodes' = Nodes
  BY DEF Orderly, HandleOK, graph, Nodes
<1>2. PICK d \in Nodes : d = master.it /\ master.pc = "handle" /\ event[d] = "ok" /\ InHand = d
  BY <1>1 DEF HandleOK, RunTypes, InHand
<1>3. /\ UNCHANGED <<graph, pool, first, nexts, depsNum, event, early, buf, wk>>
      /\ master' = [master EXCEPT !.pc = "next", !.todo = nexts[d]]
      /\ frames' = Append(frames, None)
  BY <1>2 DEF HandleOK, items, hist, graph
<1>4. /\ master' \in [pc : {"build", "recv", "handle", "next", "submit", "done"},
                      it : Nodes \cup {None}, todo : SUBSET Nodes, sub : Nodes \cup {None}]
      /\ master'.pc = "next" /\ master'.it = d /\ master'.todo = nexts[d]
  <2>1. nexts[d] \in SUBSET Nodes
    BY <1>1, <1>2 DEF GraphTypes
  <2> QED BY <1>1, <1>2, <1>3, <2>1 DEF RunTypes
<1>5. \A w \in Workers : (Busy(w)' <=> Busy(w)) /\ Holds(w)' = Holds(w)
  BY <1>3 DEF Busy, Holds
<1>6. RunTypes'
  <2>1. frames' \in Seq(Nodes \cup {None})
    BY <1>1, <1>3 DEF RunTypes
  <2>2. wk' \in [Workers -> Tasks] /\ buf' \in Seq(Nodes)
    BY <1>1, <1>3 DEF RunTypes
  <2>3. \A w \in Workers : Busy(w)' => Holds(w)' \in Nodes
    BY <1>1, <1>5 DEF RunTypes
  <2> QED BY <1>1, <1>2, <1>4, <2>1, <2>2, <2>3, RunTypesKeep
<1>7. InHand' = None
  BY <1>4 DEF InHand
<1>8. OneOut' /\ \A n \in Nodes : Out(n)' => Out(n)
  BY <1>1, <1>3, <1>5, <1>7, DropKeeps
<1>9. ~Out(d)'
  <2>1. None \notin Nodes
    BY <1>1, FlowIs DEF GraphTypes
  <2> QED BY <1>1, <1>2, <1>3, <1>5, <1>7, <2>1 DEF Out, OneOut, Apart
<1>10. PICK fired \in SUBSET Nodes : Fired(fired)
  BY <1>1 DEF FiredInv
<1> DEFINE more == fired \cup {d}
<1>11. Out(d) /\ d \notin fired
  BY <1>2, <1>10 DEF Out, Fired
<1>12. \A n \in Nodes : Counted(fired, n) = fired
  BY <1>2 DEF Counted
<1>13. \A n \in Nodes : Counted(more, n)' = IF n \in nexts[d] THEN fired ELSE more
  BY <1>4, <1>11 DEF Counted
<1>14. Fired(more)'
  <2>1. more # {} /\ d \in more /\ fired \subseteq more
    OBVIOUS
  <2>2. \A n \in more : event'[n] = "ok" /\ ~Out(n)'
    BY <1>2, <1>3, <1>8, <1>9, <1>10 DEF Fired
  <2>3. \A n \in Nodes : Out(n)' \/ n \in more => flow'.deps[n] \subseteq Counted(more, n)'
    <3> SUFFICES ASSUME NEW n \in Nodes, Out(n)' \/ n \in more
                 PROVE  flow.deps[n] \subseteq Counted(more, n)'
      BY <1>1
    <3>1. Out(n) \/ n \in fired
      BY <1>8, <1>11
    <3>2. flow.deps[n] \subseteq fired
      BY <1>10, <1>12, <3>1 DEF Fired
    <3> QED BY <1>13, <3>2
  <2>4. \A p \in Nodes : \A n \in nexts'[p] :
          depsNum'[n] = Cardinality(flow'.deps[n] \ Counted(more, n)')
    <3> SUFFICES ASSUME NEW p \in Nodes, NEW n \in nexts[p]
                 PROVE  depsNum[n] = Cardinality(flow.deps[n] \ Counted(more, n)')
      BY <1>1, <1>3
    <3>1. n \in Nodes /\ (d \in flow.deps[n] => n \in nexts[d])
      BY <1>1, <1>2 DEF GraphTypes, EdgeInv
    <3>2. flow.deps[n] \ Counted(more, n)' = flow.deps[n] \ fired
      BY <1>13, <3>1
    <3>3. depsNum[n] = Cardinality(flow.deps[n] \ fired)
      BY <1>10, <1>12, <3>1 DEF Fired
    <3> QED BY <3>2, <3>3
  <2> HIDE DEF more
  <2>5. /\ master'.pc = "build" => more = {}
        /\ master'.pc \in {"next", "submit"} => master'.it \in more /\ master'.todo \subseteq nexts'[master'.it]
    BY <1>3, <1>4, <2>1
  <2> QED BY <1>1, <2>2, <2>3, <2>4, <2>5 DEF Fired
<1>15. more \in SUBSET Nodes'
  BY <1>1
<1>16. FiredInv'
  BY <1>14, <1>15 DEF FiredInv
<1>17. GraphTypes' /\ EdgeInv' /\ BuildInv' /\ ~early'
  BY <1>1, <1>3, <1>4 DEF GraphTypes, EdgeInv, BuildInv
<1> QED BY <1>6, <1>8, <1>16, <1>17 DEF Orderly

\* execNext counts a dep of n down; n is submitted once all its deps are counted.
LEMMA ExecNextKeeps ==
  ASSUME Orderly, ExecNext
  PROVE  Orderly'
<1>1. /\ GraphTypes /\ RunTypes /\ EdgeInv /\ OneOut /\ FiredInv /\ ~early
      /\ flow' = flow /\ Nodes' = Nodes /\ None \notin Nodes
  BY FlowIs DEF Orderly, ExecNext, graph, Nodes, GraphTypes
<1>2. /\ master.pc = "next" /\ master.it \in Nodes /\ InHand = None
      /\ UNCHANGED <<graph, pool, first, nexts, event, early, buf, wk>>
  BY <1>1 DEF ExecNext, RunTypes, InHand, graph, hist
<1>3. PICK n \in master.todo :
        /\ frames' = [frames EXCEPT ![Len(frames)] = n]
        /\ depsNum' = [depsNum EXCEPT ![n] = @ - 1]
        /\ master' = [master EXCEPT !.pc = IF Ready(n) THEN "submit" ELSE "next", !.todo = @ \ {n}, !.sub = n]
  BY DEF ExecNext
<1>4. PICK d \in Nodes : d = master.it
  BY <1>2
<1>5. PICK fired \in SUBSET Nodes : Fired(fired)
  BY <1>1 DEF FiredInv
<1>6. /\ n \in nexts[d] /\ n \in Nodes /\ d \in fired /\ master.todo \subseteq nexts[d]
      /\ d \in flow.deps[n]
  BY <1>1, <1>2, <1>4, <1>5 DEF Fired, GraphTypes, EdgeInv
<1>7. /\ master' \in [pc : {"build", "recv", "handle", "next", "submit", "done"},
                      it : Nodes \cup {None}, todo : SUBSET Nodes, sub : Nodes \cup {None}]
      /\ master'.pc \in {"next", "submit"} /\ (master'.pc = "submit" <=> Ready(n))
      /\ master'.it = d /\ master'.todo = master.todo \ {n} /\ master'.sub = n
  <2>1. master.todo \in SUBSET Nodes
    BY <1>1 DEF RunTypes
  <2> QED BY <1>1, <1>3, <1>4, <1>6, <2>1 DEF RunTypes
<1>8. \A w \in Workers : (Busy(w)' <=> Busy(w)) /\ Holds(w)' = Holds(w)
  BY <1>2 DEF Busy, Holds
<1>9. RunTypes'
  <2>1. frames' \in Seq(Nodes \cup {None})
    <3>1. frames \in Seq(Nodes \cup {None}) /\ Len(frames) \in Nat
      BY <1>1 DEF RunTypes
    <3>2. CASE Len(frames) \in 1..Len(frames)
      BY <1>3, <1>6, <3>1, <3>2, ExceptSeq
    <3>3. CASE Len(frames) \notin 1..Len(frames)
      <4>1. Len(frames) \notin DOMAIN frames
        BY <3>1, <3>3
      <4>2. frames' = frames
        BY <1>3, <3>1, <4>1
      <4> QED BY <3>1, <4>2
    <3> QED BY <3>2, <3>3
  <2>2. wk' \in [Workers -> Tasks] /\ buf' \in Seq(Nodes)
    BY <1>1, <1>2 DEF RunTypes
  <2>3. \A w \in Workers : Busy(w)' => Holds(w)' \in Nodes
    BY <1>1, <1>8 DEF RunTypes
  <2> QED BY <1>1, <1>6, <1>7, <2>1, <2>2, <2>3, RunTypesKeep
<1>10. Counted(fired, n)' = Counted(fired, n) \cup {d} /\ d \notin Counted(fired, n)
  BY <1>2, <1>4, <1>6, <1>7 DEF Counted
<1>11. \A m \in Nodes : m # n => Counted(fired, m)' = Counted(fired, m)
  BY <1>2, <1>4, <1>7 DEF Counted
<1>12. ~Out(n) /\ n \notin fired
  BY <1>5, <1>6, <1>10 DEF Fired
<1> DEFINE left == flow.deps[n] \ Counted(fired, n)
<1>13. /\ IsFiniteSet(left) /\ d \in left /\ depsNum[n] = Cardinality(left)
       /\ IsFiniteSet(left \ {d}) /\ Cardinality(left) \in Nat
       /\ Cardinality(left \ {d}) = Cardinality(left) - 1
       /\ flow.deps[n] \ Counted(fired, n)' = left \ {d}
  <2>1. IsFiniteSet(left)
    BY <1>1, <1>6, FlowIs, FS_Subset DEF GraphTypes
  <2>2. d \in left
    BY <1>6, <1>10
  <2>3. depsNum[n] = Cardinality(left)
    BY <1>4, <1>5, <1>6 DEF Fired
  <2>4. flow.deps[n] \ Counted(fired, n)' = left \ {d}
    BY <1>10
  <2> HIDE DEF left
  <2>5. IsFiniteSet(left \ {d}) /\ Cardinality(left) \in Nat /\ Cardinality(left \ {d}) = Cardinality(left) - 1
    BY <2>1, <2>2, FS_RemoveElement, FS_CardinalityType
  <2> QED BY <2>1, <2>2, <2>3, <2>4, <2>5
<1>14. Ready(n) => flow.deps[n] \subseteq Counted(fired, n)'
  <2> SUFFICES ASSUME Ready(n) PROVE flow.deps[n] \subseteq Counted(fired, n)'
    OBVIOUS
  <2>1. Cardinality(left) - 1 <= 0
    <3> HIDE DEF left
    <3> QED BY <1>13 DEF Ready
  <2>2. left \ {d} = {}
    <3> HIDE DEF left
    <3>1. Cardinality(left \ {d}) = 0
      BY <1>13, <2>1, FS_CardinalityType
    <3> QED BY <1>13, <3>1, FS_EmptySet
  <2> QED BY <1>13, <2>2
<1> HIDE DEF left
<1>15. /\ OneOut' /\ \A m \in Nodes : Out(m)' => Out(m) \/ (m = n /\ Ready(n))
  <2>1. InHand' = IF Ready(n) THEN n ELSE None
    BY <1>7 DEF InHand
  <2>2. OneWorker' /\ OneEvent'
    BY <1>1, <1>2, <1>8 DEF OneOut, OneWorker, OneEvent
  <2>3. \A i \in 1..Len(buf) : buf[i] \in Nodes /\ buf[i] # n
    <3>1. \A i \in 1..Len(buf) : buf[i] \in Nodes
      BY <1>1 DEF RunTypes
    <3> QED BY <1>12, <3>1 DEF Out
  <2>4. \A w \in Workers : Busy(w) => Holds(w) \in Nodes /\ Holds(w) # n
    BY <1>1, <1>12 DEF Out, RunTypes
  <2>5. Apart'
    <3>1. \A w \in Workers : Busy(w)' => Holds(w)' # InHand'
      BY <1>1, <1>8, <2>1, <2>4
    <3>2. \A w \in Workers : Busy(w)' => \A i \in 1..Len(buf') : Holds(w)' # buf'[i]
      BY <1>1, <1>2, <1>8 DEF OneOut, Apart
    <3>3. \A i \in 1..Len(buf') : buf'[i] # InHand'
      BY <1>1, <1>2, <2>1, <2>3
    <3> QED BY <3>1, <3>2, <3>3 DEF Apart
  <2>6. \A m \in Nodes : Out(m)' => Out(m) \/ (m = n /\ Ready(n))
    BY <1>1, <1>2, <1>8, <2>1 DEF Out
  <2> QED BY <2>2, <2>5, <2>6 DEF OneOut
<1>16. Fired(fired)'
  <2>1. \A m \in fired : event'[m] = "ok" /\ ~Out(m)'
    BY <1>2, <1>5, <1>12, <1>15 DEF Fired
  <2>2. \A m \in Nodes : Out(m)' \/ m \in fired => flow'.deps[m] \subseteq Counted(fired, m)'
    BY <1>1, <1>5, <1>11, <1>12, <1>14, <1>15 DEF Fired
  <2>3. \A p \in Nodes : \A m \in nexts'[p] :
          depsNum'[m] = Cardinality(flow'.deps[m] \ Counted(fired, m)')
    <3> SUFFICES ASSUME NEW p \in Nodes, NEW m \in nexts[p]
                 PROVE  depsNum'[m] = Cardinality(flow.deps[m] \ Counted(fired, m)')
      BY <1>1, <1>2
    <3>1. m \in Nodes /\ DOMAIN depsNum = Nodes
      BY <1>1 DEF GraphTypes
    <3>2. CASE m = n
      BY <1>3, <1>13, <3>1, <3>2
    <3>3. CASE m # n
      <4>1. depsNum'[m] = depsNum[m]
        BY <1>3, <3>1, <3>3
      <4> QED BY <1>5, <1>11, <3>1, <3>3, <4>1 DEF Fired
    <3> QED BY <3>2, <3>3
  <2>4. /\ master'.pc = "build" => fired = {}
        /\ master'.pc \in {"next", "submit"} => master'.it \in fired /\ master'.todo \subseteq nexts'[master'.it]
    BY <1>2, <1>6, <1>7
  <2> QED BY <1>1, <2>1, <2>2, <2>3, <2>4 DEF Fired
<1>17. FiredInv'
  BY <1>1, <1>16 DEF FiredInv
<1>18. GraphTypes' /\ EdgeInv' /\ BuildInv' /\ ~early'
  BY <1>1, <1>2, <1>3, <1>7 DEF GraphTypes, EdgeInv, BuildInv
<1> QED BY <1>9, <1>15, <1>17, <1>18 DEF Orderly

-----------------------------------------------------------------------------
\* Nothing is anywhere while the graph is built.
LEMMA NothingOut ==
  ASSUME GraphTypes, BuildInv, master.pc = "build"
  PROVE  InHand = None /\ \A n \in Nodes : ~Out(n)
<1>1. InHand = None /\ None \notin Nodes /\ Len(buf) = 0
  BY FlowIs DEF InHand, BuildInv, GraphTypes
<1>2. 1..Len(buf) = {}
  BY <1>1
<1> QED BY <1>1, <1>2 DEF Out, BuildInv

LEMMA AddNodeKeeps ==
  ASSUME Orderly, AddNode
  PROVE  Orderly'
<1>1. /\ GraphTypes /\ RunTypes /\ EdgeInv /\ OneOut /\ FiredInv /\ BuildInv /\ ~early
      /\ flow' = flow /\ Nodes' = Nodes /\ None \notin Nodes
  BY FlowIs DEF Orderly, AddNode, Nodes, GraphTypes
<1>2. /\ master.pc = "build" /\ Len(added) < Len(flow.order) /\ added \in Seq(Nodes)
      /\ flow.order \in Seq(Nodes) /\ flow.deps \in [Nodes -> SUBSET Nodes]
  BY <1>1, FlowIs DEF AddNode, BuildInv, GraphTypes
<1>3. PICK n \in Nodes : n = flow.order[Len(added) + 1]
  <2>1. Len(added) + 1 \in 1..Len(flow.order)
    BY <1>2
  <2> QED BY <1>2, <2>1
<1> DEFINE deps == flow.deps[n]
           fine == (deps = {} => first = None) /\ deps \subseteq Range1(added)
<1>4. /\ added' = Append(added, n)
      /\ first' = IF deps = {} /\ first = None THEN n ELSE first
      /\ last' = n
      /\ depsNum' = [depsNum EXCEPT ![n] = Cardinality(deps)]
      /\ nexts' = [p \in Nodes |-> IF p \in deps THEN nexts[p] \cup {n} ELSE nexts[p]]
      /\ master' = IF fine THEN master ELSE [master EXCEPT !.pc = "done"]
      /\ UNCHANGED <<pool, event, frames, buf, wk, early>>
  BY <1>3 DEF AddNode, hist
<1>5. /\ master' \in [pc : {"build", "recv", "handle", "next", "submit", "done"},
                      it : Nodes \cup {None}, todo : SUBSET Nodes, sub : Nodes \cup {None}]
      /\ (master'.pc = "build" /\ fine) \/ master'.pc = "done"
  BY <1>1, <1>2, <1>4 DEF RunTypes
<1>6. \A w \in Workers : ~Busy(w) /\ ~Busy(w)'
  BY <1>1, <1>2, <1>4 DEF BuildInv, Busy
<1>7. InHand = None /\ InHand' = None /\ \A m \in Nodes : ~Out(m)
  BY <1>1, <1>2, <1>5, NothingOut DEF InHand
<1>8. OneOut' /\ \A m \in Nodes : ~Out(m)'
  BY <1>1, <1>4, <1>6, <1>7, DropKeeps
<1>9. RunTypes'
  <2>1. wk' \in [Workers -> Tasks] /\ buf' \in Seq(Nodes) /\ frames' \in Seq(Nodes \cup {None})
    BY <1>1, <1>4 DEF RunTypes
  <2> QED BY <1>1, <1>5, <1>6, <2>1, RunTypesKeep
<1>10. /\ nexts' \in [Nodes -> SUBSET Nodes] /\ DOMAIN depsNum' = Nodes
       /\ \A p, m \in Nodes : m \in nexts'[p] <=> m \in nexts[p] \/ (m = n /\ p \in deps)
  BY <1>1, <1>4 DEF GraphTypes
<1>11. GraphTypes'
  BY <1>1, <1>4, <1>10 DEF GraphTypes
<1>12. EdgeInv'
  <2> SUFFICES ASSUME NEW p \in Nodes, NEW m \in nexts'[p]
               PROVE  p \in flow.deps[m] /\ \A d \in flow.deps[m] : m \in nexts'[d]
    BY <1>1 DEF EdgeInv
  <2>1. m \in Nodes /\ (m \in nexts[p] \/ (m = n /\ p \in deps))
    BY <1>10
  <2>2. p \in flow.deps[m]
    BY <1>1, <2>1 DEF EdgeInv
  <2>3. ASSUME NEW d \in flow.deps[m] PROVE m \in nexts'[d]
    <3>1. d \in Nodes
      BY <1>2, <2>1
    <3>2. CASE m = n
      BY <1>10, <2>1, <3>1, <3>2
    <3>3. CASE m # n
      <4>1. m \in nexts[d]
        BY <1>1, <2>1, <3>3 DEF EdgeInv
      <4> QED BY <1>10, <2>1, <3>1, <4>1
    <3> QED BY <3>2, <3>3
  <2> QED BY <2>2, <2>3
<1>13. BuildInv'
  <2> SUFFICES ASSUME master'.pc = "build" PROVE BuildInv'
    BY DEF BuildInv
  <2>1. fine
    BY <1>5
  <2>2. added' \in Seq(Nodes) /\ added' # <<>> /\ last' # None
    BY <1>1, <1>2, <1>4
  <2>3. first' # None /\ flow.deps[first'] = {}
    <3>1. CASE deps = {}
      BY <1>1, <1>4, <2>1, <3>1
    <3>2. CASE deps # {}
      <4>1. added # <<>>
        <5>1. added = <<>> => Len(added) = 0
          OBVIOUS
        <5>2. Len(added) = 0 => 1..Len(added) = {}
          OBVIOUS
        <5>3. 1..Len(added) = {} => Range1(added) = {}
          BY DEF Range1
        <5> QED BY <2>1, <3>2, <5>1, <5>2, <5>3
      <4>2. first # None /\ flow.deps[first] = {}
        BY <1>1, <1>2, <4>1 DEF BuildInv
      <4> QED BY <1>4, <3>2, <4>2
    <3> QED BY <3>1, <3>2
  <2>4. \A w \in Workers : ~Busy(w)'
    BY <1>6
  <2>5. buf' = <<>>
    BY <1>1, <1>2, <1>4 DEF BuildInv
  <2> QED BY <1>1, <2>2, <2>3, <2>4, <2>5 DEF BuildInv
<1>14. Fired({})'
  <2>1. PICK fired \in SUBSET Nodes : Fired(fired)
    BY <1>1 DEF FiredInv
  <2>2. fired = {}
    BY <1>2, <2>1 DEF Fired
  <2>3. \A m \in Nodes : Counted({}, m) = {} /\ Counted({}, m)' = {}
    BY DEF Counted
  <2>4. \A p \in Nodes : \A m \in nexts'[p] : depsNum'[m] = Cardinality(flow'.deps[m] \ Counted({}, m)')
    <3> SUFFICES ASSUME NEW p \in Nodes, NEW m \in nexts'[p]
                 PROVE  depsNum'[m] = Cardinality(flow.deps[m] \ {})
      <4>1. \A p \in Nodes : \A m \in nexts'[p] : m \in Nodes
        BY <1>10
      <4> QED BY <1>1, <2>3, <4>1
    <3>1. m \in Nodes /\ (m \in nexts[p] \/ m = n) /\ DOMAIN depsNum = Nodes
      BY <1>1, <1>10 DEF GraphTypes
    <3>2. CASE m = n
      <4>1. deps \ {} = deps
        OBVIOUS
      <4> QED BY <1>4, <3>1, <3>2, <4>1
    <3>3. CASE m # n
      <4>1. depsNum'[m] = depsNum[m]
        BY <1>4, <3>1, <3>3
      <4>2. depsNum[m] = Cardinality(flow.deps[m] \ Counted({}, m))
        BY <2>1, <2>2, <3>1, <3>3 DEF Fired
      <4> QED BY <2>3, <3>1, <4>1, <4>2
    <3> QED BY <3>2, <3>3
  <2>5. master'.pc \notin {"next", "submit"}
    BY <1>5
  <2> QED BY <1>1, <1>8, <2>3, <2>4, <2>5 DEF Fired
<1>15. FiredInv' /\ ~early'
  BY <1>1, <1>4, <1>14 DEF FiredInv
<1> QED BY <1>8, <1>9, <1>11, <1>12, <1>13, <1>15 DEF Orderly

LEMMA RunStartKeeps ==
  ASSUME Orderly, RunStart
  PROVE  Orderly'
<1>1. /\ GraphTypes /\ RunTypes /\ EdgeInv /\ OneOut /\ FiredInv /\ BuildInv /\ ~early
      /\ flow' = flow /\ Nodes' = Nodes /\ None \notin Nodes /\ master.pc = "build"
      /\ UNCHANGED <<graph, pool, first, nexts, depsNum, event, frames, buf, early>>
  BY FlowIs DEF Orderly, RunStart, graph, Nodes, GraphTypes, hist
<1>2. CASE master' = [master EXCEPT !.pc = "done"] /\ wk' = wk
  BY <1>1, <1>2, MasterDrops
<1>3. CASE first # last /\ Submit("first", 0, first) /\ master' = [master EXCEPT !.pc = "recv"]
  <2>1. first # None /\ flow.deps[first] = {}
    BY <1>1, <1>3 DEF BuildInv
  <2>2. PICK n \in Nodes : n = first
    BY <1>1, <2>1 DEF GraphTypes
  <2>3. PICK u \in Workers :
          /\ ~Busy(u) /\ wk' \in [Workers -> Tasks] /\ wk'[u].pc = "got" /\ wk'[u].made = n
          /\ \A v \in Workers : v # u => wk'[v] = wk[v]
    BY <1>1, <1>3, <2>2, SubmitIs
  <2>4. /\ master' \in [pc : {"build", "recv", "handle", "next", "submit", "done"},
                        it : Nodes \cup {None}, todo : SUBSET Nodes, sub : Nodes \cup {None}]
        /\ master'.pc = "recv"
    BY <1>1, <1>3 DEF RunTypes
  <2>5. InHand = None /\ InHand' = None /\ \A m \in Nodes : ~Out(m)
    BY <1>1, <2>4, NothingOut DEF InHand
  <2>6. /\ OneOut' /\ \A m \in Nodes : Out(m)' => m = n
        /\ \A w \in Workers : Busy(w)' => Holds(w)' \in Nodes
    BY <1>1, <2>3, <2>5, SubmitKeeps
  <2>7. RunTypes'
    BY <1>1, <2>3, <2>4, <2>6, RunTypesKeep DEF RunTypes
  <2>8. Fired({})'
    <3>1. PICK fired \in SUBSET Nodes : Fired(fired)
      BY <1>1 DEF FiredInv
    <3>2. fired = {}
      BY <1>1, <3>1 DEF Fired
    <3>3. \A m \in Nodes : Counted({}, m) = {} /\ Counted({}, m)' = {}
      BY DEF Counted
    <3>4. \A p \in Nodes : \A m \in nexts[p] : m \in Nodes /\ depsNum[m] = Cardinality(flow.deps[m] \ {})
      BY <1>1, <3>1, <3>2, <3>3 DEF Fired, GraphTypes
    <3>5. \A m \in Nodes : Out(m)' \/ m \in {} => flow'.deps[m] \subseteq Counted({}, m)'
      BY <1>1, <2>1, <2>2, <2>6
    <3> QED BY <1>1, <2>4, <3>3, <3>4, <3>5 DEF Fired
  <2>9. FiredInv'
    BY <1>1, <2>8 DEF FiredInv
  <2>10. GraphTypes' /\ EdgeInv' /\ BuildInv' /\ ~early'
    BY <1>1, <2>4 DEF GraphTypes, EdgeInv, BuildInv
  <2> QED BY <2>6, <2>7, <2>9, <2>10 DEF Orderly
<1> QED BY <1>2, <1>3 DEF RunStart, End

-----------------------------------------------------------------------------
LEMMA FlowInitially == Init => FlowInv
<1> SUFFICES ASSUME Init PROVE Orderly
  BY DEF FlowInv
<1>1. GraphTypes
  BY PoolsAssumption DEF Init, GraphTypes
<1>2. /\ master.pc = "build" /\ first = None /\ last = None /\ added = <<>> /\ ~early
      /\ \A w \in Workers : wk[w] = Idle
      /\ \A n \in Nodes : nexts[n] = {}
  BY DEF Init
<1>3. \A w \in Workers : ~Busy(w)
  BY <1>2, IdleIs DEF Busy
<1>4. RunTypes
  <2>1. wk \in [Workers -> Tasks]
    BY IdleIs DEF Init
  <2>2. buf \in Seq(Nodes) /\ frames \in Seq(Nodes \cup {None})
    BY DEF Init
  <2>3. master \in [pc : {"build", "recv", "handle", "next", "submit", "done"},
                    it : Nodes \cup {None}, todo : SUBSET Nodes, sub : Nodes \cup {None}]
    BY DEF Init
  <2> QED BY <1>2, <1>3, <2>1, <2>2, <2>3 DEF RunTypes
<1>5. BuildInv
  <2>1. buf = <<>> /\ added \in Seq(Nodes)
    BY DEF Init
  <2> QED BY <1>2, <1>3, <2>1 DEF BuildInv
<1>6. EdgeInv
  BY <1>2 DEF EdgeInv
<1>7. \A n \in Nodes : ~Out(n)
  BY <1>1, <1>2, <1>5, NothingOut
<1>8. OneOut
  <2>1. 1..Len(buf) = {}
    <3>1. Len(buf) = 0
      BY DEF Init
    <3> QED BY <3>1
  <2> QED BY <1>3, <2>1 DEF OneOut, OneWorker, OneEvent, Apart
<1>9. Fired({})
  BY <1>2, <1>7 DEF Fired
<1> QED BY <1>1, <1>2, <1>4, <1>5, <1>6, <1>8, <1>9 DEF Orderly, FiredInv

LEMMA FlowStep == FlowInv /\ [Next]_vars => FlowInv'
<1> SUFFICES ASSUME FlowInv, [Next]_vars, ~swapped' PROVE Orderly'
  BY DEF FlowInv
<1>1. ~swapped
  <2>1. ASSUME NEW w \in Workers, WorkBegin(w) PROVE ~swapped
    BY <2>1, Zenon DEF WorkBegin
  <2>2. CASE \A w \in Workers : ~WorkBegin(w)
    <3>1. swapped' = swapped
      BY <2>2 DEF Next, Mastering, Handling, Working, AddNode, RunStart, RunRecv, HandleOK,
         HandleRetry, HandleNonRetry, HandleAbort, HandleUnknown, ExecNext, ExecSubmit, tryStop,
         WorkRun, WorkCheck, WorkPut, vars, hist
    <3> QED BY <3>1
  <2> QED BY <2>1, <2>2
<1>2. Orderly
  BY <1>1 DEF FlowInv
<1>3. CASE AddNode
  BY <1>2, <1>3, AddNodeKeeps
<1>4. CASE RunStart
  BY <1>2, <1>4, RunStartKeeps
<1>5. CASE RunRecv
  BY <1>2, <1>5, RunRecvKeeps
<1>6. CASE HandleOK
  BY <1>2, <1>6, HandleOKKeeps
<1>7. CASE HandleRetry
  BY <1>2, <1>7, HandleRetryKeeps
<1>8. CASE HandleNonRetry \/ HandleAbort \/ HandleUnknown \/ tryStop
  BY <1>2, <1>8, EndKeeps
<1>9. CASE ExecNext
  BY <1>2, <1>9, ExecNextKeeps
<1>10. CASE ExecSubmit
  BY <1>2, <1>10, ExecSubmitKeeps
<1>11. ASSUME NEW w \in Workers, Working(w)
       PROVE  Orderly'
  BY <1>2, <1>11, WorkBeginKeeps, WorkRunKeeps, WorkCheckKeeps, WorkPutKeeps DEF Working
<1>12. CASE UNCHANGED vars
  <2>1. UNCHANGED <<flow, pool, added, first, last, nexts, depsNum, event, master, frames, buf, wk, early>>
    BY <1>12 DEF vars, graph, items, hist
  <2>2. UNCHANGED <<Nodes, Tasks, InHand>> /\ \A w : Busy(w)' = Busy(w) /\ Holds(w)' = Holds(w)
    BY <2>1 DEF Nodes, Tasks, InHand, Busy, Holds
  <2>3. GraphTypes' /\ RunTypes' /\ BuildInv' /\ EdgeInv' /\ ~early'
    BY <1>2, <2>1, <2>2 DEF Orderly, GraphTypes, RunTypes, BuildInv, EdgeInv
  <2>4. OneOut'
    BY <1>2, <2>1, <2>2 DEF Orderly, OneOut, OneWorker, OneEvent, Apart
  <2>5. FiredInv'
    <3>1. PICK fired \in SUBSET Nodes : Fired(fired)
      BY <1>2 DEF Orderly, FiredInv
    <3>2. \A n : (Out(n)' <=> Out(n)) /\ Counted(fired, n)' = Counted(fired, n)
      BY <2>1, <2>2 DEF Out, Counted
    <3>3. Fired(fired)'
      BY <2>1, <2>2, <3>1, <3>2 DEF Fired
    <3> QED BY <2>2, <3>3 DEF FiredInv
  <2> QED BY <2>3, <2>4, <2>5 DEF Orderly
<1> QED BY <1>3, <1>4, <1>5, <1>6, <1>7, <1>8, <1>9, <1>10, <1>11, <1>12
        DEF Next, Mastering, Handling

\* For every graph, pool and channel capacity: unless a closure given to the pool ran
\* with another iteration's loop variable, a node runs only when every node it
\* declared as a dependency has completed, so that GetNode does not panic in it.
THEOREM DepsComeFirst == Spec => []DepsCompletedUnlessSwapped
<1>1. FlowInv => DepsCompletedUnlessSwapped
  BY Zenon DEF FlowInv, Orderly, DepsCompletedUnlessSwapped
<1> QED BY <1>1, FlowInitially, FlowStep, PTL DEF Spec

=============================================================================
