---------------------------- MODULE GatewayProofs ----------------------------
(***************************************************************************)
(* Proofs about Gateway, for any acceptors, connections, clock readings,   *)
(* limits and width of the sequence.                                       *)
(*                                                                         *)
(* NextID never repeats a connection ID.  UniqueIDs is not inductive: a    *)
(* new ID differs from the others only because all of them are below the   *)
(* generator.  While an acceptor waits for the next millisecond Sequence   *)
(* has wrapped to zero and the bound is the last ID of the millisecond     *)
(* (Top).                                                                  *)
(*                                                                         *)
(* The second part, from GInv on, is about who owns a connection: the      *)
(* types, the limit on open connections, and that an added connection      *)
(* stays watched.                                                          *)
(***************************************************************************)
EXTENDS Gateway, FiniteSetTheorems, TLAPS

Top == IF Spinning THEN ID(LastStamp, MaxSequence) ELSE ID(LastStamp, Sequence)

GenShape ==
  /\ load \in Loads
  /\ LastStamp \in Nat /\ Sequence \in 0..MaxSequence
  /\ ids \in [Conns -> Int]
  /\ acc \in [Acceptors -> [pc : {"accept", "hand", "spin"}, c : Conns \cup {None}]]
  /\ \A a \in Acceptors : acc[a].pc = "spin" => acc[a].c \in Conns
BelowTop == \A c \in Conns : ids[c] <= Top

IInv == GenShape /\ BelowTop /\ UniqueIDs

-----------------------------------------------------------------------------
\* IDs are integers ordered by their stamp, then by their sequence: the stamp
\* is shifted past the sequence (NextID's (milliseconds << 16) | sequence).
LEMMA IDOrder ==
  ASSUME NEW s \in Nat, NEW t \in Nat, NEW p \in 0..MaxSequence, NEW q \in 0..MaxSequence
  PROVE  /\ ID(s, p) \in Nat
         /\ p <= q => ID(s, p) <= ID(s, q)
         /\ p < q => ID(s, p) < ID(s, q)
         /\ s < t => ID(s, p) < ID(t, q)
<1> DEFINE W == MaxSequence + 1
<1>1. W \in Nat /\ p \in Nat /\ q \in Nat /\ p < W
  BY BoundsAssumption
<1>2. s * W \in Nat /\ t * W \in Nat
  BY <1>1, SMT
<1>3. ASSUME s < t PROVE s * W + W <= t * W
  <2>1. PICK d \in Nat : t = s + 1 + d
    <3>1. t - s - 1 \in Nat /\ t = s + 1 + (t - s - 1)
      BY <1>3
    <3> QED BY <3>1
  <2>2. d * W \in Nat
    BY <1>1, <2>1, SMT
  <2>3. t * W = s * W + W + d * W
    BY <1>1, <2>1, SMT
  <2> QED BY <1>1, <1>2, <2>2, <2>3
<1>4. ID(s, p) = s * W + p /\ ID(s, q) = s * W + q /\ ID(t, q) = t * W + q
  BY DEF ID
<1> HIDE DEF W
<1> QED BY <1>1, <1>2, <1>3, <1>4

\* Assign gives an ID above all others (Assign of NextID): the state keeps the
\* generator's invariant.
LEMMA AssignKeeps ==
  ASSUME GenShape, GenShape', UniqueIDs,
         NEW c \in Conns, NEW s \in Nat, NEW q \in 0..MaxSequence,
         Assign(c, s, q), \A d \in Conns : ids[d] < ID(s, q)
  PROVE  BelowTop' /\ UniqueIDs'
<1>1. /\ LastStamp' = s /\ Sequence' = q
      /\ ids' = [ids EXCEPT ![c] = ID(s, q)]
      /\ ids \in [Conns -> Int]
  BY DEF Assign, GenShape
<1>2. ID(s, q) \in Nat /\ ID(s, q) <= ID(s, MaxSequence) /\ ID(s, MaxSequence) \in Nat
  BY IDOrder, BoundsAssumption
<1>3. \A d \in Conns : ids'[d] = IF d = c THEN ID(s, q) ELSE ids[d]
  BY <1>1
<1>4. \A d \in Conns : ids'[d] <= ID(s, q) /\ ids'[d] \in Int /\ ids[d] \in Int
  BY <1>1, <1>2, <1>3
<1>5. Top' \in {ID(s, q), ID(s, MaxSequence)}
  BY <1>1 DEF Top, ID
<1>6. BelowTop'
  BY <1>2, <1>4, <1>5 DEF BelowTop
<1>7. UniqueIDs'
  <2> SUFFICES ASSUME NEW d \in Conns, NEW e \in Conns, d # e, ids'[d] # -1
               PROVE  ids'[d] # ids'[e]
    BY DEF UniqueIDs
  <2>1. CASE d = c
    BY <2>1, <1>2, <1>3, <1>4
  <2>2. CASE e = c
    BY <2>2, <1>2, <1>3, <1>4
  <2>3. CASE d # c /\ e # c
    BY <2>3, <1>3 DEF UniqueIDs
  <2> QED BY <2>1, <2>2, <2>3
<1> QED BY <1>6, <1>7

\* A step that leaves the generator alone and starts or ends no wait for the next
\* millisecond keeps the invariant.
LEMMA Frame ==
  ASSUME IInv, UNCHANGED <<load, idGen>>, GenShape', Spinning' = Spinning
  PROVE  IInv'
BY DEF IInv, BelowTop, UniqueIDs, Top, ID, idGen

-----------------------------------------------------------------------------
\* NextID gives the first free ID of the millisecond or waits for the next.
LEMMA NextIDKeeps ==
  ASSUME IInv, ~Spinning, NEW a \in Acceptors, NEW c \in Conns, NEW ms \in Nat,
         ms >= LastStamp, nextID(a, c, ms), UNCHANGED load
  PROVE  IInv'
<1> DEFINE next == IF ms = LastStamp THEN (Sequence + 1) % (MaxSequence + 1) ELSE 0
<1>1. GenShape /\ BelowTop /\ UniqueIDs /\ MaxSequence \in Nat
  BY BoundsAssumption DEF IInv
<1>2. Sequence \in Nat /\ Sequence <= MaxSequence /\ LastStamp \in Nat
  BY <1>1 DEF GenShape
<1>3. (Sequence + 1) % (MaxSequence + 1) = IF Sequence = MaxSequence THEN 0 ELSE Sequence + 1
  BY <1>1, <1>2, SMT
<1>4. next \in 0..MaxSequence
  BY <1>1, <1>2, <1>3
<1>5. \A d \in Conns : ids[d] \in Int /\ ids[d] <= ID(LastStamp, Sequence)
  BY <1>1 DEF GenShape, BelowTop, Top
<1>6. CASE /\ ms > LastStamp \/ next # 0
           /\ Assign(c, ms, next)
           /\ acc' = [acc EXCEPT ![a] = [pc |-> "hand", c |-> c]]
  <2>1. ID(LastStamp, Sequence) < ID(ms, next) /\ ID(LastStamp, Sequence) \in Nat /\ ID(ms, next) \in Nat
    <3>1. CASE ms > LastStamp
      BY <3>1, <1>2, <1>4, <1>1, IDOrder
    <3>2. CASE ms = LastStamp
      <4>1. next = Sequence + 1
        BY <1>6, <3>2, <1>3, <1>2
      <4> QED BY <3>2, <4>1, <1>1, <1>2, <1>4, IDOrder
    <3> QED BY <3>1, <3>2, <1>2
  <2>2. \A d \in Conns : ids[d] < ID(ms, next)
    BY <2>1, <1>5
  <2>3. ID(ms, next) \in Int
    BY <2>1
  <2> HIDE DEF next
  <2>4. GenShape'
    BY <1>1, <1>4, <1>6, <2>3 DEF GenShape, Assign
  <2> QED BY <1>1, <1>4, <1>6, <2>2, <2>4, AssignKeeps DEF IInv
<1>7. CASE /\ ms = LastStamp /\ next = 0
           /\ Sequence' = 0
           /\ acc' = [acc EXCEPT ![a] = [pc |-> "spin", c |-> c]]
           /\ UNCHANGED <<LastStamp, ids>>
  <2>1. Sequence = MaxSequence
    BY <1>7, <1>3, <1>2
  <2>2. GenShape'
    BY <1>1, <1>7 DEF GenShape
  <2>3. Spinning'
    BY <1>7, <1>1 DEF Spinning, GenShape
  <2>4. Top' = Top
    BY <1>7, <2>1, <2>3 DEF Top, ID
  <2> QED BY <1>1, <1>7, <2>2, <2>4 DEF IInv, BelowTop, UniqueIDs
<1> QED BY <1>6, <1>7 DEF nextID

\* AcceptTCP, checkTcp and NewConnection.
LEMMA AcceptKeeps ==
  ASSUME IInv, NEW a \in Acceptors, NEW c \in Conns, Accept(a, c)
  PROVE  IInv'
<1>1. UNCHANGED load
  BY DEF Accept
<1>2. load.clock \subseteq Nat
  BY LoadsAssumption DEF IInv, GenShape
<1>3. CASE UNCHANGED <<idGen, acc>>
  BY <1>1, <1>3, Frame DEF IInv, GenShape, Spinning, idGen
<1>4. CASE ~Spinning /\ \E ms \in load.clock : ms >= LastStamp /\ nextID(a, c, ms)
  BY <1>1, <1>2, <1>4, NextIDKeeps
<1> QED BY <1>3, <1>4 DEF Accept

\* The wait for the next millisecond ends with a stamp above LastStamp.
LEMMA SpinEndKeeps ==
  ASSUME IInv, NEW a \in Acceptors, SpinEnd(a)
  PROVE  IInv'
<1>1. GenShape /\ BelowTop /\ UniqueIDs /\ MaxSequence \in Nat
  BY BoundsAssumption DEF IInv
<1>2. PICK ms \in load.clock : ms > LastStamp /\ Assign(acc[a].c, ms, 0)
  BY DEF SpinEnd
<1>3. /\ acc[a].c \in Conns /\ ms \in Nat /\ UNCHANGED load
      /\ LastStamp \in Nat /\ Sequence \in 0..MaxSequence
      /\ 0 \in 0..MaxSequence /\ MaxSequence \in 0..MaxSequence
  BY <1>1, LoadsAssumption DEF SpinEnd, net, GenShape
<1>4. Top < ID(ms, 0) /\ Top \in Nat /\ ID(ms, 0) \in Nat
  <2>1. ID(LastStamp, MaxSequence) < ID(ms, 0) /\ ID(LastStamp, Sequence) < ID(ms, 0)
    BY <1>2, <1>3, IDOrder
  <2>2. ID(LastStamp, MaxSequence) \in Nat /\ ID(LastStamp, Sequence) \in Nat /\ ID(ms, 0) \in Nat
    BY <1>3, IDOrder
  <2> QED BY <2>1, <2>2 DEF Top
<1>5. \A d \in Conns : ids[d] < ID(ms, 0)
  BY <1>1, <1>4 DEF GenShape, BelowTop
<1>6. GenShape'
  <2>1. acc' = [acc EXCEPT ![a].pc = "hand"]
    BY DEF SpinEnd
  <2>2. /\ acc' \in [Acceptors -> [pc : {"accept", "hand", "spin"}, c : Conns \cup {None}]]
        /\ \A b \in Acceptors : acc'[b].pc = "spin" => acc'[b].c \in Conns
    BY <1>1, <2>1 DEF GenShape
  <2> QED BY <1>1, <1>2, <1>3, <1>4, <2>2 DEF GenShape, Assign
<1> QED BY <1>1, <1>2, <1>3, <1>5, <1>6, AssignKeeps DEF IInv

\* addTask hands the connection on; the acceptor was not the one that waits.
LEMMA AddTaskKeeps ==
  ASSUME IInv, NEW a \in Acceptors, addTask(a)
  PROVE  IInv'
<1>1. /\ acc[a].pc = "hand"
      /\ acc' = [acc EXCEPT ![a] = [pc |-> "accept", c |-> None]]
      /\ UNCHANGED <<load, idGen>>
  BY DEF addTask, net
<1>2. GenShape'
  BY <1>1 DEF IInv, GenShape, idGen
<1>3. Spinning' = Spinning
  <2>1. \A b \in Acceptors : acc'[b].pc = "spin" <=> acc[b].pc = "spin"
    BY <1>1 DEF IInv, GenShape
  <2> QED BY <2>1 DEF Spinning
<1> QED BY <1>1, <1>2, <1>3, Frame

\* Every other step leaves the generator and the acceptors alone.
LEMMA OthersKeep ==
  ASSUME IInv,
         \/ Adding \/ Polling \/ cmdRecv \/ \E w \in Workers : Working(w)
         \/ StateServing \/ Environment \/ UNCHANGED vars
  PROVE  IInv'
<1>1. UNCHANGED <<load, idGen, acc>>
  <2>1. CASE Adding
    BY <2>1 DEF Adding, addTcpNum, EpollCtl, AddStore, net
  <2>2. CASE Polling
    BY <2>2 DEF Polling, wait, ReadData, RemoveCtl, RemoveTables, CancelConn, net
  <2>3. CASE cmdRecv
    BY <2>3 DEF cmdRecv, net
  <2>4. ASSUME NEW w \in Workers, Working(w) PROVE UNCHANGED <<load, idGen, acc>>
    BY <2>4 DEF Working, SubmitSend, SendMsgReturns, SendMsgTimeout, SubmitCmd, sendMsgByCmd,
                closeConn, Close, CloseSocket, net
  <2>5. CASE StateServing
    BY <2>5 DEF StateServing, StateEnter, StateHandle, StatePushed, CmdEnter, net
  <2>6. CASE Environment
    BY <2>6 DEF Environment, Connect, ClientSend, ClientClose, StateDelConn, Collect, net
  <2>7. CASE UNCHANGED vars
    BY <2>7 DEF vars, net
  <2> QED BY <2>1, <2>2, <2>3, <2>4, <2>5, <2>6, <2>7
<1> QED BY <1>1, Frame DEF IInv, GenShape, Spinning, idGen

LEMMA InitIInv == Init => IInv
<1> SUFFICES ASSUME Init PROVE IInv
  OBVIOUS
<1>1. GenShape
  BY BoundsAssumption DEF Init, GenShape
<1>2. ~Spinning
  BY DEF Init, Spinning
<1>3. ID(0, 0) \in Nat
  BY BoundsAssumption, IDOrder
<1>4. BelowTop
  BY <1>2, <1>3 DEF Init, BelowTop, Top
<1> QED BY <1>1, <1>4 DEF IInv, UniqueIDs, Init

-----------------------------------------------------------------------------
\* No two connections ever get the same ID from NextID, whatever milliseconds the
\* clock shows, however often the sequence overflows, and whoever accepts.
THEOREM IDsNeverRepeat == Spec => []UniqueIDs
<1>1. IInv /\ [Next]_vars => IInv'
  BY AcceptKeeps, SpinEndKeeps, AddTaskKeeps, OthersKeep DEF Next, Accepting
<1>2. IInv => UniqueIDs
  BY DEF IInv
<1> QED BY InitIInv, <1>1, <1>2, PTL DEF Spec
-----------------------------------------------------------------------------
(***************************************************************************)
(* Who owns a connection.  The limit of checkTcp and the watch over every  *)
(* added connection rest on the same facts: a connection passes once       *)
(* through an acceptor, the adder and the tables; two live connections     *)
(* have different descriptors; the poller only holds connections whose     *)
(* descriptor is registered, so that remove counts each of them down once. *)
(***************************************************************************)
Busy == {a \in Acceptors : acc[a].pc # "accept"}
Held(c) == \E a \in Busy : acc[a].c = c
Live(c) == sock[c] \in {"open", "eof"}
Removing(c) == poller.pc \in {"ctl", "del", "cancel"} /\ poller.c = c
\* Taken out of ep.tables by Close.
Closed(c) == \E w \in Workers : task[w].k \in {"closeFd", "closeSocket"} /\ task[w].c = c
\* Accepted and not yet counted.
Uncounted(c) == Held(c) \/ (adder.pc = "count" /\ adder.c = c)
Unread(c) == (\A f \in FDs : fdToConn[f] # c) /\ c \notin poller.ready /\ poller.c # c
Unadded(c) == c \notin tables \cup bound /\ ~Closing(c)
New(c) == Unread(c) /\ Unadded(c) /\ adder.c # c

CmdReqs == [k : {"push", "del"}, c : Conns, n : Int]
StateReqs == [k : {"send", "cancel"}, c : Conns, n : Int]
Tasks == [k : {"idle", "push", "del", "send", "close", "closeFd", "closeSocket"}, c : Conns \cup {None}, n : Int]
SockTypes ==
  /\ load \in Loads
  /\ sock \in [Conns -> {"none", "backlog", "open", "eof", "closed"}]
  /\ fd \in [Conns -> FDs \cup {0}]
  /\ inbuf \in [Conns -> Int] /\ sent \in [Conns -> Int]
AccTypes ==
  /\ acc \in [Acceptors -> [pc : {"accept", "hand", "spin"}, c : Conns \cup {None}]]
  /\ \A a \in Busy : acc[a].c \in Conns
PollTypes ==
  /\ adder \in [pc : {"recv", "count", "ctl", "store", "tables", "bind"}, c : Conns \cup {None}]
  /\ adder.pc = "recv" <=> adder.c = None
  /\ poller \in [pc : {"wait", "next", "submit", "ctl", "del", "cancel"}, ready : SUBSET Conns,
                 c : Conns \cup {None}, n : Int]
  /\ poller.pc \in {"wait", "next"} <=> poller.c = None
  /\ fdToConn \in [FDs -> Conns \cup {None}]
  /\ tables \subseteq Conns /\ bound \subseteq Conns
CmdTypes ==
  /\ task \in [Workers -> Tasks]
  /\ \A w \in Workers : task[w].k # "idle" => task[w].c \in Conns
  /\ stateRpc \subseteq StateReqs
  /\ stateChan \in Seq(StateReqs) /\ Len(stateChan) <= CmdNum
  /\ cmdRpc \subseteq CmdReqs
  /\ cmdChan \in Seq(CmdReqs) /\ Len(cmdChan) <= CmdNum
  /\ cmd \in CmdReqs \cup {NoTask} /\ (handler = "submit" => cmd \in CmdReqs)
GTypes == SockTypes /\ AccTypes /\ PollTypes /\ CmdTypes

LEMMA TypesInit == Init => GTypes
<1> SUFFICES ASSUME Init PROVE GTypes
  OBVIOUS
<1>1. SockTypes
  BY DEF Init, SockTypes
<1>2. AccTypes
  BY DEF Init, AccTypes, Busy
<1>3. PollTypes
  BY NamesAssumption DEF Init, PollTypes
<1>4. CmdTypes
  <2>1. NoTask \in Tasks /\ NoTask.k = "idle"
    BY DEF NoTask, Tasks
  <2>2. CmdNum \in Nat
    BY BoundsAssumption
  <2> QED BY <2>1, <2>2 DEF Init, CmdTypes
<1> QED BY <1>1, <1>2, <1>3, <1>4 DEF GTypes

\* Sockets: the clients, Accept, CloseSocket and the finalizer.
LEMMA SockTypesStep ==
  ASSUME GTypes, [Next]_vars
  PROVE  SockTypes'
<1>1. SockTypes /\ PollTypes
  BY DEF GTypes
<1>2. CASE UNCHANGED net
  BY <1>1, <1>2 DEF SockTypes, net
<1>3. ASSUME NEW a \in Acceptors, NEW c \in Conns, Accept(a, c) PROVE SockTypes'
  <2>1. UNCHANGED <<load, inbuf, sent>>
    BY <1>3 DEF Accept
  <2>2. CASE sock' = [sock EXCEPT ![c] = "closed"] /\ fd' = fd
    BY <1>1, <2>1, <2>2 DEF SockTypes
  <2>3. CASE \E f \in FDs : fd' = [fd EXCEPT ![c] = f] /\ sock' = [sock EXCEPT ![c] = "open"]
    BY <1>1, <2>1, <2>3 DEF SockTypes
  <2> QED BY <1>3, <2>2, <2>3 DEF Accept
<1>4. ASSUME ReadData PROVE SockTypes'
  <2>1. UNCHANGED <<load, sock, sent, fd>>
    BY <1>4 DEF ReadData
  <2>2. inbuf' = inbuf \/ \E c \in Conns : inbuf' = [inbuf EXCEPT ![c] = @ - 1]
    BY <1>1, <1>4 DEF ReadData, PollTypes
  <2> QED BY <1>1, <2>1, <2>2 DEF SockTypes
<1>5. ASSUME NEW w \in Workers, CloseSocket(w) PROVE SockTypes'
  BY <1>1, <1>5 DEF SockTypes, CloseSocket
<1>6. ASSUME NEW c \in Conns, Connect(c) \/ ClientClose(c) \/ Collect(c) PROVE SockTypes'
  BY <1>1, <1>6 DEF SockTypes, Connect, ClientClose, Collect
<1>7. ASSUME NEW c \in Conns, ClientSend(c) PROVE SockTypes'
  BY <1>1, <1>7 DEF SockTypes, ClientSend
<1>8. \/ UNCHANGED net \/ ReadData
      \/ \E a \in Acceptors, c \in Conns : Accept(a, c)
      \/ \E w \in Workers : CloseSocket(w)
      \/ \E c \in Conns : Connect(c) \/ ClientClose(c) \/ Collect(c) \/ ClientSend(c)
  <2>1. ASSUME NEW a \in Acceptors, addTask(a) \/ SpinEnd(a) PROVE UNCHANGED net
    BY <2>1 DEF addTask, SpinEnd
  <2>2. ASSUME Adding PROVE UNCHANGED net
    BY <2>2 DEF Adding, addTcpNum, EpollCtl, AddStore
  <2>3. ASSUME wait \/ RemoveCtl \/ RemoveTables \/ CancelConn \/ cmdRecv PROVE UNCHANGED net
    BY <2>3 DEF wait, RemoveCtl, RemoveTables, CancelConn, cmdRecv
  <2>4. ASSUME NEW w \in Workers,
               \/ SubmitSend(w) \/ SendMsgReturns(w) \/ SendMsgTimeout(w) \/ SubmitCmd(w)
               \/ sendMsgByCmd(w) \/ closeConn(w) \/ Close(w)
        PROVE  UNCHANGED net
    BY <2>4 DEF SubmitSend, SendMsgReturns, SendMsgTimeout, SubmitCmd, sendMsgByCmd, closeConn, Close
  <2>5. ASSUME StateServing \/ \E c \in Conns : StateDelConn(c) PROVE UNCHANGED net
    BY <2>5 DEF StateServing, StateEnter, StateHandle, StatePushed, CmdEnter, StateDelConn
  <2>6. ASSUME UNCHANGED vars PROVE UNCHANGED net
    BY <2>6 DEF vars
  <2> QED BY <2>1, <2>2, <2>3, <2>4, <2>5, <2>6
          DEF Next, Accepting, Polling, Working, Environment
<1> QED BY <1>2, <1>3, <1>4, <1>5, <1>6, <1>7, <1>8

\* Acceptors: only Accept, SpinEnd and addTask move them.
LEMMA AccTypesStep ==
  ASSUME GTypes, [Next]_vars
  PROVE  AccTypes'
<1>1. AccTypes
  BY DEF GTypes
<1>2. CASE UNCHANGED acc
  BY <1>1, <1>2 DEF AccTypes, Busy
<1>3. ASSUME NEW a \in Acceptors, NEW c \in Conns,
             acc' = [acc EXCEPT ![a] = [pc |-> "hand", c |-> c]]
             \/ acc' = [acc EXCEPT ![a] = [pc |-> "spin", c |-> c]]
      PROVE  AccTypes'
  BY <1>1, <1>3 DEF AccTypes, Busy
<1>4. ASSUME NEW a \in Acceptors, acc' = [acc EXCEPT ![a] = [pc |-> "accept", c |-> None]]
      PROVE  AccTypes'
  BY <1>1, <1>4 DEF AccTypes, Busy
<1>5. ASSUME NEW a \in Acceptors, acc[a].pc = "spin", acc' = [acc EXCEPT ![a].pc = "hand"]
      PROVE  AccTypes'
  BY <1>1, <1>5 DEF AccTypes, Busy
<1>6. ASSUME NEW a \in Acceptors, NEW c \in Conns, Accept(a, c)
      PROVE  AccTypes'
  BY <1>2, <1>3, <1>6 DEF Accept, nextID
<1>7. ASSUME NEW a \in Acceptors, addTask(a) \/ SpinEnd(a)
      PROVE  AccTypes'
  BY <1>4, <1>5, <1>7 DEF addTask, SpinEnd
<1>8. ASSUME Adding \/ Polling \/ cmdRecv \/ (\E w \in Workers : Working(w))
             \/ StateServing \/ Environment \/ UNCHANGED vars
      PROVE  UNCHANGED acc
  <2>2. ASSUME Adding PROVE UNCHANGED acc
    BY <2>2 DEF Adding, addTcpNum, EpollCtl, AddStore
  <2>3. ASSUME Polling \/ cmdRecv PROVE UNCHANGED acc
    BY <2>3 DEF Polling, wait, ReadData, RemoveCtl, RemoveTables, CancelConn, cmdRecv
  <2>4. ASSUME NEW w \in Workers, Working(w) PROVE UNCHANGED acc
    BY <2>4 DEF Working, SubmitSend, SendMsgReturns, SendMsgTimeout, SubmitCmd, sendMsgByCmd,
                closeConn, Close, CloseSocket
  <2>5. ASSUME StateServing PROVE UNCHANGED acc
    BY <2>5 DEF StateServing, StateEnter, StateHandle, StatePushed, CmdEnter
  <2>6. ASSUME Environment PROVE UNCHANGED acc
    BY <2>6 DEF Environment, Connect, ClientSend, ClientClose, StateDelConn, Collect
  <2>7. ASSUME UNCHANGED vars PROVE UNCHANGED acc
    BY <2>7 DEF vars
  <2> QED BY <1>8, <2>2, <2>3, <2>4, <2>5, <2>6, <2>7
<1> QED BY <1>2, <1>6, <1>7, <1>8 DEF Next, Accepting

\* The adder, the poller and their tables.
LEMMA PollTypesStep ==
  ASSUME GTypes, [Next]_vars
  PROVE  PollTypes'
<1>1. PollTypes /\ AccTypes /\ CmdTypes /\ SockTypes
  BY DEF GTypes
<1>2. ASSUME UNCHANGED <<adder, poller, tabs>> PROVE PollTypes'
  BY <1>1, <1>2 DEF PollTypes, tabs
<1>3. ASSUME NEW a \in Acceptors, addTask(a) PROVE PollTypes'
  <2>1. UNCHANGED <<poller, tabs>> /\ acc[a].c \in Conns
    BY <1>1, <1>3 DEF addTask, AccTypes, Busy
  <2>2. adder' = [pc |-> "count", c |-> acc[a].c]
    BY <1>3 DEF addTask
  <2> QED BY <1>1, <2>1, <2>2, NamesAssumption DEF PollTypes, tabs
<1>4. ASSUME AddStore PROVE PollTypes'
  <2>1. UNCHANGED poller /\ adder.c \in Conns /\ adder.c # None
    BY <1>1, <1>4, NamesAssumption DEF AddStore, PollTypes
  <2>2. CASE adder.pc = "store"
    BY <1>1, <1>4, <2>1, <2>2 DEF PollTypes, AddStore
  <2>3. CASE adder.pc = "tables"
    BY <1>1, <1>4, <2>1, <2>3 DEF PollTypes, AddStore
  <2>4. CASE adder.pc = "bind"
    BY <1>1, <1>4, <2>1, <2>4 DEF PollTypes, AddStore
  <2> QED BY <1>4, <2>2, <2>3, <2>4 DEF AddStore
<1>5. ASSUME wait PROVE PollTypes'
  <2>1. UNCHANGED <<adder, tabs>>
    BY <1>5 DEF wait
  <2>2. {fdToConn[f] : f \in {x \in FDs : Readable(x)}} \ {None} \subseteq Conns
    BY <1>1 DEF PollTypes
  <2>3. PICK r \in SUBSET Conns : poller' = [poller EXCEPT !.pc = "next", !.ready = r]
    BY <1>5, <2>2 DEF wait
  <2> QED BY <1>1, <1>5, <2>1, <2>3 DEF PollTypes, tabs, wait
<1>6. ASSUME ReadData PROVE PollTypes'
  <2>1. UNCHANGED <<adder, tabs>> /\ poller.pc = "next"
    BY <1>6 DEF ReadData
  <2>2. CASE poller' = [poller EXCEPT !.pc = "wait"]
    BY <1>1, <2>1, <2>2 DEF PollTypes, tabs
  <2>3. ASSUME NEW c \in poller.ready,
               \/ poller' = [poller EXCEPT !.ready = @ \ {c}, !.c = c, !.pc = "submit",
                                           !.n = sent[c] - inbuf[c] + 1]
               \/ poller' = [poller EXCEPT !.ready = @ \ {c}, !.c = c, !.pc = "ctl"]
               \/ poller' = [poller EXCEPT !.ready = @ \ {c}, !.c = None]
        PROVE  PollTypes'
    <3>1. c \in Conns /\ c # None /\ sent[c] - inbuf[c] + 1 \in Int
      BY <1>1, NamesAssumption DEF PollTypes, SockTypes
    <3> QED BY <1>1, <2>1, <2>3, <3>1 DEF PollTypes, tabs
  <2> QED BY <1>1, <1>6, <2>2, <2>3 DEF ReadData, PollTypes
<1>7. ASSUME RemoveCtl \/ RemoveTables \/ CancelConn PROVE PollTypes'
  <2>1. CASE RemoveCtl
    BY <1>1, <2>1, NamesAssumption DEF PollTypes, RemoveCtl, tabs
  <2>2. CASE RemoveTables
    BY <1>1, <2>2, NamesAssumption DEF PollTypes, RemoveTables, tabs
  <2>3. CASE CancelConn
    BY <1>1, <2>3, NamesAssumption DEF PollTypes, CancelConn, tabs
  <2> QED BY <1>7, <2>1, <2>2, <2>3
<1>8. ASSUME NEW w \in Workers, SubmitSend(w) PROVE PollTypes'
  BY <1>1, <1>8 DEF PollTypes, SubmitSend, tabs
<1>9. ASSUME NEW w \in Workers, Close(w) PROVE PollTypes'
  BY <1>1, <1>9 DEF PollTypes, Close, tabs
<1>10. ASSUME addTcpNum \/ EpollCtl PROVE PollTypes'
  BY <1>1, <1>10 DEF PollTypes, addTcpNum, EpollCtl, tabs
<1>11. \/ UNCHANGED <<adder, poller, tabs>> \/ Adding \/ Polling
       \/ \E a \in Acceptors : addTask(a)
       \/ \E w \in Workers : SubmitSend(w) \/ Close(w)
  <2>1. ASSUME NEW a \in Acceptors, SpinEnd(a) \/ \E c \in Conns : Accept(a, c)
        PROVE  UNCHANGED <<adder, poller, tabs>>
    BY <2>1 DEF SpinEnd, Accept, epollers
  <2>2. ASSUME cmdRecv PROVE UNCHANGED <<adder, poller, tabs>>
    BY <2>2 DEF cmdRecv, epollers
  <2>4. ASSUME NEW w \in Workers,
               \/ SendMsgReturns(w) \/ SendMsgTimeout(w) \/ SubmitCmd(w)
               \/ sendMsgByCmd(w) \/ closeConn(w) \/ CloseSocket(w)
        PROVE  UNCHANGED <<adder, poller, tabs>>
    BY <2>4 DEF SendMsgReturns, SendMsgTimeout, SubmitCmd, sendMsgByCmd, closeConn, CloseSocket, epollers
  <2>5. ASSUME StateServing PROVE UNCHANGED <<adder, poller, tabs>>
    BY <2>5 DEF StateServing, StateEnter, StateHandle, StatePushed, CmdEnter, epollers
  <2>6. ASSUME Environment PROVE UNCHANGED <<adder, poller, tabs>>
    BY <2>6 DEF Environment, Connect, ClientSend, ClientClose, StateDelConn, Collect, epollers
  <2>7. ASSUME UNCHANGED vars PROVE UNCHANGED <<adder, poller, tabs>>
    BY <2>7 DEF vars, epollers
  <2> QED BY <2>1, <2>2, <2>4, <2>5, <2>6, <2>7 DEF Next, Accepting, Working
<1> QED BY <1>2, <1>3, <1>4, <1>5, <1>6, <1>7, <1>8, <1>9, <1>10, <1>11 DEF Polling, Adding

\* Tasks and requests: both channels take a request only while they have room.
LEMMA CmdTypesStep ==
  ASSUME GTypes, [Next]_vars
  PROVE  CmdTypes'
<1>1. CmdTypes /\ PollTypes
  BY DEF GTypes
<1>2. NoTask \in Tasks /\ NoTask.k = "idle" /\ CmdReqs \subseteq Tasks
  BY DEF NoTask, Tasks, CmdReqs
<1>3. ASSUME UNCHANGED <<task, up, cmds>> PROVE CmdTypes'
  BY <1>1, <1>3 DEF CmdTypes, up, cmds, stateSide
<1>4. ASSUME CancelConn PROVE CmdTypes'
  <2>1. UNCHANGED <<task, stateChan, cmds>> /\ poller.c \in Conns
    BY <1>1, <1>4 DEF CancelConn, PollTypes, stateSide
  <2>2. stateRpc' \subseteq StateReqs
    BY <1>1, <1>4, <2>1 DEF CancelConn, StateReqs, CmdTypes
  <2> QED BY <1>1, <2>1, <2>2 DEF CmdTypes, cmds
<1>5. ASSUME NEW w \in Workers, SubmitSend(w) PROVE CmdTypes'
  <2>1. UNCHANGED <<stateChan, cmds>> /\ poller.c \in Conns /\ poller.n \in Int
    BY <1>1, <1>5 DEF SubmitSend, PollTypes, stateSide
  <2>2. stateRpc' \subseteq StateReqs
    BY <1>1, <1>5, <2>1 DEF SubmitSend, StateReqs, CmdTypes
  <2>3. task' \in [Workers -> Tasks] /\ \A v \in Workers : task'[v].k # "idle" => task'[v].c \in Conns
    BY <1>1, <1>5, <2>1 DEF SubmitSend, Tasks, CmdTypes
  <2> QED BY <1>1, <2>1, <2>2, <2>3 DEF CmdTypes, cmds
<1>6. ASSUME NEW w \in Workers, task' = [task EXCEPT ![w] = NoTask],
             UNCHANGED <<stateRpc, stateChan, cmdRpc, cmdChan, cmd, handler>>
      PROVE  CmdTypes'
  BY <1>1, <1>2, <1>6 DEF CmdTypes
<1>7. ASSUME cmdRecv PROVE CmdTypes'
  <2>1. UNCHANGED <<task, stateRpc, stateChan, cmdRpc>>
    BY <1>7 DEF cmdRecv, up, stateSide
  <2>2. cmd' \in CmdReqs /\ cmdChan' \in Seq(CmdReqs) /\ Len(cmdChan') <= CmdNum
    <3>1. /\ cmdChan \in Seq(CmdReqs) /\ cmdChan # <<>> /\ Len(cmdChan) <= CmdNum
          /\ cmd' = Head(cmdChan) /\ cmdChan' = Tail(cmdChan) /\ CmdNum \in Nat
      BY <1>1, <1>7, BoundsAssumption DEF cmdRecv, CmdTypes
    <3> QED BY <3>1
  <2> QED BY <1>1, <2>1, <2>2 DEF CmdTypes
<1>8. ASSUME NEW w \in Workers, SubmitCmd(w) PROVE CmdTypes'
  <2>1. UNCHANGED <<stateRpc, stateChan, cmdRpc, cmdChan, cmd>> /\ handler' = "recv"
    BY <1>8 DEF SubmitCmd, up, stateSide
  <2>2. cmd \in CmdReqs /\ cmd \in Tasks /\ cmd.c \in Conns /\ task' = [task EXCEPT ![w] = cmd]
    BY <1>1, <1>2, <1>8 DEF SubmitCmd, CmdTypes, CmdReqs
  <2>3. task' \in [Workers -> Tasks] /\ \A v \in Workers : task'[v].k # "idle" => task'[v].c \in Conns
    BY <1>1, <2>2 DEF CmdTypes
  <2> QED BY <1>1, <2>1, <2>3 DEF CmdTypes
<1>9. ASSUME NEW w \in Workers, closeConn(w) PROVE CmdTypes'
  <2>1. UNCHANGED <<stateRpc, stateChan, cmdRpc, cmdChan, cmd, handler>>
    BY <1>9 DEF closeConn, up, stateSide
  <2>2. CASE task' = [task EXCEPT ![w] = NoTask]
    BY <1>6, <2>1, <2>2
  <2>3. CASE cmd.c \in tables /\ task' = [task EXCEPT ![w] = [cmd EXCEPT !.k = "close"]]
    <3>1. cmd \in Tasks /\ cmd.c \in Conns
      BY <1>1, <1>2, <2>3 DEF CmdTypes, PollTypes
    <3>2. [cmd EXCEPT !.k = "close"] \in Tasks /\ [cmd EXCEPT !.k = "close"].c \in Conns
      BY <3>1 DEF Tasks
    <3>3. task' \in [Workers -> Tasks] /\ \A v \in Workers : task'[v].k # "idle" => task'[v].c \in Conns
      BY <1>1, <2>3, <3>2 DEF CmdTypes
    <3> QED BY <1>1, <2>1, <3>3 DEF CmdTypes
  <2> QED BY <1>9, <2>2, <2>3 DEF closeConn
<1>17. ASSUME NEW w \in Workers, Close(w) PROVE CmdTypes'
  <2>1. UNCHANGED <<stateRpc, stateChan, cmdRpc, cmdChan, cmd, handler>>
    BY <1>17 DEF Close, up, stateSide, cmds
  <2>2. PICK k \in {"closeFd", "closeSocket"} : task' = [task EXCEPT ![w].k = k]
    BY <1>17 DEF Close
  <2>3. task[w] \in Tasks /\ task[w].c \in Conns
    BY <1>1, <1>17 DEF Close, CmdTypes
  <2>4. [task[w] EXCEPT !.k = k] \in Tasks /\ [task[w] EXCEPT !.k = k].c \in Conns
    BY <2>3 DEF Tasks
  <2>5. task' \in [Workers -> Tasks] /\ \A v \in Workers : task'[v].k # "idle" => task'[v].c \in Conns
    BY <1>1, <2>2, <2>4 DEF CmdTypes
  <2> QED BY <1>1, <2>1, <2>5 DEF CmdTypes
<1>10. ASSUME StateEnter PROVE CmdTypes'
  <2>1. UNCHANGED <<task, cmdRpc, cmdChan, cmd, handler>>
    BY <1>10 DEF StateEnter, cmds
  <2>2. PICK r \in stateRpc : stateRpc' = stateRpc \ {r} /\ stateChan' = Append(stateChan, r)
    BY <1>10 DEF StateEnter
  <2>3. /\ r \in StateReqs /\ stateChan \in Seq(StateReqs) /\ Len(stateChan) < CmdNum
        /\ CmdNum \in Nat
    BY <1>1, <1>10, <2>2, BoundsAssumption DEF StateEnter, CmdTypes
  <2>4. stateChan' \in Seq(StateReqs) /\ Len(stateChan') <= CmdNum
    BY <2>2, <2>3
  <2> QED BY <1>1, <2>1, <2>2, <2>4 DEF CmdTypes
<1>11. ASSUME StateHandle PROVE CmdTypes'
  <2>1. UNCHANGED <<task, stateRpc, cmdChan, cmd, handler>>
    BY <1>11 DEF StateHandle
  <2>2. /\ stateChan \in Seq(StateReqs) /\ stateChan # <<>> /\ Len(stateChan) <= CmdNum
        /\ stateChan' = Tail(stateChan) /\ CmdNum \in Nat
    BY <1>1, <1>11, BoundsAssumption DEF StateHandle, CmdTypes
  <2>3. stateChan' \in Seq(StateReqs) /\ Len(stateChan') <= CmdNum /\ Head(stateChan) \in StateReqs
    BY <2>2
  <2>4. [k |-> "push", c |-> Head(stateChan).c, n |-> Head(stateChan).n] \in CmdReqs
    BY <2>3 DEF StateReqs, CmdReqs
  <2>5. cmdRpc' = cmdRpc \/ cmdRpc' = cmdRpc \cup {[k |-> "push", c |-> Head(stateChan).c, n |-> Head(stateChan).n]}
    BY <1>11 DEF StateHandle
  <2> QED BY <1>1, <2>1, <2>3, <2>4, <2>5 DEF CmdTypes
<1>12. ASSUME StatePushed PROVE CmdTypes'
  BY <1>1, <1>12 DEF StatePushed, CmdTypes, cmds
<1>13. ASSUME CmdEnter PROVE CmdTypes'
  <2>1. UNCHANGED <<task, stateRpc, stateChan, cmd, handler>>
    BY <1>13 DEF CmdEnter, up, stateSide
  <2>2. PICK r \in cmdRpc : cmdRpc' = cmdRpc \ {r} /\ cmdChan' = Append(cmdChan, r)
    BY <1>13 DEF CmdEnter
  <2>3. /\ r \in CmdReqs /\ cmdChan \in Seq(CmdReqs) /\ Len(cmdChan) < CmdNum
        /\ CmdNum \in Nat
    BY <1>1, <1>13, <2>2, BoundsAssumption DEF CmdEnter, CmdTypes
  <2>4. cmdChan' \in Seq(CmdReqs) /\ Len(cmdChan') <= CmdNum
    BY <2>2, <2>3
  <2> QED BY <1>1, <2>1, <2>2, <2>4 DEF CmdTypes
<1>14. ASSUME NEW c \in Conns, StateDelConn(c) PROVE CmdTypes'
  <2>1. UNCHANGED <<task, stateRpc, stateChan, cmdChan, cmd, handler>>
    BY <1>14 DEF StateDelConn, up, stateSide
  <2>2. PICK n \in Int : cmdRpc' = cmdRpc \cup {[k |-> "del", c |-> c, n |-> n]}
    <3>1. load.dels \in Nat
      BY LoadsAssumption DEF GTypes, SockTypes
    <3> QED BY <1>14, <3>1 DEF StateDelConn
  <2> QED BY <1>1, <2>1, <2>2 DEF CmdTypes, CmdReqs
<1>15. ASSUME NEW w \in Workers,
              SendMsgReturns(w) \/ SendMsgTimeout(w) \/ sendMsgByCmd(w) \/ CloseSocket(w)
       PROVE  CmdTypes'
  BY <1>6, <1>15 DEF SendMsgReturns, SendMsgTimeout, sendMsgByCmd, CloseSocket, up, stateSide, cmds
<1>16. ASSUME \/ Accepting \/ Adding \/ wait \/ ReadData \/ RemoveCtl \/ RemoveTables
              \/ (\E c \in Conns : Connect(c) \/ ClientSend(c) \/ ClientClose(c) \/ Collect(c))
              \/ UNCHANGED vars
       PROVE  UNCHANGED <<task, up, cmds>>
  <2>1. ASSUME Accepting PROVE UNCHANGED <<task, up, cmds>>
    BY <2>1 DEF Accepting, Accept, SpinEnd, addTask
  <2>2. ASSUME Adding \/ wait PROVE UNCHANGED <<task, up, cmds>>
    BY <2>2 DEF Adding, addTcpNum, EpollCtl, AddStore, wait
  <2>3. ASSUME ReadData \/ RemoveCtl \/ RemoveTables PROVE UNCHANGED <<task, up, cmds>>
    BY <2>3 DEF ReadData, RemoveCtl, RemoveTables
  <2>4. ASSUME NEW c \in Conns, Connect(c) \/ ClientSend(c) \/ ClientClose(c) \/ Collect(c)
        PROVE  UNCHANGED <<task, up, cmds>>
    BY <2>4 DEF Connect, ClientSend, ClientClose, Collect
  <2>5. ASSUME UNCHANGED vars PROVE UNCHANGED <<task, up, cmds>>
    BY <2>5 DEF vars
  <2> QED BY <1>16, <2>1, <2>2, <2>3, <2>4, <2>5
<1> QED BY <1>3, <1>4, <1>5, <1>7, <1>8, <1>9, <1>10, <1>11, <1>12, <1>13, <1>14, <1>15, <1>16, <1>17
        DEF Next, Polling, Working, StateServing, Environment

LEMMA TypesStep == GTypes /\ [Next]_vars => GTypes'
BY SockTypesStep, AccTypesStep, PollTypesStep, CmdTypesStep DEF GTypes

\* A connection is new until addTask, and belongs to one acceptor at most.
OwnInv ==
  /\ \A c \in Conns : sock[c] \in {"none", "backlog"} => New(c) /\ ~Held(c)
  /\ \A a \in Busy : New(acc[a].c) /\ Live(acc[a].c)
  /\ \A a, b \in Busy : acc[a].c = acc[b].c => a = b
\* The adder stores a connection once, before it can be read or closed.
AdderInv ==
  /\ adder.pc \in {"count", "ctl", "store"} => Unread(adder.c)
  /\ adder.pc \in {"count", "ctl", "store", "tables"} => Live(adder.c) /\ Unadded(adder.c)
TablesInv == \A c \in tables : Live(c) /\ ~Closed(c)
\* Live connections have descriptors of their own.
FdInv ==
  /\ epoll \subseteq FDs
  /\ \A c \in Conns : Live(c) => fd[c] \in FDs
  /\ \A c, d \in Conns : Live(c) /\ Live(d) /\ fd[c] = fd[d] => c = d
  /\ \A f \in FDs : fdToConn[f] \in Conns => fd[fdToConn[f]] = f
\* What the poller has in hand, of which no two share a descriptor, is registered
\* until remove, or closed.
InHand(c) == c \in poller.ready \/ (poller.pc = "ctl" /\ poller.c = c)
PollerInv ==
  /\ \A c \in Conns : InHand(c) /\ Live(c) => fd[c] \in epoll
  /\ \A c, d \in Conns : InHand(c) /\ InHand(d) /\ fd[c] = fd[d] => c = d
  /\ poller.c \notin poller.ready
  /\ \A c \in Conns : Removing(c) => sock[c] \in {"eof", "closed"}
ConnInv == OwnInv /\ AdderInv /\ TablesInv /\ FdInv /\ PollerInv

\* tcpNum counts a set A of connections that holds every open one except those on
\* their way to the count: counted and not removed.
Counts(A) ==
  /\ Cardinality(A) = tcpNum
  /\ ~down => \A c \in Conns : sock[c] = "open" => c \in A \/ Uncounted(c)
  /\ \A c \in A : sock[c] \notin {"none", "backlog"} /\ ~Uncounted(c)
  /\ poller.pc = "ctl" => poller.c \in A
  /\ \A c \in poller.ready : Live(c) => c \in A
  /\ \A f \in FDs : fdToConn[f] \in Conns /\ Live(fdToConn[f]) =>
       fdToConn[f] \in A \/ (poller.pc = "del" /\ poller.c = fdToConn[f])
  /\ adder.pc \in {"ctl", "store"} => adder.c \in A
CountInv == \E A \in SUBSET Conns : Counts(A)

\* StaysWatched, and how far a connection is on its way through the adder.
Registered(c) == fd[c] \in epoll /\ fdToConn[fd[c]] = c
Watched(c) == late \/ Removing(c) \/ Reported(c) \/ Closing(c) \/ (c \in tables /\ Registered(c))
WatchInv ==
  /\ \A c \in bound : Live(c) => Watched(c)
  /\ adder.pc = "bind" /\ Live(adder.c) => Watched(adder.c)
  /\ adder.pc = "tables" => late \/ Removing(adder.c) \/ Reported(adder.c) \/ Registered(adder.c)
  /\ adder.pc = "store" => late \/ fd[adder.c] \in epoll

GInv == GTypes /\ ConnInv /\ CountInv /\ WatchInv

SameConns == UNCHANGED <<sock, fd, adder, poller, epoll, tabs, tcpNum, late, down>>
SameAcceptors == Busy' = Busy /\ \A a \in Busy : acc'[a].c = acc[a].c
SameClosing == \A c \in Conns : (Closing(c)' <=> Closing(c)) /\ (Closed(c)' <=> Closed(c))
StillReported == \A c \in Conns : Reported(c) => Reported(c)'

\* A step that moves no connection.
LEMMA QuietKeeps ==
  ASSUME GInv, GTypes', SameConns, SameAcceptors, SameClosing, StillReported
  PROVE  ConnInv' /\ CountInv' /\ WatchInv'
<1>1. ConnInv /\ WatchInv /\ AccTypes /\ PollTypes
  BY DEF GInv, GTypes
<1>2. \A c \in Conns : (Held(c)' <=> Held(c)) /\ (Uncounted(c)' <=> Uncounted(c))
  BY DEF Held, Uncounted, SameAcceptors, SameConns
<1>3. \A c \in Conns : /\ Live(c)' <=> Live(c)
                       /\ Removing(c)' <=> Removing(c)
                       /\ Unread(c)' <=> Unread(c)
                       /\ InHand(c)' <=> InHand(c)
                       /\ Registered(c)' <=> Registered(c)
  BY DEF Live, Removing, Unread, InHand, Registered, SameConns, tabs
<1>4. \A c \in Conns : /\ Unadded(c)' <=> Unadded(c)
                       /\ New(c)' <=> New(c)
  BY <1>3 DEF Unadded, New, SameConns, SameClosing, tabs
<1>5. OwnInv'
  BY <1>1, <1>2, <1>3, <1>4 DEF ConnInv, OwnInv, SameConns, SameAcceptors, AccTypes
<1>6. AdderInv' /\ TablesInv'
  <2>1. adder' = adder /\ tables' = tables /\ tables \subseteq Conns
    BY <1>1 DEF SameConns, tabs, PollTypes
  <2>2. adder.pc # "recv" => adder.c \in Conns
    BY <1>1 DEF PollTypes
  <2> QED BY <1>1, <1>3, <1>4, <2>1, <2>2 DEF ConnInv, AdderInv, TablesInv, SameClosing
<1>7. FdInv' /\ PollerInv'
  BY <1>1, <1>3 DEF ConnInv, FdInv, PollerInv, SameConns, tabs
<1>8. CountInv'
  <2>1. PICK A \in SUBSET Conns : Counts(A)
    BY DEF GInv, CountInv
  <2>2. Counts(A)'
    BY <2>1, <1>2 DEF Counts, SameConns, tabs, Live
  <2> QED BY <2>2 DEF CountInv
<1>9. WatchInv'
  <2>1. \A c \in Conns : Watched(c) => Watched(c)'
    BY <1>3 DEF Watched, SameConns, SameClosing, StillReported, tabs
  <2>2. adder' = adder /\ bound' = bound /\ bound \subseteq Conns /\ late' = late
    BY <1>1 DEF SameConns, tabs, PollTypes
  <2>3. adder.pc # "recv" => adder.c \in Conns
    BY <1>1 DEF PollTypes
  <2>4. fd' = fd /\ epoll' = epoll
    BY DEF SameConns
  <2> QED BY <1>1, <1>3, <2>1, <2>2, <2>3, <2>4 DEF WatchInv, StillReported
<1> QED BY <1>5, <1>6, <1>7, <1>8, <1>9 DEF ConnInv

\* Reported depends on the requests on their way.
LEMMA ReportedKept ==
  ASSUME GTypes, stateRpc \subseteq stateRpc', UNCHANGED <<stateChan, cancelled>>
  PROVE  StillReported
BY DEF StillReported, Reported

LEMMA EnterKeepsReported ==
  ASSUME GTypes, StateEnter
  PROVE  StillReported
<1>1. PICK r \in stateRpc : stateRpc' = stateRpc \ {r} /\ stateChan' = Append(stateChan, r)
  BY DEF StateEnter
<1>2. stateChan \in Seq(StateReqs) /\ r \in StateReqs /\ cancelled' = cancelled
  BY <1>1 DEF GTypes, CmdTypes, StateEnter
<1>3. /\ Len(stateChan') = Len(stateChan) + 1 /\ stateChan'[Len(stateChan) + 1] = r
      /\ Len(stateChan) \in Nat
      /\ \A i \in 1..Len(stateChan) : stateChan'[i] = stateChan[i]
  BY <1>1, <1>2
<1>4. \A x \in stateRpc \cup {stateChan[i] : i \in 1..Len(stateChan)} :
        x \in stateRpc' \cup {stateChan'[i] : i \in 1..Len(stateChan')}
  <2> TAKE x \in stateRpc \cup {stateChan[i] : i \in 1..Len(stateChan)}
  <2>1. CASE x = r
    <3>1. Len(stateChan) + 1 \in 1..Len(stateChan')
      BY <1>3
    <3> QED BY <1>3, <2>1, <3>1
  <2>2. CASE x \in stateRpc /\ x # r
    BY <1>1, <2>2
  <2>3. CASE \E i \in 1..Len(stateChan) : x = stateChan[i]
    <3>1. PICK i \in 1..Len(stateChan) : x = stateChan[i]
      BY <2>3
    <3>2. i \in 1..Len(stateChan') /\ stateChan'[i] = x
      BY <1>3, <3>1
    <3> QED BY <3>2
  <2> QED BY <2>1, <2>2, <2>3
<1> QED BY <1>2, <1>4 DEF StillReported, Reported

LEMMA HandleKeepsReported ==
  ASSUME GTypes, StateHandle
  PROVE  StillReported
<1>1. stateChan \in Seq(StateReqs) /\ stateChan # <<>> /\ stateRpc' = stateRpc
  BY DEF GTypes, CmdTypes, StateHandle
<1>2. stateChan' = Tail(stateChan)
  BY DEF StateHandle
<1>3. /\ Len(stateChan') = Len(stateChan) - 1 /\ Len(stateChan) \in Nat
      /\ \A i \in 1..Len(stateChan') : stateChan'[i] = stateChan[i + 1]
  BY <1>1, <1>2
<1>4. Head(stateChan) = stateChan[1]
  BY <1>1
<1>5. cancelled \subseteq cancelled' /\ (stateChan[1].k = "cancel" => stateChan[1].c \in cancelled')
  BY <1>4 DEF StateHandle
<1> SUFFICES ASSUME NEW c \in Conns, Reported(c) PROVE Reported(c)'
  BY DEF StillReported
<1>6. CASE c \in cancelled
  BY <1>5, <1>6 DEF Reported
<1>7. CASE \E r \in stateRpc : r.k = "cancel" /\ r.c = c
  BY <1>1, <1>7 DEF Reported
<1>8. CASE \E i \in 1..Len(stateChan) : stateChan[i].k = "cancel" /\ stateChan[i].c = c
  <2>1. PICK i \in 1..Len(stateChan) : stateChan[i].k = "cancel" /\ stateChan[i].c = c
    BY <1>8
  <2>2. CASE i = 1
    BY <1>5, <2>1, <2>2 DEF Reported
  <2>3. CASE i # 1
    <3>1. i - 1 \in 1..Len(stateChan') /\ stateChan'[i - 1] = stateChan[i]
      BY <1>3, <2>1, <2>3
    <3> QED BY <2>1, <3>1 DEF Reported
  <2> QED BY <2>2, <2>3
<1> QED BY <1>6, <1>7, <1>8 DEF Reported

\* SendMsg, the commands, the state server and the clients' packets move no
\* connection; nor does the end of the wait for the next millisecond.
LEMMA QuietSteps ==
  ASSUME GInv, GTypes',
         \/ cmdRecv \/ StateServing
         \/ \E a \in Acceptors : SpinEnd(a)
         \/ \E w \in Workers : SendMsgReturns(w) \/ SendMsgTimeout(w) \/ SubmitCmd(w) \/ sendMsgByCmd(w)
         \/ \E c \in Conns : ClientSend(c) \/ StateDelConn(c)
         \/ UNCHANGED vars
  PROVE  ConnInv' /\ CountInv' /\ WatchInv'
<1>1. GTypes
  BY DEF GInv
<1>2. ASSUME UNCHANGED task PROVE SameClosing
  BY <1>2 DEF SameClosing, Closing, Closed
<1>3. ASSUME UNCHANGED acc PROVE SameAcceptors
  BY <1>3 DEF SameAcceptors, Busy
<1>4. ASSUME UNCHANGED up PROVE StillReported
  BY <1>1, <1>4, ReportedKept DEF up, stateSide
<1>5. CASE cmdRecv \/ UNCHANGED vars
  <2>1. UNCHANGED <<task, acc, up>> /\ SameConns
    BY <1>5 DEF cmdRecv, SameConns, net, epollers, count, vars
  <2> QED BY <1>2, <1>3, <1>4, <2>1, QuietKeeps
<1>6. CASE StateServing
  <2>1. UNCHANGED <<task, acc>> /\ SameConns
    BY <1>6 DEF StateServing, StateEnter, StateHandle, StatePushed, CmdEnter, SameConns, net, epollers, count
  <2>2. StillReported
    <3>1. CASE StatePushed \/ CmdEnter
      BY <1>1, <3>1, ReportedKept DEF StatePushed, CmdEnter, up, stateSide
    <3> QED BY <1>1, <1>6, <3>1, EnterKeepsReported, HandleKeepsReported DEF StateServing
  <2> QED BY <1>2, <1>3, <2>1, <2>2, QuietKeeps
<1>7. ASSUME NEW a \in Acceptors, SpinEnd(a) PROVE ConnInv' /\ CountInv' /\ WatchInv'
  <2>1. UNCHANGED <<task, up>> /\ SameConns
    BY <1>7 DEF SpinEnd, SameConns, net, epollers, count
  <2>2. SameAcceptors
    BY <1>1, <1>7 DEF SpinEnd, SameAcceptors, Busy, GTypes, AccTypes
  <2> QED BY <1>2, <1>4, <2>1, <2>2, QuietKeeps
<1>8. ASSUME NEW w \in Workers,
             SendMsgReturns(w) \/ SendMsgTimeout(w) \/ SubmitCmd(w) \/ sendMsgByCmd(w)
      PROVE  ConnInv' /\ CountInv' /\ WatchInv'
  <2>1. UNCHANGED <<acc, up>> /\ SameConns
    BY <1>8 DEF SendMsgReturns, SendMsgTimeout, SubmitCmd, sendMsgByCmd, SameConns, net, epollers, count
  <2>2. \E t : task' = [task EXCEPT ![w] = t] /\ t.k \notin {"close", "closeFd", "closeSocket"}
    <3>1. NoTask.k \notin {"close", "closeFd", "closeSocket"}
      BY DEF NoTask
    <3>2. cmd.k \notin {"close", "closeFd", "closeSocket"}
      BY <1>1, <3>1 DEF GTypes, CmdTypes, CmdReqs
    <3> QED BY <1>8, <3>1, <3>2 DEF SendMsgReturns, SendMsgTimeout, SubmitCmd, sendMsgByCmd
  <2>3. task[w].k \notin {"close", "closeFd", "closeSocket"}
    BY <1>8 DEF SendMsgReturns, SendMsgTimeout, SubmitCmd, sendMsgByCmd, RunsWith, Free, NoTask
  <2>4. SameClosing
    BY <1>1, <2>2, <2>3 DEF SameClosing, Closing, Closed, GTypes, CmdTypes
  <2> QED BY <1>3, <1>4, <2>1, <2>4, QuietKeeps
<1>9. ASSUME NEW c \in Conns, ClientSend(c) \/ StateDelConn(c)
      PROVE  ConnInv' /\ CountInv' /\ WatchInv'
  <2>1. UNCHANGED <<task, acc, up>> /\ SameConns
    BY <1>9 DEF ClientSend, StateDelConn, SameConns, net, epollers, count
  <2> QED BY <1>2, <1>3, <1>4, <2>1, QuietKeeps
<1> QED BY <1>5, <1>6, <1>7, <1>8, <1>9

\* Connections may die: nobody but the poller had them, and the descriptors of the
\* others stay registered.
LEMMA SinkKeeps ==
  ASSUME GInv, GTypes',
         UNCHANGED <<fd, acc, adder, poller, tabs, tcpNum, late, down>>, StillReported,
         epoll' \subseteq epoll,
         \A d \in Conns : /\ Live(d)' => Live(d)
                          /\ sock'[d] = "open" => sock[d] = "open"
                          /\ sock'[d] \in {"none", "backlog"} => sock[d] \in {"none", "backlog"}
                          /\ sock[d] \in {"eof", "closed"} => sock'[d] \in {"eof", "closed"}
                          /\ Live(d)' /\ fd[d] \in epoll => fd[d] \in epoll'
                          /\ Closing(d)' => Closing(d)
                          /\ Closed(d)' => Closed(d)
                          /\ Live(d)' /\ Closing(d) => Closing(d)'
                          /\ Live(d) /\ ~Live(d)' => ~Held(d) /\ d \notin tables
                          /\ Live(d) /\ ~Live(d)' => adder.c # d \/ adder.pc = "bind"
  PROVE  ConnInv' /\ CountInv' /\ WatchInv'
<1>1. /\ OwnInv /\ AdderInv /\ TablesInv /\ FdInv /\ PollerInv /\ WatchInv
      /\ AccTypes /\ PollTypes
  BY DEF GInv, ConnInv, GTypes
<1>2. \A d \in Conns : /\ Held(d)' <=> Held(d)
                       /\ Removing(d)' <=> Removing(d)
                       /\ Unread(d)' <=> Unread(d)
                       /\ InHand(d)' <=> InHand(d)
                       /\ Uncounted(d)' <=> Uncounted(d)
  BY DEF Held, Uncounted, Busy, Removing, Unread, InHand, tabs
<1>3. \A d \in Conns : /\ Unadded(d) => Unadded(d)'
                       /\ New(d) => New(d)'
  BY <1>2 DEF Unadded, New, tabs
<1>4. Busy' = Busy /\ \A a \in Busy : acc[a].c \in Conns
  BY <1>1 DEF Busy, AccTypes
<1>5. OwnInv'
  <2>1. \A a \in Busy : Held(acc[a].c)
    BY DEF Held
  <2>2. \A c \in Conns : sock'[c] \in {"none", "backlog"} => New(c)' /\ ~Held(c)'
    BY <1>1, <1>2, <1>3 DEF OwnInv
  <2>3. \A a \in Busy : Live(acc[a].c)'
    BY <1>1, <1>4, <2>1 DEF OwnInv
  <2>4. \A a \in Busy : New(acc[a].c)'
    BY <1>1, <1>3, <1>4 DEF OwnInv
  <2> QED BY <1>1, <1>4, <2>2, <2>3, <2>4 DEF OwnInv
<1>6. AdderInv' /\ TablesInv'
  <2>1. adder' = adder /\ tables' = tables /\ tables \subseteq Conns
    BY <1>1 DEF tabs, PollTypes
  <2>2. adder.pc # "recv" => adder.c \in Conns
    BY <1>1 DEF PollTypes
  <2>3. \A d \in Conns : Live(d) /\ d \in tables => Live(d)'
    OBVIOUS
  <2>4. adder.pc \notin {"recv", "bind"} /\ Live(adder.c) => Live(adder.c)'
    BY <2>2
  <2>5. AdderInv'
    BY <1>1, <1>2, <1>3, <2>1, <2>2, <2>4 DEF AdderInv
  <2>6. TablesInv'
    BY <1>1, <2>1, <2>3 DEF TablesInv
  <2> QED BY <2>5, <2>6
<1>7. FdInv'
  BY <1>1 DEF FdInv, tabs
<1>8. PollerInv'
  BY <1>1, <1>2 DEF PollerInv
<1>9. CountInv'
  <2>1. PICK A \in SUBSET Conns : Counts(A)
    BY DEF GInv, CountInv
  <2>2. PollTypes /\ poller' = poller /\ fdToConn' = fdToConn /\ adder' = adder
    BY <1>1 DEF tabs
  <2>3. \A c \in poller.ready : c \in Conns
    BY <1>1 DEF PollTypes
  <2>4. /\ Cardinality(A) = tcpNum'
        /\ ~down' => \A c \in Conns : sock'[c] = "open" => c \in A \/ Uncounted(c)'
        /\ \A c \in A : sock'[c] \notin {"none", "backlog"} /\ ~Uncounted(c)'
    BY <1>2, <2>1 DEF Counts
  <2>5. /\ poller.pc = "ctl" => poller.c \in A
        /\ \A c \in poller.ready : Live(c)' => c \in A
        /\ \A f \in FDs : fdToConn[f] \in Conns /\ Live(fdToConn[f])' =>
             fdToConn[f] \in A \/ (poller.pc = "del" /\ poller.c = fdToConn[f])
        /\ adder.pc \in {"ctl", "store"} => adder.c \in A
    BY <2>1, <2>2, <2>3 DEF Counts
  <2>6. Counts(A)'
    BY <2>2, <2>4, <2>5 DEF Counts
  <2> QED BY <2>6 DEF CountInv
<1>10. WatchInv'
  <2>1. /\ adder' = adder /\ bound' = bound /\ bound \subseteq Conns /\ late' = late /\ fd' = fd
        /\ tables' = tables /\ fdToConn' = fdToConn
    BY <1>1 DEF tabs, PollTypes
  <2>2. adder.pc # "recv" => adder.c \in Conns
    BY <1>1 DEF PollTypes
  <2>3. \A c \in Conns : Live(c)' /\ Registered(c) => Registered(c)'
    BY <2>1 DEF Registered
  <2>4. \A c \in Conns : Live(c)' /\ Watched(c) => Watched(c)'
    BY <1>2, <2>1, <2>3 DEF Watched, StillReported
  <2>5. adder.pc \in {"store", "tables"} => Live(adder.c)'
    BY <1>1, <2>2 DEF AdderInv
  <2>6. \A c \in bound' : Live(c)' => Watched(c)'
    BY <1>1, <2>1, <2>4 DEF WatchInv
  <2>7. adder.pc = "bind" /\ Live(adder.c)' => Watched(adder.c)'
    BY <1>1, <2>2, <2>4 DEF WatchInv
  <2>8. adder.pc = "tables" => late \/ Removing(adder.c)' \/ Reported(adder.c)' \/ Registered(adder.c)'
    BY <1>1, <1>2, <2>2, <2>3, <2>5 DEF WatchInv, StillReported
  <2>9. adder.pc = "store" => late \/ fd[adder.c] \in epoll'
    BY <1>1, <2>2, <2>5 DEF WatchInv
  <2> QED BY <2>1, <2>6, <2>7, <2>8, <2>9 DEF WatchInv
<1> QED BY <1>5, <1>6, <1>7, <1>8, <1>9, <1>10 DEF ConnInv

\* The clients' connects and hang-ups, the finalizer, and connection.Close.
LEMMA SocketSteps ==
  ASSUME GInv, GTypes',
         \/ \E c \in Conns : Connect(c) \/ ClientClose(c) \/ Collect(c)
         \/ \E w \in Workers : CloseSocket(w)
  PROVE  ConnInv' /\ CountInv' /\ WatchInv'
<1>1. /\ OwnInv /\ AdderInv /\ TablesInv /\ FdInv
      /\ SockTypes /\ PollTypes /\ CmdTypes /\ GTypes
  BY DEF GInv, ConnInv, GTypes
<1>2. ASSUME UNCHANGED up PROVE StillReported
  BY <1>1, <1>2, ReportedKept DEF up, stateSide
<1>3. ASSUME UNCHANGED task PROVE SameClosing
  BY <1>3 DEF SameClosing, Closing, Closed
<1>4. ASSUME NEW c \in Conns, Connect(c) \/ ClientClose(c)
      PROVE  ConnInv' /\ CountInv' /\ WatchInv'
  <2>1. UNCHANGED <<fd, acc, adder, poller, epoll, tabs, tcpNum, late, down, task, up>>
    BY <1>4 DEF Connect, ClientClose, epollers, count
  <2>2. \/ sock[c] = "none" /\ sock' = [sock EXCEPT ![c] = "backlog"]
        \/ sock[c] = "open" /\ sock' = [sock EXCEPT ![c] = "eof"]
    BY <1>4 DEF Connect, ClientClose
  <2>3. \A d \in Conns : /\ Live(d)' <=> Live(d)
                         /\ sock'[d] = "open" => sock[d] = "open"
                         /\ sock'[d] \in {"none", "backlog"} => sock[d] \in {"none", "backlog"}
                         /\ sock[d] \in {"eof", "closed"} => sock'[d] \in {"eof", "closed"}
    BY <1>1, <2>2 DEF Live, SockTypes
  <2> QED BY <1>2, <1>3, <2>1, <2>3, SinkKeeps DEF SameClosing
<1>5. ASSUME NEW c \in Conns, Live(c) \/ sock[c] = "closed",
             UNCHANGED <<fd, acc, adder, poller, tabs, tcpNum, late, down, up>>,
             sock' = [sock EXCEPT ![c] = "closed"],
             epoll' = IF sock[c] = "closed" THEN epoll ELSE epoll \ {fd[c]},
             ~Held(c), c \notin tables, adder.c # c \/ adder.pc = "bind",
             \A d \in Conns : (Closing(d)' => Closing(d)) /\ (Closed(d)' => Closed(d)),
             \A d \in Conns \ {c} : Closing(d) => Closing(d)'
      PROVE  ConnInv' /\ CountInv' /\ WatchInv'
  <2>1. \A d \in Conns : sock'[d] = IF d = c THEN "closed" ELSE sock[d]
    BY <1>1, <1>5 DEF SockTypes
  <2>2. \A d \in Conns : /\ Live(d)' => Live(d) /\ d # c
                         /\ sock'[d] = "open" => sock[d] = "open"
                         /\ sock'[d] \in {"none", "backlog"} => sock[d] \in {"none", "backlog"}
                         /\ sock[d] \in {"eof", "closed"} => sock'[d] \in {"eof", "closed"}
                         /\ Live(d) /\ ~Live(d)' => d = c
    BY <2>1 DEF Live
  <2>3. \A d \in Conns : Live(d)' /\ fd[d] \in epoll => fd[d] \in epoll'
    BY <1>1, <1>5, <2>2 DEF FdInv
  <2>4. epoll' \subseteq epoll
    BY <1>5
  <2> HIDE DEF Live
  <2> QED BY <1>2, <1>5, <2>2, <2>3, <2>4, SinkKeeps
<1>6. ASSUME NEW c \in Conns, Collect(c) PROVE ConnInv' /\ CountInv' /\ WatchInv'
  <2>1. /\ UNCHANGED <<fd, acc, adder, poller, tabs, tcpNum, late, down, up, task>>
        /\ sock' = [sock EXCEPT ![c] = "closed"] /\ epoll' = epoll \ {fd[c]}
        /\ sock[c] = "eof" /\ c \in bound /\ c \notin tables
    BY <1>6 DEF Collect, count
  <2>2. ~New(c) /\ ~Unadded(c)
    BY <2>1 DEF New, Unadded
  <2>3. ~Held(c)
    BY <1>1, <2>2 DEF Held, OwnInv
  <2>4. adder.c # c \/ adder.pc = "bind"
    <3>1. adder.c = c => adder.pc \in {"count", "ctl", "store", "tables", "bind"}
      BY <1>1, NamesAssumption DEF PollTypes
    <3> QED BY <1>1, <2>2, <3>1 DEF AdderInv
  <2> QED BY <1>3, <1>5, <2>1, <2>3, <2>4 DEF Live, SameClosing
<1>7. ASSUME NEW w \in Workers, CloseSocket(w) PROVE ConnInv' /\ CountInv' /\ WatchInv'
  <2>1. PICK c \in Conns : c = task[w].c
    BY <1>1, <1>7 DEF CloseSocket, CmdTypes
  <2>2. /\ UNCHANGED <<fd, acc, adder, poller, tabs, tcpNum, late, down, up>>
        /\ sock' = [sock EXCEPT ![c] = "closed"]
        /\ epoll' = IF sock[c] = "closed" THEN epoll ELSE epoll \ {fd[c]}
        /\ task[w].k = "closeSocket" /\ task' = [task EXCEPT ![w] = NoTask]
    BY <1>7, <2>1 DEF CloseSocket, count
  <2>3. Closing(c) /\ Closed(c)
    BY <2>1, <2>2 DEF Closing, Closed
  <2>4. ~New(c) /\ ~Unadded(c)
    BY <2>3 DEF New, Unadded
  <2>5. ~Held(c) /\ c \notin tables /\ sock[c] \notin {"none", "backlog"}
    BY <1>1, <2>3, <2>4 DEF Held, OwnInv, TablesInv
  <2>6. adder.c # c \/ adder.pc = "bind"
    <3>1. adder.c = c => adder.pc \in {"count", "ctl", "store", "tables", "bind"}
      BY <1>1, NamesAssumption DEF PollTypes
    <3> QED BY <1>1, <2>4, <3>1 DEF AdderInv
  <2>7. Live(c) \/ sock[c] = "closed"
    BY <1>1, <2>5 DEF Live, SockTypes
  <2>8. /\ \A d \in Conns : (Closing(d)' => Closing(d)) /\ (Closed(d)' => Closed(d))
        /\ \A d \in Conns \ {c} : Closing(d) => Closing(d)'
    <3>1. \A v \in Workers : task'[v] = IF v = w THEN NoTask ELSE task[v]
      BY <1>1, <2>2 DEF CmdTypes
    <3>2. NoTask.k \notin {"close", "closeFd", "closeSocket"}
      BY DEF NoTask
    <3> QED BY <2>1, <3>1, <3>2 DEF Closing, Closed
  <2> QED BY <1>5, <2>2, <2>5, <2>6, <2>7, <2>8
<1> QED BY <1>4, <1>6, <1>7

\* The poller goes on without touching a table, and not from the middle of remove.
LEMMA PollerKeeps ==
  ASSUME GInv, GTypes',
         UNCHANGED <<sock, fd, acc, adder, epoll, tabs, tcpNum, late, down>>,
         SameClosing, StillReported, PollerInv',
         poller.pc # "del",
         \A c \in Conns : Unread(c) => Unread(c)',
         \A c \in Conns : Removing(c) => Removing(c)' \/ Reported(c)',
         poller'.pc = "ctl" => poller'.c \in poller.ready /\ Live(poller'.c),
         \A c \in poller'.ready : c \in poller.ready \/ \E f \in FDs : fdToConn[f] = c
  PROVE  ConnInv' /\ CountInv' /\ WatchInv'
<1>1. /\ OwnInv /\ AdderInv /\ TablesInv /\ FdInv /\ PollerInv /\ WatchInv
      /\ AccTypes /\ PollTypes
  BY DEF GInv, ConnInv, GTypes
<1>2. \A d \in Conns : /\ Held(d)' <=> Held(d)
                       /\ Live(d)' <=> Live(d)
                       /\ Registered(d)' <=> Registered(d)
                       /\ Unadded(d)' <=> Unadded(d)
                       /\ Uncounted(d)' <=> Uncounted(d)
  BY DEF Held, Uncounted, Busy, Live, Registered, Unadded, SameClosing, tabs
<1>3. \A d \in Conns : New(d) => New(d)'
  BY <1>2 DEF New
<1>4. Busy' = Busy /\ \A a \in Busy : acc[a].c \in Conns
  BY <1>1 DEF Busy, AccTypes
<1>5. OwnInv'
  <2>1. \A c \in Conns : sock'[c] \in {"none", "backlog"} => New(c)' /\ ~Held(c)'
    BY <1>1, <1>2, <1>3 DEF OwnInv
  <2>2. \A a \in Busy : New(acc[a].c)' /\ Live(acc[a].c)'
    BY <1>1, <1>2, <1>3, <1>4 DEF OwnInv
  <2> QED BY <1>1, <1>4, <2>1, <2>2 DEF OwnInv
<1>6. adder' = adder /\ (adder.pc # "recv" => adder.c \in Conns)
  BY <1>1 DEF PollTypes
<1>7. AdderInv' /\ TablesInv'
  <2>1. tables' = tables /\ tables \subseteq Conns
    BY <1>1 DEF tabs, PollTypes
  <2>2. AdderInv'
    BY <1>1, <1>2, <1>6 DEF AdderInv
  <2>3. TablesInv'
    BY <1>1, <1>2, <2>1 DEF TablesInv, SameClosing
  <2> QED BY <2>2, <2>3
<1>8. FdInv'
  BY <1>1, <1>2 DEF FdInv, tabs
<1>9. CountInv'
  <2>1. PICK A \in SUBSET Conns : Counts(A)
    BY DEF GInv, CountInv
  <2>2. fdToConn' = fdToConn /\ poller.ready \subseteq Conns /\ poller'.ready \subseteq Conns
    BY <1>1 DEF tabs, PollTypes, GTypes
  <2>3. /\ Cardinality(A) = tcpNum'
        /\ ~down' => \A c \in Conns : sock'[c] = "open" => c \in A \/ Uncounted(c)'
        /\ \A c \in A : sock'[c] \notin {"none", "backlog"} /\ ~Uncounted(c)'
    BY <1>2, <2>1 DEF Counts
  <2>4. \A f \in FDs : fdToConn[f] \in Conns /\ Live(fdToConn[f]) => fdToConn[f] \in A
    BY <2>1 DEF Counts
  <2>5. \A c \in poller'.ready : Live(c) => c \in A
    BY <2>1, <2>2, <2>4 DEF Counts
  <2>6. poller'.pc = "ctl" => poller'.c \in A
    BY <2>1 DEF Counts
  <2>7. Counts(A)'
    BY <1>2, <1>6, <2>1, <2>2, <2>3, <2>4, <2>5, <2>6 DEF Counts
  <2> QED BY <2>7 DEF CountInv
<1>10. WatchInv'
  <2>1. /\ bound' = bound /\ bound \subseteq Conns /\ late' = late /\ fd' = fd
        /\ tables' = tables /\ epoll' = epoll
    BY <1>1 DEF tabs, PollTypes
  <2>2. \A c \in Conns : Watched(c) => Watched(c)'
    BY <1>2, <2>1 DEF Watched, StillReported, SameClosing
  <2> QED BY <1>1, <1>2, <1>6, <2>1, <2>2 DEF WatchInv, StillReported
<1> QED BY <1>5, <1>7, <1>8, <1>9, <1>10 DEF ConnInv

\* epoll_wait and the table lookup: distinct connections, all registered.
LEMMA WaitKeeps ==
  ASSUME GInv, GTypes', wait
  PROVE  ConnInv' /\ CountInv' /\ WatchInv'
<1>1. FdInv /\ PollTypes /\ GTypes
  BY DEF GInv, ConnInv, GTypes
<1>2. PICK r : /\ r = {fdToConn[f] : f \in {x \in FDs : Readable(x)}} \ {None}
               /\ poller' = [poller EXCEPT !.pc = "next", !.ready = r]
  BY DEF wait
<1>3. poller'.pc = "next" /\ poller'.ready = r /\ poller'.c = None /\ poller.pc = "wait"
  BY <1>1, <1>2 DEF PollTypes, wait
<1>4. r \subseteq Conns /\ \A c \in r : fd[c] \in epoll /\ fd[c] \in FDs /\ fdToConn[fd[c]] = c
  BY <1>1, <1>2 DEF FdInv, PollTypes, Readable
<1>5. UNCHANGED <<sock, fd, acc, adder, epoll, tabs, tcpNum, late, down, task, up>>
  BY DEF wait, net, count
<1>6. PollerInv'
  <2>1. \A c \in Conns : (InHand(c)' <=> c \in r) /\ ~Removing(c)'
    BY <1>3 DEF InHand, Removing
  <2>2. \A c \in Conns : Live(c)' <=> Live(c)
    BY <1>5 DEF Live
  <2>3. poller'.c \notin poller'.ready
    BY <1>3, <1>4, NamesAssumption
  <2> QED BY <1>4, <1>5, <2>1, <2>2, <2>3 DEF PollerInv
<1>7. \A c \in Conns : Unread(c) => Unread(c)'
  BY <1>3, <1>4, <1>5, NamesAssumption DEF Unread, tabs
<1>8. \A c \in Conns : ~Removing(c)
  BY <1>3 DEF Removing
<1>9. SameClosing /\ StillReported
  BY <1>1, <1>5, ReportedKept DEF SameClosing, Closing, Closed, up, stateSide
<1> QED BY <1>3, <1>4, <1>5, <1>6, <1>7, <1>8, <1>9, PollerKeeps

\* The poller moves on with what it has in hand, or with less.
LEMMA ReadKeeps ==
  ASSUME GInv, GTypes',
         ReadData \/ CancelConn \/ \E w \in Workers : SubmitSend(w)
  PROVE  ConnInv' /\ CountInv' /\ WatchInv'
<1>1. PollerInv /\ PollTypes /\ CmdTypes /\ GTypes
  BY DEF GInv, ConnInv, GTypes
<1>2. UNCHANGED <<sock, fd, acc, adder, epoll, tabs, tcpNum, late, down>>
  BY DEF ReadData, CancelConn, SubmitSend, net, count
<1>3. /\ poller.pc # "del"
      /\ poller'.ready \subseteq poller.ready
      /\ poller'.c = None \/ (poller'.c \in poller.ready \ poller'.ready)
      /\ poller'.pc = "ctl" => poller'.c \in poller.ready /\ sock[poller'.c] = "eof"
      /\ poller'.pc \notin {"del", "cancel"}
  <2>1. CASE ReadData
    <3>1. CASE poller' = [poller EXCEPT !.pc = "wait"]
      BY <1>1, <2>1, <3>1 DEF ReadData, PollTypes
    <3>2. ASSUME NEW c \in poller.ready,
                 \/ poller' = [poller EXCEPT !.ready = @ \ {c}, !.c = c, !.pc = "submit",
                                             !.n = sent[c] - inbuf[c] + 1]
                 \/ sock[c] = "eof" /\ poller' = [poller EXCEPT !.ready = @ \ {c}, !.c = c, !.pc = "ctl"]
                 \/ poller' = [poller EXCEPT !.ready = @ \ {c}, !.c = None]
          PROVE  /\ poller'.ready \subseteq poller.ready
                 /\ poller'.c = None \/ (poller'.c \in poller.ready \ poller'.ready)
                 /\ poller'.pc = "ctl" => poller'.c \in poller.ready /\ sock[poller'.c] = "eof"
                 /\ poller'.pc \notin {"del", "cancel"}
      <4>1. poller.pc = "next" /\ c \in Conns /\ c # None
        BY <1>1, <2>1, NamesAssumption DEF ReadData, PollTypes
      <4>2. \/ poller'.ready = poller.ready \ {c} /\ poller'.c = c /\ poller'.pc = "submit"
            \/ poller'.ready = poller.ready \ {c} /\ poller'.c = c /\ poller'.pc = "ctl" /\ sock[c] = "eof"
            \/ poller'.ready = poller.ready \ {c} /\ poller'.c = None /\ poller'.pc = "next"
        BY <1>1, <3>2, <4>1 DEF PollTypes
      <4> QED BY <4>2
    <3>3. poller.pc # "del"
      BY <2>1 DEF ReadData
    <3> QED BY <2>1, <3>1, <3>2, <3>3 DEF ReadData
  <2>2. CASE CancelConn
    BY <1>1, <2>2 DEF CancelConn, PollTypes
  <2>3. CASE \E w \in Workers : SubmitSend(w)
    BY <1>1, <2>3 DEF SubmitSend, PollTypes
  <2> QED BY <2>1, <2>2, <2>3
<1>4. poller.ready \subseteq Conns
  BY <1>1 DEF PollTypes
<1>5. PollerInv'
  <2>1. \A c \in Conns : (InHand(c)' => InHand(c)) /\ (Removing(c)' => sock[c] = "eof")
    BY <1>3 DEF InHand, Removing
  <2>2. \A c \in Conns : Live(c)' <=> Live(c)
    BY <1>2 DEF Live
  <2>3. poller'.c \notin poller'.ready
    BY <1>3, <1>4, NamesAssumption
  <2> QED BY <1>1, <1>2, <2>1, <2>2, <2>3 DEF PollerInv
<1>6. \A c \in Conns : Unread(c) => Unread(c)'
  BY <1>2, <1>3, NamesAssumption DEF Unread, tabs
<1>7. SameClosing
  <2>1. CASE UNCHANGED task
    BY <2>1 DEF SameClosing, Closing, Closed
  <2>2. ASSUME NEW w \in Workers, SubmitSend(w) PROVE SameClosing
    <3>1. \A v \in Workers : task[v].k \in {"close", "closeFd", "closeSocket"}
                             \/ task'[v].k \in {"close", "closeFd", "closeSocket"} => task'[v] = task[v]
      BY <1>1, <2>2 DEF SubmitSend, CmdTypes, Free, NoTask
    <3> QED BY <3>1 DEF SameClosing, Closing, Closed
  <2> QED BY <2>1, <2>2 DEF ReadData, CancelConn
<1>8. StillReported
  <2>1. stateRpc \subseteq stateRpc' /\ UNCHANGED <<stateChan, cancelled>>
    BY DEF ReadData, CancelConn, SubmitSend, up, stateSide
  <2> QED BY <1>1, <2>1, ReportedKept
<1>9. \A c \in Conns : Removing(c) => Reported(c)'
  <2>1. ASSUME CancelConn, NEW c \in Conns, c = poller.c PROVE Reported(c)'
    <3>1. [k |-> "cancel", c |-> c, n |-> 0] \in stateRpc'
      BY <2>1 DEF CancelConn
    <3>2. [k |-> "cancel", c |-> c, n |-> 0].k = "cancel" /\ [k |-> "cancel", c |-> c, n |-> 0].c = c
      OBVIOUS
    <3> QED BY <3>1, <3>2 DEF Reported
  <2> QED BY <2>1 DEF Removing, ReadData, SubmitSend
<1> QED BY <1>2, <1>3, <1>5, <1>6, <1>7, <1>8, <1>9, PollerKeeps DEF Live

\* remove, up to EPOLL_CTL_DEL: the count goes down for a connection it holds.
LEMMA RemoveCtlKeeps ==
  ASSUME GInv, GTypes', RemoveCtl
  PROVE  ConnInv' /\ CountInv' /\ WatchInv'
<1>1. /\ OwnInv /\ AdderInv /\ TablesInv /\ FdInv /\ PollerInv /\ WatchInv
      /\ AccTypes /\ PollTypes /\ SockTypes /\ GTypes
  BY DEF GInv, ConnInv, GTypes
<1>2. PICK d \in Conns : d = poller.c
  BY <1>1 DEF RemoveCtl, PollTypes
<1>3. /\ UNCHANGED <<sock, fd, acc, adder, tabs, down, task, up>>
      /\ tcpNum' = tcpNum - 1 /\ epoll' = epoll \ {fd[d]}
      /\ late' = (late \/ sock[d] = "closed") /\ poller.pc = "ctl"
  BY <1>2 DEF RemoveCtl, net
<1>4. /\ poller'.ready = poller.ready /\ poller'.c = d
      /\ poller'.pc = IF fd[d] \in epoll THEN "del" ELSE "cancel"
  BY <1>1, <1>2 DEF RemoveCtl, PollTypes
<1>5. /\ d \notin poller.ready /\ sock[d] \in {"eof", "closed"} /\ InHand(d)
      /\ Live(d) => fd[d] \in epoll
  BY <1>1, <1>2, <1>3 DEF PollerInv, Removing, InHand
<1>6. \A c \in Conns : /\ Held(c)' <=> Held(c)
                       /\ Live(c)' <=> Live(c)
                       /\ Unread(c)' <=> Unread(c)
                       /\ Unadded(c)' <=> Unadded(c)
                       /\ Closing(c)' <=> Closing(c)
                       /\ Closed(c)' <=> Closed(c)
                       /\ Removing(c)' <=> Removing(c)
                       /\ InHand(c)' <=> InHand(c) /\ c # d
                       /\ Uncounted(c)' <=> Uncounted(c)
  BY <1>2, <1>3, <1>4, <1>5
     DEF Held, Uncounted, Busy, Live, Unread, Unadded, Closing, Closed, Removing, InHand, tabs
<1>7. \A c \in Conns : New(c)' <=> New(c)
  BY <1>3, <1>6 DEF New
<1>8. adder' = adder /\ (adder.pc # "recv" => adder.c \in Conns)
  BY <1>1, <1>3 DEF PollTypes
<1>9. OwnInv'
  <2>1. Busy' = Busy /\ \A a \in Busy : acc[a].c \in Conns
    BY <1>1, <1>3 DEF Busy, AccTypes
  <2>2. \A c \in Conns : sock'[c] \in {"none", "backlog"} => New(c)' /\ ~Held(c)'
    BY <1>1, <1>3, <1>6, <1>7 DEF OwnInv
  <2>3. acc' = acc
    BY <1>3
  <2>4. \A a \in Busy : New(acc[a].c)' /\ Live(acc[a].c)'
    BY <1>1, <1>6, <1>7, <2>1, <2>3 DEF OwnInv
  <2> QED BY <1>1, <2>1, <2>2, <2>3, <2>4 DEF OwnInv
<1>10. AdderInv' /\ TablesInv'
  <2>1. tables' = tables /\ tables \subseteq Conns
    BY <1>1, <1>3 DEF tabs, PollTypes
  <2>2. AdderInv'
    BY <1>1, <1>6, <1>8 DEF AdderInv
  <2>3. TablesInv'
    BY <1>1, <1>6, <2>1 DEF TablesInv
  <2> QED BY <2>2, <2>3
<1>11. FdInv'
  BY <1>1, <1>3, <1>6 DEF FdInv, tabs
<1>12. PollerInv'
  <2>1. \A c \in Conns : InHand(c)' => fd[c] # fd[d]
    BY <1>1, <1>5, <1>6 DEF PollerInv
  <2>2. poller'.c \notin poller'.ready
    BY <1>4, <1>5
  <2> QED BY <1>1, <1>3, <1>6, <2>1, <2>2 DEF PollerInv
<1>13. CountInv'
  <2>1. PICK A \in SUBSET Conns : Counts(A)
    BY DEF GInv, CountInv
  <2>2. IsFiniteSet(A)
    BY NamesAssumption, FS_Subset
  <2>3. Cardinality(A \ {d}) = tcpNum'
    BY <1>2, <1>3, <2>1, <2>2, FS_RemoveElement DEF Counts
  <2>4. fdToConn' = fdToConn
    BY <1>3 DEF tabs
  <2>5. \A f \in FDs : fdToConn[f] \in Conns /\ Live(fdToConn[f]) =>
          fdToConn[f] \in A \ {d} \/ (poller'.pc = "del" /\ poller'.c = fdToConn[f])
    BY <1>3, <1>4, <1>5, <2>1 DEF Counts
  <2>6. adder.pc \in {"ctl", "store"} => adder.c \in A \ {d}
    BY <1>1, <1>2, <2>1 DEF Counts, AdderInv, Unread
  <2>7. poller'.pc # "ctl" /\ poller.ready \subseteq Conns
    BY <1>1, <1>4 DEF PollTypes
  <2>8. \A c \in poller'.ready : Live(c) => c \in A \ {d}
    BY <1>4, <1>5, <2>1 DEF Counts
  <2>9. ~down' => \A c \in Conns : sock'[c] = "open" => c \in A \ {d} \/ Uncounted(c)'
    BY <1>3, <1>5, <1>6, <2>1 DEF Counts
  <2>10. \A c \in A \ {d} : sock'[c] \notin {"none", "backlog"} /\ ~Uncounted(c)'
    BY <1>3, <1>6, <2>1 DEF Counts
  <2>11. Counts(A \ {d})'
    BY <1>4, <1>6, <1>8, <2>3, <2>4, <2>5, <2>6, <2>7, <2>8, <2>9, <2>10 DEF Counts
  <2> QED BY <2>11 DEF CountInv
<1>14. WatchInv'
  <2>1. /\ bound' = bound /\ bound \subseteq Conns /\ fd' = fd
        /\ tables' = tables /\ fdToConn' = fdToConn
    BY <1>1, <1>3 DEF tabs, PollTypes
  <2>2. \A c \in Conns : Live(c) /\ fd[c] \in epoll => late' \/ c = d \/ fd[c] \in epoll'
    BY <1>1, <1>3, <1>5 DEF FdInv, Live
  <2>3. \A c \in Conns : c = d => Removing(c)'
    BY <1>2, <1>3, <1>6 DEF Removing
  <2>4. StillReported
    BY <1>1, <1>3, ReportedKept DEF up, stateSide
  <2>5. \A c \in Conns : Live(c) /\ Registered(c) => late' \/ Removing(c)' \/ Registered(c)'
    BY <2>1, <2>2, <2>3 DEF Registered
  <2>6. \A c \in Conns : Live(c) /\ Watched(c) => Watched(c)'
    BY <1>3, <1>6, <2>1, <2>4, <2>5 DEF Watched, StillReported
  <2>7. adder.pc \in {"store", "tables"} => Live(adder.c)
    BY <1>1 DEF AdderInv
  <2>8. adder.pc = "store" => adder.c # d
    BY <1>1, <1>2 DEF AdderInv, Unread
  <2>9. adder.pc = "tables" => late' \/ Removing(adder.c)' \/ Reported(adder.c)' \/ Registered(adder.c)'
    BY <1>1, <1>3, <1>6, <1>8, <2>4, <2>5, <2>7 DEF WatchInv, StillReported
  <2>10. adder.pc = "store" => late' \/ fd[adder.c] \in epoll'
    BY <1>1, <1>3, <1>8, <2>2, <2>7, <2>8 DEF WatchInv
  <2>11. \A c \in bound : Live(c) => Watched(c)'
    BY <1>1, <2>1, <2>6 DEF WatchInv
  <2>12. adder.pc = "bind" /\ Live(adder.c) => Watched(adder.c)'
    BY <1>1, <1>8, <2>6 DEF WatchInv
  <2> QED BY <1>6, <1>8, <2>1, <2>9, <2>10, <2>11, <2>12 DEF WatchInv
<1> QED BY <1>9, <1>10, <1>11, <1>12, <1>13, <1>14 DEF ConnInv

\* A connection leaves the tables: others keep their entries.
LEMMA TablesKeep ==
  ASSUME GInv, GTypes', NEW d \in Conns,
         UNCHANGED <<sock, fd, acc, adder, epoll, bound, tcpNum, down, up>>,
         tables' = tables \/ tables' = tables \ {d},
         fdToConn' = fdToConn \/ fdToConn' = [fdToConn EXCEPT ![fd[d]] = None],
         poller'.ready = poller.ready, poller'.c = poller.c,
         poller' = poller \/ (poller.pc = "del" /\ poller'.pc = "cancel"),
         poller' # poller => poller.c = d /\ fdToConn' = [fdToConn EXCEPT ![fd[d]] = None],
         late => late', Live(d) \/ late' \/ fdToConn' = fdToConn,
         \A c \in Conns : Closing(c) => Closing(c)',
         \A c \in Conns : Closing(c)' => Closing(c) \/ (c = d /\ d \in tables),
         \A c \in Conns : Closed(c)' => Closed(c) \/ (c = d /\ d \notin tables'),
         Removing(d)' \/ Closing(d)'
  PROVE  ConnInv' /\ CountInv' /\ WatchInv'
<1>1. /\ OwnInv /\ AdderInv /\ TablesInv /\ FdInv /\ PollerInv /\ WatchInv
      /\ AccTypes /\ PollTypes /\ SockTypes /\ GTypes
  BY DEF GInv, ConnInv, GTypes
<1>2. \A f \in FDs : /\ fdToConn'[f] = fdToConn[f] \/ (fdToConn'[f] = None /\ f = fd[d])
                     /\ fdToConn'[f] \in Conns => fdToConn'[f] = fdToConn[f]
  BY <1>1, NamesAssumption DEF PollTypes
<1>3. \A c \in Conns : /\ Held(c)' <=> Held(c)
                       /\ Live(c)' <=> Live(c)
                       /\ Unread(c) => Unread(c)'
                       /\ Removing(c)' <=> Removing(c)
                       /\ InHand(c)' <=> InHand(c)
                       /\ Uncounted(c)' <=> Uncounted(c)
  BY <1>2 DEF Held, Uncounted, Busy, Live, Unread, Removing, InHand
<1>4. \A c \in Conns : Unadded(c) => Unadded(c)'
  BY DEF Unadded
<1>5. \A c \in Conns : New(c) => New(c)'
  BY <1>3, <1>4 DEF New
<1>6. adder' = adder /\ (adder.pc # "recv" => adder.c \in Conns)
  BY <1>1 DEF PollTypes
<1>7. OwnInv'
  <2>1. Busy' = Busy /\ \A a \in Busy : acc[a].c \in Conns
    BY <1>1 DEF Busy, AccTypes
  <2>2. \A c \in Conns : sock'[c] \in {"none", "backlog"} => New(c)' /\ ~Held(c)'
    BY <1>1, <1>3, <1>5 DEF OwnInv
  <2>3. acc' = acc
    OBVIOUS
  <2>4. \A a \in Busy : New(acc[a].c)' /\ Live(acc[a].c)'
    BY <1>1, <1>3, <1>5, <2>1, <2>3 DEF OwnInv
  <2> QED BY <1>1, <2>1, <2>2, <2>3, <2>4 DEF OwnInv
<1>8. AdderInv'
  BY <1>1, <1>3, <1>4, <1>6 DEF AdderInv
<1>9. TablesInv'
  <2>1. tables \subseteq Conns
    BY <1>1 DEF PollTypes
  <2> QED BY <1>1, <1>3, <2>1 DEF TablesInv
<1>10. FdInv'
  BY <1>1, <1>2, <1>3 DEF FdInv
<1>11. PollerInv'
  BY <1>1, <1>3 DEF PollerInv
<1>12. CountInv'
  <2>1. PICK A \in SUBSET Conns : Counts(A)
    BY DEF GInv, CountInv
  <2>2. /\ Cardinality(A) = tcpNum'
        /\ ~down' => \A c \in Conns : sock'[c] = "open" => c \in A \/ Uncounted(c)'
        /\ \A c \in A : sock'[c] \notin {"none", "backlog"} /\ ~Uncounted(c)'
    BY <1>3, <2>1 DEF Counts
  <2>3. poller'.pc = "ctl" => poller'.c \in A
    BY <2>1 DEF Counts
  <2>4. \A c \in poller'.ready : Live(c)' => c \in A
    BY <1>1, <1>3, <2>1 DEF Counts, PollTypes
  <2>5. \A f \in FDs : fdToConn'[f] \in Conns /\ Live(fdToConn[f]) =>
          fdToConn'[f] \in A \/ (poller'.pc = "del" /\ poller'.c = fdToConn'[f])
    <3> SUFFICES ASSUME NEW f \in FDs, fdToConn'[f] \in Conns, Live(fdToConn[f])
                 PROVE  fdToConn'[f] \in A \/ (poller'.pc = "del" /\ poller'.c = fdToConn'[f])
      OBVIOUS
    <3>1. fdToConn'[f] = fdToConn[f]
      BY <1>2
    <3>2. CASE fdToConn[f] \in A
      BY <3>1, <3>2
    <3>3. CASE poller.pc = "del" /\ poller.c = fdToConn[f] /\ poller' = poller
      BY <3>1, <3>3
    <3>4. CASE poller.pc = "del" /\ poller.c = fdToConn[f] /\ poller' # poller
      <4>1. fd[d] = f
        BY <1>1, <3>1, <3>4 DEF FdInv
      <4>2. fdToConn'[f] = None
        BY <1>1, <3>4, <4>1 DEF PollTypes
      <4> QED BY <4>2, NamesAssumption
    <3> QED BY <2>1, <3>1, <3>2, <3>3, <3>4 DEF Counts
  <2>6. \A f \in FDs : fdToConn'[f] \in Conns /\ Live(fdToConn[f])' => Live(fdToConn[f])
    BY <1>2, <1>3
  <2>7. adder'.pc \in {"ctl", "store"} => adder'.c \in A
    BY <2>1 DEF Counts
  <2>8. Counts(A)'
    BY <1>2, <2>2, <2>3, <2>4, <2>5, <2>6, <2>7 DEF Counts
  <2> QED BY <2>8 DEF CountInv
<1>13. WatchInv'
  <2>1. bound \subseteq Conns /\ fdToConn \in [FDs -> Conns \cup {None}] /\ epoll \subseteq FDs
    BY <1>1 DEF PollTypes, FdInv
  <2>2. \A c \in Conns : Live(c) /\ Registered(c) /\ c # d => late' \/ Registered(c)'
    <3> SUFFICES ASSUME NEW c \in Conns, Live(c), Registered(c), c # d, ~late'
                 PROVE  Registered(c)'
      OBVIOUS
    <3>1. Live(d) => fd[c] # fd[d] /\ fd[c] \in FDs
      BY <1>1 DEF FdInv
    <3>2. fdToConn'[fd[c]] = fdToConn[fd[c]]
      BY <1>2, <3>1
    <3> QED BY <3>2 DEF Registered
  <2>3. StillReported
    BY <1>1, ReportedKept DEF up, stateSide
  <2>4. \A c \in Conns : Live(c) /\ Watched(c) => Watched(c)'
    BY <1>3, <2>2, <2>3 DEF Watched, StillReported
  <2>5. adder.pc \in {"store", "tables"} => Live(adder.c)
    BY <1>1 DEF AdderInv
  <2>6. adder.pc = "tables" => late' \/ Removing(adder.c)' \/ Reported(adder.c)' \/ Registered(adder.c)'
    <3>1. adder.pc = "tables" /\ adder.c = d => Removing(adder.c)'
      BY <1>1, <1>4, <1>6 DEF AdderInv, Unadded
    <3> QED BY <1>1, <1>3, <1>6, <2>2, <2>3, <2>5, <3>1 DEF WatchInv, StillReported
  <2>7. adder.pc = "store" => late' \/ fd[adder.c] \in epoll'
    BY <1>1 DEF WatchInv
  <2>8. \A c \in bound : Live(c) => Watched(c)'
    BY <1>1, <2>1, <2>4 DEF WatchInv
  <2>9. adder.pc = "bind" /\ Live(adder.c) => Watched(adder.c)'
    BY <1>1, <1>6, <2>4 DEF WatchInv
  <2> QED BY <1>3, <1>6, <2>1, <2>6, <2>7, <2>8, <2>9 DEF WatchInv
<1> QED BY <1>7, <1>8, <1>9, <1>10, <1>11, <1>12, <1>13 DEF ConnInv

LEMMA RemoveTablesKeeps ==
  ASSUME GInv, GTypes', RemoveTables
  PROVE  ConnInv' /\ CountInv' /\ WatchInv'
<1>1. PollerInv /\ PollTypes /\ CmdTypes
  BY DEF GInv, ConnInv, GTypes
<1>2. PICK d \in Conns : d = poller.c
  BY <1>1 DEF RemoveTables, PollTypes
<1>3. /\ UNCHANGED <<sock, fd, acc, adder, epoll, bound, tcpNum, down, up, task>>
      /\ tables' = tables \ {d} /\ fdToConn' = [fdToConn EXCEPT ![fd[d]] = None]
      /\ late' = (late \/ sock[d] = "closed") /\ poller.pc = "del"
  BY <1>2 DEF RemoveTables, net
<1>4. poller'.ready = poller.ready /\ poller'.c = d /\ poller'.pc = "cancel"
  BY <1>1, <1>2 DEF RemoveTables, PollTypes
<1>5. Live(d) \/ late'
  BY <1>1, <1>2, <1>3 DEF PollerInv, Removing, Live
<1>6. \A c \in Conns : (Closing(c)' <=> Closing(c)) /\ (Closed(c)' <=> Closed(c))
  BY <1>3 DEF Closing, Closed
<1>7. Removing(d)'
  BY <1>4 DEF Removing
<1> QED BY <1>2, <1>3, <1>4, <1>5, <1>6, <1>7, TablesKeep

\* closeConn finds the connection in the tables, or has nothing to do.
LEMMA CloseConnKeeps ==
  ASSUME GInv, GTypes', NEW w \in Workers, closeConn(w)
  PROVE  ConnInv' /\ CountInv' /\ WatchInv'
<1>1. TablesInv /\ PollTypes /\ CmdTypes /\ GTypes
  BY DEF GInv, ConnInv, GTypes
<1>2. /\ UNCHANGED <<sock, fd, acc, adder, poller, epoll, tabs, tcpNum, late, down, up>>
      /\ task[w].k = "del"
  BY DEF closeConn, epollers, net, count, RunsWith
<1>3. CASE cmd.c \in tables
  <2>1. PICK d \in Conns : d = cmd.c /\ d \in tables
    BY <1>1, <1>3 DEF PollTypes
  <2>2. task' = [task EXCEPT ![w] = [cmd EXCEPT !.k = "close"]]
    BY <1>3 DEF closeConn
  <2>3. task'[w].k = "close" /\ task'[w].c = d /\ \A v \in Workers \ {w} : task'[v] = task[v]
    <3>1. cmd \in Tasks
      BY <1>1 DEF CmdTypes, NoTask, Tasks, CmdReqs
    <3>2. [cmd EXCEPT !.k = "close"].k = "close" /\ [cmd EXCEPT !.k = "close"].c = d
      BY <2>1, <3>1 DEF Tasks
    <3> QED BY <1>1, <2>2, <3>2 DEF CmdTypes
  <2>4. /\ \A c \in Conns : Closing(c) => Closing(c)'
        /\ \A c \in Conns : Closing(c)' => Closing(c) \/ c = d
        /\ \A c \in Conns : Closed(c)' => Closed(c)
        /\ Closing(d)'
    BY <1>2, <2>3 DEF Closing, Closed
  <2>5. UNCHANGED <<fdToConn, tables, bound>>
    BY <1>2 DEF tabs
  <2> QED BY <1>2, <2>1, <2>4, <2>5, TablesKeep
<1>4. CASE cmd.c \notin tables
  <2>1. task' = [task EXCEPT ![w] = NoTask]
    BY <1>4 DEF closeConn
  <2>2. SameConns /\ SameAcceptors
    BY <1>2, <2>1 DEF SameConns, SameAcceptors, Busy, tabs
  <2>3. SameClosing
    BY <1>1, <1>2, <2>1 DEF SameClosing, Closing, Closed, CmdTypes, NoTask
  <2>4. StillReported
    BY <1>1, <1>2, ReportedKept DEF up, stateSide
  <2> QED BY <2>2, <2>3, <2>4, QuietKeeps
<1> QED BY <1>3, <1>4

\* Close takes the connection out of the tables: by ID only itself, by number
\* nobody else while it is live.
LEMMA CloseKeeps ==
  ASSUME GInv, GTypes', NEW w \in Workers, Close(w)
  PROVE  ConnInv' /\ CountInv' /\ WatchInv'
<1>1. SockTypes /\ TablesInv /\ OwnInv /\ PollTypes /\ CmdTypes
  BY DEF GInv, ConnInv, GTypes
<1>2. PICK d \in Conns : d = task[w].c
  BY <1>1 DEF Close, CmdTypes
<1>3. /\ UNCHANGED <<sock, fd, acc, adder, poller, epoll, bound, tcpNum, down, up>>
      /\ \/ /\ task[w].k = "close" /\ tables' = tables \ {d}
            /\ task' = [task EXCEPT ![w].k = "closeFd"]
            /\ UNCHANGED <<fdToConn, late>>
         \/ /\ task[w].k = "closeFd" /\ UNCHANGED tables
            /\ fdToConn' = fdToConn \/ fdToConn' = [fdToConn EXCEPT ![fd[d]] = None]
            /\ late' = (late \/ sock[d] = "closed")
            /\ task' = [task EXCEPT ![w].k = "closeSocket"]
  BY <1>2 DEF Close, net
<1>4. Closing(d) /\ (task[w].k = "closeFd" => Closed(d))
  BY <1>2, <1>3 DEF Closing, Closed
<1>5. d \notin tables'
  BY <1>1, <1>3, <1>4 DEF TablesInv
<1>6. Live(d) \/ sock[d] = "closed"
  <2>1. ~New(d)
    BY <1>4 DEF New, Unadded
  <2> QED BY <1>1, <2>1 DEF OwnInv, SockTypes, Live
<1>7. /\ task'[w].k \in {"closeFd", "closeSocket"} /\ task'[w].c = d
      /\ \A v \in Workers \ {w} : task'[v] = task[v]
  BY <1>1, <1>2, <1>3 DEF CmdTypes, Tasks
<1>8. /\ \A c \in Conns : Closing(c)' <=> Closing(c)
      /\ \A c \in Conns : Closed(c)' => Closed(c) \/ c = d
  BY <1>2, <1>3, <1>7 DEF Closing, Closed
<1>9. late => late'
  BY <1>3
<1>10. Live(d) \/ late' \/ fdToConn' = fdToConn
  BY <1>3, <1>6
<1> QED BY <1>3, <1>4, <1>5, <1>8, <1>9, <1>10, TablesKeep

\* epoller.add, one store at a time.
LEMMA AddStoreKeeps ==
  ASSUME GInv, GTypes', AddStore
  PROVE  ConnInv' /\ CountInv' /\ WatchInv'
<1>1. /\ OwnInv /\ AdderInv /\ TablesInv /\ FdInv /\ PollerInv /\ WatchInv
      /\ AccTypes /\ PollTypes /\ GTypes
  BY DEF GInv, ConnInv, GTypes
<1>2. PICK d \in Conns : d = adder.c
  BY <1>1 DEF AddStore, PollTypes
<1>3. UNCHANGED <<sock, fd, acc, poller, epoll, tcpNum, late, down, task, up>>
  BY DEF AddStore, net, count
<1>4. \/ /\ adder.pc = "store" /\ fdToConn' = [fdToConn EXCEPT ![fd[d]] = d]
         /\ adder'.pc = "tables" /\ adder'.c = d
         /\ UNCHANGED <<tables, bound>>
      \/ /\ adder.pc = "tables" /\ tables' = tables \cup {d}
         /\ adder'.pc = "bind" /\ adder'.c = d
         /\ UNCHANGED <<fdToConn, bound>>
      \/ /\ adder.pc = "bind" /\ bound' = bound \cup {d}
         /\ adder'.pc = "recv" /\ adder'.c = None
         /\ UNCHANGED <<fdToConn, tables>>
  BY <1>1, <1>2 DEF AddStore, PollTypes
<1>5. \A f \in FDs : fdToConn'[f] = fdToConn[f] \/ (adder.pc = "store" /\ fdToConn'[f] = d /\ f = fd[d])
  BY <1>1, <1>4 DEF PollTypes
<1>6. \A c \in Conns : /\ Held(c)' <=> Held(c)
                       /\ Live(c)' <=> Live(c)
                       /\ Closing(c)' <=> Closing(c)
                       /\ Removing(c)' <=> Removing(c)
                       /\ InHand(c)' <=> InHand(c)
                       /\ Closed(c)' <=> Closed(c)
                       /\ Uncounted(c)' <=> Uncounted(c)
  BY <1>3, <1>4 DEF Held, Uncounted, Busy, Live, Closing, Closed, Removing, InHand
<1>7. \A c \in Conns : New(c) => New(c)'
  <2> SUFFICES ASSUME NEW c \in Conns, New(c) PROVE New(c)'
    OBVIOUS
  <2>1. c # d /\ c # None
    BY <1>2, NamesAssumption DEF New
  <2>2. Unread(c)'
    BY <1>3, <1>5, <2>1 DEF New, Unread
  <2>3. Unadded(c)'
    BY <1>4, <1>6, <2>1 DEF New, Unadded
  <2> QED BY <1>4, <2>1, <2>2, <2>3 DEF New
<1>8. OwnInv'
  <2>1. Busy' = Busy /\ acc' = acc /\ \A a \in Busy : acc[a].c \in Conns
    BY <1>1, <1>3 DEF Busy, AccTypes
  <2>2. \A c \in Conns : sock'[c] \in {"none", "backlog"} => New(c)' /\ ~Held(c)'
    BY <1>1, <1>3, <1>6, <1>7 DEF OwnInv
  <2>4. \A a \in Busy : New(acc[a].c)' /\ Live(acc[a].c)'
    BY <1>1, <1>6, <1>7, <2>1 DEF OwnInv
  <2> QED BY <1>1, <2>1, <2>2, <2>4 DEF OwnInv
<1>9. AdderInv'
  <2>1. adder'.pc \in {"count", "ctl", "store", "tables"} =>
          adder'.pc = "tables" /\ adder'.c = d /\ adder.pc = "store"
    BY <1>4
  <2>2. adder.pc = "store" => Live(d) /\ Unadded(d)
    BY <1>1, <1>2 DEF AdderInv
  <2>3. adder.pc = "store" => Live(d)' /\ Unadded(d)'
    BY <1>4, <1>6, <2>2 DEF Unadded
  <2> QED BY <2>1, <2>3 DEF AdderInv
<1>10. TablesInv'
  <2>1. tables' = tables \/ (tables' = tables \cup {d} /\ adder.pc = "tables")
    BY <1>4
  <2>2. adder.pc = "tables" => Live(d) /\ ~Closed(d)
    BY <1>1, <1>2 DEF AdderInv, Unadded, Closing, Closed
  <2>3. tables \subseteq Conns
    BY <1>1 DEF PollTypes
  <2> QED BY <1>1, <1>6, <2>1, <2>2, <2>3 DEF TablesInv
<1>11. FdInv'
  BY <1>1, <1>3, <1>5, <1>6 DEF FdInv
<1>12. PollerInv'
  BY <1>1, <1>3, <1>6 DEF PollerInv
<1>13. CountInv'
  <2>1. PICK A \in SUBSET Conns : Counts(A)
    BY DEF GInv, CountInv
  <2>2. \A f \in FDs : fdToConn'[f] \in Conns /\ Live(fdToConn'[f]) =>
          fdToConn'[f] \in A \/ (poller.pc = "del" /\ poller.c = fdToConn'[f])
    BY <1>2, <1>5, <2>1 DEF Counts
  <2>3. adder'.pc \notin {"ctl", "store"}
    BY <1>4
  <2>4. poller.ready \subseteq Conns
    BY <1>1 DEF PollTypes
  <2>5. \A f \in FDs : fdToConn'[f] \in Conns => (Live(fdToConn[f])' <=> Live(fdToConn'[f]))
    BY <1>3 DEF Live
  <2>6. /\ Cardinality(A) = tcpNum'
        /\ ~down' => \A c \in Conns : sock'[c] = "open" => c \in A \/ Uncounted(c)'
        /\ \A c \in A : sock'[c] \notin {"none", "backlog"} /\ ~Uncounted(c)'
        /\ poller'.pc = "ctl" => poller'.c \in A
        /\ \A c \in poller'.ready : Live(c)' => c \in A
    BY <1>3, <1>6, <2>1, <2>4 DEF Counts
  <2>7. Counts(A)'
    BY <1>3, <2>2, <2>3, <2>5, <2>6 DEF Counts
  <2> QED BY <2>7 DEF CountInv
<1>14. WatchInv'
  <2>1. bound \subseteq Conns /\ fdToConn \in [FDs -> Conns \cup {None}] /\ epoll \subseteq FDs
    BY <1>1 DEF PollTypes, FdInv
  <2>2. StillReported
    BY <1>1, <1>3, ReportedKept DEF up, stateSide
  <2>3. \A c \in Conns : Live(c) /\ Registered(c) => Registered(c)'
    <3> SUFFICES ASSUME NEW c \in Conns, Live(c), Registered(c) PROVE Registered(c)'
      OBVIOUS
    <3>1. fd[c] \in FDs /\ fd' = fd /\ epoll' = epoll
      BY <1>1, <1>3 DEF FdInv
    <3>2. CASE fdToConn'[fd[c]] = fdToConn[fd[c]]
      BY <3>1, <3>2 DEF Registered
    <3>3. CASE adder.pc = "store" /\ fdToConn'[fd[c]] = d /\ fd[c] = fd[d]
      <4>1. c = d
        BY <1>1, <1>2, <3>3 DEF AdderInv, FdInv
      <4> QED BY <3>1, <3>3, <4>1 DEF Registered
    <3> QED BY <1>5, <3>1, <3>2, <3>3
  <2>4. tables \subseteq tables'
    BY <1>4
  <2>5. \A c \in Conns : Live(c) /\ Watched(c) => Watched(c)'
    BY <1>3, <1>6, <2>2, <2>3, <2>4 DEF Watched, StillReported
  <2>6. CASE adder.pc = "store"
    <3>1. Live(d) /\ fd[d] \in FDs
      BY <1>1, <1>2, <2>6 DEF AdderInv, FdInv
    <3>2. late' \/ Registered(d)'
      BY <1>1, <1>2, <1>3, <1>4, <2>1, <2>6, <3>1 DEF WatchInv, Registered
    <3>3. \A c \in bound' : Live(c)' => Watched(c)'
      BY <1>1, <1>4, <1>6, <2>1, <2>5, <2>6 DEF WatchInv
    <3> QED BY <1>4, <2>6, <3>2, <3>3 DEF WatchInv
  <2>7. CASE adder.pc = "tables"
    <3>1. Live(d) /\ d \in tables'
      BY <1>1, <1>2, <1>4, <2>7 DEF AdderInv
    <3>2. Watched(d)'
      BY <1>1, <1>2, <1>3, <1>6, <2>2, <2>3, <2>7, <3>1 DEF WatchInv, Watched, StillReported
    <3>3. \A c \in bound' : Live(c)' => Watched(c)'
      BY <1>1, <1>4, <1>6, <2>1, <2>5, <2>7 DEF WatchInv
    <3> QED BY <1>4, <2>7, <3>2, <3>3 DEF WatchInv
  <2>8. CASE adder.pc = "bind"
    <3>1. \A c \in bound' : Live(c)' => Watched(c)'
      BY <1>1, <1>2, <1>4, <1>6, <2>1, <2>5, <2>8 DEF WatchInv
    <3> QED BY <1>4, <2>8, <3>1 DEF WatchInv
  <2> QED BY <1>4, <2>6, <2>7, <2>8
<1> QED BY <1>8, <1>9, <1>10, <1>11, <1>12, <1>13, <1>14 DEF ConnInv

\* The acceptor's connection goes to the adder.
LEMMA AddTaskConns ==
  ASSUME GInv, GTypes', NEW a \in Acceptors, addTask(a)
  PROVE  ConnInv' /\ CountInv' /\ WatchInv'
<1>1. /\ OwnInv /\ AdderInv /\ TablesInv /\ FdInv /\ PollerInv /\ WatchInv
      /\ AccTypes /\ PollTypes /\ GTypes
  BY DEF GInv, ConnInv, GTypes
<1>2. PICK d \in Conns : d = acc[a].c
  BY <1>1 DEF addTask, AccTypes, Busy
<1>3. /\ UNCHANGED <<sock, fd, poller, epoll, tabs, tcpNum, late, down, task, up>>
      /\ adder.pc = "recv" /\ adder.c = None /\ adder'.pc = "count" /\ adder'.c = d
  BY <1>1, <1>2 DEF addTask, net, count, PollTypes
<1>4. /\ a \in Busy /\ acc' = [acc EXCEPT ![a] = [pc |-> "accept", c |-> None]]
      /\ Busy' = Busy \ {a} /\ \A b \in Busy' : acc'[b] = acc[b] /\ acc[b].c \in Conns
  BY <1>1 DEF addTask, Busy, AccTypes
<1>5. New(d) /\ Live(d) /\ Held(d)
  BY <1>1, <1>2, <1>4 DEF OwnInv, Held
<1>6. \A c \in Conns : /\ Live(c)' <=> Live(c)
                       /\ Closing(c)' <=> Closing(c)
                       /\ Closed(c)' <=> Closed(c)
                       /\ Removing(c)' <=> Removing(c)
                       /\ InHand(c)' <=> InHand(c)
                       /\ Unread(c)' <=> Unread(c)
                       /\ Unadded(c)' <=> Unadded(c)
  BY <1>3 DEF Live, Closing, Closed, Removing, InHand, Unread, Unadded, tabs
<1>7. \A c \in Conns : Held(c)' <=> Held(c) /\ c # d
  BY <1>1, <1>2, <1>4 DEF Held, OwnInv
<1>8. \A c \in Conns : Uncounted(c)' <=> Uncounted(c)
  BY <1>3, <1>5, <1>7 DEF Uncounted
<1>9. OwnInv'
  <2>1. \A c \in Conns : New(c) /\ c # d => New(c)'
    BY <1>3, <1>6 DEF New
  <2>2. \A c \in Conns : sock'[c] \in {"none", "backlog"} => New(c)' /\ ~Held(c)'
    BY <1>1, <1>3, <1>5, <1>7, <2>1 DEF OwnInv, Live
  <2>3. \A b \in Busy' : acc[b].c # d
    BY <1>1, <1>2, <1>4 DEF OwnInv
  <2>4. \A b \in Busy' : New(acc'[b].c) /\ Live(acc'[b].c) /\ acc'[b].c # d /\ acc'[b].c \in Conns
    BY <1>1, <1>4, <2>3 DEF OwnInv
  <2>5. \A b, e \in Busy' : acc'[b].c = acc'[e].c => b = e
    BY <1>1, <1>4 DEF OwnInv
  <2> QED BY <1>6, <2>1, <2>2, <2>4, <2>5 DEF OwnInv
<1>10. AdderInv' /\ TablesInv'
  <2>1. AdderInv'
    BY <1>3, <1>5, <1>6 DEF AdderInv, New
  <2>2. TablesInv'
    BY <1>1, <1>3, <1>6 DEF TablesInv, tabs, PollTypes
  <2> QED BY <2>1, <2>2
<1>11. FdInv' /\ PollerInv'
  <2>1. FdInv'
    BY <1>1, <1>3, <1>6 DEF FdInv, tabs
  <2>2. PollerInv'
    BY <1>1, <1>3, <1>6 DEF PollerInv
  <2> QED BY <2>1, <2>2
<1>12. CountInv'
  <2>1. PICK A \in SUBSET Conns : Counts(A)
    BY DEF GInv, CountInv
  <2>2. fdToConn' = fdToConn /\ poller' = poller /\ poller.ready \subseteq Conns
    BY <1>1, <1>3 DEF tabs, PollTypes
  <2>3. /\ Cardinality(A) = tcpNum'
        /\ ~down' => \A c \in Conns : sock'[c] = "open" => c \in A \/ Uncounted(c)'
        /\ \A c \in A : sock'[c] \notin {"none", "backlog"} /\ ~Uncounted(c)'
    BY <1>3, <1>8, <2>1 DEF Counts
  <2>4. /\ poller'.pc = "ctl" => poller'.c \in A
        /\ \A c \in poller'.ready : Live(c)' => c \in A
        /\ \A f \in FDs : fdToConn[f] \in Conns /\ Live(fdToConn[f])' =>
             fdToConn[f] \in A \/ (poller.pc = "del" /\ poller.c = fdToConn[f])
    BY <1>6, <2>1, <2>2 DEF Counts
  <2>5. adder'.pc \notin {"ctl", "store"}
    BY <1>3
  <2>6. Counts(A)'
    BY <2>2, <2>3, <2>4, <2>5 DEF Counts
  <2> QED BY <2>6 DEF CountInv
<1>13. WatchInv'
  <2>1. /\ bound' = bound /\ bound \subseteq Conns /\ fd' = fd /\ late' = late
        /\ tables' = tables /\ fdToConn' = fdToConn
    BY <1>1, <1>3 DEF tabs, PollTypes
  <2>2. StillReported
    BY <1>1, <1>3, ReportedKept DEF up, stateSide
  <2>3. \A c \in Conns : Watched(c) => Watched(c)'
    BY <1>3, <1>6, <2>1, <2>2 DEF Watched, Registered, StillReported
  <2> QED BY <1>1, <1>3, <1>6, <2>1, <2>3 DEF WatchInv
<1> QED BY <1>9, <1>10, <1>11, <1>12, <1>13 DEF ConnInv

\* The adder counts its connection, then registers it with the kernel or kills the
\* process.
LEMMA CountKeeps ==
  ASSUME GInv, GTypes', addTcpNum \/ EpollCtl
  PROVE  ConnInv' /\ CountInv' /\ WatchInv'
<1>1. /\ OwnInv /\ AdderInv /\ TablesInv /\ FdInv /\ PollerInv /\ WatchInv
      /\ AccTypes /\ PollTypes /\ GTypes
  BY DEF GInv, ConnInv, GTypes
<1>2. PICK d \in Conns : d = adder.c
  BY <1>1 DEF addTcpNum, EpollCtl, PollTypes
<1>3. /\ UNCHANGED <<sock, fd, acc, poller, tabs, late, task, up>>
      /\ adder.pc \in {"count", "ctl"} /\ adder'.c = d
      /\ ~down' => ~down
      /\ epoll \subseteq epoll' /\ epoll' \subseteq epoll \cup {fd[d]}
      /\ \/ adder.pc = "count" /\ adder'.pc = "ctl" /\ tcpNum' = tcpNum + 1
         \/ adder.pc = "ctl" /\ adder'.pc = "store" /\ tcpNum' = tcpNum /\ fd[d] \in epoll'
         \/ adder.pc = "ctl" /\ adder'.pc = "ctl" /\ tcpNum' = tcpNum
  <2>1. CASE addTcpNum
    BY <1>1, <1>2, <2>1 DEF addTcpNum, net, PollTypes
  <2>2. CASE EpollCtl
    <3>1. /\ UNCHANGED <<sock, fd, acc, poller, tabs, tcpNum, late, task, up>>
          /\ adder.pc = "ctl" /\ ~down
      BY <2>2 DEF EpollCtl, net, count, Up
    <3>2. \/ epoll' = epoll \cup {fd[d]} /\ adder'.pc = "store" /\ adder'.c = d
          \/ epoll' = epoll /\ adder' = adder
      BY <1>1, <1>2, <2>2 DEF EpollCtl, PollTypes
    <3> QED BY <1>2, <3>1, <3>2
  <2> QED BY <2>1, <2>2
<1>4. Live(d) /\ Unadded(d) /\ Unread(d) /\ fd[d] \in FDs
  BY <1>1, <1>2, <1>3 DEF AdderInv, FdInv
<1>5. \A c \in Conns : /\ Live(c)' <=> Live(c)
                       /\ Closing(c)' <=> Closing(c)
                       /\ Closed(c)' <=> Closed(c)
                       /\ Removing(c)' <=> Removing(c)
                       /\ InHand(c)' <=> InHand(c)
                       /\ Unread(c)' <=> Unread(c)
                       /\ Unadded(c)' <=> Unadded(c)
                       /\ Held(c)' <=> Held(c)
  BY <1>3 DEF Live, Closing, Closed, Removing, InHand, Unread, Unadded, Held, Busy, tabs
<1>6. \A c \in Conns : New(c)' <=> New(c)
  BY <1>2, <1>3, <1>5 DEF New
<1>7. ~Held(d)
  BY <1>1, <1>2 DEF OwnInv, Held, New
<1>8. \A c \in Conns : Uncounted(c)' <=> Held(c)
  BY <1>3, <1>5 DEF Uncounted
<1>9. OwnInv'
  <2>1. Busy' = Busy /\ acc' = acc /\ \A a \in Busy : acc[a].c \in Conns
    BY <1>1, <1>3 DEF Busy, AccTypes
  <2>2. \A c \in Conns : sock'[c] \in {"none", "backlog"} => New(c)' /\ ~Held(c)'
    BY <1>1, <1>3, <1>5, <1>6 DEF OwnInv
  <2>3. \A a \in Busy : New(acc[a].c)' /\ Live(acc[a].c)'
    BY <1>1, <1>5, <1>6, <2>1 DEF OwnInv
  <2> QED BY <1>1, <2>1, <2>2, <2>3 DEF OwnInv
<1>10. AdderInv' /\ TablesInv'
  <2>1. AdderInv'
    BY <1>3, <1>4, <1>5 DEF AdderInv
  <2>2. TablesInv'
    BY <1>1, <1>3, <1>5 DEF TablesInv, tabs, PollTypes
  <2> QED BY <2>1, <2>2
<1>11. FdInv' /\ PollerInv'
  <2>1. FdInv'
    BY <1>1, <1>3, <1>4, <1>5 DEF FdInv, tabs
  <2>2. PollerInv'
    BY <1>1, <1>3, <1>5 DEF PollerInv
  <2> QED BY <2>1, <2>2
<1>12. CountInv'
  <2>1. PICK A \in SUBSET Conns : Counts(A)
    BY DEF GInv, CountInv
  <2>2. PICK B \in SUBSET Conns : /\ adder.pc = "count" => B = A \cup {d}
                                  /\ adder.pc = "ctl" => B = A
    OBVIOUS
  <2>3. A \subseteq B /\ (\A c \in B : c \in A \/ c = d) /\ d \in B
    BY <1>2, <1>3, <2>1, <2>2 DEF Counts
  <2>4. Cardinality(B) = tcpNum'
    <3>1. IsFiniteSet(A)
      BY NamesAssumption, FS_Subset
    <3>2. adder.pc = "count" => d \notin A
      BY <1>2, <2>1 DEF Counts, Uncounted
    <3>3. adder.pc = "count" => Cardinality(B) = Cardinality(A) + 1
      BY <2>2, <3>1, <3>2, FS_AddElement
    <3> QED BY <1>3, <2>1, <2>2, <3>3 DEF Counts
  <2>5. fdToConn' = fdToConn /\ poller' = poller /\ poller.ready \subseteq Conns
    BY <1>1, <1>3 DEF tabs, PollTypes
  <2>6. ~down' => \A c \in Conns : sock'[c] = "open" => c \in B \/ Uncounted(c)'
    BY <1>2, <1>3, <1>8, <2>1, <2>3 DEF Counts, Uncounted
  <2>7. \A c \in B : sock'[c] \notin {"none", "backlog"} /\ ~Uncounted(c)'
    BY <1>3, <1>4, <1>7, <1>8, <2>1, <2>3 DEF Counts, Uncounted, Live
  <2>8. /\ poller'.pc = "ctl" => poller'.c \in B
        /\ \A c \in poller'.ready : Live(c)' => c \in B
    BY <1>5, <2>1, <2>3, <2>5 DEF Counts
  <2>9. \A f \in FDs : fdToConn[f] \in Conns /\ Live(fdToConn[f])' =>
          fdToConn[f] \in B \/ (poller.pc = "del" /\ poller.c = fdToConn[f])
    BY <1>5, <2>1, <2>3, <2>5 DEF Counts
  <2>10. Counts(B)'
    BY <1>3, <2>3, <2>4, <2>5, <2>6, <2>7, <2>8, <2>9 DEF Counts
  <2> QED BY <2>10 DEF CountInv
<1>13. WatchInv'
  <2>1. /\ bound' = bound /\ bound \subseteq Conns /\ fd' = fd /\ late' = late
        /\ tables' = tables /\ fdToConn' = fdToConn
    BY <1>1, <1>3 DEF tabs, PollTypes
  <2>2. StillReported
    BY <1>1, <1>3, ReportedKept DEF up, stateSide
  <2>3. \A c \in Conns : Watched(c) => Watched(c)'
    BY <1>3, <1>5, <2>1, <2>2 DEF Watched, Registered, StillReported
  <2> QED BY <1>1, <1>3, <1>5, <2>1, <2>3 DEF WatchInv
<1> QED BY <1>9, <1>10, <1>11, <1>12, <1>13 DEF ConnInv

\* A connection is accepted: it is new, its descriptor was not in use.
LEMMA AcceptConns ==
  ASSUME GInv, GTypes', NEW a \in Acceptors, NEW c \in Conns, Accept(a, c)
  PROVE  ConnInv' /\ CountInv' /\ WatchInv'
<1>1. /\ OwnInv /\ AdderInv /\ TablesInv /\ FdInv /\ PollerInv /\ WatchInv
      /\ AccTypes /\ PollTypes /\ SockTypes /\ GTypes
  BY DEF GInv, ConnInv, GTypes
<1>2. /\ UNCHANGED <<adder, poller, epoll, tabs, tcpNum, late, task, up>>
      /\ acc[a].pc = "accept" /\ sock[c] = "backlog" /\ ~down
  BY DEF Accept, epollers, count, Up
<1>3. New(c) /\ ~Held(c) /\ ~Live(c)
  BY <1>1, <1>2 DEF OwnInv, Live
<1>4. StillReported
  BY <1>1, <1>2, ReportedKept DEF up, stateSide
<1>5. \A d \in Conns : /\ Closing(d)' <=> Closing(d)
                       /\ Removing(d)' <=> Removing(d)
                       /\ InHand(d)' <=> InHand(d)
                       /\ Unread(d)' <=> Unread(d)
                       /\ Unadded(d)' <=> Unadded(d)
                       /\ New(d)' <=> New(d)
                       /\ Closed(d)' <=> Closed(d)
  BY <1>2 DEF Closing, Closed, Removing, InHand, Unread, Unadded, New, tabs
<1>6. CASE sock' = [sock EXCEPT ![c] = "closed"] /\ UNCHANGED <<acc, fd, down>>
  <2>1. \A d \in Conns : /\ Live(d)' <=> Live(d)
                         /\ sock'[d] = "open" => sock[d] = "open"
                         /\ sock'[d] \in {"none", "backlog"} => sock[d] \in {"none", "backlog"}
                         /\ sock[d] \in {"eof", "closed"} => sock'[d] \in {"eof", "closed"}
    BY <1>1, <1>2, <1>6 DEF Live, SockTypes
  <2> QED BY <1>2, <1>4, <1>5, <1>6, <2>1, SinkKeeps
<1>7. ASSUME NEW f \in FDs, ~InUse(f), fd' = [fd EXCEPT ![c] = f],
             sock' = [sock EXCEPT ![c] = "open"],
             \/ acc' = acc /\ down'
             \/ /\ Busy' = Busy \cup {a} /\ a \notin Busy /\ acc'[a].c = c
                /\ \A b \in Busy : acc'[b] = acc[b]
      PROVE  ConnInv' /\ CountInv' /\ WatchInv'
  <2>1. \A d \in Conns : /\ sock'[d] = IF d = c THEN "open" ELSE sock[d]
                         /\ fd'[d] = IF d = c THEN f ELSE fd[d]
    BY <1>1, <1>7 DEF SockTypes
  <2>2. \A d \in Conns : /\ Live(d)' <=> Live(d) \/ d = c
                         /\ Live(d) => fd[d] # f
    BY <1>7, <2>1 DEF Live, InUse
  <2>3. \A d \in Conns : /\ Held(d) => Held(d)'
                         /\ Held(d)' => Held(d) \/ d = c
                         /\ Held(c)' \/ down'
                         /\ Uncounted(d) => Uncounted(d)'
                         /\ Uncounted(d)' => Uncounted(d) \/ d = c
    BY <1>2, <1>7 DEF Held, Uncounted, Busy
  <2>4. \A b \in Busy : acc[b].c \in Conns /\ acc[b].c # c
    BY <1>1, <1>3 DEF AccTypes, Held
  <2>5. OwnInv'
    <3>1. \A d \in Conns : sock'[d] \in {"none", "backlog"} => New(d)' /\ ~Held(d)'
      BY <1>1, <1>5, <2>1, <2>3 DEF OwnInv
    <3>2. \A b \in Busy' : /\ acc'[b].c \in Conns /\ New(acc'[b].c)
                           /\ Live(acc'[b].c) \/ acc'[b].c = c
      BY <1>1, <1>3, <1>7, <2>4 DEF OwnInv, Busy
    <3>3. \A b, e \in Busy' : acc'[b].c = acc'[e].c => b = e
      BY <1>1, <1>7, <2>4 DEF OwnInv, Busy
    <3> QED BY <1>5, <2>2, <3>1, <3>2, <3>3 DEF OwnInv
  <2>6. adder' = adder /\ (adder.pc # "recv" => adder.c \in Conns /\ adder.c # c)
    BY <1>1, <1>2, <1>3 DEF PollTypes, New
  <2>7. AdderInv'
    BY <1>1, <1>5, <2>2, <2>6 DEF AdderInv
  <2>8. TablesInv'
    BY <1>1, <1>2, <1>5, <2>2 DEF TablesInv, PollTypes, tabs
  <2>9. FdInv'
    <3>1. \A g \in FDs : fdToConn[g] # c /\ fdToConn'[g] = fdToConn[g]
      BY <1>2, <1>3 DEF New, Unread, tabs
    <3>2. \A g \in FDs : fdToConn'[g] \in Conns => fd'[fdToConn'[g]] = g
      BY <1>1, <2>1, <3>1 DEF FdInv
    <3>3. epoll' \subseteq FDs /\ \A d \in Conns : Live(d)' => fd'[d] \in FDs
      BY <1>1, <1>2, <2>1, <2>2 DEF FdInv
    <3>4. \A d, e \in Conns : Live(d)' /\ Live(e)' /\ fd'[d] = fd'[e] => d = e
      BY <1>1, <2>1, <2>2 DEF FdInv
    <3> QED BY <3>2, <3>3, <3>4 DEF FdInv
  <2>10. PollerInv'
    <3>1. ~InHand(c) /\ ~Removing(c)
      BY <1>3 DEF New, Unread, InHand, Removing
    <3>2. \A d \in Conns : InHand(d)' => d # c /\ InHand(d) /\ fd'[d] = fd[d] /\ (Live(d)' <=> Live(d))
      BY <1>5, <2>1, <2>2, <3>1
    <3>3. poller' = poller /\ epoll' = epoll
      BY <1>2
    <3>4. \A d \in Conns : InHand(d)' /\ Live(d)' => fd'[d] \in epoll
      BY <1>1, <3>2 DEF PollerInv
    <3>5. \A d, e \in Conns : InHand(d)' /\ InHand(e)' /\ fd'[d] = fd'[e] => d = e
      BY <1>1, <3>2 DEF PollerInv
    <3>6. \A d \in Conns : Removing(d)' => sock'[d] \in {"eof", "closed"}
      BY <1>1, <1>5, <2>1, <3>1 DEF PollerInv
    <3> QED BY <1>1, <3>3, <3>4, <3>5, <3>6 DEF PollerInv
  <2>11. CountInv'
    <3>1. PICK A \in SUBSET Conns : Counts(A)
      BY DEF GInv, CountInv
    <3>2. c \notin A
      BY <1>2, <3>1 DEF Counts
    <3>3. /\ fdToConn' = fdToConn /\ poller' = poller /\ poller.ready \subseteq Conns
          /\ c \notin poller.ready /\ \A g \in FDs : fdToConn[g] # c
      BY <1>1, <1>2, <1>3 DEF tabs, PollTypes, New, Unread
    <3>4. ~down' => \A d \in Conns : sock'[d] = "open" => d \in A \/ Uncounted(d)'
      BY <1>2, <2>1, <2>3, <3>1 DEF Counts, Uncounted
    <3>5. \A d \in A : sock'[d] \notin {"none", "backlog"} /\ ~Uncounted(d)'
      BY <2>1, <2>3, <3>1, <3>2 DEF Counts
    <3>6. /\ poller'.pc = "ctl" => poller'.c \in A
          /\ \A d \in poller'.ready : Live(d)' => d \in A
      BY <2>2, <3>1, <3>3 DEF Counts
    <3>7. \A g \in FDs : fdToConn[g] \in Conns /\ Live(fdToConn[g])' =>
            fdToConn[g] \in A \/ (poller.pc = "del" /\ poller.c = fdToConn[g])
      BY <2>2, <3>1, <3>3 DEF Counts
    <3>8. Cardinality(A) = tcpNum' /\ (adder'.pc \in {"ctl", "store"} => adder'.c \in A)
      BY <1>2, <3>1 DEF Counts
    <3>9. Counts(A)'
      BY <3>3, <3>4, <3>5, <3>6, <3>7, <3>8 DEF Counts
    <3> QED BY <3>9 DEF CountInv
  <2>12. WatchInv'
    <3>1. /\ bound' = bound /\ bound \subseteq Conns /\ late' = late /\ epoll' = epoll
          /\ tables' = tables /\ fdToConn' = fdToConn /\ c \notin bound
      BY <1>1, <1>2, <1>3 DEF tabs, PollTypes, New, Unadded
    <3>2. \A d \in Conns : d # c /\ Registered(d) => Registered(d)'
      BY <2>1, <3>1 DEF Registered
    <3>3. \A d \in Conns : d # c /\ Watched(d) => Watched(d)'
      BY <1>4, <1>5, <3>1, <3>2 DEF Watched, StillReported
    <3>4. \A d \in bound' : Live(d)' => Watched(d)'
      BY <1>1, <2>2, <3>1, <3>3 DEF WatchInv
    <3>5. adder.pc = "bind" /\ Live(adder.c)' => Watched(adder.c)'
      BY <1>1, <2>2, <2>6, <3>3 DEF WatchInv
    <3>6. adder.pc = "tables" => late \/ Removing(adder.c)' \/ Reported(adder.c)' \/ Registered(adder.c)'
      BY <1>1, <1>4, <1>5, <2>6, <3>2 DEF WatchInv, StillReported
    <3>7. adder.pc = "store" => late \/ fd'[adder.c] \in epoll
      BY <1>1, <2>1, <2>6 DEF WatchInv
    <3> QED BY <2>6, <3>1, <3>4, <3>5, <3>6, <3>7 DEF WatchInv
  <2> QED BY <2>5, <2>7, <2>8, <2>9, <2>10, <2>11, <2>12 DEF ConnInv
<1>8. CASE checkTcp /\ ~Spinning
  <2>1. PICK f \in FDs : ~InUse(f) /\ fd' = [fd EXCEPT ![c] = f] /\ sock' = [sock EXCEPT ![c] = "open"]
    <3>1. ~ ~checkTcp
      BY <1>8
    <3> QED BY <3>1 DEF Accept
  <2>2. \/ acc' = acc /\ down'
        \/ acc' = [acc EXCEPT ![a] = [pc |-> "hand", c |-> c]]
        \/ acc' = [acc EXCEPT ![a] = [pc |-> "spin", c |-> c]]
    <3>1. ~ ~checkTcp
      BY <1>8
    <3> QED BY <3>1 DEF Accept, nextID
  <2>3. ASSUME acc' # acc \/ ~down'
        PROVE  /\ Busy' = Busy \cup {a} /\ a \notin Busy /\ acc'[a].c = c
               /\ \A b \in Busy : acc'[b] = acc[b]
    BY <1>1, <1>2, <2>2, <2>3 DEF Busy, AccTypes
  <2> QED BY <1>7, <2>1, <2>2, <2>3
<1> QED BY <1>6, <1>8 DEF Accept

LEMMA GInvInit == Init => GInv
<1> SUFFICES ASSUME Init PROVE GInv
  OBVIOUS
<1>1. GTypes
  BY TypesInit
<1>2. \A c \in Conns : /\ ~Held(c) /\ ~Live(c) /\ ~Closing(c) /\ ~Removing(c) /\ ~InHand(c)
                       /\ ~Uncounted(c)
  BY DEF Init, Held, Uncounted, Busy, Live, Closing, NoTask, Removing, InHand
<1>3. \A c \in Conns : New(c)
  BY <1>2, NamesAssumption DEF Init, New, Unread, Unadded
<1>4. Busy = {}
  BY DEF Init, Busy
<1>5. ConnInv
  BY <1>2, <1>3, <1>4, NamesAssumption DEF Init, ConnInv, OwnInv, AdderInv, TablesInv, FdInv, PollerInv
<1>6. Counts({})
  BY FS_EmptySet, NamesAssumption DEF Init, Counts
<1>7. CountInv
  BY <1>6 DEF CountInv
<1>8. WatchInv
  BY DEF Init, WatchInv
<1> QED BY <1>1, <1>5, <1>7, <1>8 DEF GInv

LEMMA GInvStep == GInv /\ [Next]_vars => GInv'
<1> SUFFICES ASSUME GInv, [Next]_vars PROVE GInv'
  OBVIOUS
<1>1. GTypes'
  BY TypesStep DEF GInv
<1> SUFFICES ConnInv' /\ CountInv' /\ WatchInv'
  BY <1>1 DEF GInv
<1>2. CASE Accepting
  BY <1>1, <1>2, AddTaskConns, AcceptConns, QuietSteps DEF Accepting
<1>3. CASE Adding
  BY <1>1, <1>3, CountKeeps, AddStoreKeeps DEF Adding
<1>4. CASE Polling
  BY <1>1, <1>4, WaitKeeps, ReadKeeps, RemoveCtlKeeps, RemoveTablesKeeps DEF Polling
<1>5. CASE \E w \in Workers : Working(w)
  BY <1>1, <1>5, ReadKeeps, QuietSteps, CloseConnKeeps, CloseKeeps, SocketSteps DEF Working
<1>6. CASE cmdRecv \/ StateServing \/ UNCHANGED vars
  BY <1>1, <1>6, QuietSteps
<1>7. CASE Environment
  BY <1>1, <1>7, QuietSteps, SocketSteps DEF Environment
<1> QED BY <1>2, <1>3, <1>4, <1>5, <1>6, <1>7 DEF Next

-----------------------------------------------------------------------------
OpenConns == {c \in Conns : sock[c] = "open"}

\* Only Accept opens a connection.
LEMMA OnlyAcceptOpens ==
  ASSUME GTypes, [Next]_vars
  PROVE  /\ load' = load
         /\ \/ OpenConns' \subseteq OpenConns
            \/ \E a \in Acceptors, c \in Conns :
                 Accept(a, c) /\ checkTcp /\ OpenConns' \subseteq OpenConns \cup {c}
<1>1. SockTypes
  BY DEF GTypes
<1>2. ASSUME UNCHANGED <<load, sock>> PROVE load' = load /\ OpenConns' \subseteq OpenConns
  BY <1>2 DEF OpenConns
<1>3. ASSUME NEW a \in Acceptors, NEW c \in Conns, Accept(a, c)
      PROVE  /\ load' = load
             /\ OpenConns' \subseteq OpenConns \/ (checkTcp /\ OpenConns' \subseteq OpenConns \cup {c})
  <2>1. CASE ~checkTcp /\ sock' = [sock EXCEPT ![c] = "closed"]
    BY <1>1, <1>3, <2>1 DEF Accept, OpenConns, SockTypes
  <2>2. CASE checkTcp /\ sock' = [sock EXCEPT ![c] = "open"]
    BY <1>1, <1>3, <2>2 DEF Accept, OpenConns, SockTypes
  <2> QED BY <1>3, <2>1, <2>2 DEF Accept
<1>4. ASSUME NEW w \in Workers, CloseSocket(w) PROVE load' = load /\ OpenConns' \subseteq OpenConns
  BY <1>1, <1>4 DEF CloseSocket, OpenConns, SockTypes
<1>5. ASSUME NEW c \in Conns, Connect(c) \/ ClientClose(c) \/ Collect(c)
      PROVE  load' = load /\ OpenConns' \subseteq OpenConns
  BY <1>1, <1>5 DEF Connect, ClientClose, Collect, OpenConns, SockTypes
<1>6. \/ UNCHANGED <<load, sock>>
      \/ \E a \in Acceptors, c \in Conns : Accept(a, c)
      \/ \E w \in Workers : CloseSocket(w)
      \/ \E c \in Conns : Connect(c) \/ ClientClose(c) \/ Collect(c)
  <2>1. ASSUME NEW a \in Acceptors, addTask(a) \/ SpinEnd(a) PROVE UNCHANGED <<load, sock>>
    BY <2>1 DEF addTask, SpinEnd, net
  <2>2. ASSUME Adding \/ cmdRecv PROVE UNCHANGED <<load, sock>>
    BY <2>2 DEF Adding, addTcpNum, EpollCtl, AddStore, cmdRecv, net
  <2>3. ASSUME Polling PROVE UNCHANGED <<load, sock>>
    BY <2>3 DEF Polling, wait, ReadData, RemoveCtl, RemoveTables, CancelConn, net
  <2>4. ASSUME NEW w \in Workers,
               \/ SubmitSend(w) \/ SendMsgReturns(w) \/ SendMsgTimeout(w) \/ SubmitCmd(w)
               \/ sendMsgByCmd(w) \/ closeConn(w) \/ Close(w)
        PROVE  UNCHANGED <<load, sock>>
    BY <2>4 DEF SubmitSend, SendMsgReturns, SendMsgTimeout, SubmitCmd, sendMsgByCmd, closeConn, Close, net
  <2>5. ASSUME StateServing \/ \E c \in Conns : StateDelConn(c) \/ ClientSend(c)
        PROVE  UNCHANGED <<load, sock>>
    BY <2>5 DEF StateServing, StateEnter, StateHandle, StatePushed, CmdEnter, StateDelConn, ClientSend, net
  <2>6. ASSUME UNCHANGED vars PROVE UNCHANGED <<load, sock>>
    BY <2>6 DEF vars, net
  <2> QED BY <2>1, <2>2, <2>3, <2>4, <2>5, <2>6 DEF Next, Accepting, Working, Environment
<1> QED BY <1>2, <1>3, <1>4, <1>5, <1>6

\* When checkTcp lets a connection in, those open are counted, held by the other
\* acceptors, or the one the adder has received.
LEMMA RoomForOne ==
  ASSUME GInv, ~down, NEW a \in Acceptors, acc[a].pc = "accept"
  PROVE  /\ IsFiniteSet(OpenConns)
         /\ Cardinality(OpenConns) <= tcpNum + Cardinality(Acceptors)
         /\ tcpNum \in Nat /\ Cardinality(Acceptors) \in Nat
<1>1. PICK A \in SUBSET Conns : Counts(A)
  BY DEF GInv, CountInv
<1> DEFINE H == {acc[b].c : b \in Busy}
           pick == [b \in Busy |-> acc[b].c]
<1>2. IsFiniteSet(A) /\ Cardinality(A) = tcpNum /\ tcpNum \in Nat
  BY <1>1, NamesAssumption, FS_Subset, FS_CardinalityType DEF Counts
<1>3. /\ IsFiniteSet(Acceptors \ {a}) /\ Cardinality(Acceptors \ {a}) = Cardinality(Acceptors) - 1
      /\ Cardinality(Acceptors) \in Nat
  BY NamesAssumption, FS_RemoveElement, FS_CardinalityType
<1>4. Busy \in SUBSET (Acceptors \ {a})
  BY DEF Busy
<1>5. IsFiniteSet(Busy) /\ Cardinality(Busy) <= Cardinality(Acceptors) - 1 /\ Cardinality(Busy) \in Nat
  BY <1>3, <1>4, FS_Subset, FS_CardinalityType
<1>6. pick \in Surjection(Busy, H)
  BY DEF Surjection
<1>7. IsFiniteSet(H) /\ Cardinality(H) <= Cardinality(Busy) /\ Cardinality(H) \in Nat
  BY <1>5, <1>6, FS_Surjection, FS_CardinalityType
<1> DEFINE U == H \cup {adder.c}
<1>8. OpenConns \in SUBSET (A \cup U)
  BY <1>1 DEF OpenConns, Counts, Held, Uncounted
<1> HIDE DEF H, pick
<1>9. /\ IsFiniteSet(U) /\ Cardinality(U) \in Nat
      /\ Cardinality(U) = Cardinality(H) \/ Cardinality(U) = Cardinality(H) + 1
  <2>1. IsFiniteSet(U) /\ (Cardinality(U) = Cardinality(H) \/ Cardinality(U) = Cardinality(H) + 1)
    BY <1>7, FS_AddElement, Zenon
  <2> QED BY <2>1, FS_CardinalityType
<1> HIDE DEF U
<1>10. /\ IsFiniteSet(A \cup U) /\ Cardinality(A \cap U) \in Nat
       /\ Cardinality(A \cup U) = Cardinality(A) + Cardinality(U) - Cardinality(A \cap U)
  <2>1. A \cap U \in SUBSET A
    OBVIOUS
  <2> QED BY <1>2, <1>9, <2>1, FS_Union, FS_Subset, FS_CardinalityType
<1>11. /\ IsFiniteSet(OpenConns) /\ Cardinality(OpenConns) <= Cardinality(A \cup U)
       /\ Cardinality(OpenConns) \in Nat
  BY <1>8, <1>10, FS_Subset, FS_CardinalityType
<1> QED BY <1>2, <1>3, <1>5, <1>7, <1>9, <1>10, <1>11

LEMMA BoundedStep ==
  ASSUME GInv, ConnectionsAreBounded, [Next]_vars
  PROVE  ConnectionsAreBounded'
<1>1. GTypes /\ load.max \in Nat
  BY LoadsAssumption DEF GInv, GTypes, SockTypes
<1>2. load' = load
  BY <1>1, OnlyAcceptOpens
<1>3. Cardinality(Acceptors) \in Nat /\ IsFiniteSet(OpenConns) /\ Cardinality(OpenConns) \in Nat
  <2>1. OpenConns \in SUBSET Conns
    BY DEF OpenConns
  <2> QED BY <2>1, NamesAssumption, FS_Subset, FS_CardinalityType
<1>4. Cardinality(OpenConns) <= load.max + Cardinality(Acceptors) + 1
  BY DEF ConnectionsAreBounded, OpenConns
<1> SUFFICES Cardinality(OpenConns') <= load.max + Cardinality(Acceptors) + 1
  BY <1>2 DEF ConnectionsAreBounded, OpenConns
<1>5. CASE OpenConns' \subseteq OpenConns
  <2>1. Cardinality(OpenConns') <= Cardinality(OpenConns) /\ Cardinality(OpenConns') \in Nat
    BY <1>3, <1>5, FS_Subset, FS_CardinalityType
  <2> QED BY <1>1, <1>3, <1>4, <2>1
<1>6. ASSUME NEW a \in Acceptors, NEW c \in Conns, Accept(a, c), checkTcp,
             OpenConns' \subseteq OpenConns \cup {c}
      PROVE  Cardinality(OpenConns') <= load.max + Cardinality(Acceptors) + 1
  <2>1. ~down /\ acc[a].pc = "accept" /\ tcpNum <= load.max
    BY <1>6 DEF Accept, Up, checkTcp
  <2>2. Cardinality(OpenConns) <= tcpNum + Cardinality(Acceptors) /\ tcpNum \in Nat
    BY <2>1, RoomForOne
  <2>3. /\ IsFiniteSet(OpenConns \cup {c}) /\ Cardinality(OpenConns \cup {c}) \in Nat
        /\ Cardinality(OpenConns \cup {c}) <= Cardinality(OpenConns) + 1
    <3>1. /\ IsFiniteSet(OpenConns \cup {c})
          /\ \/ Cardinality(OpenConns \cup {c}) = Cardinality(OpenConns)
             \/ Cardinality(OpenConns \cup {c}) = Cardinality(OpenConns) + 1
      BY <1>3, FS_AddElement, Zenon
    <3> QED BY <1>3, <3>1
  <2>4. Cardinality(OpenConns') <= Cardinality(OpenConns \cup {c}) /\ Cardinality(OpenConns') \in Nat
    BY <1>6, <2>3, FS_Subset, FS_CardinalityType
  <2> QED BY <1>1, <1>3, <2>1, <2>2, <2>3, <2>4
<1> QED BY <1>1, <1>5, <1>6, OnlyAcceptOpens

-----------------------------------------------------------------------------
\* The variables keep their types; in particular both cmdChannels stay within their
\* capacity and tcpNum within 0 and the number of connections.
THEOREM GatewayTypes == Spec => []TypeOK
<1>1. IInv /\ [Next]_vars => IInv'
  BY AcceptKeeps, SpinEndKeeps, AddTaskKeeps, OthersKeep DEF Next, Accepting
<1>2. GInv /\ IInv => TypeOK
  <2> SUFFICES ASSUME GInv, IInv PROVE TypeOK
    OBVIOUS
  <2>1. PICK A \in SUBSET Conns : Counts(A)
    BY DEF GInv, CountInv
  <2>2. /\ Cardinality(A) = tcpNum /\ Cardinality(A) \in Nat /\ Cardinality(Conns) \in Nat
        /\ Cardinality(A) <= Cardinality(Conns)
    BY <2>1, NamesAssumption, FS_Subset, FS_CardinalityType DEF Counts
  <2>3. tcpNum \in 0..Cardinality(Conns)
    BY <2>2
  <2>4. Sequence \in 0..MaxSequence
    BY DEF IInv, GenShape
  <2>5. SockTypes /\ PollTypes /\ CmdTypes /\ FdInv
    BY DEF GInv, GTypes, ConnInv
  <2> QED BY <2>3, <2>4, <2>5 DEF TypeOK, SockTypes, PollTypes, CmdTypes, FdInv
<1> QED BY InitIInv, GInvInit, GInvStep, <1>1, <1>2, PTL DEF Spec

\* However many acceptors check the limit before the epoller counts, and whatever
\* DelConn, hang-ups and reused descriptors do to tcpNum, no more connections are
\* open than tcp_max_num, one for each acceptor and the one the epoller has
\* received.
THEOREM LimitHolds == Spec => []ConnectionsAreBounded
<1>1. Init => ConnectionsAreBounded
  <2> SUFFICES ASSUME Init PROVE ConnectionsAreBounded
    OBVIOUS
  <2>1. {c \in Conns : sock[c] = "open"} = {}
    BY DEF Init
  <2>2. load.max \in Nat /\ Cardinality(Acceptors) \in Nat
    BY LoadsAssumption, NamesAssumption, FS_CardinalityType DEF Init
  <2> QED BY <2>1, <2>2, FS_EmptySet DEF ConnectionsAreBounded
<1>2. GInv /\ ConnectionsAreBounded /\ [Next]_vars => ConnectionsAreBounded'
  BY BoundedStep
<1> QED BY <1>1, <1>2, GInvInit, GInvStep, PTL DEF Spec

\* An added connection that is still open does not drop out of epoll or the tables
\* unnoticed: only remove, or the Close of a second worker, on a descriptor number
\* somebody else has closed (late) can take its registration away.
THEOREM AddedStaysWatched == Spec => []StaysWatched
<1>1. GInv => StaysWatched
  <2> SUFFICES ASSUME GInv PROVE StaysWatched
    OBVIOUS
  <2>1. WatchInv /\ bound \subseteq Conns
    BY DEF GInv, GTypes, PollTypes
  <2>2. \A c \in bound \cap Open : Live(c) /\ c \in Conns
    BY <2>1 DEF Open, Live
  <2> QED BY <2>1, <2>2 DEF WatchInv, StaysWatched, Watched, Removing, Closing, Registered
<1> QED BY <1>1, GInvInit, GInvStep, PTL DEF Spec
=============================================================================
