------------------------------ MODULE Gateway ------------------------------
(***************************************************************************)
(* The gateway (gateway/, common/tcp, the RPC clients and services between *)
(* it and the state server): acceptors take TCP connections, give them an  *)
(* ID and hand them to an epoller, whose one goroutine registers them and  *)
(* whose other polls, reads one packet and submits it to the worker pool;  *)
(* a worker calls the state server's SendMsg.  In the other direction the  *)
(* state server's Push and DelConn go through cmdChannel to cmdHandler,    *)
(* which submits them to the same pool.                                    *)
(*                                                                         *)
(* Clients and the state server appear as what the gateway sees of them;   *)
(* StateServer models the latter.  A packet is one frame: <<c, n>>.  eChan *)
(* is unbuffered: the configuration key the code reads is not the one in   *)
(* plato.yaml.                                                             *)
(***************************************************************************)
EXTENDS Integers, Sequences, FiniteSets

CONSTANTS Conns, Acceptors, Workers, None,
          Loads,        \* what the clients do, the clock shows and the configuration says, see load
          NumFDs,       \* file descriptors
          MaxSequence,  \* IDs of a millisecond, less one (2^16 - 1 in the code)
          CmdNum        \* capacity of both cmdChannels

ASSUME BoundsAssumption == {MaxSequence, NumFDs} \subseteq Nat /\ CmdNum \in Nat \ {0}
ASSUME NamesAssumption == None \notin Conns /\ IsFiniteSet(Conns) /\ IsFiniteSet(Acceptors)
ASSUME LoadsAssumption ==
  Loads \subseteq [conns : SUBSET Conns, talk : [Conns -> Nat], hang : SUBSET Conns, dels : Nat,
                   clock : SUBSET Nat, max : Nat, pool : SUBSET Workers]

VARIABLES
  load,        \* fixed by Init: the clients that connect, the packets each sends, those that
               \* hang up, how often the state server asks for the end of one; the
               \* milliseconds the clock may show; gateway.tcp_max_num, the workers of wPool
  sock,        \* the TCP connection: none, backlog, open, eof (closed by the peer), closed
  inbuf, sent, \* packets not yet read; packets the client has sent
  fd,          \* c.fd
  LastStamp, Sequence, ids,  \* ConnIDGenerater, c.id
  acc,         \* the acceptors: step and connection
  adder,       \* the goroutine of startEProc that receives from eChan
  poller,      \* the goroutine of startEProc that polls: step, connections, c
  epoll,       \* descriptors registered with the kernel
  fdToConn, tables, bound,  \* fdToConnTable, ep.tables, c.e # nil
  tcpNum,
  task,        \* what every worker runs
  stateRpc, stateChan,  \* requests of the gateway: waiting to enter, in the state server's channel
  cmdRpc, cmdChan,      \* requests of the state server: likewise, in cmdChannel
  cmd, handler,         \* the variable of cmdHandler's loop; its step
  stWait,      \* the Push the state server's handler waits for
  down,        \* the gateway process has died of a panic
  swapped,     \* history: a closure of cmdHandler ran with a later command
  got, cancelled, asked,  \* history: packets and hang-ups the state server got, its DelConns, numbered
  late         \* history: remove or Close ran on a connection already closed

idGen == <<LastStamp, Sequence, ids>>
net == <<load, sock, inbuf, sent, fd>>
tabs == <<fdToConn, tables, bound>>
count == <<tcpNum, late>>
epollers == <<adder, poller, epoll, tabs, count>>
stateSide == <<stateChan, stWait, got, cancelled>>
up == <<stateRpc, stateSide>>
cmds == <<cmdRpc, cmdChan, cmd, handler, asked, swapped>>
vars == <<net, idGen, acc, epollers, task, up, cmds, down>>

Up == ~down
FDs == 1..NumFDs
NoTask == [k |-> "idle", c |-> None, n |-> 0]
Free == {w \in load.pool : task[w] = NoTask}
\* A worker has the connection in its hands.
Closing(c) == \E w \in Workers : task[w].k \in {"close", "closeFd", "closeSocket"} /\ task[w].c = c
InUse(f) == \E c \in Conns : fd[c] = f /\ sock[c] \in {"open", "eof"}

-----------------------------------------------------------------------------
(* NextID, under the generator's mutex.  The clock may show any millisecond  *)
(* when it is read; the ID is the stamp with the sequence below it.          *)

Spinning == \E a \in Acceptors : acc[a].pc = "spin"
ID(stamp, seq) == stamp * (MaxSequence + 1) + seq
Assign(c, stamp, seq) ==
  /\ LastStamp' = stamp /\ Sequence' = seq
  /\ ids' = [ids EXCEPT ![c] = ID(stamp, seq)]

nextID_NoWait(a, c, ms) ==
  /\ Assign(c, ms, IF ms = LastStamp THEN (Sequence + 1) % (MaxSequence + 1) ELSE 0)
  /\ acc' = [acc EXCEPT ![a] = [pc |-> "hand", c |-> c]]
nextID(a, c, ms) ==
  LET next == IF ms = LastStamp THEN (Sequence + 1) % (MaxSequence + 1) ELSE 0 IN
  \/ /\ ms > LastStamp \/ next # 0
     /\ Assign(c, ms, next)
     /\ acc' = [acc EXCEPT ![a] = [pc |-> "hand", c |-> c]]
  \/ /\ ms = LastStamp /\ next = 0
     /\ Sequence' = 0
     /\ acc' = [acc EXCEPT ![a] = [pc |-> "spin", c |-> c]]
     /\ UNCHANGED <<LastStamp, ids>>

\* The loop that waits for the next millisecond, holding the mutex.
SpinEnd(a) ==
  /\ Up
  /\ acc[a].pc = "spin"
  /\ \E ms \in {t \in load.clock : t > LastStamp} : Assign(acc[a].c, ms, 0)
  /\ acc' = [acc EXCEPT ![a].pc = "hand"]
  /\ UNCHANGED <<net, epollers, task, up, cmds, down>>

-----------------------------------------------------------------------------
(* Acceptors.                                                               *)

checkTcp_Off == TRUE
checkTcp == tcpNum <= load.max

\* AcceptTCP up to NewConnection.  A clock that has gone back panics in a
\* goroutine nothing recovers.
Accept(a, c) ==
  /\ Up
  /\ acc[a].pc = "accept" /\ sock[c] = "backlog"
  /\ \/ /\ ~checkTcp
        /\ sock' = [sock EXCEPT ![c] = "closed"]
        /\ UNCHANGED <<idGen, acc, fd, down>>
     \/ /\ checkTcp /\ ~Spinning
        /\ \E f \in FDs :
             /\ ~InUse(f) /\ \A g \in 1..f - 1 : InUse(g)
             /\ fd' = [fd EXCEPT ![c] = f]
             /\ sock' = [sock EXCEPT ![c] = "open"]
        /\ \E ms \in load.clock :
             \/ ms >= LastStamp /\ nextID(a, c, ms) /\ UNCHANGED down
             \/ ms < LastStamp /\ down' = TRUE /\ UNCHANGED <<idGen, acc>>
  /\ UNCHANGED <<load, inbuf, sent, epollers, task, up, cmds>>

\* addTask meets the receive in startEProc: the acceptor goes on at once.
addTask(a) ==
  /\ Up
  /\ acc[a].pc = "hand" /\ adder.pc = "recv"
  /\ adder' = [pc |-> "count", c |-> acc[a].c]
  /\ acc' = [acc EXCEPT ![a] = [pc |-> "accept", c |-> None]]
  /\ UNCHANGED <<net, idGen, poller, epoll, tabs, count, task, up, cmds, down>>

addTcpNum ==
  /\ Up
  /\ adder.pc = "count"
  /\ tcpNum' = tcpNum + 1
  /\ adder' = [adder EXCEPT !.pc = "ctl"]
  /\ UNCHANGED <<net, idGen, acc, poller, epoll, tabs, late, task, up, cmds, down>>

\* EPOLL_CTL_ADD.  When it fails startEProc calls connection.Close, which panics.
EpollCtl ==
  /\ Up
  /\ adder.pc = "ctl"
  /\ \/ /\ epoll' = epoll \cup {fd[adder.c]}
        /\ adder' = [adder EXCEPT !.pc = "store"]
        /\ UNCHANGED down
     \/ down' = TRUE /\ UNCHANGED <<epoll, adder>>
  /\ UNCHANGED <<net, idGen, acc, poller, tabs, count, task, up, cmds>>

\* The three stores of epoller.add.
AddStore_NoFd ==
  /\ Up
  /\ adder.pc = "store"
  /\ tables' = tables \cup {adder.c} /\ bound' = bound \cup {adder.c}
  /\ adder' = [pc |-> "recv", c |-> None]
  /\ UNCHANGED <<net, idGen, acc, poller, epoll, fdToConn, count, task, up, cmds, down>>
AddStore ==
  LET c == adder.c IN
  /\ Up
  /\ \/ /\ adder.pc = "store"
        /\ fdToConn' = [fdToConn EXCEPT ![fd[c]] = c]
        /\ adder' = [adder EXCEPT !.pc = "tables"]
        /\ UNCHANGED <<tables, bound>>
     \/ /\ adder.pc = "tables"
        /\ tables' = tables \cup {c}
        /\ adder' = [adder EXCEPT !.pc = "bind"]
        /\ UNCHANGED <<fdToConn, bound>>
     \/ /\ adder.pc = "bind"
        /\ bound' = bound \cup {c}
        /\ adder' = [pc |-> "recv", c |-> None]
        /\ UNCHANGED <<fdToConn, tables>>
  /\ UNCHANGED <<net, idGen, acc, poller, epoll, count, task, up, cmds, down>>

-----------------------------------------------------------------------------
(* The poller: wait and runProc.                                            *)

Readable(f) ==
  /\ f \in epoll
  /\ \E c \in Conns : fd[c] = f /\ sock[c] \in (IF inbuf[c] > 0 THEN {"open", "eof"} ELSE {"eof"})

wait ==
  /\ Up
  /\ poller.pc = "wait"
  /\ LET ready == {fdToConn[f] : f \in {x \in FDs : Readable(x)}} \ {None} IN
     /\ ready # {}
     /\ poller' = [poller EXCEPT !.pc = "next", !.ready = ready]
  /\ UNCHANGED <<net, idGen, acc, adder, epoll, tabs, count, task, up, cmds, down>>

\* ReadData: a packet, the end of the stream, or another error, which is
\* ignored (the connection was closed under the poller).
ReadData ==
  /\ Up
  /\ poller.pc = "next"
  /\ \/ /\ poller.ready = {}
        /\ poller' = [poller EXCEPT !.pc = "wait"]
        /\ UNCHANGED inbuf
     \/ \E c \in poller.ready :
          LET rest == [poller EXCEPT !.ready = @ \ {c}, !.c = c] IN
          \/ /\ sock[c] \in {"open", "eof"} /\ inbuf[c] > 0
             /\ inbuf' = [inbuf EXCEPT ![c] = @ - 1]
             /\ poller' = [rest EXCEPT !.pc = "submit", !.n = sent[c] - inbuf[c] + 1]
          \/ /\ sock[c] = "eof" /\ inbuf[c] = 0
             /\ poller' = [rest EXCEPT !.pc = "ctl"]
             /\ UNCHANGED inbuf
          \/ /\ sock[c] = "closed"
             /\ poller' = [rest EXCEPT !.c = None]
             /\ UNCHANGED inbuf
  /\ UNCHANGED <<load, sock, sent, fd, idGen, acc, adder, epoll, tabs, count, task, up, cmds, down>>

\* epoller.remove: the count, EPOLL_CTL_DEL by number, then the two tables.
RemoveCtl ==
  LET f == fd[poller.c] IN
  /\ Up
  /\ poller.pc = "ctl"
  /\ tcpNum' = tcpNum - 1
  /\ poller' = [poller EXCEPT !.pc = IF f \in epoll THEN "del" ELSE "cancel"]
  /\ epoll' = epoll \ {f}
  /\ late' = (late \/ sock[poller.c] = "closed")
  /\ UNCHANGED <<net, idGen, acc, adder, tabs, task, up, cmds, down>>

RemoveTables ==
  /\ Up
  /\ poller.pc = "del"
  /\ tables' = tables \ {poller.c}
  /\ fdToConn' = [fdToConn EXCEPT ![fd[poller.c]] = None]
  /\ poller' = [poller EXCEPT !.pc = "cancel"]
  /\ late' = (late \/ sock[poller.c] = "closed")
  /\ UNCHANGED <<net, idGen, acc, adder, epoll, bound, tcpNum, task, up, cmds, down>>

\* client.CancelConn.  After its timeout the request still waits at the state
\* server, whose handler goroutine does not look at the context.
CancelConn_Dropped ==
  /\ Up
  /\ poller.pc = "cancel"
  /\ poller' = [poller EXCEPT !.pc = "next", !.c = None]
  /\ UNCHANGED <<net, idGen, acc, adder, epoll, tabs, count, task, up, cmds, down>>
CancelConn ==
  /\ Up
  /\ poller.pc = "cancel"
  /\ stateRpc' = stateRpc \cup {[k |-> "cancel", c |-> poller.c, n |-> 0]}
  /\ poller' = [poller EXCEPT !.pc = "next", !.c = None]
  /\ UNCHANGED <<net, idGen, acc, adder, epoll, tabs, count, task, stateSide, cmds, down>>

-----------------------------------------------------------------------------
(* The worker pool (ants: Submit waits for a free worker, a panic of the     *)
(* task is recovered and frees it).                                          *)

SubmitSend(w) ==
  /\ Up
  /\ poller.pc = "submit" /\ w \in Free
  /\ task' = [task EXCEPT ![w] = [k |-> "send", c |-> poller.c, n |-> poller.n]]
  /\ stateRpc' = stateRpc \cup {[k |-> "send", c |-> poller.c, n |-> poller.n]}
  /\ poller' = [poller EXCEPT !.pc = "next", !.c = None]
  /\ UNCHANGED <<net, idGen, acc, adder, epoll, tabs, count, stateSide, cmds, down>>

\* client.SendMsg returns when the request is in the state server's channel.
SendMsgReturns(w) ==
  /\ Up
  /\ task[w].k = "send" /\ task[w] \notin stateRpc
  /\ task' = [task EXCEPT ![w] = NoTask]
  /\ UNCHANGED <<net, idGen, acc, epollers, up, cmds, down>>
\* Its 100 ms are over: it panics, the request goes on waiting over there.
SendMsgTimeout_Waits(w) ==
  /\ Up
  /\ task[w].k = "send" /\ task[w] \in stateRpc
  /\ UNCHANGED vars
SendMsgTimeout(w) ==
  /\ Up
  /\ task[w].k = "send" /\ task[w] \in stateRpc
  /\ task' = [task EXCEPT ![w] = NoTask]
  /\ UNCHANGED <<net, idGen, acc, epollers, up, cmds, down>>

\* cmdHandler: the loop variable is shared by the closures it submits.
cmdRecv ==
  /\ Up
  /\ handler = "recv" /\ cmdChan # <<>>
  /\ cmd' = Head(cmdChan) /\ cmdChan' = Tail(cmdChan)
  /\ handler' = "submit"
  /\ UNCHANGED <<net, idGen, acc, epollers, task, up, cmdRpc, asked, swapped, down>>

SubmitCmd(w) ==
  /\ Up
  /\ handler = "submit" /\ w \in Free
  /\ task' = [task EXCEPT ![w] = cmd]
  /\ handler' = "recv"
  /\ UNCHANGED <<net, idGen, acc, epollers, up, cmdRpc, cmdChan, cmd, asked, swapped, down>>

\* The closure reads cmd when it runs.  What a push writes to the client, and
\* that it writes nothing when the connection has left the tables, is not state
\* of the gateway.
RunsWith(w, k) == Up /\ task[w].k = k /\ swapped' = (swapped \/ task[w] # cmd)

sendMsgByCmd(w) ==
  /\ RunsWith(w, "push")
  /\ task' = [task EXCEPT ![w] = NoTask]
  /\ UNCHANGED <<net, idGen, acc, epollers, up, cmdRpc, cmdChan, cmd, handler, asked, down>>

\* closeConn(cmd): nothing keeps a second worker from finding the connection too.
closeConn(w) ==
  /\ RunsWith(w, "del")
  /\ task' = [task EXCEPT ![w] = IF cmd.c \in tables THEN [cmd EXCEPT !.k = "close"] ELSE NoTask]
  /\ UNCHANGED <<net, idGen, acc, epollers, up, cmdRpc, cmdChan, cmd, handler, asked, down>>

\* connection.Close: out of the tables, the second time by number.
Close(w) ==
  LET c == task[w].c IN
  /\ Up
  /\ \/ /\ task[w].k = "close"
        /\ tables' = tables \ {c}
        /\ task' = [task EXCEPT ![w].k = "closeFd"]
        /\ UNCHANGED <<fdToConn, late>>
     \/ /\ task[w].k = "closeFd"
        /\ fdToConn' = IF c \in bound THEN [fdToConn EXCEPT ![fd[c]] = None] ELSE fdToConn
        /\ late' = (late \/ sock[c] = "closed")
        /\ task' = [task EXCEPT ![w].k = "closeSocket"]
        /\ UNCHANGED tables
  /\ UNCHANGED <<net, idGen, acc, adder, poller, epoll, bound, tcpNum, up, cmds, down>>

\* conn.Close gives the descriptor back, and the kernel forgets it; the panic
\* that follows ends the task.
CloseSocket(w) ==
  LET c == task[w].c IN
  /\ Up
  /\ task[w].k = "closeSocket"
  /\ sock' = [sock EXCEPT ![c] = "closed"]
  /\ epoll' = IF sock[c] = "closed" THEN epoll ELSE epoll \ {fd[c]}
  /\ task' = [task EXCEPT ![w] = NoTask]
  /\ UNCHANGED <<load, inbuf, sent, fd, idGen, acc, adder, poller, tabs, count, up, cmds, down>>

-----------------------------------------------------------------------------
(* The state server, as the gateway sees it: the services' handlers put      *)
(* requests into the bounded channels, its one handler goroutine answers a   *)
(* packet with a Push it waits for, its timers call DelConn.                 *)

StateEnter ==
  /\ Len(stateChan) < CmdNum
  /\ \E r \in stateRpc :
       stateRpc' = stateRpc \ {r} /\ stateChan' = Append(stateChan, r)
  /\ UNCHANGED <<net, idGen, acc, epollers, task, stWait, got, cancelled, cmds, down>>

StateHandle ==
  /\ stWait = None /\ stateChan # <<>>
  /\ LET r == Head(stateChan) IN
     /\ stateChan' = Tail(stateChan)
     /\ \/ /\ r.k = "cancel"
           /\ cancelled' = cancelled \cup {r.c}
           /\ UNCHANGED <<stWait, got, cmdRpc>>
        \/ /\ r.k = "send"
           /\ got' = got \cup {<<r.c, r.n>>}
           /\ stWait' = [k |-> "push", c |-> r.c, n |-> r.n]
           /\ cmdRpc' = cmdRpc \cup {stWait'}
           /\ UNCHANGED cancelled
  /\ UNCHANGED <<net, idGen, acc, epollers, task, stateRpc, cmdChan, cmd, handler, asked, swapped, down>>

\* Push has returned: its request is in cmdChannel, or 100 seconds are over.
StatePushed ==
  /\ stWait # None /\ stWait \notin cmdRpc
  /\ stWait' = None
  /\ UNCHANGED <<net, idGen, acc, epollers, task, stateRpc, stateChan, got, cancelled, cmds, down>>

\* A timer, or recovery with what a failing Close has left, asks again.
StateDelConn(c) ==
  /\ \E n \in 1..sent[c] : <<c, n>> \in got
  /\ \E n \in 1..load.dels :
       /\ <<c, n>> \notin asked /\ \A m \in 1..n - 1 : <<c, m>> \in asked
       /\ asked' = asked \cup {<<c, n>>}
       /\ cmdRpc' = cmdRpc \cup {[k |-> "del", c |-> c, n |-> n]}
  /\ UNCHANGED <<net, idGen, acc, epollers, task, up, cmdChan, cmd, handler, swapped, down>>

\* Service.Push and Service.DelConn of the gateway.
CmdEnter ==
  /\ Up
  /\ Len(cmdChan) < CmdNum
  /\ \E r \in cmdRpc :
       cmdRpc' = cmdRpc \ {r} /\ cmdChan' = Append(cmdChan, r)
  /\ UNCHANGED <<net, idGen, acc, epollers, task, up, cmd, handler, asked, swapped, down>>

-----------------------------------------------------------------------------
(* Clients, the garbage collector.                                          *)

Connect(c) ==
  /\ sock[c] = "none" /\ c \in load.conns
  /\ sock' = [sock EXCEPT ![c] = "backlog"]
  /\ UNCHANGED <<load, inbuf, sent, fd, idGen, acc, epollers, task, up, cmds, down>>

ClientSend(c) ==
  /\ sock[c] = "open" /\ sent[c] < load.talk[c]
  /\ sent' = [sent EXCEPT ![c] = @ + 1]
  /\ inbuf' = [inbuf EXCEPT ![c] = @ + 1]
  /\ UNCHANGED <<load, sock, fd, idGen, acc, epollers, task, up, cmds, down>>

ClientClose(c) ==
  /\ sock[c] = "open" /\ c \in load.hang
  /\ sock' = [sock EXCEPT ![c] = "eof"]
  /\ UNCHANGED <<load, inbuf, sent, fd, idGen, acc, epollers, task, up, cmds, down>>

\* remove closes nothing: the finalizer of the TCP connection does.
Collect(c) ==
  /\ Up
  /\ sock[c] = "eof" /\ c \in bound \ tables
  /\ poller.c # c /\ c \notin poller.ready
  /\ fdToConn[fd[c]] # c /\ ~Closing(c)
  /\ sock' = [sock EXCEPT ![c] = "closed"]
  /\ epoll' = epoll \ {fd[c]}
  /\ UNCHANGED <<load, inbuf, sent, fd, idGen, acc, adder, poller, tabs, count, task, up, cmds, down>>

-----------------------------------------------------------------------------
Init ==
  /\ load \in Loads
  /\ sock = [c \in Conns |-> "none"] /\ fd = [c \in Conns |-> 0]
  /\ inbuf = [c \in Conns |-> 0] /\ sent = [c \in Conns |-> 0]
  /\ LastStamp = 0 /\ Sequence = 0 /\ ids = [c \in Conns |-> -1]
  /\ acc = [a \in Acceptors |-> [pc |-> "accept", c |-> None]]
  /\ adder = [pc |-> "recv", c |-> None]
  /\ poller = [pc |-> "wait", ready |-> {}, c |-> None, n |-> 0]
  /\ epoll = {} /\ fdToConn = [f \in FDs |-> None] /\ tables = {} /\ bound = {}
  /\ tcpNum = 0 /\ late = FALSE
  /\ task = [w \in Workers |-> NoTask]
  /\ stateRpc = {} /\ stateChan = <<>> /\ stWait = None /\ got = {} /\ cancelled = {}
  /\ cmdRpc = {} /\ cmdChan = <<>> /\ cmd = NoTask /\ handler = "recv"
  /\ asked = {} /\ swapped = FALSE
  /\ down = FALSE

Accepting == \E a \in Acceptors : addTask(a) \/ SpinEnd(a) \/ \E c \in Conns : Accept(a, c)
Adding == addTcpNum \/ EpollCtl \/ AddStore
Polling == wait \/ ReadData \/ RemoveCtl \/ RemoveTables \/ CancelConn
Working(w) ==
  \/ SubmitSend(w) \/ SendMsgReturns(w) \/ SendMsgTimeout(w) \/ SubmitCmd(w)
  \/ sendMsgByCmd(w) \/ closeConn(w) \/ Close(w) \/ CloseSocket(w)
StateServing == StateEnter \/ StateHandle \/ StatePushed \/ CmdEnter
Environment ==
  \/ \E c \in Conns : Connect(c) \/ ClientSend(c) \/ ClientClose(c) \/ StateDelConn(c) \/ Collect(c)
Next ==
  \/ Accepting \/ Adding \/ Polling \/ cmdRecv
  \/ \E w \in Workers : Working(w)
  \/ StateServing \/ Environment

Spec == Init /\ [][Next]_vars
\* Every goroutine of the two servers runs; SendMsg times out.
FairSpec ==
  /\ Spec
  /\ WF_vars(Adding) /\ WF_vars(Polling) /\ WF_vars(cmdRecv)
  /\ WF_vars(StateEnter) /\ WF_vars(StateHandle) /\ WF_vars(StatePushed) /\ WF_vars(CmdEnter)
  /\ \A w \in Workers : WF_vars(Working(w))

-----------------------------------------------------------------------------
\* The variables have their types: channels stay within their capacity, the count of
\* connections within their number, the sequence within its bits.
TypeOK ==
  /\ sock \in [Conns -> {"none", "backlog", "open", "eof", "closed"}]
  /\ fd \in [Conns -> FDs \cup {0}] /\ fdToConn \in [FDs -> Conns \cup {None}]
  /\ epoll \subseteq FDs /\ tables \cup bound \subseteq Conns
  /\ tcpNum \in 0..Cardinality(Conns) /\ Sequence \in 0..MaxSequence
  /\ Len(stateChan) <= CmdNum /\ Len(cmdChan) <= CmdNum

Open == {c \in Conns : sock[c] \in {"open", "eof"}}

\* NextID never repeats an ID, whatever the clock does: the sequence overflows
\* into the next millisecond and a clock that has gone back is refused.
UniqueIDs == \A c, d \in Conns : c # d /\ ids[c] # -1 => ids[c] # ids[d]

\* The limit of checkTcp is exceeded by the connections accepted and not yet
\* counted, one for every acceptor and the one the epoller has received, and
\* never by more: the count may be too high (DelConn does not lower it), it
\* is never too low.
ConnectionsAreBounded ==
  Cardinality({c \in Conns : sock[c] = "open"}) <= load.max + Cardinality(Acceptors) + 1

\* The state server has been told of the hang-up, or the request is on its way.
Reported(c) ==
  \/ c \in cancelled
  \/ \E r \in stateRpc \cup {stateChan[i] : i \in 1..Len(stateChan)} : r.k = "cancel" /\ r.c = c

\* A connection that has been added and is open is still registered and in both
\* tables, or the poller is removing it, or a worker is closing it, unless
\* remove or Close used the number of a descriptor somebody else has closed.
StaysWatched ==
  \A c \in bound \cap Open :
    \/ late
    \/ poller.c = c
    \/ Reported(c)
    \/ Closing(c)
    \/ c \in tables /\ fd[c] \in epoll /\ fdToConn[fd[c]] = c

\* Every packet read from a client reaches the state server although the pool, the
\* two channels and the state server's handler may all be waiting for one
\* another: SendMsg gives its worker back.
ReadReachesState ==
  []<>(down \/ \A c \in Conns : \A n \in 1..sent[c] - inbuf[c] : <<c, n>> \in got)

\* The state server hears of every client that hangs up, unless it has asked
\* for the connection to be closed.
HangupIsReported ==
  []<>(swapped \/ late \/ down \/ \A c \in bound : sock[c] = "eof" => c \in cancelled \/ <<c, 1>> \in asked)
=============================================================================
