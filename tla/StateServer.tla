---------------------------- MODULE StateServer ----------------------------
(***************************************************************************)
(* The plato state server (state/*.go): the table of logged in connections *)
(* with their timers, the session keys it keeps in Redis, the command      *)
(* handler goroutine fed by the gateway's RPCs, the timer callbacks, and   *)
(* the recovery of the table after a restart.                              *)
(*                                                                         *)
(* Concurrency.  cmdHandler is one goroutine; every timer callback and     *)
(* every slot recovery is a goroutine of its own.  A Redis command is one  *)
(* step, and so is what a goroutine does in memory between two of them;    *)
(* the mutex of a connState is held across the steps of close and          *)
(* appendMsg (Locked) and within one step everywhere else.                 *)
(*                                                                         *)
(* Time.  An armed timer may fire at any moment.  RedisFast = TRUE states  *)
(* the one timing fact the code leans on: no timer fires while the command *)
(* handler is between two Redis commands of one login or one append.       *)
(***************************************************************************)
EXTENDS Integers, Sequences, FiniteSets

CONSTANTS
  ConnIDs,        \* connection identifiers handed out by the gateway, all > 0
  Dids,           \* device identifiers that clients log in with, all > 0
  ClientIDs,      \* clientIDs of uplink messages; also the bodies of the pushes
  Objs,           \* identities of the connState objects of one process lifetime
  SlotSize,       \* number of login slots (conn_state_slot_range)
  MaxCrashes,     \* bound on the crashes from outside (panics are not counted)
  MaxCallbacks,   \* bound on the callbacks of one kind of timer under way at a time
  MaxTimeouts,    \* bound on those of heartTimer and reConnTimer together
  Leaving,        \* connections whose client may leave without a trace
  RedisFast,      \* timing assumption, see above
  RedisMayFail,   \* whether a Redis command of close or ackLastMsg may fail
  Handler,        \* the cmdHandler goroutine
  Nil             \* no object

ASSUME ConnAssumption == ConnIDs \subseteq Nat \ {0}
ASSUME DidAssumption == Dids \subseteq Nat \ {0}
ASSUME ClientsAssumption == Leaving \subseteq ConnIDs
ASSUME ClientAssumption == ClientIDs \subseteq Nat
ASSUME SlotAssumption == SlotSize \in Nat \ {0}
ASSUME ObjAssumption == Nil \notin Objs /\ Handler \notin Objs
ASSUME BoundAssumption == /\ MaxCrashes \in Nat /\ MaxCallbacks \in Nat /\ MaxTimeouts \in Nat
                          /\ RedisFast \in BOOLEAN /\ RedisMayFail \in BOOLEAN

VARIABLES
  \* Redis: survives a crash of the state server.
  loginSlot,    \* set of <<did, connID>>, all login_slot_set_{slot} together
  route,        \* gateway_rotuer_{did}: did -> connID, 0 when absent
  maxClientID,  \* max_client_id_{slot}_{connID}_*: 0 when absent
  lastMsg,      \* last_msg_{slot}_{connID}: body of the push, NoMsg when absent
  \* Memory of the process.
  up,           \* whether the process runs
  table,        \* cs.connToStateTable: connID -> object or Nil
  state,        \* the connState objects
  \* Goroutines.
  pc, ref,      \* of cmdHandler and of each object's reConnTimer callback
  req,          \* the command cmdHandler works on
  heartGo,      \* objects whose heartTimer callback is started and not run
  rePushPc, rePushRef,   \* of each object's msgTimer callback
  recPc, recTodo, recRef, \* of the recovery of each login slot
  \* Gateway and clients (outside the process).
  opened,       \* connections whose Login or ReConn was sent
  loginAck,     \* connections whose Login or ReConn was acknowledged
  pushed,       \* connID -> bodies handed to the gateway's Push RPC
  delConn,      \* connections the gateway was told to close
  quiet,        \* connections whose client is gone for good
  crashes,
  \* History.
  torn,         \* <<did, connID>> whose last close was interrupted
  unrouted      \* <<did, connID>> whose close deleted the route of did after the
                \* last login under did

redis == <<loginSlot, route, maxClientID, lastMsg>>
memory == <<table, state>>
handler == <<pc, ref, req>>
rePush == <<rePushPc, rePushRef>>
recovery == <<recPc, recTodo, recRef>>
outside == <<opened, loginAck, pushed, delConn, quiet, crashes>>
history == <<torn, unrouted>>
vars == <<redis, up, memory, handler, heartGo, rePush, recovery,
          outside, history>>

NoMsg == -1
NoDid == 0           \* Go's zero value: the did of a logout that found no state
AllDids == Dids \cup {NoDid}
Slots == 0 .. SlotSize - 1
Goroutines == Objs \cup {Handler}

\* cs.msgID is never assigned, so every push carries SessionID 0 and MsgID 0:
\* msgTimerLock is "" (NoLock) before the first push of an object and "0_0"
\* (written msgID) from then on, and every ACK of a push carries the same pair.
msgID == 0
NoLock == -1

Commands == [cmd: {"cancel", "login", "heartbeat", "reconn", "up", "ack"},
             conn: ConnIDs, arg: Nat]
NoReq == [cmd |-> "none", conn |-> 0, arg |-> 0]

Fresh == [connID |-> 0, did |-> NoDid, heartTimer |-> "nil",
          reConnTimer |-> "nil", msgTimer |-> "nil", msgTimerLock |-> NoLock]

getConnStateSlot(c) == c % SlotSize

\* The steps of a goroutine inside state.close after it got the mutex, and of
\* cmdHandler inside appendMsg.
Closing == {"delClientIDs", "delRoute", "delLastMsg", "delConn"}
Locked(o) == \E g \in Goroutines : ref[g] = o /\ pc[g] \in Closing \cup {"setBytes"}

\* The mutex of o is free.
CanLock(o) == ~Locked(o)

-----------------------------------------------------------------------------
(* Redis (common/cache, common/router) and the gateway's RPCs, as the next  *)
(* value of the variable each of them changes.  An operator named X_Y is a  *)
(* faulty form of X that the properties below must reject.                  *)

SADD_Lost(p) == loginSlot
SADD(p) == loginSlot \cup {p}

SREM_Lost(p) == loginSlot
SREM(p) == loginSlot \ {p}

\* The members of one login slot.
SMEMBERS_Routed(s) == {p \in loginSlot : getConnStateSlot(p[2]) = s /\ route[p[1]] = p[2]}
SMEMBERS(s) == {p \in loginSlot : getConnStateSlot(p[2]) = s}

AddRecord_Lost(d, c) == route
AddRecord(d, c) == [route EXCEPT ![d] = c]

\* Deletes the route of the device, whichever connection it names.
DelRecord_Lost(d) == route
DelRecord(d) == [route EXCEPT ![d] = 0]

\* The Lua script increments when the stored value (0 when absent) is clientID.
LuaCompare_AtLeast(c, clientID) == maxClientID[c] <= clientID
LuaCompare(c, clientID) == maxClientID[c] = clientID

Push(c, body) == [pushed EXCEPT ![c] = @ \cup {body}]

DelConn_NotCalled(c) == delConn
DelConn(c) == delConn \cup {c}

\* loadConnIDState's second result.
Found_Unchecked(s) == TRUE
Found(s) == s # Nil

-----------------------------------------------------------------------------
(* Goroutine steps.                                                         *)

Goto(g, label) == pc' = [pc EXCEPT ![g] = label]

Done(g) == /\ Goto(g, "idle")
           /\ ref' = [ref EXCEPT ![g] = Nil]
           /\ req' = IF g = Handler THEN NoReq ELSE req

-----------------------------------------------------------------------------
(* Timers (timer.go, common/timingwheel).  A timer that fires starts a      *)
(* goroutine; Stop does nothing to it any more.  A timer that Stop misses   *)
(* because the wheel is moving it is one that has fired and whose callback  *)
(* is late.  At most one callback of each timer is under way at a time.     *)

StopHeartTimer(s) == [s EXCEPT !.heartTimer = "nil"]
StopReConnTimer(s) == [s EXCEPT !.reConnTimer = "nil"]
StopMsgTimer(s) == [s EXCEPT !.msgTimer = "nil"]
StopTimers(s) == [s EXCEPT !.heartTimer = "nil", !.reConnTimer = "nil",
                           !.msgTimer = "nil"]

ArmHeartTimer(s) == [s EXCEPT !.heartTimer = "armed"]

ArmReConnTimer_Forgotten(s) == s
ArmReConnTimer(s) == [s EXCEPT !.reConnTimer = "armed"]

\* reSetMsgTimer and appendMsg: the running timer is replaced by a new one.
ArmMsgTimer_Forgotten(s) == [s EXCEPT !.msgTimerLock = msgID]
ArmMsgTimer(s) == [s EXCEPT !.msgTimer = "armed", !.msgTimerLock = msgID]

\* newConnState: a new object with its heart timer running.
NewConnState_NoTimer(d, c) == [Fresh EXCEPT !.connID = c, !.did = d]
NewConnState(d, c) == [Fresh EXCEPT !.connID = c, !.did = d, !.heartTimer = "armed"]

\* The bounds allow for one more callback.
Room(callbacks) == Cardinality(callbacks) < MaxCallbacks
LogOuts == {o \in Objs : pc[o] # "idle"}
RoomForTimeout == Cardinality(heartGo) + Cardinality(LogOuts) < MaxTimeouts

Prompt == RedisFast => pc[Handler] \notin {"addRecord", "store", "setBytes"}

HeartTimerFires(o) ==
  /\ state[o].heartTimer = "armed" /\ o \notin heartGo /\ Prompt
  /\ Room(heartGo) /\ RoomForTimeout
  /\ state' = [state EXCEPT ![o] = StopHeartTimer(@)]
  /\ heartGo' = heartGo \cup {o}
  /\ UNCHANGED <<redis, up, table, handler, rePush, recovery, outside, history>>

ReConnTimerFires(o) ==
  /\ state[o].reConnTimer = "armed" /\ pc[o] = "idle" /\ Prompt
  /\ Room(LogOuts) /\ RoomForTimeout
  /\ state' = [state EXCEPT ![o] = StopReConnTimer(@)]
  /\ Goto(o, "load")
  /\ UNCHANGED <<redis, up, table, ref, req, heartGo, rePush, recovery,
                 outside, history>>

MsgTimerFires(o) ==
  /\ state[o].msgTimer = "armed" /\ rePushPc[o] = "idle" /\ Prompt
  /\ Room({p \in Objs : rePushPc[p] # "idle"})
  /\ state' = [state EXCEPT ![o] = StopMsgTimer(@)]
  /\ rePushPc' = [rePushPc EXCEPT ![o] = "get"]
  /\ UNCHANGED <<redis, up, table, handler, heartGo, rePushRef, recovery,
                 outside, history>>

\* The callback of heartTimer: connState.reSetReConnTimer.
reSetReConnTimer(o) ==
  /\ o \in heartGo /\ CanLock(o)
  /\ heartGo' = heartGo \ {o}
  /\ state' = [state EXCEPT ![o] = ArmReConnTimer(@)]
  /\ UNCHANGED <<redis, up, table, handler, rePush, recovery, outside, history>>

\* The callback of reConnTimer: cs.connLogOut of the object's connection, up
\* to the load from the table.
connLogOut(o) ==
  /\ pc[o] = "load"
  /\ LET s == table[state[o].connID] IN
       IF Found(s) THEN Goto(o, "close") /\ ref' = [ref EXCEPT ![o] = s] /\ UNCHANGED req
       ELSE Done(o)
  /\ UNCHANGED <<redis, up, memory, heartGo, rePush, recovery, outside, history>>

-----------------------------------------------------------------------------
(* connState.close, run by goroutine g on the object ref[g].                *)

Pair(o) == <<state[o].did, state[o].connID>>

\* What follows connLogOut: nothing for a cancelled or timed out connection,
\* the login of the new connection under the did found for a ReConn.
AfterLogOut(g) ==
  IF g = Handler /\ req.cmd = "reconn"
  THEN /\ Goto(g, "sadd")
       /\ ref' = [ref EXCEPT ![g] = Nil]
       /\ req' = [req EXCEPT !.cmd = "login", !.arg = state[ref[g]].did]
  ELSE Done(g)

\* Takes the mutex, stops the timers, SREM.
CloseStart(g) ==
  /\ pc[g] = "close" /\ CanLock(ref[g])
  /\ state' = [state EXCEPT ![ref[g]] = StopTimers(@)]
  /\ loginSlot' = SREM(Pair(ref[g]))
  /\ Goto(g, "delClientIDs")
  /\ UNCHANGED <<route, maxClientID, lastMsg, up, table, ref, req, heartGo,
                 rePush, recovery, outside, history>>

\* KEYS and DEL of the connection's max_client_id keys.
CloseDelClientIDs(g) ==
  /\ pc[g] = "delClientIDs"
  /\ maxClientID' = [maxClientID EXCEPT ![state[ref[g]].connID] = 0]
  /\ Goto(g, "delRoute")
  /\ UNCHANGED <<loginSlot, route, lastMsg, up, memory, ref, req, heartGo,
                 rePush, recovery, outside, history>>

\* router.DelRecord.
CloseDelRoute(g) ==
  /\ pc[g] = "delRoute"
  /\ route' = DelRecord(state[ref[g]].did)
  /\ unrouted' = unrouted \cup {Pair(ref[g])}
  /\ Goto(g, "delLastMsg")
  /\ UNCHANGED <<loginSlot, maxClientID, lastMsg, up, memory, ref, req, heartGo,
                 rePush, recovery, outside, torn>>

CloseDelLastMsg(g) ==
  /\ pc[g] = "delLastMsg"
  /\ lastMsg' = [lastMsg EXCEPT ![state[ref[g]].connID] = NoMsg]
  /\ Goto(g, "delConn")
  /\ UNCHANGED <<loginSlot, route, maxClientID, up, memory, ref, req, heartGo,
                 rePush, recovery, outside, history>>

\* DelConn RPC (its error is ignored), removal from the table, unlock.
CloseFinish(g) ==
  /\ pc[g] = "delConn"
  /\ delConn' = DelConn(state[ref[g]].connID)
  /\ table' = [table EXCEPT ![state[ref[g]].connID] = Nil]
  /\ torn' = torn \ {Pair(ref[g])}
  /\ AfterLogOut(g)
  /\ UNCHANGED <<redis, up, state, heartGo, rePush, recovery,
                 opened, loginAck, pushed, quiet, crashes, unrouted>>

\* A Redis command of close fails: unlock and return the error, which the
\* cancel command and the timer callback ignore.
CloseError(g) ==
  /\ RedisMayFail /\ ~(g = Handler /\ req.cmd = "reconn")
  /\ \/ pc[g] = "close" /\ CanLock(ref[g])
     \/ pc[g] \in {"delClientIDs", "delRoute", "delLastMsg"}
  /\ state' = [state EXCEPT ![ref[g]] = StopTimers(@)]
  /\ torn' = torn \cup {Pair(ref[g])}
  /\ Done(g)
  /\ UNCHANGED <<redis, up, table, heartGo, rePush, recovery, outside, unrouted>>

-----------------------------------------------------------------------------
(* rePush, the callback of object o's msgTimer.                             *)

\* getLastMsg, and the Push RPC when there is one.
rePushGet(o) ==
  /\ rePushPc[o] = "get"
  /\ LET c == state[o].connID IN
       IF lastMsg[c] = NoMsg
       THEN rePushPc' = [rePushPc EXCEPT ![o] = "idle"] /\ UNCHANGED pushed
       ELSE /\ rePushPc' = [rePushPc EXCEPT ![o] = "load"]
            /\ pushed' = Push(c, lastMsg[c])
  /\ UNCHANGED <<redis, up, memory, handler, heartGo, rePushRef, recovery,
                 opened, loginAck, delConn, quiet, crashes, history>>

rePushLoad(o) ==
  /\ rePushPc[o] = "load"
  /\ LET s == table[state[o].connID] IN
       /\ rePushRef' = [rePushRef EXCEPT ![o] = s]
       /\ rePushPc' = [rePushPc EXCEPT ![o] = IF Found(s) THEN "arm" ELSE "idle"]
  /\ UNCHANGED <<redis, up, memory, handler, heartGo, recovery, outside, history>>

\* connState.reSetMsgTimer.
rePushArm(o) ==
  /\ rePushPc[o] = "arm" /\ CanLock(rePushRef[o])
  /\ state' = [state EXCEPT ![rePushRef[o]] = ArmMsgTimer(@)]
  /\ rePushPc' = [rePushPc EXCEPT ![o] = "idle"]
  /\ rePushRef' = [rePushRef EXCEPT ![o] = Nil]
  /\ UNCHANGED <<redis, up, table, handler, heartGo, recovery, outside, history>>

-----------------------------------------------------------------------------
(* cmdHandler (server.go) and the commands it receives.                     *)
(*                                                                          *)
(* The gateway forwards every packet from a pool worker of its own and      *)
(* cancels from its epoll goroutine, so the commands of one connection      *)
(* enter the CmdChannel in any order, late, or never; nobody waits for a    *)
(* command to be handled.  The channel therefore only delays commands that  *)
(* could as well arrive later, and is left out: cmdHandler receives any     *)
(* command a client or the gateway may have sent.  A client logs in or      *)
(* reconnects once per connection, names in a ReConn a connection whose     *)
(* login was acknowledged to it, and acknowledges pushes sent to it.        *)

\* The connection whose state a command works on.
Target(m) == IF m.cmd = "reconn" THEN m.arg ELSE m.conn

FirstStep(m) == CASE m.cmd = "login" -> "sadd"
                  [] m.cmd = "up" -> "cas"
                  [] m.cmd = "heartbeat" -> "heartbeat"
                  [] m.cmd = "ack" -> "ack"
                  [] OTHER -> "close"

NeedsState(m) == m.cmd \notin {"login", "up"}

\* cmdHandler receives command m of the CmdChannel.
Receive(m) == up /\ pc[Handler] = "idle" /\ m.conn \notin quiet

\* A cancel, a heartbeat or an ACK for a connection that has no state.
HandleDropped(m) ==
  /\ Receive(m)
  /\ NeedsState(m) /\ m.cmd # "reconn" /\ ~Found(table[m.conn])
  /\ UNCHANGED vars

\* A command that needs no state, or whose state is in the table.
Handle(m) ==
  /\ Receive(m)
  /\ NeedsState(m) => Found(table[Target(m)])
  /\ Goto(Handler, FirstStep(m))
  /\ ref' = [ref EXCEPT ![Handler] = IF NeedsState(m) THEN table[Target(m)] ELSE Nil]
  /\ req' = m
  /\ UNCHANGED <<redis, up, memory, heartGo, rePush, recovery, loginAck, pushed, delConn,
                 quiet, crashes, history>>

\* A ReConn whose old connection has no state goes on with the did 0 that
\* connLogOut returned.
HandleLateReConn(m) ==
  /\ Receive(m)
  /\ m.cmd = "reconn" /\ ~Found(table[m.arg])
  /\ Goto(Handler, "sadd")
  /\ req' = [m EXCEPT !.cmd = "login", !.arg = NoDid]
  /\ UNCHANGED <<redis, up, memory, ref, heartGo, rePush, recovery, loginAck, pushed,
                 delConn, quiet, crashes, history>>

Command(name, c, a) == [cmd |-> name, conn |-> c, arg |-> a]

HandleOrDrop(m) == \/ Handle(m) /\ UNCHANGED opened
                   \/ HandleDropped(m)

CancelConn(c) == HandleOrDrop(Command("cancel", c, 0))

HandleLogin(c) ==
  /\ c \notin opened /\ opened' = opened \cup {c}
  /\ \E d \in Dids : Handle(Command("login", c, d))

HandleReConn(c) ==
  /\ c \notin opened /\ opened' = opened \cup {c}
  /\ \E old \in loginAck : \/ Handle(Command("reconn", c, old))
                           \/ HandleLateReConn(Command("reconn", c, old))

HandleHeartbeat(c) == HandleOrDrop(Command("heartbeat", c, 0))

HandleUp(c) == \E k \in ClientIDs : HandleOrDrop(Command("up", c, k))

HandleAck(c) == \E k \in pushed[c] : HandleOrDrop(Command("ack", c, k))

\* No table entry, goroutine or running timer refers to o: never allocated, or
\* garbage.  Objs bounds the number of objects alive at a time.
Unused(o) == /\ \A c \in ConnIDs : table[c] # o
             /\ \A g \in Goroutines : ref[g] # o
             /\ \A p \in Objs : rePushRef[p] # o
             /\ \A s \in Slots : recRef[s] # o
             /\ pc[o] = "idle" /\ o \notin heartGo /\ rePushPc[o] = "idle"
             /\ StopTimers(state[o]) = state[o]

\* connLogin: newConnState and SADD.
LoginSADD ==
  /\ pc[Handler] = "sadd"
  /\ \E o \in Objs :
       /\ Unused(o)
       /\ state' = [state EXCEPT ![o] = NewConnState(req.arg, req.conn)]
       /\ ref' = [ref EXCEPT ![Handler] = o]
  /\ loginSlot' = SADD(<<req.arg, req.conn>>)
  /\ Goto(Handler, "addRecord")
  /\ UNCHANGED <<route, maxClientID, lastMsg, up, table, req, heartGo, rePush,
                 recovery, outside, history>>

\* connLogin: router.AddRecord.
LoginAddRecord ==
  /\ pc[Handler] = "addRecord"
  /\ route' = AddRecord(req.arg, req.conn)
  /\ unrouted' = {p \in unrouted : p[1] # req.arg}
  /\ Goto(Handler, "store")
  /\ UNCHANGED <<loginSlot, maxClientID, lastMsg, up, memory, ref, req, heartGo,
                 rePush, recovery, outside, torn>>

\* connLogin: storeConnIDState; then the handler's sendACKMsg.
LoginStore ==
  /\ pc[Handler] = "store"
  /\ table' = [table EXCEPT ![req.conn] = ref[Handler]]
  /\ loginAck' = loginAck \cup {req.conn}
  /\ Done(Handler)
  /\ UNCHANGED <<redis, up, state, heartGo, rePush, recovery,
                 opened, pushed, delConn, quiet, crashes, history>>

\* hearbeatMsgHandler: only the heart timer is reset.
Heartbeat ==
  /\ pc[Handler] = "heartbeat" /\ CanLock(ref[Handler])
  /\ state' = [state EXCEPT ![ref[Handler]] = ArmHeartTimer(@)]
  /\ Done(Handler)
  /\ UNCHANGED <<redis, up, table, heartGo, rePush, recovery, outside, history>>

\* upMsgHandler: the Lua compare-and-increment.
CompareAndIncr ==
  /\ pc[Handler] = "cas"
  /\ IF LuaCompare(req.conn, req.arg)
     THEN /\ maxClientID' = [maxClientID EXCEPT ![req.conn] = @ + 1]
          /\ Goto(Handler, "push")
          /\ UNCHANGED <<ref, req>>
     ELSE Done(Handler) /\ UNCHANGED maxClientID
  /\ UNCHANGED <<loginSlot, route, lastMsg, up, memory, heartGo, rePush,
                 recovery, outside, history>>

\* upMsgHandler: sendACKMsg; pushMsg: sendMsg and the load in appendLastMsg.
PushMsg ==
  /\ pc[Handler] = "push" /\ Found(table[req.conn])
  /\ pushed' = Push(req.conn, req.arg)
  /\ ref' = [ref EXCEPT ![Handler] = table[req.conn]]
  /\ Goto(Handler, "append")
  /\ UNCHANGED <<redis, up, memory, req, heartGo, rePush, recovery,
                 opened, loginAck, delConn, quiet, crashes, history>>

\* connState.appendMsg up to AfterFunc: the timer is armed first ...
AppendArm ==
  /\ pc[Handler] = "append" /\ CanLock(ref[Handler])
  /\ state' = [state EXCEPT ![ref[Handler]] = ArmMsgTimer(@)]
  /\ Goto(Handler, "setBytes")
  /\ UNCHANGED <<redis, up, table, ref, req, heartGo, rePush, recovery,
                 outside, history>>

\* ... and the message is written to Redis after it, still under the mutex.
AppendSetBytes ==
  /\ pc[Handler] = "setBytes"
  /\ lastMsg' = [lastMsg EXCEPT ![req.conn] = req.arg]
  /\ Done(Handler)
  /\ UNCHANGED <<loginSlot, route, maxClientID, up, memory, heartGo, rePush,
                 recovery, outside, history>>

\* connState.ackLastMsg.  req.arg is the body the client acknowledges, which
\* the code never sees: it compares the IDs only.
AckLastMsg ==
  /\ pc[Handler] = "ack" /\ CanLock(ref[Handler])
  /\ LET s == ref[Handler] IN
       \/ /\ state[s].msgTimerLock = msgID
          /\ lastMsg' = [lastMsg EXCEPT ![state[s].connID] = NoMsg]
          /\ state' = [state EXCEPT ![s] = StopMsgTimer(@)]
       \/ /\ state[s].msgTimerLock # msgID \/ RedisMayFail
          /\ UNCHANGED <<lastMsg, state>>
  /\ Done(Handler)
  /\ UNCHANGED <<loginSlot, route, maxClientID, up, table, heartGo, rePush,
                 recovery, outside, history>>

-----------------------------------------------------------------------------
(* Crash and restart.  A panic of any goroutine ends the process.  The      *)
(* panics on a Redis error (CAS, SADD, AddRecord, SetBytes, getLastMsg,     *)
(* SMEMBERS) are crashes at that point: Crash stands for them too.          *)

Interrupted == {Pair(ref[g]) : g \in {h \in Goroutines : pc[h] \in Closing}}

Lose ==
  /\ up' = FALSE
  /\ table' = [c \in ConnIDs |-> Nil]
  /\ state' = [o \in Objs |-> Fresh]
  /\ pc' = [g \in Goroutines |-> "idle"]
  /\ ref' = [g \in Goroutines |-> Nil]
  /\ req' = NoReq
  /\ heartGo' = {}
  /\ rePushPc' = [o \in Objs |-> "idle"]
  /\ rePushRef' = [o \in Objs |-> Nil]
  /\ recPc' = [s \in Slots |-> "done"]
  /\ recTodo' = [s \in Slots |-> {}]
  /\ recRef' = [s \in Slots |-> Nil]
  /\ UNCHANGED <<redis, opened, loginAck, delConn, quiet, unrouted>>

Crash ==
  /\ up /\ crashes < MaxCrashes
  /\ crashes' = crashes + 1
  /\ torn' = torn \cup Interrupted
  /\ Lose
  /\ UNCHANGED pushed

\* pushMsg panics when appendLastMsg finds no state for the connection; the
\* ACK and the push have been sent and the clientID counted by then.
PushPanics ==
  /\ pc[Handler] = "push" /\ ~Found(table[req.conn])
  /\ pushed' = Push(req.conn, req.arg)
  /\ torn' = torn \cup Interrupted
  /\ Lose
  /\ UNCHANGED crashes

\* reConnMsgHandler panics when the logout of the old connection failed.
ReConnPanics ==
  /\ RedisMayFail /\ req.cmd = "reconn"
  /\ \/ pc[Handler] = "close" /\ CanLock(ref[Handler])
     \/ pc[Handler] \in {"delClientIDs", "delRoute", "delLastMsg"}
  /\ torn' = torn \cup Interrupted
  /\ Lose
  /\ UNCHANGED <<pushed, crashes>>

\* RunMain, InitCacheState: one goroutine per login slot reads the slot while
\* the command handler already serves.
Start ==
  /\ ~up
  /\ up' = TRUE
  /\ recPc' = [s \in Slots |-> "smembers"]
  /\ UNCHANGED <<redis, memory, handler, heartGo, rePush, recTodo, recRef,
                 outside, history>>

RecoverSMEMBERS(s) ==
  /\ recPc[s] = "smembers"
  /\ recTodo' = [recTodo EXCEPT ![s] = SMEMBERS(s)]
  /\ recPc' = [recPc EXCEPT ![s] = "next"]
  /\ UNCHANGED <<redis, up, memory, handler, heartGo, rePush, recRef,
                 outside, history>>

\* connReLogin: newConnState and storeConnIDState.
RecoverStore(s) ==
  /\ recPc[s] = "next"
  /\ \E p \in recTodo[s], o \in Objs :
       /\ Unused(o)
       /\ state' = [state EXCEPT ![o] = NewConnState(p[1], p[2])]
       /\ table' = [table EXCEPT ![p[2]] = o]
       /\ recTodo' = [recTodo EXCEPT ![s] = @ \ {p}]
       /\ recRef' = [recRef EXCEPT ![s] = o]
  /\ recPc' = [recPc EXCEPT ![s] = "getLast"]
  /\ UNCHANGED <<redis, up, handler, heartGo, rePush, outside, history>>

\* loadMsgTimer: getLastMsg ...
RecoverGetLast(s) ==
  /\ recPc[s] = "getLast"
  /\ recPc' = [recPc EXCEPT ![s] =
                 IF lastMsg[state[recRef[s]].connID] = NoMsg THEN "next" ELSE "arm"]
  /\ UNCHANGED <<redis, up, memory, handler, heartGo, rePush, recTodo, recRef,
                 outside, history>>

\* ... and reSetMsgTimer when there is one.
RecoverArm(s) ==
  /\ recPc[s] = "arm" /\ CanLock(recRef[s])
  /\ state' = [state EXCEPT ![recRef[s]] = ArmMsgTimer(@)]
  /\ recPc' = [recPc EXCEPT ![s] = "next"]
  /\ UNCHANGED <<redis, up, table, handler, heartGo, rePush, recTodo, recRef,
                 outside, history>>

RecoverDone(s) ==
  /\ recPc[s] = "next" /\ recTodo[s] = {}
  /\ recPc' = [recPc EXCEPT ![s] = "done"]
  /\ recRef' = [recRef EXCEPT ![s] = Nil]
  /\ UNCHANGED <<redis, up, memory, handler, heartGo, rePush, recTodo,
                 outside, history>>

\* The client of c is gone for good: nothing it sends, and no CancelConn from
\* its gateway, reaches the state server any more.
ClientGone(c) ==
  /\ c \in Leaving \ quiet
  /\ quiet' = quiet \cup {c}
  /\ UNCHANGED <<redis, up, memory, handler, heartGo, rePush, recovery,
                 opened, loginAck, pushed, delConn, crashes, history>>

-----------------------------------------------------------------------------

Init ==
  /\ loginSlot = {}
  /\ route = [d \in AllDids |-> 0]
  /\ maxClientID = [c \in ConnIDs |-> 0]
  /\ lastMsg = [c \in ConnIDs |-> NoMsg]
  /\ up = FALSE
  /\ table = [c \in ConnIDs |-> Nil]
  /\ state = [o \in Objs |-> Fresh]
  /\ pc = [g \in Goroutines |-> "idle"]
  /\ ref = [g \in Goroutines |-> Nil]
  /\ req = NoReq
  /\ heartGo = {}
  /\ rePushPc = [o \in Objs |-> "idle"]
  /\ rePushRef = [o \in Objs |-> Nil]
  /\ recPc = [s \in Slots |-> "done"]
  /\ recTodo = [s \in Slots |-> {}]
  /\ recRef = [s \in Slots |-> Nil]
  /\ opened = {} /\ loginAck = {} /\ delConn = {} /\ quiet = {}
  /\ torn = {} /\ unrouted = {}
  /\ pushed = [c \in ConnIDs |-> {}]
  /\ crashes = 0

Close(g) == \/ CloseStart(g) \/ CloseDelClientIDs(g) \/ CloseDelRoute(g)
            \/ CloseDelLastMsg(g) \/ CloseFinish(g)

cmdHandler == \/ Close(Handler) \/ ReConnPanics
              \/ LoginSADD \/ LoginAddRecord \/ LoginStore \/ Heartbeat
              \/ CompareAndIncr \/ PushMsg \/ PushPanics \/ AppendArm \/ AppendSetBytes
              \/ AckLastMsg

RePush(o) == rePushGet(o) \/ rePushLoad(o) \/ rePushArm(o)

LogOut(o) == connLogOut(o) \/ Close(o)

Recover(s) == \/ RecoverSMEMBERS(s) \/ RecoverStore(s) \/ RecoverGetLast(s)
              \/ RecoverArm(s) \/ RecoverDone(s)

Client(c) == \/ CancelConn(c) \/ HandleLogin(c) \/ HandleReConn(c) \/ HandleHeartbeat(c)
             \/ HandleUp(c) \/ HandleAck(c) \/ ClientGone(c)

Next ==
  \/ cmdHandler
  \/ \E o \in Objs : \/ HeartTimerFires(o) \/ ReConnTimerFires(o) \/ MsgTimerFires(o)
                     \/ reSetReConnTimer(o) \/ LogOut(o) \/ RePush(o)
  \/ \E g \in Goroutines : CloseError(g)
  \/ \E s \in Slots : Recover(s)
  \/ \E c \in ConnIDs : Client(c)
  \/ Crash
  \/ Start

Spec == Init /\ [][Next]_vars

\* The Go scheduler runs every goroutine, Redis answers, a timer that nobody
\* resets expires (a heart timer once its client is gone), and the process is
\* restarted.  Nothing is assumed of clients and of the gateway.
Fairness ==
  /\ WF_vars(cmdHandler) /\ WF_vars(Start)
  /\ \A s \in Slots : WF_vars(Recover(s))
  /\ \A o \in Objs :
       /\ WF_vars(state[o].connID \in quiet /\ HeartTimerFires(o))
       /\ WF_vars(ReConnTimerFires(o)) /\ WF_vars(MsgTimerFires(o))
       /\ WF_vars(reSetReConnTimer(o)) /\ WF_vars(LogOut(o)) /\ WF_vars(RePush(o))

FairSpec == Spec /\ Fairness

-----------------------------------------------------------------------------
(* Correctness.                                                             *)

Timers == {"nil", "armed"}
ConnStates == [connID: ConnIDs \cup {0}, did: AllDids, heartTimer: Timers,
               reConnTimer: Timers, msgTimer: Timers, msgTimerLock: {NoLock, msgID}]
HandlerSteps == {"idle", "close", "sadd", "addRecord", "store", "heartbeat", "cas", "push",
                 "append", "setBytes", "ack"} \cup Closing
UsingState == Closing \cup {"close", "addRecord", "store", "heartbeat", "append", "setBytes",
                           "ack"}
LogOutSteps == {"idle", "load", "close"} \cup Closing

\* Every variable has the type of the Go value it stands for; in particular a
\* goroutine past a load holds a real object, whose connID and did are set.
TypeOK ==
  /\ loginSlot \subseteq AllDids \X ConnIDs
  /\ route \in [AllDids -> ConnIDs \cup {0}]
  /\ maxClientID \in [ConnIDs -> Nat]
  /\ lastMsg \in [ConnIDs -> ClientIDs \cup {NoMsg}]
  /\ up \in BOOLEAN
  /\ table \in [ConnIDs -> Objs \cup {Nil}]
  /\ state \in [Objs -> ConnStates]
  /\ pc \in [Goroutines -> HandlerSteps \cup LogOutSteps]
  /\ pc[Handler] \in HandlerSteps /\ \A o \in Objs : pc[o] \in LogOutSteps
  /\ ref \in [Goroutines -> Objs \cup {Nil}]
  /\ req \in Commands \cup {NoReq}
  /\ heartGo \subseteq Objs
  /\ rePushPc \in [Objs -> {"idle", "get", "load", "arm"}]
  /\ rePushRef \in [Objs -> Objs \cup {Nil}]
  /\ recPc \in [Slots -> {"done", "smembers", "next", "getLast", "arm"}]
  /\ recTodo \in [Slots -> SUBSET (AllDids \X ConnIDs)]
  /\ recRef \in [Slots -> Objs \cup {Nil}]
  /\ opened \subseteq ConnIDs /\ loginAck \subseteq ConnIDs
  /\ pushed \in [ConnIDs -> SUBSET ClientIDs]
  /\ delConn \subseteq ConnIDs /\ quiet \subseteq ConnIDs
  /\ crashes \in Nat
  /\ torn \subseteq AllDids \X ConnIDs /\ unrouted \subseteq AllDids \X ConnIDs
  /\ \A g \in Goroutines : pc[g] \in UsingState => ref[g] \in Objs

\* A close of connection c is under way (it ends by removing c from the table).
InClose(g, c) == /\ pc[g] \in Closing \cup {"close"}
                 /\ state[ref[g]].connID = c
ClosingConn(c) == \E g \in Goroutines : InClose(g, c)
Torn(c) == \E d \in AllDids : <<d, c>> \in torn

\* The timer of o, or a callback of it, that ends in the logout of o's connection.
Watched(o) == \/ state[o].heartTimer = "armed" \/ o \in heartGo
              \/ state[o].reConnTimer = "armed" \/ pc[o] = "load"

\* A logged in connection always has a timer or a running callback that will
\* log it out when its client falls silent (heartTimer -> reConnTimer ->
\* connLogOut), whatever logins, heartbeats, recoveries and closes raced; only
\* a close that Redis interrupted leaves a connection without one.
EveryConnIsWatched ==
  \A c \in ConnIDs :
    table[c] # Nil => Watched(table[c]) \/ ClosingConn(c) \/ Torn(c)

\* Somebody is going to push the unacknowledged message of c again.
RetryPending(c) ==
  \/ \E o \in Objs : /\ state[o].connID = c
                     /\ state[o].msgTimer = "armed" \/ rePushPc[o] # "idle"
  \/ \E s \in Slots : /\ recPc[s] \in {"getLast", "arm"}
                      /\ state[recRef[s]].connID = c

\* A downlink message that is stored and not acknowledged is always going to be
\* pushed again while its connection is logged in: msgTimer, rePush, and the
\* recovery hand the obligation to one another without dropping it.
UnackedIsRetried ==
  \A c \in ConnIDs :
    lastMsg[c] # NoMsg /\ table[c] # Nil => RetryPending(c) \/ ClosingConn(c) \/ Torn(c)

\* A route never outlives its owner: the connection it names is in a login slot
\* (so a restart finds it), in the table, or being closed; only an interrupted
\* close leaves a route behind.
RouteIsOwned ==
  \A d \in AllDids, c \in ConnIDs :
    route[d] = c => \/ <<d, c>> \in loginSlot \/ table[c] # Nil
                    \/ ClosingConn(c) \/ Torn(c)

\* An uplink message whose clientID was counted by the Lua script is pushed, or
\* cmdHandler is just about to push it, also across the panics of pushMsg; only a
\* crash from outside may come between.
CountedIsPushed ==
  crashes = 0 => \A c \in ConnIDs, k \in ClientIDs :
    k < maxClientID[c] =>
      k \in pushed[c] \/ (pc[Handler] = "push" /\ req.conn = c /\ req.arg = k)

\* No logged in connection is forgotten without the gateway being told to close
\* it: once its login was acknowledged and it is neither in the table nor in a
\* login slot, DelConn was called, or its close was interrupted.
NoSilentLogOut ==
  \A c \in loginAck :
    table[c] = Nil /\ (\A d \in AllDids : <<d, c>> \notin loginSlot)
      => c \in delConn \/ ClosingConn(c) \/ Torn(c)

\* A connection that leaves the table by a logout is in no login slot any more:
\* a restart will not bring it back.
LogOutForgets ==
  [][\A c \in ConnIDs : (table[c] # Nil /\ table'[c] = Nil /\ up') =>
       \A d \in AllDids : <<d, c>> \notin loginSlot']_vars

\* A connection whose client is gone for good, and for which no CancelConn came
\* through, is logged out for good by the timers and is in no login slot, even
\* when the server crashes and recovers it on the way.
GoneIsLoggedOut ==
  \A c \in Leaving :
    <>[](c \in quiet => /\ table[c] = Nil
                        /\ \A d \in AllDids : <<d, c>> \notin loginSlot)

\* An ACK removes the stored message only when it acknowledges that message.
AckConfirmsLatest ==
  [][\A c \in ConnIDs :
       (pc[Handler] = "ack" /\ lastMsg[c] # NoMsg /\ lastMsg'[c] = NoMsg
          /\ state[ref[Handler]].connID = c /\ pc'[Handler] = "idle")
         => req.arg = lastMsg[c]]_vars

\* Redis and the table of a running server agree: a connection in a login slot is
\* in the table, or its login or the recovery of its slot is about to put it there,
\* whatever crashes, closes and logins the recovery races.  So no session stays in
\* Redis without an object, and thus a timer, that ends it.
SlotsAreServed ==
  up => \A d \in AllDids, c \in ConnIDs :
    <<d, c>> \in loginSlot =>
      \/ table[c] # Nil
      \/ recPc[getConnStateSlot(c)] = "smembers" \/ <<d, c>> \in recTodo[getConnStateSlot(c)]
      \/ pc[Handler] \in {"addRecord", "store"} /\ req.conn = c

\* A device whose connection c is logged in can be found through the route table,
\* unless a logout of another connection of the same device, which ran after the
\* last login of the device, deleted the route: close deletes the route of its
\* device whichever connection it names.
RouteLostOnlyByLogOut ==
  \A c \in loginAck \ delConn :
    table[c] # Nil =>
      LET d == state[table[c]].did IN
        \/ route[d] # 0 \/ ClosingConn(c) \/ Torn(c)
        \/ \E b \in ConnIDs \ {c} : <<d, b>> \in unrouted

=============================================================================
