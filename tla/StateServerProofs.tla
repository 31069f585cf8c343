------------------------- MODULE StateServerProofs -------------------------
(***************************************************************************)
(* Proofs about StateServer, for any connections, devices, objects, slots, *)
(* commands and crashes:                                                   *)
(*   types          TInv: TypeCorrect                                      *)
(*   watching       WInv: WatchedForever                                   *)
(*   uplink         CountedReachesPush                                     *)
(*   sessions       SessionInv: RoutesAreOwned, LogOutsAreTold,            *)
(*                  RoutesAreLostByLogOut, LogOutsAreForgotten,            *)
(*                  SessionsAreServed                                      *)
(*   downlink       RetryInv: RetriesGoOn                                  *)
(* All but the first and the third assume RedisFast.                       *)
(***************************************************************************)
EXTENDS StateServer, TLAPS

Live(o) == state[o].connID \in ConnIDs

\* Whatever can still run on behalf of an object belongs to an allocated one,
\* and so does every object a goroutine holds a reference to.
LiveInv ==
  /\ \A o \in Objs : \/ state[o].heartTimer = "armed" \/ state[o].reConnTimer = "armed"
                     \/ state[o].msgTimer = "armed" \/ o \in heartGo
                     \/ pc[o] # "idle" \/ rePushPc[o] # "idle"
                     => Live(o)
  /\ \A g \in Goroutines : pc[g] \in UsingState => Live(ref[g])
  /\ \A o \in Objs : rePushPc[o] = "arm" => rePushRef[o] \in Objs /\ Live(rePushRef[o])
  /\ \A s \in Slots : recPc[s] \in {"getLast", "arm"} => recRef[s] \in Objs /\ Live(recRef[s])

\* The table files an object under its own connection.
KeyInv == \A c \in ConnIDs : table[c] # Nil => state[table[c]].connID = c

\* The command in hand carries what the step of cmdHandler reads from it.
ReqInv ==
  /\ pc[Handler] # "idle" => req \in Commands
  /\ pc[Handler] \in {"sadd", "addRecord", "store"} => req.arg \in AllDids
  /\ pc[Handler] \in {"cas", "push", "append", "setBytes"} => req.arg \in ClientIDs

\* The object of a login in progress is filed under the new connection.
LoginKeyInv ==
  pc[Handler] \in {"addRecord", "store"} => state[ref[Handler]].connID = req.conn

TInv == TypeOK /\ LiveInv /\ KeyInv /\ ReqInv /\ LoginKeyInv

\* Nobody else knows the object of a login in progress, and its heart timer is
\* still running: Redis answers before it can expire.
LoginInv ==
  pc[Handler] \in {"addRecord", "store"} =>
    /\ state[ref[Handler]].heartTimer = "armed"
    /\ \A c \in ConnIDs : table[c] # ref[Handler]
    /\ \A o \in Objs : ref[o] # ref[Handler]

-----------------------------------------------------------------------------
(* Type correctness.  The names below are expanded, and the assumptions on  *)
(* the constants used, throughout.                                          *)

USE ConnAssumption, DidAssumption, ClientAssumption, ObjAssumption
    DEF redis, memory, handler, rePush, recovery, outside, history, Goroutines, AllDids, NoDid, NoMsg

\* What the code does to a connState besides allocating it.
TimerOps(s) == {StopHeartTimer(s), StopReConnTimer(s), StopMsgTimer(s), StopTimers(s),
                ArmHeartTimer(s), ArmReConnTimer(s), ArmMsgTimer(s), s}

\* Stopping and arming timers changes neither the identity of a state object
\* nor its type.
LEMMA TimerOpsType ==
  ASSUME NEW s \in ConnStates, NEW r \in TimerOps(s)
  PROVE  r \in ConnStates /\ r.connID = s.connID /\ r.did = s.did
  BY DEF TimerOps, ConnStates, Timers, StopHeartTimer, StopReConnTimer, StopMsgTimer,
         StopTimers, ArmHeartTimer, ArmReConnTimer, ArmMsgTimer

\* The same for the update of one object of the heap.
LEMMA TimerUpdate ==
  ASSUME state \in [Objs -> ConnStates], NEW o \in Objs, NEW r \in TimerOps(state[o]),
         state' = [state EXCEPT ![o] = r]
  PROVE  /\ state' \in [Objs -> ConnStates]
         /\ state'[o] = r
         /\ \A p \in Objs : p # o => state'[p] = state[p]
         /\ \A p \in Objs : state'[p].connID = state[p].connID /\ state'[p].did = state[p].did
<1>1. r \in ConnStates /\ r.connID = state[o].connID /\ r.did = state[o].did
  BY TimerOpsType
<1> QED BY <1>1

\* An expired heart timer starts the callback of a live object.
LEMMA T_HeartTimerFires == ASSUME TInv, NEW o \in Objs, HeartTimerFires(o) PROVE TInv'
<1>1. o \in Objs /\ state' = [state EXCEPT ![o] = StopHeartTimer(state[o])]
  BY DEF TInv, TypeOK, LiveInv, UsingState, HeartTimerFires
<1>2. /\ state' \in [Objs -> ConnStates]
      /\ state'[o] = StopHeartTimer(state[o])
      /\ \A p \in Objs : p # o => state'[p] = state[p]
      /\ \A p \in Objs : state'[p].connID = state[p].connID /\ state'[p].did = state[p].did
  BY <1>1, TimerUpdate DEF TInv, TypeOK, TimerOps
<1> QED
  BY <1>1, <1>2 DEF TInv, TypeOK, LiveInv, Live, KeyInv, ReqInv, LoginKeyInv, HandlerSteps,
     LogOutSteps, UsingState, Closing, NoReq, ConnStates, StopHeartTimer, HeartTimerFires

\* An expired reconnect timer starts the logout of a live object.
LEMMA T_ReConnTimerFires == ASSUME TInv, NEW o \in Objs, ReConnTimerFires(o) PROVE TInv'
<1>1. o \in Objs /\ state' = [state EXCEPT ![o] = StopReConnTimer(state[o])]
  BY DEF TInv, TypeOK, LiveInv, UsingState, ReConnTimerFires
<1>2. /\ state' \in [Objs -> ConnStates]
      /\ state'[o] = StopReConnTimer(state[o])
      /\ \A p \in Objs : p # o => state'[p] = state[p]
      /\ \A p \in Objs : state'[p].connID = state[p].connID /\ state'[p].did = state[p].did
  BY <1>1, TimerUpdate DEF TInv, TypeOK, TimerOps
<1> QED
  BY <1>1, <1>2 DEF TInv, TypeOK, LiveInv, Live, KeyInv, ReqInv, LoginKeyInv, HandlerSteps,
     LogOutSteps, UsingState, Closing, NoReq, ConnStates, StopReConnTimer, ReConnTimerFires, Goto

\* An expired message timer starts the rePush of a live object.
LEMMA T_MsgTimerFires == ASSUME TInv, NEW o \in Objs, MsgTimerFires(o) PROVE TInv'
<1>1. o \in Objs /\ state' = [state EXCEPT ![o] = StopMsgTimer(state[o])]
  BY DEF TInv, TypeOK, LiveInv, UsingState, MsgTimerFires
<1>2. /\ state' \in [Objs -> ConnStates]
      /\ state'[o] = StopMsgTimer(state[o])
      /\ \A p \in Objs : p # o => state'[p] = state[p]
      /\ \A p \in Objs : state'[p].connID = state[p].connID /\ state'[p].did = state[p].did
  BY <1>1, TimerUpdate DEF TInv, TypeOK, TimerOps
<1> QED
  BY <1>1, <1>2 DEF TInv, TypeOK, LiveInv, Live, KeyInv, ReqInv, LoginKeyInv, HandlerSteps,
     LogOutSteps, UsingState, Closing, NoReq, ConnStates, StopMsgTimer, MsgTimerFires

\* The heart timer's callback arms the reconnect timer of its own object.
LEMMA T_reSetReConnTimer == ASSUME TInv, NEW o \in Objs, reSetReConnTimer(o) PROVE TInv'
<1>1. o \in Objs /\ state' = [state EXCEPT ![o] = ArmReConnTimer(state[o])]
  BY DEF TInv, TypeOK, LiveInv, UsingState, reSetReConnTimer
<1>2. /\ state' \in [Objs -> ConnStates]
      /\ state'[o] = ArmReConnTimer(state[o])
      /\ \A p \in Objs : p # o => state'[p] = state[p]
      /\ \A p \in Objs : state'[p].connID = state[p].connID /\ state'[p].did = state[p].did
  BY <1>1, TimerUpdate DEF TInv, TypeOK, TimerOps
<1> QED
  BY <1>1, <1>2 DEF TInv, TypeOK, LiveInv, Live, KeyInv, ReqInv, LoginKeyInv, HandlerSteps,
     LogOutSteps, UsingState, Closing, NoReq, ConnStates, ArmReConnTimer, reSetReConnTimer

\* rePush reads the last message of a live connection and pushes it.
LEMMA T_rePushGet == ASSUME TInv, NEW o \in Objs, rePushGet(o) PROVE TInv'
  BY DEF TInv, TypeOK, LiveInv, Live, KeyInv, ReqInv, LoginKeyInv, HandlerSteps, LogOutSteps,
     UsingState, Closing, NoReq, rePushGet, Push

\* rePush arms the message timer of the object it loaded, a live one.
LEMMA T_rePushArm == ASSUME TInv, NEW o \in Objs, rePushArm(o) PROVE TInv'
<1>1. /\ rePushRef[o] \in Objs
      /\ state' = [state EXCEPT ![rePushRef[o]] = ArmMsgTimer(state[rePushRef[o]])]
  BY DEF TInv, TypeOK, LiveInv, UsingState, rePushArm
<1>2. /\ state' \in [Objs -> ConnStates]
      /\ state'[rePushRef[o]] = ArmMsgTimer(state[rePushRef[o]])
      /\ \A p \in Objs : p # rePushRef[o] => state'[p] = state[p]
      /\ \A p \in Objs : state'[p].connID = state[p].connID /\ state'[p].did = state[p].did
  BY <1>1, TimerUpdate DEF TInv, TypeOK, TimerOps
<1> QED
  BY <1>1, <1>2 DEF TInv, TypeOK, LiveInv, Live, KeyInv, ReqInv, LoginKeyInv, HandlerSteps,
     LogOutSteps, UsingState, Closing, NoReq, ConnStates, ArmMsgTimer, rePushArm

\* close stops the timers of the object it holds and takes it out of its slot.
LEMMA T_CloseStart == ASSUME TInv, NEW g \in Goroutines, CloseStart(g) PROVE TInv'
<1>1. ref[g] \in Objs /\ state' = [state EXCEPT ![ref[g]] = StopTimers(state[ref[g]])]
  BY DEF TInv, TypeOK, LiveInv, UsingState, CloseStart
<1>2. /\ state' \in [Objs -> ConnStates]
      /\ state'[ref[g]] = StopTimers(state[ref[g]])
      /\ \A p \in Objs : p # ref[g] => state'[p] = state[p]
      /\ \A p \in Objs : state'[p].connID = state[p].connID /\ state'[p].did = state[p].did
  BY <1>1, TimerUpdate DEF TInv, TypeOK, TimerOps
<1> QED
  BY <1>1, <1>2 DEF TInv, TypeOK, LiveInv, Live, KeyInv, ReqInv, LoginKeyInv, HandlerSteps,
     LogOutSteps, UsingState, Closing, NoReq, ConnStates, StopTimers, CloseStart, Goto, SREM, Pair

\* close deletes the counters of the connection of the object it holds.
LEMMA T_CloseDelClientIDs == ASSUME TInv, NEW g \in Goroutines, CloseDelClientIDs(g) PROVE TInv'
  BY DEF TInv, TypeOK, LiveInv, Live, KeyInv, ReqInv, LoginKeyInv, HandlerSteps, LogOutSteps,
     UsingState, Closing, NoReq, CloseDelClientIDs, Goto

\* close deletes the route of the did of the object it holds.
LEMMA T_CloseDelRoute == ASSUME TInv, NEW g \in Goroutines, CloseDelRoute(g) PROVE TInv'
<1>1. state[ref[g]].did \in AllDids /\ state[ref[g]].connID \in ConnIDs
  BY DEF TInv, TypeOK, LiveInv, Live, UsingState, Closing, ConnStates, CloseDelRoute
<1>2. unrouted' \subseteq AllDids \X ConnIDs
  BY <1>1 DEF TInv, TypeOK, Pair, CloseDelRoute
<1> QED BY <1>2 DEF TInv, TypeOK, LiveInv, Live, KeyInv, ReqInv, LoginKeyInv, HandlerSteps, LogOutSteps,
           UsingState, Closing, NoReq, CloseDelRoute, Goto, DelRecord

\* close deletes the last message of the object it holds.
LEMMA T_CloseDelLastMsg == ASSUME TInv, NEW g \in Goroutines, CloseDelLastMsg(g) PROVE TInv'
  BY DEF TInv, TypeOK, LiveInv, Live, KeyInv, ReqInv, LoginKeyInv, HandlerSteps, LogOutSteps,
     UsingState, Closing, NoReq, CloseDelLastMsg, Goto

\* A heartbeat arms the heart timer of the object loaded from the table.
LEMMA T_Heartbeat == ASSUME TInv, Heartbeat PROVE TInv'
<1>1. /\ ref[Handler] \in Objs
      /\ state' = [state EXCEPT ![ref[Handler]] = ArmHeartTimer(state[ref[Handler]])]
  BY DEF TInv, TypeOK, LiveInv, UsingState, Heartbeat
<1>2. /\ state' \in [Objs -> ConnStates]
      /\ state'[ref[Handler]] = ArmHeartTimer(state[ref[Handler]])
      /\ \A p \in Objs : p # ref[Handler] => state'[p] = state[p]
      /\ \A p \in Objs : state'[p].connID = state[p].connID /\ state'[p].did = state[p].did
  BY <1>1, TimerUpdate DEF TInv, TypeOK, TimerOps
<1> QED
  BY <1>1, <1>2 DEF TInv, TypeOK, LiveInv, Live, KeyInv, ReqInv, LoginKeyInv, HandlerSteps,
     LogOutSteps, UsingState, Closing, NoReq, ConnStates, ArmHeartTimer, Heartbeat, Done, Goto

\* A login routes its did, which may be 0 after a late ReConn, to its connection.
LEMMA T_LoginAddRecord == ASSUME TInv, LoginAddRecord PROVE TInv'
  BY DEF TInv, TypeOK, LiveInv, Live, KeyInv, ReqInv, LoginKeyInv, HandlerSteps, LogOutSteps,
     UsingState, Closing, NoReq, LoginAddRecord, Goto, AddRecord, Commands

\* A login files its object under its own connection.
LEMMA T_LoginStore == ASSUME TInv, LoginStore PROVE TInv'
  BY DEF TInv, TypeOK, LiveInv, Live, KeyInv, ReqInv, LoginKeyInv, HandlerSteps, LogOutSteps,
     UsingState, Closing, NoReq, LoginStore, Goto, Done, Commands

\* The Lua script keeps the counter a number.
LEMMA T_CompareAndIncr == ASSUME TInv, CompareAndIncr PROVE TInv'
  BY DEF TInv, TypeOK, LiveInv, Live, KeyInv, ReqInv, LoginKeyInv, HandlerSteps, LogOutSteps,
     UsingState, Closing, NoReq, CompareAndIncr, Goto, Done, LuaCompare, Commands

\* appendMsg arms the message timer of the object loaded from the table.
LEMMA T_AppendArm == ASSUME TInv, AppendArm PROVE TInv'
<1>1. /\ ref[Handler] \in Objs
      /\ state' = [state EXCEPT ![ref[Handler]] = ArmMsgTimer(state[ref[Handler]])]
  BY DEF TInv, TypeOK, LiveInv, UsingState, AppendArm
<1>2. /\ state' \in [Objs -> ConnStates]
      /\ state'[ref[Handler]] = ArmMsgTimer(state[ref[Handler]])
      /\ \A p \in Objs : p # ref[Handler] => state'[p] = state[p]
      /\ \A p \in Objs : state'[p].connID = state[p].connID /\ state'[p].did = state[p].did
  BY <1>1, TimerUpdate DEF TInv, TypeOK, TimerOps
<1> QED
  BY <1>1, <1>2 DEF TInv, TypeOK, LiveInv, Live, KeyInv, ReqInv, LoginKeyInv, HandlerSteps,
     LogOutSteps, UsingState, Closing, NoReq, ConnStates, ArmMsgTimer, AppendArm, Goto

\* appendMsg stores the body of an uplink message.
LEMMA T_AppendSetBytes == ASSUME TInv, AppendSetBytes PROVE TInv'
  BY DEF TInv, TypeOK, LiveInv, Live, KeyInv, ReqInv, LoginKeyInv, HandlerSteps, LogOutSteps,
     UsingState, Closing, NoReq, AppendSetBytes, Goto, Done, Commands

\* A recovery reads pairs of a did and a connection.
LEMMA T_RecoverSMEMBERS == ASSUME TInv, NEW s \in Slots, RecoverSMEMBERS(s) PROVE TInv'
  BY DEF TInv, TypeOK, LiveInv, Live, KeyInv, ReqInv, LoginKeyInv, HandlerSteps, LogOutSteps,
     UsingState, Closing, NoReq, RecoverSMEMBERS, SMEMBERS

\* A recovery reads the last message of the object it stored.
LEMMA T_RecoverGetLast == ASSUME TInv, NEW s \in Slots, RecoverGetLast(s) PROVE TInv'
  BY DEF TInv, TypeOK, LiveInv, Live, KeyInv, ReqInv, LoginKeyInv, HandlerSteps, LogOutSteps,
     UsingState, Closing, NoReq, RecoverGetLast

\* A recovery that has stored all of its slot lets go of its object.
LEMMA T_RecoverDone == ASSUME TInv, NEW s \in Slots, RecoverDone(s) PROVE TInv'
  BY DEF TInv, TypeOK, LiveInv, Live, KeyInv, ReqInv, LoginKeyInv, HandlerSteps, LogOutSteps,
     UsingState, Closing, NoReq, RecoverDone

\* A recovery arms the message timer of the object it stored.
LEMMA T_RecoverArm == ASSUME TInv, NEW s \in Slots, RecoverArm(s) PROVE TInv'
<1>1. /\ recRef[s] \in Objs
      /\ state' = [state EXCEPT ![recRef[s]] = ArmMsgTimer(state[recRef[s]])]
  BY DEF TInv, TypeOK, LiveInv, UsingState, RecoverArm
<1>2. /\ state' \in [Objs -> ConnStates]
      /\ state'[recRef[s]] = ArmMsgTimer(state[recRef[s]])
      /\ \A p \in Objs : p # recRef[s] => state'[p] = state[p]
      /\ \A p \in Objs : state'[p].connID = state[p].connID /\ state'[p].did = state[p].did
  BY <1>1, TimerUpdate DEF TInv, TypeOK, TimerOps
<1> QED
  BY <1>1, <1>2 DEF TInv, TypeOK, LiveInv, Live, KeyInv, ReqInv, LoginKeyInv, HandlerSteps,
     LogOutSteps, UsingState, Closing, NoReq, ConnStates, ArmMsgTimer, RecoverArm

\* A restarted process has a recovery per slot and nothing else.
LEMMA T_Start == ASSUME TInv, Start PROVE TInv'
  BY DEF TInv, TypeOK, LiveInv, Live, KeyInv, ReqInv, LoginKeyInv, HandlerSteps, LogOutSteps,
     UsingState, Closing, NoReq, Start

\* A client that leaves changes nothing of the server.
LEMMA T_ClientGone == ASSUME TInv, NEW c \in ConnIDs, ClientGone(c) PROVE TInv'
  BY DEF TInv, TypeOK, LiveInv, Live, KeyInv, ReqInv, LoginKeyInv, HandlerSteps, LogOutSteps,
     UsingState, Closing, NoReq, ClientGone

\* A logout by timer holds the object of the table, if there is one.
LEMMA T_connLogOut == ASSUME TInv, NEW o \in Objs, connLogOut(o) PROVE TInv'
<1>1. /\ state[o].connID \in ConnIDs /\ o # Handler
      /\ table[state[o].connID] # Nil => Live(table[state[o].connID])
  BY DEF TInv, LiveInv, KeyInv, Live, connLogOut
<1>2. PICK s \in Objs \cup {Nil} :
        /\ pc' = [pc EXCEPT ![o] = IF s = Nil THEN "idle" ELSE "close"]
        /\ ref' = [ref EXCEPT ![o] = s] /\ req' = req
        /\ s # Nil => Live(s)
  BY <1>1 DEF TInv, TypeOK, connLogOut, Found, Done, Goto
<1> QED
  BY <1>1, <1>2 DEF TInv, TypeOK, LiveInv, Live, KeyInv, ReqInv, LoginKeyInv, HandlerSteps,
     LogOutSteps, UsingState, Closing, connLogOut

\* rePush holds the object of the table, if there is one.
LEMMA T_rePushLoad == ASSUME TInv, NEW o \in Objs, rePushLoad(o) PROVE TInv'
<1>1. /\ table[state[o].connID] \in Objs \cup {Nil}
      /\ table[state[o].connID] # Nil => Live(table[state[o].connID])
  BY DEF TInv, TypeOK, LiveInv, KeyInv, Live, rePushLoad
<1> QED
  BY <1>1 DEF TInv, TypeOK, LiveInv, Live, KeyInv, ReqInv, LoginKeyInv, UsingState, Closing,
     rePushLoad, Found

\* Every did, the 0 of a late ReConn included, is a number.
LEMMA DidNat == AllDids \subseteq Nat
  OBVIOUS

\* The end of close: back to idle, or on to the login of a ReConn under the did
\* of the closed connection.
LEMMA T_CloseFinish == ASSUME TInv, NEW g \in Goroutines, CloseFinish(g) PROVE TInv'
<1>1. ref[g] \in Objs /\ state[ref[g]].connID \in ConnIDs /\ state[ref[g]].did \in AllDids
  BY DEF TInv, TypeOK, LiveInv, Live, CloseFinish, UsingState, Closing, ConnStates
<1>2. /\ ref' = [ref EXCEPT ![g] = Nil]
      /\ \/ pc' = [pc EXCEPT ![g] = "idle"] /\ req' \in {req, NoReq}
         \/ g = Handler /\ pc' = [pc EXCEPT ![g] = "sadd"]
  BY DEF CloseFinish, AfterLogOut, Done, Goto
<1>3. /\ req' \in Commands \cup {NoReq} /\ (g # Handler => req' = req)
      /\ g = Handler /\ pc'[Handler] = "sadd" => req' \in Commands /\ req'.arg \in AllDids
  <2>1. CASE g = Handler /\ req.cmd = "reconn"
    <3>1. req' = [req EXCEPT !.cmd = "login", !.arg = state[ref[g]].did] /\ req \in Commands
      BY <2>1 DEF TInv, ReqInv, CloseFinish, AfterLogOut
    <3>2. state[ref[g]].did \in Nat
      BY <1>1, DidNat
    <3> HIDE DEF AllDids
    <3> QED BY <1>1, <2>1, <3>1, <3>2 DEF Commands
  <2>2. CASE ~(g = Handler /\ req.cmd = "reconn")
    BY <2>2 DEF TInv, TypeOK, CloseFinish, AfterLogOut, Done, Goto
  <2> QED BY <2>1, <2>2
<1>4. TypeOK'
  <2>1. /\ pc' \in [Goroutines -> HandlerSteps \cup LogOutSteps]
        /\ pc'[Handler] \in HandlerSteps /\ \A o \in Objs : pc'[o] \in LogOutSteps
        /\ \A h \in Goroutines : pc'[h] \in UsingState => ref'[h] \in Objs
    BY <1>2 DEF TInv, TypeOK, HandlerSteps, LogOutSteps, UsingState, Closing
  <2>2. /\ table' \in [ConnIDs -> Objs \cup {Nil}] /\ delConn' \subseteq ConnIDs
        /\ torn' \subseteq AllDids \X ConnIDs
    BY <1>1 DEF TInv, TypeOK, CloseFinish, DelConn
  <2>3. ref' \in [Goroutines -> Objs \cup {Nil}]
    BY <1>2 DEF TInv, TypeOK
  <2> QED BY <1>3, <2>1, <2>2, <2>3 DEF TInv, TypeOK, CloseFinish
<1>5. LiveInv' /\ KeyInv' /\ ReqInv' /\ LoginKeyInv'
  BY <1>1, <1>2, <1>3 DEF TInv, TypeOK, LiveInv, Live, KeyInv, ReqInv, LoginKeyInv, UsingState,
     Closing, CloseFinish
<1> QED BY <1>4, <1>5 DEF TInv

\* close gives up and records the pair it leaves behind.
LEMMA T_CloseError == ASSUME TInv, NEW g \in Goroutines, CloseError(g) PROVE TInv'
<1>1. ref[g] \in Objs /\ state' = [state EXCEPT ![ref[g]] = StopTimers(state[ref[g]])]
  BY DEF TInv, TypeOK, LiveInv, UsingState, Closing, CloseError
<1>2. /\ state' \in [Objs -> ConnStates]
      /\ state'[ref[g]] = StopTimers(state[ref[g]])
      /\ \A p \in Objs : p # ref[g] => state'[p] = state[p]
      /\ \A p \in Objs : state'[p].connID = state[p].connID /\ state'[p].did = state[p].did
  BY <1>1, TimerUpdate DEF TInv, TypeOK, TimerOps
<1>3. Pair(ref[g]) \in AllDids \X ConnIDs
  BY <1>1 DEF TInv, TypeOK, LiveInv, Live, UsingState, Closing, ConnStates, CloseError, Pair
<1> QED
  BY <1>1, <1>2, <1>3 DEF TInv, TypeOK, LiveInv, Live, KeyInv, ReqInv, LoginKeyInv, HandlerSteps,
     LogOutSteps, UsingState, Closing, ConnStates, StopTimers, CloseError, Done, Goto

\* pushMsg pushes the body and holds the object of the table.
LEMMA T_PushMsg == ASSUME TInv, PushMsg PROVE TInv'
<1>1. /\ req.conn \in ConnIDs /\ req.arg \in ClientIDs
      /\ table[req.conn] \in Objs /\ Live(table[req.conn])
  BY DEF TInv, TypeOK, KeyInv, ReqInv, Live, PushMsg, Found, Commands
<1> QED
  BY <1>1 DEF TInv, TypeOK, LiveInv, Live, KeyInv, ReqInv, LoginKeyInv, HandlerSteps,
     LogOutSteps, UsingState, Closing, PushMsg, Goto, Push

\* An ACK stops the message timer of the object it loaded, or does nothing.
LEMMA T_AckLastMsg == ASSUME TInv, AckLastMsg PROVE TInv'
<1> DEFINE o == ref[Handler]
<1>1. o \in Objs /\ Live(o)
  BY DEF TInv, TypeOK, LiveInv, UsingState, AckLastMsg
<1>2. CASE state' = state
  BY <1>1, <1>2 DEF TInv, TypeOK, LiveInv, Live, KeyInv, ReqInv, LoginKeyInv, HandlerSteps,
     LogOutSteps, UsingState, Closing, AckLastMsg, Done, Goto
<1>3. CASE state' = [state EXCEPT ![o] = StopMsgTimer(state[o])]
  <2>1. /\ state' \in [Objs -> ConnStates]
        /\ state'[o] = StopMsgTimer(state[o])
        /\ \A p \in Objs : p # o => state'[p] = state[p]
        /\ \A p \in Objs : state'[p].connID = state[p].connID /\ state'[p].did = state[p].did
    BY <1>1, <1>3, TimerUpdate DEF TInv, TypeOK, TimerOps
  <2>2. TypeOK'
    BY <1>1, <2>1 DEF TInv, TypeOK, Live, HandlerSteps, LogOutSteps, UsingState, Closing,
       AckLastMsg, Done, Goto
  <2>3. LiveInv' /\ KeyInv' /\ ReqInv' /\ LoginKeyInv'
    BY <1>1, <2>1 DEF TInv, TypeOK, LiveInv, Live, KeyInv, ReqInv, LoginKeyInv, UsingState,
       Closing, ConnStates, StopMsgTimer, AckLastMsg, Done, Goto
  <2> QED BY <2>2, <2>3 DEF TInv
<1> QED BY <1>2, <1>3 DEF AckLastMsg

\* A new connState has its connection and did, and a running heart timer.
LEMMA NewStateType ==
  ASSUME NEW d \in AllDids, NEW c \in ConnIDs
  PROVE  /\ NewConnState(d, c) \in ConnStates
         /\ NewConnState(d, c).connID = c
         /\ NewConnState(d, c).heartTimer = "armed"
  BY DEF NewConnState, Fresh, ConnStates, Timers, NoLock

\* A login allocates an unused object for its connection and did.
LEMMA T_LoginSADD == ASSUME TInv, LoginSADD PROVE TInv'
<1>1. req \in Commands /\ req.conn \in ConnIDs /\ req.arg \in AllDids
  BY DEF TInv, ReqInv, LoginSADD, Commands
<1>2. PICK o \in Objs : /\ Unused(o)
                        /\ state' = [state EXCEPT ![o] = NewConnState(req.arg, req.conn)]
                        /\ ref' = [ref EXCEPT ![Handler] = o]
  BY DEF LoginSADD
<1>3. /\ state' \in [Objs -> ConnStates]
      /\ state'[o].connID = req.conn
      /\ \A p \in Objs : p # o => state'[p] = state[p]
  BY <1>1, <1>2, NewStateType DEF TInv, TypeOK
<1>4. TypeOK'
  BY <1>1, <1>2, <1>3 DEF TInv, TypeOK, HandlerSteps, LogOutSteps, UsingState, Closing,
     LoginSADD, SADD, Goto
<1>5. LiveInv' /\ KeyInv' /\ ReqInv' /\ LoginKeyInv'
  BY <1>1, <1>2, <1>3 DEF TInv, TypeOK, LiveInv, Live, KeyInv, ReqInv, LoginKeyInv, Unused,
     UsingState, Closing, LoginSADD, Goto
<1> QED BY <1>4, <1>5 DEF TInv

\* A recovery allocates an unused object and files it under its connection.
LEMMA T_RecoverStore == ASSUME TInv, NEW s \in Slots, RecoverStore(s) PROVE TInv'
<1>1. PICK p \in recTodo[s], o \in Objs :
        /\ Unused(o)
        /\ state' = [state EXCEPT ![o] = NewConnState(p[1], p[2])]
        /\ table' = [table EXCEPT ![p[2]] = o]
        /\ recTodo' = [recTodo EXCEPT ![s] = @ \ {p}]
        /\ recRef' = [recRef EXCEPT ![s] = o]
  BY DEF RecoverStore
<1>2. p[1] \in AllDids /\ p[2] \in ConnIDs
  BY DEF TInv, TypeOK
<1>3. /\ state' \in [Objs -> ConnStates]
      /\ state'[o].connID = p[2]
      /\ \A q \in Objs : q # o => state'[q] = state[q]
  BY <1>1, <1>2, NewStateType DEF TInv, TypeOK
<1>4. TypeOK'
  BY <1>1, <1>2, <1>3 DEF TInv, TypeOK, RecoverStore
<1>5. LiveInv' /\ KeyInv' /\ ReqInv' /\ LoginKeyInv'
  BY <1>1, <1>2, <1>3 DEF TInv, TypeOK, LiveInv, Live, KeyInv, ReqInv, LoginKeyInv, Unused,
     UsingState, RecoverStore
<1> QED BY <1>4, <1>5 DEF TInv

\* The arguments a command can carry.
WellFormed(m) ==
  /\ m \in Commands
  /\ m.cmd = "login" => m.arg \in Dids
  /\ m.cmd = "reconn" => m.arg \in ConnIDs
  /\ m.cmd = "up" => m.arg \in ClientIDs

\* Taking a command for an object of the table, or for none.
LEMMA T_Handle ==
  ASSUME TInv, NEW m, WellFormed(m), Handle(m), opened' \subseteq ConnIDs
  PROVE  TInv'
<1>1. FirstStep(m) \in {"sadd", "cas", "heartbeat", "ack", "close"}
  BY DEF FirstStep
<1>2. PICK r \in Objs \cup {Nil} :
        /\ ref' = [ref EXCEPT ![Handler] = r]
        /\ FirstStep(m) \notin {"sadd", "cas"} => r \in Objs /\ Live(r)
  <2>1. Target(m) \in ConnIDs
    BY DEF Target, WellFormed, Commands
  <2>2. /\ NeedsState(m) => table[Target(m)] \in Objs /\ Live(table[Target(m)])
        /\ ~NeedsState(m) => FirstStep(m) \in {"sadd", "cas"}
    BY <2>1 DEF TInv, TypeOK, KeyInv, Live, Handle, Found, NeedsState, FirstStep
  <2> QED BY <2>2 DEF Handle
<1>3. /\ FirstStep(m) = "sadd" => m.arg \in AllDids
      /\ FirstStep(m) = "cas" => m.arg \in ClientIDs
  BY DEF FirstStep, WellFormed
<1> QED
  BY <1>1, <1>2, <1>3 DEF TInv, TypeOK, LiveInv, Live, KeyInv, ReqInv, LoginKeyInv, HandlerSteps,
     LogOutSteps, UsingState, Closing, WellFormed, Handle, Goto

\* A ReConn that found no old connection.
LEMMA T_HandleLateReConn ==
  ASSUME TInv, NEW m, WellFormed(m), HandleLateReConn(m), opened' \subseteq ConnIDs
  PROVE  TInv'
<1>1. req' \in Commands /\ req'.arg = NoDid
  BY DEF HandleLateReConn, WellFormed, Commands
<1> QED
  BY <1>1 DEF TInv, TypeOK, LiveInv, Live, KeyInv, ReqInv, LoginKeyInv, HandlerSteps,
     LogOutSteps, UsingState, Closing, HandleLateReConn, Goto

\* A step that changes nothing.
LEMMA T_Stutter == ASSUME TInv, UNCHANGED vars PROVE TInv'
  BY DEF vars, TInv, TypeOK, LiveInv, Live, KeyInv, ReqInv, LoginKeyInv

\* Everything a client or the gateway may cause.
LEMMA T_Client == ASSUME TInv, NEW c \in ConnIDs, Client(c) PROVE TInv'
<1>1. ASSUME NEW m, WellFormed(m), HandleOrDrop(m) PROVE TInv'
  BY <1>1, T_Handle, T_Stutter DEF HandleOrDrop, HandleDropped, TInv, TypeOK
<1>2. /\ WellFormed(Command("cancel", c, 0)) /\ WellFormed(Command("heartbeat", c, 0))
      /\ \A k \in ClientIDs : WellFormed(Command("up", c, k))
      /\ \A k \in pushed[c] : WellFormed(Command("ack", c, k))
      /\ \A d \in Dids : WellFormed(Command("login", c, d))
      /\ \A old \in loginAck : WellFormed(Command("reconn", c, old))
  BY DEF WellFormed, Command, Commands, TInv, TypeOK
<1>3. CASE HandleLogin(c) \/ HandleReConn(c)
  <2>1. opened' \subseteq ConnIDs
    BY <1>3 DEF HandleLogin, HandleReConn, TInv, TypeOK
  <2> QED BY <1>2, <1>3, <2>1, T_Handle, T_HandleLateReConn DEF HandleLogin, HandleReConn
<1> QED BY <1>1, <1>2, <1>3, T_ClientGone
        DEF Client, CancelConn, HandleHeartbeat, HandleUp, HandleAck

\* The process is gone: nothing is left in memory.
LEMMA T_Lose ==
  ASSUME TInv, Lose, pushed' \in [ConnIDs -> SUBSET ClientIDs], crashes' \in Nat,
         torn' = torn \cup Interrupted
  PROVE  TInv'
<1>1. Interrupted \subseteq AllDids \X ConnIDs
  BY DEF Interrupted, TInv, TypeOK, LiveInv, Live, Pair, UsingState, Closing, ConnStates
<1>2. Fresh \in ConnStates
  BY DEF Fresh, ConnStates, Timers
<1>3. state' \in [Objs -> ConnStates]
  BY <1>2 DEF Lose
<1>4. TypeOK'
  BY <1>1, <1>3 DEF TInv, TypeOK, HandlerSteps, LogOutSteps, UsingState, Closing, Lose
<1>5. LiveInv' /\ KeyInv' /\ ReqInv' /\ LoginKeyInv'
  BY DEF LiveInv, KeyInv, ReqInv, LoginKeyInv, UsingState, Closing, Lose, Fresh
<1> QED BY <1>4, <1>5 DEF TInv

\* A crash and both kinds of panic.
LEMMA T_Crash == ASSUME TInv, Crash \/ PushPanics \/ ReConnPanics PROVE TInv'
<1>1. CASE Crash \/ ReConnPanics
  BY <1>1, T_Lose, BoundAssumption DEF Crash, ReConnPanics, TInv, TypeOK
<1>2. CASE PushPanics
  <2>1. pushed' \in [ConnIDs -> SUBSET ClientIDs] /\ crashes' \in Nat
    BY <1>2 DEF PushPanics, Push, TInv, TypeOK, ReqInv, Commands
  <2> QED BY <1>2, <2>1, T_Lose DEF PushPanics
<1> QED BY <1>1, <1>2

\* An empty Redis and a process that is not running.
LEMMA TInvInit == Init => TInv
<1> SUFFICES ASSUME Init PROVE TInv
  OBVIOUS
<1>1. state \in [Objs -> ConnStates]
  BY DEF Init, Fresh, ConnStates, Timers
<1>2. TypeOK
  BY <1>1 DEF Init, TypeOK, HandlerSteps, LogOutSteps, UsingState, Closing
<1>3. LiveInv /\ KeyInv /\ ReqInv /\ LoginKeyInv
  BY DEF Init, LiveInv, KeyInv, ReqInv, LoginKeyInv, UsingState, Closing, Fresh
<1> QED BY <1>2, <1>3 DEF TInv

\* One lemma per action of Next, or a step that changes nothing.
LEMMA TInvStep == TInv /\ [Next]_vars => TInv'
<1> SUFFICES ASSUME TInv, [Next]_vars PROVE TInv'
  OBVIOUS
<1>1. ASSUME NEW g \in Goroutines, Close(g) PROVE TInv'
  BY <1>1, T_CloseStart, T_CloseDelClientIDs, T_CloseDelRoute, T_CloseDelLastMsg, T_CloseFinish
     DEF Close
<1>2. CASE cmdHandler
  BY <1>1, <1>2, T_LoginSADD, T_LoginAddRecord, T_LoginStore, T_Heartbeat,
     T_CompareAndIncr, T_PushMsg, T_AppendArm, T_AppendSetBytes, T_AckLastMsg, T_Crash
     DEF cmdHandler
<1>3. ASSUME NEW o \in Objs,
             \/ HeartTimerFires(o) \/ ReConnTimerFires(o) \/ MsgTimerFires(o)
             \/ reSetReConnTimer(o) \/ LogOut(o) \/ RePush(o)
      PROVE  TInv'
  BY <1>1, <1>3, T_HeartTimerFires, T_ReConnTimerFires, T_MsgTimerFires,
     T_reSetReConnTimer, T_connLogOut, T_rePushGet, T_rePushLoad, T_rePushArm
     DEF LogOut, RePush
<1>4. ASSUME NEW s \in Slots, Recover(s) PROVE TInv'
  BY <1>4, T_RecoverSMEMBERS, T_RecoverStore, T_RecoverGetLast, T_RecoverArm, T_RecoverDone
     DEF Recover
<1> QED BY <1>2, <1>3, <1>4, T_CloseError, T_Client, T_Crash, T_Start, T_Stutter DEF Next

\* The table, the keys in Redis and every goroutine of the state server stay
\* well typed: in particular no goroutine past loadConnIDState holds a nil
\* object, for any number of connections, devices, slots and crashes.
THEOREM TypeCorrect == Spec => []TypeOK
<1>1. TInv => TypeOK
  BY DEF TInv
<1> QED BY <1>1, TInvInit, TInvStep, PTL DEF Spec

-----------------------------------------------------------------------------
(* Every logged in connection is watched.                                   *)

\* What a step may do to the watch of the connections it does not log in or
\* log out: a watched object stays watched, or its connection is being closed,
\* and a close goes on or is recorded as torn.
LEMMA WatchFrame ==
  ASSUME TInv, EveryConnIsWatched, table' = table, torn \subseteq torn',
         \A o \in Objs, c \in ConnIDs : Watched(o) /\ table[c] = o =>
            Watched(o)' \/ ClosingConn(c)' \/ Torn(c)',
         \A g \in Goroutines, c \in ConnIDs : InClose(g, c) => InClose(g, c)' \/ Torn(c)'
  PROVE  EveryConnIsWatched'
<1> SUFFICES ASSUME NEW c \in ConnIDs, NEW o \in Objs, table[c] = o
             PROVE  Watched(o)' \/ ClosingConn(c)' \/ Torn(c)'
  BY DEF EveryConnIsWatched, Watched, TInv, TypeOK
<1>1. CASE Watched(o)
  BY <1>1
<1>2. CASE ClosingConn(c)
  BY <1>2 DEF ClosingConn
<1>3. CASE Torn(c)
  BY <1>3 DEF Torn
<1> QED BY <1>1, <1>2, <1>3 DEF EveryConnIsWatched

\* What keeps the object of a login in progress private and its timer running.
LEMMA LoginFrame ==
  ASSUME TInv, LoginInv,
         pc'[Handler] \in {"addRecord", "store"} =>
            pc[Handler] \in {"addRecord", "store"} /\ ref'[Handler] = ref[Handler],
         pc[Handler] \in {"addRecord", "store"} =>
            state'[ref[Handler]].heartTimer \in {state[ref[Handler]].heartTimer, "armed"},
         \A c \in ConnIDs : table'[c] \in {table[c], Nil},
         \A o \in Objs : ref'[o] \in {ref[o], Nil} \/ \E c \in ConnIDs : ref'[o] = table[c]
  PROVE  LoginInv'
<1> SUFFICES ASSUME pc'[Handler] \in {"addRecord", "store"}
             PROVE  /\ state'[ref'[Handler]].heartTimer = "armed"
                    /\ \A c \in ConnIDs : table'[c] # ref'[Handler]
                    /\ \A o \in Objs : ref'[o] # ref'[Handler]
  BY DEF LoginInv
<1>1. ref[Handler] \in Objs /\ ref'[Handler] = ref[Handler]
  BY DEF TInv, TypeOK, UsingState
<1> QED BY <1>1 DEF LoginInv

\* The steps that are none of the watch's business: they leave the table, the
\* timers of the watch and its callbacks alone, and of the closes and logins
\* under way they at most take the next step.
Undisturbed ==
  /\ UNCHANGED <<table, torn, heartGo>>
  /\ \A o \in Objs : /\ state'[o].connID = state[o].connID
                     /\ state'[o].reConnTimer = state[o].reConnTimer
                     /\ state'[o].heartTimer \in {state[o].heartTimer, "armed"}
  /\ \A g \in Goroutines :
       \/ pc'[g] = pc[g] /\ ref'[g] = ref[g]
       \/ pc[g] \in Closing /\ pc'[g] \in Closing /\ ref'[g] = ref[g]
       \/ /\ g = Handler /\ pc[g] \notin Closing \cup {"close"}
          /\ pc'[g] \in {"addRecord", "store"} => pc[g] = "addRecord" /\ ref'[g] = ref[g]

\* Such a step keeps the invariant.
LEMMA UndisturbedWatch ==
  ASSUME TInv, LoginInv, EveryConnIsWatched, Undisturbed
  PROVE  LoginInv' /\ EveryConnIsWatched'
<1>1. \A o \in Objs : Watched(o) => Watched(o)'
  BY DEF Undisturbed, Watched, Closing
<1>2. \A g \in Goroutines, c \in ConnIDs : InClose(g, c) => InClose(g, c)'
  BY DEF Undisturbed, InClose, TInv, TypeOK, UsingState, Closing
<1>3. EveryConnIsWatched'
  BY <1>1, <1>2, WatchFrame DEF Undisturbed
<1>4. /\ pc'[Handler] \in {"addRecord", "store"} =>
            pc[Handler] \in {"addRecord", "store"} /\ ref'[Handler] = ref[Handler]
      /\ pc[Handler] \in {"addRecord", "store"} => ref[Handler] \in Objs
      /\ \A o \in Objs : ref'[o] = ref[o]
  BY DEF Undisturbed, TInv, TypeOK, UsingState, Closing
<1>5. LoginInv'
  BY <1>4, LoginFrame DEF Undisturbed
<1> QED BY <1>3, <1>5

\* Arming or stopping the message timer, or arming the heart timer, of an
\* object does not disturb the watch.
LEMMA UndisturbedUpdate ==
  ASSUME TInv, NEW o \in Objs,
         NEW r \in {StopMsgTimer(state[o]), ArmMsgTimer(state[o]), ArmHeartTimer(state[o])},
         state' = [state EXCEPT ![o] = r]
  PROVE  \A p \in Objs : /\ state'[p].connID = state[p].connID
                         /\ state'[p].reConnTimer = state[p].reConnTimer
                         /\ state'[p].heartTimer \in {state[p].heartTimer, "armed"}
<1>1. state[o] \in ConnStates
  BY DEF TInv, TypeOK
<1>2. /\ r.connID = state[o].connID /\ r.reConnTimer = state[o].reConnTimer
      /\ r.heartTimer \in {state[o].heartTimer, "armed"}
  BY <1>1 DEF ConnStates, StopMsgTimer, ArmMsgTimer, ArmHeartTimer
<1> QED BY <1>2 DEF TInv, TypeOK

\* Which steps these are.
LEMMA UndisturbedSteps ==
  ASSUME TInv,
         \/ \E o \in Objs : MsgTimerFires(o) \/ RePush(o)
         \/ \E g \in Goroutines : CloseDelClientIDs(g) \/ CloseDelRoute(g) \/ CloseDelLastMsg(g)
         \/ LoginAddRecord \/ Heartbeat \/ CompareAndIncr \/ PushMsg \/ AppendArm
         \/ AppendSetBytes \/ AckLastMsg
         \/ \E s \in Slots : \/ RecoverSMEMBERS(s) \/ RecoverGetLast(s)
                             \/ RecoverArm(s) \/ RecoverDone(s)
         \/ \E c \in ConnIDs : Client(c)
         \/ Start \/ UNCHANGED vars
  PROVE  Undisturbed
<1> USE DEF TInv, TypeOK, UsingState, Closing, Undisturbed, Goto, Done
<1>1. CASE \E o \in Objs : MsgTimerFires(o)
  BY <1>1, UndisturbedUpdate DEF MsgTimerFires
<1>2. CASE \E o \in Objs : RePush(o)
  <2>1. CASE \E o \in Objs : rePushArm(o)
    BY <2>1, UndisturbedUpdate DEF rePushArm, LiveInv
  <2> QED BY <1>2, <2>1 DEF RePush, rePushGet, rePushLoad
<1>3. CASE \E g \in Goroutines : CloseDelClientIDs(g) \/ CloseDelRoute(g) \/ CloseDelLastMsg(g)
  BY <1>3 DEF CloseDelClientIDs, CloseDelRoute, CloseDelLastMsg
<1>4. CASE LoginAddRecord \/ CompareAndIncr \/ PushMsg \/ AppendSetBytes
  BY <1>4 DEF LoginAddRecord, CompareAndIncr, PushMsg, AppendSetBytes
<1>5. CASE Heartbeat
  BY <1>5, UndisturbedUpdate DEF Heartbeat
<1>6. CASE AppendArm
  BY <1>6, UndisturbedUpdate DEF AppendArm
<1>7. CASE AckLastMsg
  BY <1>7, UndisturbedUpdate DEF AckLastMsg
<1>8. CASE \E s \in Slots : RecoverArm(s)
  BY <1>8, UndisturbedUpdate DEF RecoverArm, LiveInv
<1>9. CASE \E s \in Slots : RecoverSMEMBERS(s) \/ RecoverGetLast(s) \/ RecoverDone(s)
  BY <1>9 DEF RecoverSMEMBERS, RecoverGetLast, RecoverDone
<1>10. CASE \E c \in ConnIDs : Client(c)
  <2>1. ASSUME NEW m, Handle(m) PROVE Undisturbed
    <3>1. FirstStep(m) \notin {"addRecord", "store"}
      BY DEF FirstStep
    <3> QED BY <2>1, <3>1 DEF Handle, Receive
  <2>2. ASSUME NEW m, HandleLateReConn(m) PROVE Undisturbed
    BY <2>2 DEF HandleLateReConn, Receive
  <2>3. ASSUME NEW m, HandleDropped(m) PROVE Undisturbed
    BY <2>3 DEF HandleDropped, vars
  <2>4. ASSUME NEW c \in ConnIDs, ClientGone(c) PROVE Undisturbed
    BY <2>4 DEF ClientGone
  <2> QED BY <1>10, <2>1, <2>2, <2>3, <2>4 DEF Client, CancelConn, HandleLogin, HandleReConn,
             HandleHeartbeat, HandleUp, HandleAck, HandleOrDrop
<1>11. CASE Start \/ UNCHANGED vars
  BY <1>11 DEF Start, vars
<1> QED BY <1>1, <1>2, <1>3, <1>4, <1>5, <1>6, <1>7, <1>8, <1>9, <1>10, <1>11

\* The watch passes from the heart timer to its callback, from there to the
\* reconnect timer and on to the callback that logs the connection out.
LEMMA W_HeartTimerFires ==
  ASSUME RedisFast, TInv, LoginInv, EveryConnIsWatched, NEW o \in Objs,
         HeartTimerFires(o) \/ ReConnTimerFires(o) \/ reSetReConnTimer(o)
  PROVE  LoginInv' /\ EveryConnIsWatched'
<1>1. PICK r \in {StopHeartTimer(state[o]), StopReConnTimer(state[o]), ArmReConnTimer(state[o])} :
        state' = [state EXCEPT ![o] = r]
  BY DEF HeartTimerFires, ReConnTimerFires, reSetReConnTimer
<1>2. /\ state'[o] = r
      /\ \A p \in Objs : p # o => state'[p] = state[p]
      /\ \A p \in Objs : state'[p].connID = state[p].connID
  BY <1>1, TimerUpdate DEF TInv, TypeOK, TimerOps
<1>3. state[o] \in ConnStates
  BY DEF TInv, TypeOK
<1>4. Watched(o)'
  <2>1. CASE HeartTimerFires(o)
    BY <2>1 DEF HeartTimerFires, Watched
  <2>2. CASE ReConnTimerFires(o)
    BY <2>2 DEF ReConnTimerFires, Watched, Goto, TInv, TypeOK
  <2>3. CASE reSetReConnTimer(o)
    BY <1>3, <2>3 DEF reSetReConnTimer, ArmReConnTimer, Watched, ConnStates, TInv, TypeOK
  <2> QED BY <2>1, <2>2, <2>3
<1>5. /\ \A p \in Objs : p # o => (Watched(p) => Watched(p)')
      /\ \A g \in Goroutines, c \in ConnIDs : InClose(g, c) => InClose(g, c)'
      /\ UNCHANGED <<table, torn, ref>> /\ pc'[Handler] = pc[Handler]
  BY <1>2 DEF HeartTimerFires, ReConnTimerFires, reSetReConnTimer, Watched, InClose, Goto,
     TInv, TypeOK, UsingState, Closing
<1>6. pc[Handler] \in {"addRecord", "store"} =>
        state'[ref[Handler]].heartTimer = state[ref[Handler]].heartTimer
  <2> SUFFICES ASSUME pc[Handler] \in {"addRecord", "store"}
               PROVE  state'[ref[Handler]].heartTimer = state[ref[Handler]].heartTimer
    OBVIOUS
  <2>1. r.heartTimer = state[o].heartTimer /\ ref[Handler] \in Objs
    BY <1>1, <1>3 DEF HeartTimerFires, ReConnTimerFires, reSetReConnTimer, Prompt, ArmReConnTimer,
       StopReConnTimer, ConnStates, TInv, TypeOK, UsingState
  <2> QED BY <1>2, <2>1
<1> QED BY <1>4, <1>5, <1>6, WatchFrame, LoginFrame

\* From its first step on, a close answers for its connection.
LEMMA W_CloseStart ==
  ASSUME RedisFast, TInv, LoginInv, EveryConnIsWatched, NEW g \in Goroutines, CloseStart(g)
  PROVE  LoginInv' /\ EveryConnIsWatched'
<1> USE DEF TInv
<1> DEFINE o == ref[g]
           c == state[o].connID
<1>1. /\ o \in Objs /\ c \in ConnIDs /\ StopTimers(state[o]) \in TimerOps(state[o])
      /\ state' = [state EXCEPT ![o] = StopTimers(state[o])]
      /\ pc' = [pc EXCEPT ![g] = "delClientIDs"] /\ pc[g] = "close"
      /\ UNCHANGED <<ref, table, heartGo, torn>>
  BY DEF TypeOK, LiveInv, Live, CloseStart, TimerOps, UsingState, Goto
<1>2. /\ state' \in [Objs -> ConnStates]
      /\ state'[o] = StopTimers(state[o])
      /\ \A p \in Objs : p # o => state'[p] = state[p]
      /\ \A p \in Objs : state'[p].connID = state[p].connID /\ state'[p].did = state[p].did
  BY <1>1, TimerUpdate DEF TypeOK
<1>3. \A h \in Goroutines, d \in ConnIDs : InClose(h, d) => InClose(h, d)'
  BY <1>1, <1>2 DEF TypeOK, InClose, Closing, UsingState
<1>4. \A d \in ConnIDs : d = c => ClosingConn(d)'
  <2>1. InClose(g, c)
    BY <1>1 DEF InClose
  <2> QED BY <1>1, <1>3, <2>1 DEF ClosingConn
<1>5. \A p \in Objs, d \in ConnIDs : Watched(p) /\ table[d] = p => Watched(p)' \/ ClosingConn(d)'
  <2> SUFFICES ASSUME NEW p \in Objs, NEW d \in ConnIDs, Watched(p), table[d] = p, d # c
               PROVE  Watched(p)'
    BY <1>4
  <2>1. p # o
    BY DEF KeyInv
  <2> QED BY <1>1, <1>2, <2>1 DEF TypeOK, Watched
<1>6. EveryConnIsWatched'
  BY <1>1, <1>3, <1>5, WatchFrame
<1>7. LoginInv'
  <2>1. pc'[Handler] \in {"addRecord", "store"} =>
          pc[Handler] \in {"addRecord", "store"} /\ ref'[Handler] = ref[Handler]
    BY <1>1 DEF TypeOK
  <2>2. pc[Handler] \in {"addRecord", "store"} => ref[Handler] # o /\ ref[Handler] \in Objs
    <3> SUFFICES ASSUME pc[Handler] \in {"addRecord", "store"}
                 PROVE  ref[Handler] # o /\ ref[Handler] \in Objs
      OBVIOUS
    <3>1. g # Handler
      BY <1>1
    <3> QED BY <3>1 DEF LoginInv, TypeOK, UsingState
  <2> QED BY <1>1, <1>2, <2>1, <2>2, LoginFrame
<1> QED BY <1>6, <1>7

\* A timed out connection: once the table's object is loaded its close is on.
LEMMA W_connLogOut ==
  ASSUME RedisFast, TInv, LoginInv, EveryConnIsWatched, NEW o \in Objs, connLogOut(o)
  PROVE  LoginInv' /\ EveryConnIsWatched'
<1> USE DEF TInv
<1> DEFINE c == state[o].connID
           s == table[c]
<1>1. c \in ConnIDs /\ s \in Objs \cup {Nil} /\ o \in Goroutines /\ o # Handler
  BY DEF TypeOK, LiveInv, Live, connLogOut
<1>2. /\ pc' = [pc EXCEPT ![o] = IF s = Nil THEN "idle" ELSE "close"]
      /\ ref' = [ref EXCEPT ![o] = s]
  <2>1. CASE s = Nil
    BY <2>1 DEF connLogOut, Found, Done, Goto
  <2>2. CASE s # Nil
    BY <2>2 DEF connLogOut, Found, Goto
  <2> QED BY <2>1, <2>2
<1>3. UNCHANGED <<table, state, heartGo, torn>>
  BY DEF connLogOut, memory
<1>4. s # Nil => state[s].connID = c
  BY <1>1 DEF KeyInv
<1> HIDE DEF s
<1>5. \A p \in Objs, d \in ConnIDs : Watched(p) /\ table[d] = p =>
         Watched(p)' \/ ClosingConn(d)'
  <2> SUFFICES ASSUME NEW p \in Objs, Watched(p), NEW d \in ConnIDs, table[d] = p
               PROVE  Watched(p)' \/ ClosingConn(d)'
    OBVIOUS
  <2>1. CASE p # o
    BY <1>1, <1>2, <1>3, <2>1 DEF TypeOK, Watched
  <2>2. CASE p = o
    <3>1. d = c /\ s # Nil
      BY <2>2 DEF KeyInv, s
    <3>2. InClose(o, d)'
      BY <1>1, <1>2, <1>3, <1>4, <3>1 DEF TypeOK, InClose
    <3> QED BY <1>1, <2>2, <3>2 DEF ClosingConn
  <2> QED BY <2>1, <2>2
<1>6. \A g \in Goroutines, d \in ConnIDs : InClose(g, d) => InClose(g, d)'
  BY <1>1, <1>2, <1>3 DEF TypeOK, InClose, connLogOut, Closing
<1>7. EveryConnIsWatched'
  BY <1>3, <1>5, <1>6, WatchFrame
<1>8. LoginInv'
  <2>1. pc'[Handler] = pc[Handler] /\ ref'[Handler] = ref[Handler]
    BY <1>1, <1>2 DEF TypeOK
  <2>2. \A p \in Objs : ref'[p] \in {ref[p], Nil} \/ \E d \in ConnIDs : ref'[p] = table[d]
    BY <1>1, <1>2 DEF TypeOK, s
  <2> QED BY <1>3, <2>1, <2>2, LoginFrame
<1> QED BY <1>7, <1>8

\* A finished close takes its connection, and no other, out of the table.
LEMMA W_CloseFinish ==
  ASSUME RedisFast, TInv, LoginInv, EveryConnIsWatched, NEW g \in Goroutines, CloseFinish(g)
  PROVE  LoginInv' /\ EveryConnIsWatched'
<1> USE DEF TInv
<1> DEFINE c == state[ref[g]].connID
<1>1. /\ ref[g] \in Objs /\ c \in ConnIDs
      /\ table' = [table EXCEPT ![c] = Nil] /\ UNCHANGED <<state, heartGo>>
      /\ torn' = torn \ {<<state[ref[g]].did, c>>}
  BY DEF TypeOK, LiveInv, Live, CloseFinish, UsingState, Closing, Pair
<1>2. \E l \in {"sadd", "idle"} : pc' = [pc EXCEPT ![g] = l]
  BY DEF CloseFinish, AfterLogOut, Done, Goto
<1>3. ref' = [ref EXCEPT ![g] = Nil]
  BY DEF CloseFinish, AfterLogOut, Done, Goto
<1>4. EveryConnIsWatched'
  <2> SUFFICES ASSUME NEW d \in ConnIDs, NEW q \in Objs, table'[d] = q
               PROVE  Watched(q)' \/ ClosingConn(d)' \/ Torn(d)'
    BY <1>1 DEF TypeOK, EveryConnIsWatched, Watched
  <2>1. d # c /\ table[d] = q
    BY <1>1 DEF TypeOK
  <2>2. CASE Watched(q)
    BY <1>1, <1>2, <2>1, <2>2 DEF TypeOK, Watched, CloseFinish, Closing
  <2>3. CASE ClosingConn(d)
    <3>1. PICK h \in Goroutines : InClose(h, d)
      BY <2>3 DEF ClosingConn
    <3>2. h # g
      BY <2>1, <3>1 DEF InClose
    <3> QED BY <1>1, <1>2, <1>3, <3>1, <3>2 DEF TypeOK, InClose, ClosingConn
  <2>4. CASE Torn(d)
    BY <1>1, <2>1, <2>4 DEF Torn
  <2> QED BY <2>1, <2>2, <2>3, <2>4 DEF EveryConnIsWatched
<1>5. LoginInv'
  <2>1. pc'[Handler] \in {"addRecord", "store"} =>
          pc[Handler] \in {"addRecord", "store"} /\ ref'[Handler] = ref[Handler]
    BY <1>2, <1>3 DEF TypeOK
  <2>2. /\ \A d \in ConnIDs : table'[d] \in {table[d], Nil}
        /\ \A p \in Objs : ref'[p] \in {ref[p], Nil}
    BY <1>1, <1>3 DEF TypeOK
  <2> QED BY <1>1, <2>1, <2>2, LoginFrame
<1> QED BY <1>4, <1>5

\* A failed close is recorded.
LEMMA W_CloseError ==
  ASSUME RedisFast, TInv, LoginInv, EveryConnIsWatched, NEW g \in Goroutines, CloseError(g)
  PROVE  LoginInv' /\ EveryConnIsWatched'
<1> USE DEF TInv
<1> DEFINE o == ref[g]
           c == state[o].connID
<1>1. /\ o \in Objs /\ c \in ConnIDs /\ StopTimers(state[o]) \in TimerOps(state[o])
      /\ state' = [state EXCEPT ![o] = StopTimers(state[o])]
      /\ pc' = [pc EXCEPT ![g] = "idle"] /\ ref' = [ref EXCEPT ![g] = Nil]
      /\ pc[g] \in Closing \cup {"close"}
  BY DEF TypeOK, LiveInv, Live, CloseError, TimerOps, UsingState, Closing, Done, Goto
<1>2. /\ state' \in [Objs -> ConnStates]
      /\ state'[o] = StopTimers(state[o])
      /\ \A p \in Objs : p # o => state'[p] = state[p]
      /\ \A p \in Objs : state'[p].connID = state[p].connID /\ state'[p].did = state[p].did
  BY <1>1, TimerUpdate DEF TypeOK
<1>3. /\ \A d \in ConnIDs : d = c => Torn(d)'
      /\ torn \subseteq torn' /\ table' = table /\ heartGo' = heartGo
  BY <1>1 DEF TypeOK, CloseError, Torn, Pair, ConnStates
<1>4. \A p \in Objs, d \in ConnIDs : Watched(p) /\ table[d] = p => Watched(p)' \/ Torn(d)'
  <2> SUFFICES ASSUME NEW p \in Objs, NEW d \in ConnIDs, Watched(p), table[d] = p, d # c
               PROVE  Watched(p)'
    BY <1>3
  <2>1. p # o
    BY DEF KeyInv
  <2> QED BY <1>1, <1>2, <1>3, <2>1 DEF TypeOK, Watched, Closing
<1>5. \A h \in Goroutines, d \in ConnIDs : InClose(h, d) => InClose(h, d)' \/ Torn(d)'
  <2> SUFFICES ASSUME NEW h \in Goroutines, NEW d \in ConnIDs, InClose(h, d), d # c
               PROVE  InClose(h, d)'
    BY <1>3
  <2>1. h # g /\ ref[h] \in Objs
    BY DEF InClose, TypeOK, UsingState, Closing
  <2> QED BY <1>1, <1>2, <2>1 DEF TypeOK, InClose
<1>6. EveryConnIsWatched'
  BY <1>2, <1>3, <1>4, <1>5, WatchFrame
<1>7. LoginInv'
  <2>1. pc'[Handler] \in {"addRecord", "store"} =>
          pc[Handler] \in {"addRecord", "store"} /\ ref'[Handler] = ref[Handler]
    BY <1>1 DEF TypeOK
  <2>2. pc[Handler] \in {"addRecord", "store"} => ref[Handler] # o /\ ref[Handler] \in Objs
    <3> SUFFICES ASSUME pc[Handler] \in {"addRecord", "store"}
                 PROVE  ref[Handler] # o /\ ref[Handler] \in Objs
      OBVIOUS
    <3>1. g # Handler
      BY <1>1 DEF Closing
    <3> QED BY <3>1 DEF LoginInv, TypeOK, UsingState
  <2>3. \A p \in Objs : ref'[p] \in {ref[p], Nil}
    BY <1>1 DEF TypeOK
  <2> QED BY <1>2, <1>3, <2>1, <2>2, <2>3, LoginFrame
<1> QED BY <1>6, <1>7

\* A new object is armed before anyone knows it ...
LEMMA W_LoginSADD ==
  ASSUME RedisFast, TInv, LoginInv, EveryConnIsWatched, LoginSADD
  PROVE  LoginInv' /\ EveryConnIsWatched'
<1> USE DEF TInv
<1>1. /\ req \in Commands /\ req.conn \in ConnIDs /\ req.arg \in AllDids
      /\ Handler \in Goroutines
  BY DEF ReqInv, LoginSADD, Commands
<1>2. PICK o \in Objs : /\ Unused(o)
                        /\ state' = [state EXCEPT ![o] = NewConnState(req.arg, req.conn)]
                        /\ ref' = [ref EXCEPT ![Handler] = o]
  BY DEF LoginSADD
<1>3. /\ state'[o].heartTimer = "armed"
      /\ \A p \in Objs : p # o => state'[p] = state[p]
      /\ pc' = [pc EXCEPT ![Handler] = "addRecord"] /\ UNCHANGED <<table, heartGo, torn>>
  BY <1>1, <1>2, NewStateType DEF TypeOK, LoginSADD, Goto
<1>4. EveryConnIsWatched'
  <2> SUFFICES ASSUME NEW d \in ConnIDs, NEW q \in Objs, table[d] = q
               PROVE  Watched(q)' \/ ClosingConn(d)' \/ Torn(d)'
    BY <1>3 DEF TypeOK, EveryConnIsWatched, Watched
  <2>1. q # o
    BY <1>2 DEF Unused
  <2>2. CASE Watched(q)
    BY <1>2, <1>3, <2>1, <2>2 DEF TypeOK, Watched
  <2>3. CASE ClosingConn(d)
    <3>1. PICK h \in Goroutines : InClose(h, d)
      BY <2>3 DEF ClosingConn
    <3>2. h # Handler /\ ref[h] # o /\ ref[h] \in Objs
      BY <1>2, <3>1 DEF InClose, LoginSADD, Closing, Unused, TypeOK, UsingState
    <3> QED BY <1>2, <1>3, <3>1, <3>2 DEF TypeOK, InClose, ClosingConn
  <2>4. CASE Torn(d)
    BY <1>3, <2>4 DEF Torn
  <2> QED BY <2>2, <2>3, <2>4 DEF EveryConnIsWatched
<1>5. LoginInv'
  BY <1>1, <1>2, <1>3 DEF LoginInv, Unused, TypeOK
<1> QED BY <1>4, <1>5

\* ... and is still armed when it enters the table.
LEMMA W_LoginStore ==
  ASSUME RedisFast, TInv, LoginInv, EveryConnIsWatched, LoginStore
  PROVE  LoginInv' /\ EveryConnIsWatched'
<1> USE DEF TInv
<1>1. /\ req.conn \in ConnIDs /\ ref[Handler] \in Objs /\ Handler \in Goroutines
      /\ pc' = [pc EXCEPT ![Handler] = "idle"] /\ ref' = [ref EXCEPT ![Handler] = Nil]
      /\ table' = [table EXCEPT ![req.conn] = ref[Handler]]
      /\ UNCHANGED <<state, heartGo, torn>>
      /\ state[ref[Handler]].heartTimer = "armed"
  BY DEF TypeOK, ReqInv, LoginInv, LoginStore, Commands, UsingState, Done, Goto
<1>2. EveryConnIsWatched'
  <2> SUFFICES ASSUME NEW d \in ConnIDs, NEW q \in Objs, table'[d] = q
               PROVE  Watched(q)' \/ ClosingConn(d)' \/ Torn(d)'
    BY <1>1 DEF TypeOK, EveryConnIsWatched, Watched
  <2>1. CASE d = req.conn
    BY <1>1, <2>1 DEF TypeOK, Watched
  <2>2. CASE d # req.conn
    <3>1. table[d] = q
      BY <1>1, <2>2 DEF TypeOK
    <3>2. CASE Watched(q)
      BY <1>1, <3>1, <3>2 DEF TypeOK, Watched
    <3>3. CASE ClosingConn(d)
      BY <1>1, <3>3 DEF TypeOK, ClosingConn, InClose, LoginStore, Closing
    <3>4. CASE Torn(d)
      BY <1>1, <3>4 DEF Torn
    <3> QED BY <3>1, <3>2, <3>3, <3>4 DEF EveryConnIsWatched
  <2> QED BY <2>1, <2>2
<1>3. pc'[Handler] = "idle"
  BY <1>1 DEF TypeOK
<1> QED BY <1>2, <1>3 DEF LoginInv

\* A recovered object, which may replace one that a login stored.
LEMMA W_RecoverStore ==
  ASSUME RedisFast, TInv, LoginInv, EveryConnIsWatched, NEW s \in Slots, RecoverStore(s)
  PROVE  LoginInv' /\ EveryConnIsWatched'
<1> USE DEF TInv
<1>1. PICK p \in recTodo[s], o \in Objs :
        /\ Unused(o)
        /\ state' = [state EXCEPT ![o] = NewConnState(p[1], p[2])]
        /\ table' = [table EXCEPT ![p[2]] = o]
  BY DEF RecoverStore
<1>2. p[1] \in AllDids /\ p[2] \in ConnIDs
  BY DEF TypeOK
<1>3. /\ state'[o].heartTimer = "armed"
      /\ \A q \in Objs : q # o => state'[q] = state[q]
      /\ UNCHANGED <<pc, ref, req, heartGo, torn>>
  BY <1>1, <1>2, NewStateType DEF TypeOK, RecoverStore, handler
<1>4. EveryConnIsWatched'
  <2> SUFFICES ASSUME NEW d \in ConnIDs, NEW q \in Objs, table'[d] = q
               PROVE  Watched(q)' \/ ClosingConn(d)' \/ Torn(d)'
    BY <1>1, <1>2 DEF TypeOK, EveryConnIsWatched, Watched
  <2>1. CASE d = p[2]
    BY <1>1, <1>2, <1>3, <2>1 DEF TypeOK, Watched
  <2>2. CASE d # p[2]
    <3>1. table[d] = q /\ q # o
      BY <1>1, <1>2, <2>2 DEF TypeOK, Unused
    <3>2. CASE Watched(q)
      BY <1>3, <3>1, <3>2 DEF Watched
    <3>3. CASE ClosingConn(d)
      <4>1. PICK h \in Goroutines : InClose(h, d)
        BY <3>3 DEF ClosingConn
      <4>2. ref[h] # o /\ ref[h] \in Objs
        BY <1>1, <4>1 DEF InClose, Unused, TypeOK, UsingState, Closing
      <4> QED BY <1>3, <4>1, <4>2 DEF InClose, ClosingConn
    <3>4. CASE Torn(d)
      BY <1>3, <3>4 DEF Torn
    <3> QED BY <3>1, <3>2, <3>3, <3>4 DEF EveryConnIsWatched
  <2> QED BY <2>1, <2>2
<1>5. LoginInv'
  <2> SUFFICES ASSUME pc[Handler] \in {"addRecord", "store"}
               PROVE  /\ state'[ref[Handler]].heartTimer = "armed"
                      /\ \A c \in ConnIDs : table'[c] # ref[Handler]
                      /\ \A q \in Objs : ref[q] # ref[Handler]
    BY <1>3 DEF LoginInv
  <2>1. ref[Handler] \in Objs /\ ref[Handler] # o
    BY <1>1 DEF TypeOK, UsingState, Unused
  <2> QED BY <1>1, <1>2, <1>3, <2>1 DEF LoginInv, TypeOK
<1> QED BY <1>4, <1>5

\* A dead process watches nothing and has nothing to watch.
LEMMA W_Crash ==
  ASSUME RedisFast, TInv, LoginInv, EveryConnIsWatched, Crash \/ PushPanics \/ ReConnPanics
  PROVE  LoginInv' /\ EveryConnIsWatched'
<1>1. Lose
  BY DEF Crash, PushPanics, ReConnPanics
<1>2. pc'[Handler] = "idle" /\ \A c \in ConnIDs : table'[c] = Nil
  BY <1>1 DEF Lose
<1> QED BY <1>2 DEF LoginInv, EveryConnIsWatched

\* The inductive invariant behind EveryConnIsWatched.
WInv == TInv /\ LoginInv /\ EveryConnIsWatched

\* Nothing is logged in at first.
LEMMA WInvInit == Init => WInv
<1>1. Init => LoginInv /\ EveryConnIsWatched
  BY DEF Init, LoginInv, EveryConnIsWatched
<1> QED BY <1>1, TInvInit DEF WInv

\* The actions that disturb the watch one by one, all others at once.
LEMMA WInvStep == RedisFast /\ WInv /\ [Next]_vars => WInv'
<1> SUFFICES ASSUME RedisFast, TInv, LoginInv, EveryConnIsWatched, [Next]_vars
             PROVE  LoginInv' /\ EveryConnIsWatched'
  BY TInvStep DEF WInv
<1>1. CASE Undisturbed
  BY <1>1, UndisturbedWatch
<1>2. ASSUME NEW g \in Goroutines, Close(g) PROVE LoginInv' /\ EveryConnIsWatched'
  BY <1>1, <1>2, UndisturbedSteps, W_CloseStart, W_CloseFinish DEF Close
<1>3. CASE cmdHandler
  BY <1>1, <1>2, <1>3, UndisturbedSteps, W_LoginSADD, W_LoginStore, W_Crash DEF cmdHandler
<1>4. ASSUME NEW o \in Objs,
             \/ HeartTimerFires(o) \/ ReConnTimerFires(o) \/ MsgTimerFires(o)
             \/ reSetReConnTimer(o) \/ LogOut(o) \/ RePush(o)
      PROVE  LoginInv' /\ EveryConnIsWatched'
  BY <1>1, <1>2, <1>4, UndisturbedSteps, W_HeartTimerFires, W_connLogOut DEF LogOut
<1>5. ASSUME NEW s \in Slots, Recover(s) PROVE LoginInv' /\ EveryConnIsWatched'
  BY <1>1, <1>5, UndisturbedSteps, W_RecoverStore DEF Recover
<1> QED BY <1>1, <1>3, <1>4, <1>5, UndisturbedSteps, W_CloseError, W_Crash DEF Next

\* However logins, heartbeats, recoveries, closes, failing Redis commands,
\* panics and crashes interleave, a connection in the table has a timer or a
\* callback that logs it out when its client falls silent, its close is under
\* way, or a close of it was interrupted; for any number of connections,
\* devices, slots and crashes, provided that a login is done with Redis before
\* its heart timer of 5 s expires.
THEOREM WatchedForever ==
  ASSUME RedisFast
  PROVE  Spec => []EveryConnIsWatched
<1>1. WInv /\ [Next]_vars => WInv'
  BY WInvStep
<1>2. WInv => EveryConnIsWatched
  BY DEF WInv
<1> QED BY <1>1, <1>2, WInvInit, PTL DEF Spec

-----------------------------------------------------------------------------
(* Sessions: routes, login slots and logouts.                               *)

\* Device d holds connection c, as far as Redis, a recovery or an object says.
Claim(d, c) ==
  \/ <<d, c>> \in loginSlot
  \/ \E s \in Slots : <<d, c>> \in recTodo[s]
  \/ \E o \in Objs : state[o].did = d /\ state[o].connID = c

\* Nothing has been done for connection c yet.
Untouched(c) ==
  /\ \A d \in AllDids : ~Claim(d, c) /\ route[d] # c /\ <<d, c>> \notin torn
  /\ c \notin loginAck /\ lastMsg[c] = NoMsg

LoggingIn == pc[Handler] \in {"addRecord", "store"}
\* cmdHandler has a login ahead of it.
Opening == pc[Handler] = "sadd" \/ (pc[Handler] \in Closing \cup {"close"} /\ req.cmd = "reconn")

\* A connection is logged in once, and untouched before.
FreshInv ==
  /\ \A c \in ConnIDs \ opened : Untouched(c)
  /\ Opening => Untouched(req.conn)
  /\ Opening \/ LoggingIn => req.conn \in opened
  /\ pc[Handler] = "sadd" \/ LoggingIn => req.cmd # "reconn"

OneDid == \A c \in ConnIDs : \A d, e \in AllDids : Claim(d, c) /\ Claim(e, c) => d = e

\* While a login is between two Redis commands no logout of its connection is
\* under way: a recovery may already have filed an object, but no timer fires.
LoginPrivate ==
  LoggingIn =>
    /\ <<req.arg, req.conn>> \in loginSlot /\ lastMsg[req.conn] = NoMsg
    /\ \A o \in Objs :
         /\ state[o].connID = req.conn => pc[o] = "idle"
         /\ pc[o] \in Closing \cup {"close"} => state[ref[o]].connID # req.conn

\* What a close has removed stays removed.
ClosedInv ==
  \A g \in Goroutines :
    /\ pc[g] \in Closing => Pair(ref[g]) \notin loginSlot
    /\ pc[g] \in {"delLastMsg", "delConn"} => route[state[ref[g]].did] # state[ref[g]].connID

RouteInv ==
  \A d \in AllDids, c \in ConnIDs :
    route[d] = c => \/ <<d, c>> \in loginSlot \/ <<d, c>> \in torn
                    \/ \E g \in Goroutines : pc[g] \in {"delClientIDs", "delRoute"} /\ Pair(ref[g]) = <<d, c>>

\* The logout of c has removed something, and is done, under way or broken off.
LogOutBegun(c) ==
  c \in delConn \/ Torn(c) \/ \E g \in Goroutines : pc[g] \in Closing /\ state[ref[g]].connID = c

SlotInv == \A c \in loginAck : (\E d \in AllDids : <<d, c>> \in loginSlot) \/ LogOutBegun(c)

\* The logout of another connection has deleted the route of device d since the
\* last login under d.
Displaced(d, c) == \E b \in ConnIDs \ {c} : <<d, b>> \in unrouted

LostInv ==
  /\ \A c \in loginAck, d \in AllDids : Claim(d, c) => route[d] # 0 \/ LogOutBegun(c) \/ Displaced(d, c)
  /\ pc[Handler] = "store" => route[req.arg] # 0 \/ Displaced(req.arg, req.conn)

SInv == FreshInv /\ OneDid /\ LoginPrivate /\ ClosedInv /\ RouteInv /\ SlotInv /\ LostInv

\* cmdHandler appends to an object of the connection it pushed to.
AppendInv == pc[Handler] \in {"append", "setBytes"} => state[ref[Handler]].connID = req.conn

DownInv == ~up => pc[Handler] = "idle" /\ (\A c \in ConnIDs : table[c] = Nil) /\ \A s \in Slots : recPc[s] = "done"

\* The message timer that a callback is about to arm belongs to its connection.
RePushInv == \A o \in Objs : rePushPc[o] = "arm" => state[rePushRef[o]].connID = state[o].connID

\* Between arming the timer and SetBytes nobody stops the timer: appendMsg holds
\* the mutex, and Redis answers before the timer can expire.
SetBytesInv ==
  pc[Handler] = "setBytes" =>
    /\ state[ref[Handler]].msgTimer = "armed"
    /\ \A o \in Objs : pc[o] \in Closing => ref[o] # ref[Handler]

\* CountedIsPushed concerns the counter, the pushes and the handler only.
LEMMA CountedStep == TInv /\ CountedIsPushed /\ [Next]_vars => CountedIsPushed'
<1> SUFFICES ASSUME TInv, CountedIsPushed, [Next]_vars, crashes' = 0,
                    NEW c \in ConnIDs, NEW k \in ClientIDs, k < maxClientID'[c]
             PROVE  k \in pushed'[c] \/ (pc'[Handler] = "push" /\ req'.conn = c /\ req'.arg = k)
  BY DEF CountedIsPushed
<1> DEFINE Old == /\ crashes' = crashes /\ maxClientID'[c] \in {maxClientID[c], 0}
                  /\ pushed[c] \subseteq pushed'[c]
           Stay == pc[Handler] = "push" => pc'[Handler] = "push" /\ req' = req
<1>0. maxClientID \in [ConnIDs -> Nat] /\ pushed \in [ConnIDs -> SUBSET ClientIDs] /\ k \in Nat /\ pc \in [Goroutines -> HandlerSteps \cup LogOutSteps]
  BY DEF TInv, TypeOK
<1>1. CASE Old /\ Stay
  <2>1. crashes = 0 /\ k < maxClientID[c]
    BY <1>0, <1>1
  <2>2. k \in pushed[c] \/ (pc[Handler] = "push" /\ req.conn = c /\ req.arg = k)
    BY <2>1 DEF CountedIsPushed
  <2> QED BY <1>1, <2>2
<1>2. CASE cmdHandler
  <2>1. CASE CompareAndIncr
    <3>1. req.conn \in ConnIDs /\ req.arg \in ClientIDs /\ req.arg \in Nat
      BY <2>1 DEF TInv, ReqInv, CompareAndIncr, Commands
    <3>2. CASE LuaCompare(req.conn, req.arg)
      <4>1. /\ maxClientID' = [maxClientID EXCEPT ![req.conn] = @ + 1] /\ maxClientID[req.conn] = req.arg
            /\ pc'[Handler] = "push" /\ req' = req /\ pushed' = pushed /\ crashes = 0 /\ pc[Handler] = "cas"
        BY <1>0, <2>1, <3>2 DEF CompareAndIncr, LuaCompare, Goto
      <4>2. CASE c = req.conn /\ k = req.arg
        BY <4>1, <4>2
      <4>3. CASE ~(c = req.conn /\ k = req.arg)
        <5>1. k < maxClientID[c]
          BY <1>0, <3>1, <4>1, <4>3
        <5> QED BY <4>1, <5>1 DEF CountedIsPushed
      <4> QED BY <4>2, <4>3
    <3>3. CASE ~LuaCompare(req.conn, req.arg)
      BY <1>1, <2>1, <3>3 DEF CompareAndIncr
    <3> QED BY <3>2, <3>3
  <2>2. CASE PushMsg \/ PushPanics
    <3>1. /\ pc[Handler] = "push" /\ pushed' = [pushed EXCEPT ![req.conn] = @ \cup {req.arg}]
          /\ maxClientID' = maxClientID /\ crashes' = crashes
      BY <2>2 DEF PushMsg, PushPanics, Push, Lose
    <3> QED BY <1>0, <3>1 DEF CountedIsPushed
  <2>3. CASE Close(Handler)
    BY <1>0, <1>1, <2>3 DEF Close, CloseStart, CloseDelClientIDs, CloseDelRoute, CloseDelLastMsg, CloseFinish,
       TInv, TypeOK, LiveInv, Live, UsingState, Closing
  <2>4. CASE ReConnPanics
    BY <1>1, <2>4 DEF ReConnPanics, Lose
  <2> QED BY <1>1, <1>2, <2>1, <2>2, <2>3, <2>4
          DEF cmdHandler, LoginSADD, LoginAddRecord, LoginStore, Heartbeat, AppendArm, AppendSetBytes, AckLastMsg
<1>3. ASSUME NEW o \in Objs, LogOut(o) PROVE Old /\ Stay
  <2>1. o # Handler
    OBVIOUS
  <2> QED BY <1>0, <1>3, <2>1 DEF LogOut, connLogOut, Close, CloseStart, CloseDelClientIDs, CloseDelRoute,
             CloseDelLastMsg, CloseFinish, AfterLogOut, Done, Goto, TInv, TypeOK, LiveInv, Live, UsingState, Closing
<1>4. ASSUME NEW o \in Objs, \/ HeartTimerFires(o) \/ ReConnTimerFires(o) \/ MsgTimerFires(o)
                             \/ reSetReConnTimer(o) \/ RePush(o)
      PROVE  Old /\ Stay
  BY <1>0, <1>4 DEF HeartTimerFires, ReConnTimerFires, MsgTimerFires, reSetReConnTimer, RePush, rePushGet,
     rePushLoad, rePushArm, Goto, Push, TInv, LiveInv, Live
<1>5. ASSUME NEW g \in Goroutines, CloseError(g) PROVE Old /\ Stay
  BY <1>0, <1>5 DEF CloseError, Done, Goto
<1>6. ASSUME NEW s \in Slots, Recover(s) PROVE Old /\ Stay
  BY <1>6 DEF Recover, RecoverSMEMBERS, RecoverStore, RecoverGetLast, RecoverArm, RecoverDone
<1>7. ASSUME NEW b \in ConnIDs, Client(b) PROVE Old /\ Stay
  BY <1>7 DEF Client, CancelConn, HandleLogin, HandleReConn, HandleHeartbeat, HandleUp, HandleAck, HandleOrDrop,
     Handle, HandleLateReConn, HandleDropped, Receive, ClientGone, vars
<1>8. CASE Crash
  BY <1>8, BoundAssumption DEF Crash, TInv, TypeOK
<1>9. CASE Start \/ UNCHANGED vars
  BY <1>1, <1>9 DEF Start, vars
<1> HIDE DEF Old, Stay
<1> QED BY <1>1, <1>2, <1>3, <1>4, <1>5, <1>6, <1>7, <1>8, <1>9 DEF Next

\* Every uplink message the Lua script counted reaches the gateway or is about
\* to, the panic of pushMsg included, for any number of connections, messages
\* and callbacks, as long as the process is not crashed from outside.
THEOREM CountedReachesPush == Spec => []CountedIsPushed
<1>1. Init => CountedIsPushed
  <2> SUFFICES ASSUME Init, NEW c \in ConnIDs, NEW k \in ClientIDs PROVE ~(k < maxClientID[c])
    BY DEF CountedIsPushed
  <2> QED BY DEF Init
<1> QED BY <1>1, TInvInit, TInvStep, CountedStep, PTL DEF Spec

-----------------------------------------------------------------------------
(* The session invariant SInv, step by step.                                *)

\* An object keeps its device and its connection.
SameIds == \A o \in Objs : state'[o].connID = state[o].connID /\ state'[o].did = state[o].did

LEMMA IdsOfUpdate ==
  ASSUME TInv, NEW o \in Objs, NEW r \in TimerOps(state[o]), state' = [state EXCEPT ![o] = r]
  PROVE  SameIds
  BY TimerUpdate DEF TInv, TypeOK, SameIds

\* The steps of cmdHandler that have to do with logins and logouts.
SessionPcs == Closing \cup {"close", "sadd", "addRecord", "store"}

\* What a goroutine may do in a step that concerns no session: stay where it is,
\* take a step of close that touches neither slot nor route, have its timer fire,
\* load an object of its own connection, or, as cmdHandler, serve other commands.
CalmMove(g) ==
  \/ pc'[g] = pc[g] /\ ref'[g] = ref[g]
  \/ pc[g] = "delClientIDs" /\ pc'[g] = "delRoute" /\ ref'[g] = ref[g]
  \/ pc[g] = "delLastMsg" /\ pc'[g] = "delConn" /\ ref'[g] = ref[g]
  \/ g \in Objs /\ ~LoggingIn /\ pc[g] = "idle" /\ pc'[g] = "load"
  \/ g \in Objs /\ pc[g] = "load" /\ pc'[g] = "idle"
  \/ /\ g \in Objs /\ pc[g] = "load" /\ pc'[g] = "close"
     /\ ref'[g] \in Objs /\ state[ref'[g]].connID = state[g].connID
  \/ g = Handler /\ pc[g] \notin SessionPcs /\ pc'[g] \notin SessionPcs
Calm ==
  /\ UNCHANGED <<loginSlot, route, torn, unrouted, recTodo, loginAck, delConn, opened>> /\ SameIds
  /\ \A c \in ConnIDs :
       lastMsg'[c] \in {lastMsg[c], NoMsg} \/ (pc[Handler] = "setBytes" /\ state[ref[Handler]].connID = c)
  /\ \A g \in Goroutines : CalmMove(g)
  /\ pc[Handler] \in SessionPcs => req' = req

\* Claims, and what has been done for a connection, are as they were.
LEMMA ClaimKept ==
  ASSUME SameIds, UNCHANGED <<loginSlot, recTodo>>, NEW d, NEW c
  PROVE  Claim(d, c)' <=> Claim(d, c)
  BY DEF SameIds, Claim

\* What disturbs neither routes nor claims loses no route.
LEMMA LostKept ==
  ASSUME TInv, LostInv, UNCHANGED <<route, unrouted, loginAck>>,
         \A d \in AllDids, c \in ConnIDs : Claim(d, c)' => Claim(d, c),
         \A c \in ConnIDs : LogOutBegun(c) => LogOutBegun(c)',
         pc'[Handler] = "store" => pc[Handler] = "store" /\ req' = req
  PROVE  LostInv'
<1>1. loginAck \subseteq ConnIDs
  BY DEF TInv, TypeOK
<1> QED BY <1>1 DEF LostInv, Displaced

LEMMA CalmKeeps == ASSUME TInv, SInv, Calm PROVE SInv'
<1>1. \A d \in AllDids, c \in ConnIDs : Claim(d, c)' <=> Claim(d, c)
  BY ClaimKept DEF Calm
<1>2. \A c \in ConnIDs : Untouched(c) => Untouched(c)'
  <2> SUFFICES ASSUME NEW c \in ConnIDs, Untouched(c) PROVE Untouched(c)'
    OBVIOUS
  <2>1. ~(pc[Handler] = "setBytes" /\ state[ref[Handler]].connID = c)
    <3> SUFFICES ASSUME pc[Handler] = "setBytes" PROVE state[ref[Handler]].connID # c
      OBVIOUS
    <3>1. ref[Handler] \in Objs /\ state[ref[Handler]].did \in AllDids
      BY DEF TInv, TypeOK, UsingState, ConnStates
    <3> QED BY <3>1 DEF Untouched, Claim
  <2>2. lastMsg'[c] = NoMsg
    BY <2>1 DEF Calm, Untouched
  <2> QED BY <1>1, <2>2 DEF Calm, Untouched
<1>3. /\ pc'[Handler] \in SessionPcs => pc[Handler] \in SessionPcs /\ req' = req
      /\ Opening' => Opening
      /\ LoggingIn' <=> LoggingIn
      /\ pc'[Handler] = "sadd" <=> pc[Handler] = "sadd"
      /\ pc'[Handler] = "store" <=> pc[Handler] = "store"
  BY DEF Calm, CalmMove, SessionPcs, Opening, LoggingIn, Closing
<1>4. pc[Handler] \in SessionPcs => req.conn \in ConnIDs
  BY DEF TInv, ReqInv, Commands, SessionPcs, Closing
<1>5. \A g \in Goroutines : pc'[g] \in Closing =>
        /\ pc[g] \in Closing /\ ref'[g] = ref[g] /\ ref[g] \in Objs /\ Pair(ref[g])' = Pair(ref[g])
        /\ pc'[g] \in {"delLastMsg", "delConn"} => pc[g] \in {"delLastMsg", "delConn"}
  BY DEF Calm, CalmMove, SameIds, Closing, SessionPcs, Pair, TInv, TypeOK, UsingState
<1>6. \A g \in Goroutines : pc[g] \in Closing =>
        /\ pc'[g] \in Closing /\ ref'[g] = ref[g] /\ ref[g] \in Objs /\ Pair(ref[g])' = Pair(ref[g])
        /\ pc[g] \in {"delClientIDs", "delRoute"} => pc'[g] \in {"delClientIDs", "delRoute"}
  BY DEF Calm, CalmMove, SameIds, Closing, SessionPcs, Pair, TInv, TypeOK, UsingState
<1>7. FreshInv'
  <2>1. \A c \in ConnIDs \ opened' : Untouched(c)'
    BY <1>2 DEF Calm, SInv, FreshInv
  <2>2. Opening' => Untouched(req.conn)'
    BY <1>2, <1>3, <1>4 DEF SInv, FreshInv, Untouched, Opening, SessionPcs
  <2>3. /\ Opening' \/ LoggingIn' => req'.conn \in opened'
        /\ pc'[Handler] = "sadd" \/ LoggingIn' => req'.cmd # "reconn"
    BY <1>3 DEF Calm, SInv, FreshInv, Opening, LoggingIn, SessionPcs
  <2> QED BY <2>1, <2>2, <2>3 DEF FreshInv
<1>8. OneDid'
  BY <1>1 DEF SInv, OneDid
<1>9. LoginPrivate'
  <2> SUFFICES ASSUME LoggingIn
               PROVE  /\ <<req.arg, req.conn>> \in loginSlot /\ lastMsg'[req.conn] = NoMsg
                      /\ \A o \in Objs :
                           /\ state'[o].connID = req.conn => pc'[o] = "idle"
                           /\ pc'[o] \in Closing \cup {"close"} => state'[ref'[o]].connID # req.conn
    BY <1>3 DEF LoginPrivate, Calm, LoggingIn, SessionPcs
  <2>1. lastMsg'[req.conn] = NoMsg
    BY <1>4 DEF SInv, LoginPrivate, Calm, LoggingIn, SessionPcs
  <2>2. ASSUME NEW o \in Objs, state'[o].connID = req.conn PROVE pc'[o] = "idle"
    BY <2>2 DEF SInv, LoginPrivate, Calm, CalmMove, SameIds, LoggingIn
  <2>3. ASSUME NEW o \in Objs, pc'[o] \in Closing \cup {"close"} PROVE state'[ref'[o]].connID # req.conn
    <3>1. /\ ref'[o] \in Objs
          /\ \/ pc[o] \in Closing \cup {"close"} /\ ref'[o] = ref[o]
             \/ pc[o] = "load" /\ state[ref'[o]].connID = state[o].connID
      BY <2>3 DEF Calm, CalmMove, Closing, TInv, TypeOK, UsingState
    <3> QED BY <3>1 DEF SInv, LoginPrivate, Calm, SameIds
  <2> QED BY <2>1, <2>2, <2>3 DEF SInv, LoginPrivate
<1>10. ClosedInv'
  BY <1>5 DEF SInv, ClosedInv, Calm, SameIds, Closing
<1>11. RouteInv'
  BY <1>6 DEF SInv, RouteInv, Calm, Closing
<1>12. \A c \in ConnIDs : LogOutBegun(c) => LogOutBegun(c)'
  BY <1>6 DEF LogOutBegun, Torn, Calm, SameIds
<1>13. SlotInv'
  <2>1. loginAck \subseteq ConnIDs
    BY DEF TInv, TypeOK
  <2> QED BY <1>12, <2>1 DEF SInv, SlotInv, Calm
<1>14. LostInv'
  BY <1>1, <1>3, <1>12, LostKept DEF SInv, Calm, SessionPcs
<1> QED BY <1>7, <1>8, <1>9, <1>10, <1>11, <1>13, <1>14 DEF SInv

\* Which steps concern no session.  A reconnect timer that fired during a login
\* would: here the promptness of Redis is used.
LEMMA CalmSteps ==
  ASSUME RedisFast, TInv,
         \/ \E o \in Objs : \/ HeartTimerFires(o) \/ ReConnTimerFires(o) \/ MsgTimerFires(o)
                            \/ reSetReConnTimer(o) \/ connLogOut(o) \/ RePush(o)
         \/ \E g \in Goroutines : CloseDelClientIDs(g) \/ CloseDelLastMsg(g)
         \/ Heartbeat \/ CompareAndIncr \/ PushMsg \/ AppendArm \/ AckLastMsg
         \/ \E s \in Slots : RecoverGetLast(s) \/ RecoverArm(s) \/ RecoverDone(s)
         \/ \E c \in ConnIDs : ClientGone(c)
         \/ Start \/ UNCHANGED vars
  PROVE  Calm
<1> USE DEF Calm, CalmMove
<1>0. /\ lastMsg \in [ConnIDs -> ClientIDs \cup {NoMsg}] /\ pc \in [Goroutines -> HandlerSteps \cup LogOutSteps]
      /\ ref \in [Goroutines -> Objs \cup {Nil}]
  BY DEF TInv, TypeOK
<1>1. CASE \E o \in Objs : HeartTimerFires(o) \/ MsgTimerFires(o) \/ reSetReConnTimer(o)
  <2>1. SameIds
    BY <1>1, IdsOfUpdate DEF HeartTimerFires, MsgTimerFires, reSetReConnTimer, TimerOps
  <2> QED BY <1>0, <1>1, <2>1 DEF HeartTimerFires, MsgTimerFires, reSetReConnTimer
<1>2. ASSUME NEW o \in Objs, ReConnTimerFires(o) PROVE Calm
  <2>1. SameIds
    BY <1>2, IdsOfUpdate DEF ReConnTimerFires, TimerOps
  <2>2. ~LoggingIn /\ o \in Goroutines /\ o # Handler
    BY <1>2 DEF ReConnTimerFires, Prompt, LoggingIn
  <2> QED BY <1>0, <1>2, <2>1, <2>2 DEF ReConnTimerFires, Goto
<1>3. ASSUME NEW o \in Objs, connLogOut(o) PROVE Calm
  <2>1. SameIds /\ o \in Goroutines /\ o # Handler /\ state[o].connID \in ConnIDs
    BY <1>3 DEF connLogOut, SameIds, TInv, LiveInv, Live
  <2>2. CASE table[state[o].connID] = Nil
    BY <1>0, <1>3, <2>1, <2>2 DEF connLogOut, Found, Done, Goto
  <2>3. CASE table[state[o].connID] # Nil
    <3>1. table[state[o].connID] \in Objs /\ state[table[state[o].connID]].connID = state[o].connID
      BY <2>1, <2>3 DEF TInv, TypeOK, KeyInv
    <3>2. pc' = [pc EXCEPT ![o] = "close"] /\ ref' = [ref EXCEPT ![o] = table[state[o].connID]] /\ pc[o] = "load"
      BY <1>3, <2>3 DEF connLogOut, Found, Goto
    <3>3. /\ pc'[o] = "close" /\ ref'[o] = table[state[o].connID]
          /\ \A g \in Goroutines : g # o => pc'[g] = pc[g] /\ ref'[g] = ref[g]
      BY <1>0, <2>1, <3>2
    <3>4. \A g \in Goroutines : CalmMove(g)
      BY <3>1, <3>2, <3>3
    <3>5. UNCHANGED <<loginSlot, route, torn, unrouted, recTodo, loginAck, delConn, opened, lastMsg>> /\ req' = req
      BY <1>3, <2>3 DEF connLogOut, Found
    <3> HIDE DEF CalmMove
    <3> QED BY <2>1, <3>4, <3>5
  <2> QED BY <2>2, <2>3
<1>4. CASE \E o \in Objs : RePush(o)
  <2>1. SameIds
    BY <1>4, IdsOfUpdate DEF RePush, rePushGet, rePushLoad, rePushArm, TimerOps, SameIds, TInv, LiveInv
  <2> QED BY <1>0, <1>4, <2>1 DEF RePush, rePushGet, rePushLoad, rePushArm
<1>5. ASSUME NEW g \in Goroutines, CloseDelClientIDs(g) \/ CloseDelLastMsg(g) PROVE Calm
  BY <1>0, <1>5 DEF CloseDelClientIDs, CloseDelLastMsg, Goto, SameIds
<1>6. CASE Heartbeat \/ AppendArm \/ AckLastMsg
  <2>1. SameIds
    BY <1>6, IdsOfUpdate DEF Heartbeat, AppendArm, AckLastMsg, TimerOps, SameIds, TInv, TypeOK, UsingState
  <2> QED BY <1>0, <1>6, <2>1 DEF Heartbeat, AppendArm, AckLastMsg, Done, Goto, SessionPcs, Closing
<1>7. CASE CompareAndIncr \/ PushMsg
  BY <1>0, <1>7 DEF CompareAndIncr, PushMsg, Done, Goto, SessionPcs, Closing, SameIds
<1>8. CASE \E s \in Slots : RecoverGetLast(s) \/ RecoverArm(s) \/ RecoverDone(s)
  <2>1. SameIds
    BY <1>8, IdsOfUpdate DEF RecoverGetLast, RecoverArm, RecoverDone, TimerOps, SameIds, TInv, LiveInv
  <2> QED BY <1>0, <1>8, <2>1 DEF RecoverGetLast, RecoverArm, RecoverDone
<1>9. CASE (\E c \in ConnIDs : ClientGone(c)) \/ Start \/ UNCHANGED vars
  BY <1>0, <1>9 DEF ClientGone, Start, vars, SameIds
<1> QED BY <1>1, <1>2, <1>3, <1>4, <1>5, <1>6, <1>7, <1>8, <1>9

\* appendMsg writes a message for a connection that has an object.
LEMMA CalmSetBytes ==
  ASSUME TInv, AppendInv, AppendSetBytes
  PROVE  Calm
  BY DEF TInv, TypeOK, AppendInv, AppendSetBytes, Done, Goto, SessionPcs, Closing, SameIds, Calm, CalmMove

\* cmdHandler takes a command.
LEMMA S_Take ==
  ASSUME TInv, SInv, pc[Handler] = "idle", NEW l \in {"sadd", "cas", "heartbeat", "ack", "close"},
         pc' = [pc EXCEPT ![Handler] = l], \A o \in Objs : ref'[o] = ref[o],
         UNCHANGED <<redis, memory, recovery, loginAck, delConn, torn, unrouted>>,
         opened \subseteq opened',
         l = "sadd" \/ req'.cmd = "reconn" => req'.conn \in (ConnIDs \ opened) \cap opened',
         l = "sadd" => req'.cmd # "reconn"
  PROVE  SInv'
<1>1. pc'[Handler] = l /\ \A o \in Objs : pc'[o] = pc[o] /\ ref'[o] = ref[o]
  BY DEF TInv, TypeOK
<1>2. pc'[Handler] \notin Closing /\ ~LoggingIn' /\ pc'[Handler] # "store" /\ pc[Handler] \notin Closing
  BY <1>1 DEF Closing, LoggingIn
<1>3. \A d \in AllDids, c \in ConnIDs : Claim(d, c)' <=> Claim(d, c)
  BY DEF Claim
<1>4. \A c \in ConnIDs : Untouched(c)' <=> Untouched(c)
  BY <1>3 DEF Untouched
<1>5. \A g \in Goroutines : /\ pc'[g] \in Closing => pc'[g] = pc[g] /\ ref'[g] = ref[g]
                            /\ pc[g] \in Closing => pc'[g] = pc[g] /\ ref'[g] = ref[g]
  BY <1>1, <1>2
<1>6. \A o \in Objs : Pair(o)' = Pair(o)
  BY DEF Pair
<1>7. FreshInv'
  <2>1. Opening' => l = "sadd" \/ req'.cmd = "reconn"
    BY <1>1 DEF Opening
  <2>2. Opening' => Untouched(req.conn)'
    BY <1>4, <2>1 DEF SInv, FreshInv, Untouched
  <2> QED BY <1>1, <1>2, <1>4, <2>1, <2>2 DEF SInv, FreshInv
<1>8. OneDid' /\ LoginPrivate'
  BY <1>2, <1>3 DEF SInv, OneDid, LoginPrivate
<1>9. ClosedInv'
  BY <1>5, <1>6 DEF SInv, ClosedInv, TInv, TypeOK, UsingState, Closing, Pair
<1>10. RouteInv'
  BY <1>5 DEF SInv, RouteInv, Closing, Pair
<1>11. \A c \in ConnIDs : LogOutBegun(c) => LogOutBegun(c)'
  BY <1>5 DEF LogOutBegun, Torn
<1>12. SlotInv' /\ LostInv'
  <2>1. loginAck \subseteq ConnIDs
    BY DEF TInv, TypeOK
  <2>2. LostInv'
    BY <1>2, <1>3, <1>11, LostKept DEF SInv
  <2> QED BY <1>11, <2>1, <2>2 DEF SInv, SlotInv
<1> QED BY <1>7, <1>8, <1>9, <1>10, <1>12 DEF SInv

\* The commands of clients and of the gateway.
LEMMA S_Client ==
  ASSUME RedisFast, TInv, SInv, NEW c \in ConnIDs, Client(c)
  PROVE  SInv'
<1>1. ASSUME NEW m, Handle(m), opened \subseteq opened', m.cmd \in {"login", "reconn"} => m.conn \in (ConnIDs \ opened) \cap opened'
      PROVE  SInv'
  <2>1. /\ FirstStep(m) \in {"sadd", "cas", "heartbeat", "ack", "close"}
        /\ FirstStep(m) = "sadd" => m.cmd = "login"
    BY DEF FirstStep
  <2>2. /\ pc[Handler] = "idle" /\ pc' = [pc EXCEPT ![Handler] = FirstStep(m)] /\ \A o \in Objs : ref'[o] = ref[o]
        /\ UNCHANGED <<redis, memory, recovery, loginAck, delConn, torn, unrouted>> /\ req' = m
    BY <1>1 DEF Handle, Receive, Goto, TInv, TypeOK
  <2> QED BY <1>1, <2>1, <2>2, S_Take
<1>2. ASSUME NEW m, HandleLateReConn(m), m.conn \in (ConnIDs \ opened) \cap opened', opened \subseteq opened', m \in Commands
      PROVE  SInv'
  <2>1. /\ pc[Handler] = "idle" /\ pc' = [pc EXCEPT ![Handler] = "sadd"] /\ \A o \in Objs : ref'[o] = ref[o]
        /\ UNCHANGED <<redis, memory, recovery, loginAck, delConn, torn, unrouted>>
        /\ req' = [m EXCEPT !.cmd = "login", !.arg = NoDid]
    BY <1>2 DEF HandleLateReConn, Receive, Goto, TInv, TypeOK
  <2>2. req'.cmd = "login" /\ req'.conn = m.conn
    BY <1>2, <2>1 DEF Commands
  <2> QED BY <1>2, <2>1, <2>2, S_Take
<1>3. CASE HandleLogin(c)
  BY <1>1, <1>3 DEF HandleLogin, Command
<1>4. CASE HandleReConn(c)
  <2>1. \A old \in loginAck : Command("reconn", c, old) \in Commands /\ Command("reconn", c, old).conn = c
    BY DEF Command, Commands, TInv, TypeOK
  <2>2. c \in (ConnIDs \ opened) \cap opened' /\ opened \subseteq opened'
    BY <1>4 DEF HandleReConn
  <2> QED BY <1>1, <1>2, <1>4, <2>1, <2>2 DEF HandleReConn
<1>5. ASSUME NEW m, HandleOrDrop(m), m.cmd \notin {"login", "reconn"} PROVE SInv'
  <2>1. CASE Handle(m) /\ UNCHANGED opened
    BY <1>1, <1>5, <2>1
  <2>2. CASE UNCHANGED vars
    BY <2>2, CalmSteps, CalmKeeps
  <2> QED BY <1>5, <2>1, <2>2 DEF HandleOrDrop, HandleDropped
<1>6. CASE ClientGone(c)
  BY <1>6, CalmSteps, CalmKeeps
<1>7. \A k : /\ Command("cancel", c, 0).cmd = "cancel" /\ Command("heartbeat", c, 0).cmd = "heartbeat"
             /\ Command("up", c, k).cmd = "up" /\ Command("ack", c, k).cmd = "ack"
  BY DEF Command
<1> QED BY <1>3, <1>4, <1>5, <1>6, <1>7 DEF Client, CancelConn, HandleHeartbeat, HandleUp, HandleAck

\* A new connState carries the device that logs in.
LEMMA NewStateDid == \A d, c : NewConnState(d, c).did = d /\ NewConnState(d, c).connID = c
  BY DEF NewConnState, Fresh

\* A new object replaces one that nobody refers to.
LEMMA Allocated ==
  ASSUME TInv, NEW o \in Objs, NEW d \in AllDids, NEW c \in ConnIDs, Unused(o),
         state' = [state EXCEPT ![o] = NewConnState(d, c)]
  PROVE  /\ state'[o].connID = c /\ state'[o].did = d /\ pc[o] = "idle"
         /\ \A p \in Objs : p # o => state'[p] = state[p]
         /\ \A g \in Goroutines : pc[g] \in UsingState =>
              ref[g] \in Objs /\ ref[g] # o /\ state'[ref[g]] = state[ref[g]]
<1>1. state'[o] = NewConnState(d, c) /\ \A p \in Objs : p # o => state'[p] = state[p]
  BY DEF TInv, TypeOK
<1>2. \A g \in Goroutines : pc[g] \in UsingState => ref[g] \in Objs /\ ref[g] # o
  BY DEF TInv, TypeOK, Unused
<1>3. pc[o] = "idle"
  BY DEF Unused
<1> QED BY <1>1, <1>2, <1>3, NewStateDid

\* A login claims its connection, which nothing was done for before.
LEMMA S_LoginSADD == ASSUME TInv, SInv, LoginSADD PROVE SInv'
<1>1. /\ pc[Handler] = "sadd" /\ req.conn \in ConnIDs /\ req.arg \in AllDids
      /\ loginSlot' = loginSlot \cup {<<req.arg, req.conn>>}
      /\ UNCHANGED <<route, lastMsg, torn, unrouted, recTodo, loginAck, delConn, opened, req>>
  BY DEF TInv, ReqInv, LoginSADD, Commands, SADD
<1>2. Untouched(req.conn) /\ req.conn \in opened /\ req.cmd # "reconn"
  BY <1>1 DEF SInv, FreshInv, Opening
<1>3. PICK o \in Objs : /\ Unused(o)
                        /\ state' = [state EXCEPT ![o] = NewConnState(req.arg, req.conn)]
                        /\ ref' = [ref EXCEPT ![Handler] = o]
  BY DEF LoginSADD
<1>4. /\ state'[o].connID = req.conn /\ state'[o].did = req.arg /\ pc[o] = "idle"
      /\ \A p \in Objs : p # o => state'[p] = state[p]
      /\ \A g \in Goroutines : pc[g] \in UsingState =>
           ref[g] \in Objs /\ ref[g] # o /\ state'[ref[g]] = state[ref[g]]
  BY <1>1, <1>3, Allocated
<1>5. /\ pc'[Handler] = "addRecord"
      /\ \A p \in Objs : p \in Goroutines /\ p # Handler /\ pc'[p] = pc[p] /\ ref'[p] = ref[p]
  BY <1>3 DEF TInv, TypeOK, LoginSADD, Goto
<1>6. \A p \in Objs : state[p].connID # req.conn
  <2>1. \A p \in Objs : state[p].did \in AllDids
    BY DEF TInv, TypeOK, ConnStates
  <2> QED BY <1>2, <2>1 DEF Untouched, Claim
<1>7. \A e \in AllDids, x \in ConnIDs : Claim(e, x)' => Claim(e, x) \/ (e = req.arg /\ x = req.conn)
  BY <1>1, <1>4 DEF Claim
<1>8. /\ \A g \in Goroutines : pc'[g] \in Closing =>
           /\ g \in Objs /\ pc[g] = pc'[g] /\ ref'[g] = ref[g] /\ ref[g] \in Objs /\ state'[ref[g]] = state[ref[g]]
      /\ \A g \in Goroutines : pc[g] \in Closing =>
           /\ g \in Objs /\ pc[g] = pc'[g] /\ ref'[g] = ref[g] /\ ref[g] \in Objs /\ state'[ref[g]] = state[ref[g]]
  BY <1>1, <1>4, <1>5 DEF Closing, UsingState
<1>9. FreshInv'
  <2>1. \A c \in ConnIDs \ opened' : Untouched(c)'
    BY <1>1, <1>2, <1>7 DEF SInv, FreshInv, Untouched
  <2> QED BY <1>1, <1>2, <1>5, <2>1 DEF FreshInv, Opening, Closing
<1>10. OneDid'
  <2>1. \A e \in AllDids : ~Claim(e, req.conn)
    BY <1>2 DEF Untouched
  <2> QED BY <1>7, <2>1 DEF SInv, OneDid
<1>11. LoginPrivate'
  <2>1. lastMsg'[req.conn] = NoMsg /\ <<req.arg, req.conn>> \in loginSlot'
    BY <1>1, <1>2 DEF Untouched
  <2>2. \A p \in Objs : state'[p].connID = req.conn => pc'[p] = "idle"
    BY <1>4, <1>5, <1>6
  <2>3. \A p \in Objs : pc'[p] \in Closing \cup {"close"} => state'[ref'[p]].connID # req.conn
    BY <1>4, <1>5, <1>6 DEF Closing, UsingState
  <2> QED BY <1>1, <2>1, <2>2, <2>3 DEF LoginPrivate
<1>12. ClosedInv'
  BY <1>1, <1>6, <1>8 DEF SInv, ClosedInv, Pair, Closing
<1>13. RouteInv'
  BY <1>1, <1>8 DEF SInv, RouteInv, Pair, Closing
<1>14. \A c \in ConnIDs : LogOutBegun(c) => LogOutBegun(c)'
  BY <1>1, <1>8 DEF LogOutBegun, Torn
<1>15. SlotInv' /\ LostInv'
  <2>1. loginAck \subseteq ConnIDs /\ req.conn \notin loginAck /\ pc'[Handler] # "store"
    BY <1>2, <1>5 DEF TInv, TypeOK, Untouched
  <2> QED BY <1>1, <1>7, <1>14, <2>1 DEF SInv, SlotInv, LostInv, Displaced
<1> QED BY <1>9, <1>10, <1>11, <1>12, <1>13, <1>15 DEF SInv

\* A login routes its device to its connection, which is in its slot.
LEMMA S_LoginAddRecord == ASSUME TInv, SInv, LoginAddRecord PROVE SInv'
<1>1. /\ pc[Handler] = "addRecord" /\ req.conn \in ConnIDs /\ req.arg \in AllDids /\ req.conn # 0
      /\ UNCHANGED <<loginSlot, lastMsg, torn, recTodo, loginAck, delConn, opened, req, state, ref>>
      /\ unrouted' = {p \in unrouted : p[1] # req.arg}
  BY DEF TInv, ReqInv, LoginAddRecord, Commands
<1>2. route'[req.arg] = req.conn /\ \A d \in AllDids : d # req.arg => route'[d] = route[d]
  BY <1>1 DEF LoginAddRecord, AddRecord, TInv, TypeOK
<1>3. pc'[Handler] = "store" /\ \A p \in Objs : p \in Goroutines /\ p # Handler /\ pc'[p] = pc[p]
  BY DEF TInv, TypeOK, LoginAddRecord, Goto
<1>4. LoggingIn /\ req.conn \in opened /\ req.cmd # "reconn" /\ <<req.arg, req.conn>> \in loginSlot
  BY <1>1 DEF SInv, FreshInv, LoginPrivate, LoggingIn
<1>5. \A d \in AllDids, c \in ConnIDs : Claim(d, c)' <=> Claim(d, c)
  BY <1>1 DEF Claim
<1>6. \A g \in Goroutines : (pc'[g] \in Closing <=> pc[g] \in Closing) /\ (pc[g] \in Closing => pc'[g] = pc[g] /\ g \in Objs)
  BY <1>1, <1>3 DEF Closing
<1>7. FreshInv'
  <2>1. \A c \in ConnIDs \ opened' : Untouched(c)'
    BY <1>1, <1>2, <1>4, <1>5 DEF SInv, FreshInv, Untouched
  <2> QED BY <1>1, <1>3, <1>4, <2>1 DEF FreshInv, Opening, Closing
<1>8. OneDid' /\ LoginPrivate'
  BY <1>1, <1>3, <1>4, <1>5 DEF SInv, OneDid, LoginPrivate
<1>9. ClosedInv'
  <2>1. \A g \in Objs : pc[g] \in Closing => state[ref[g]].connID # req.conn
    BY <1>4 DEF SInv, LoginPrivate
  <2>2. \A g \in Goroutines : pc[g] \in Closing => state[ref[g]].did \in AllDids
    BY DEF TInv, TypeOK, UsingState, ConnStates
  <2>3. \A g \in Goroutines : pc'[g] \in Closing => Pair(ref[g])' \notin loginSlot'
    BY <1>1, <1>6 DEF SInv, ClosedInv, Pair
  <2>4. ASSUME NEW g \in Goroutines, pc'[g] \in {"delLastMsg", "delConn"}
        PROVE  route'[state[ref[g]].did] # state[ref[g]].connID
    <3>1. pc[g] = pc'[g] /\ pc[g] \in Closing /\ g \in Objs
      BY <1>6, <2>4 DEF Closing
    <3> QED BY <1>2, <2>1, <2>2, <2>4, <3>1 DEF SInv, ClosedInv
  <2> QED BY <1>1, <2>3, <2>4 DEF ClosedInv
<1>10. RouteInv'
  BY <1>1, <1>2, <1>4, <1>6 DEF SInv, RouteInv, Pair, Closing
<1>11. \A c \in ConnIDs : LogOutBegun(c) => LogOutBegun(c)'
  BY <1>1, <1>6 DEF LogOutBegun, Torn
<1>12. SlotInv' /\ LostInv'
  <2>1. loginAck \subseteq ConnIDs
    BY DEF TInv, TypeOK
  <2>2. SlotInv'
    BY <1>1, <1>11, <2>1 DEF SInv, SlotInv
  <2>3. ASSUME NEW c \in loginAck, NEW d \in AllDids, Claim(d, c)'
        PROVE  route'[d] # 0 \/ LogOutBegun(c)' \/ Displaced(d, c)'
    <3>1. CASE d = req.arg
      BY <1>1, <1>2, <3>1
    <3>2. CASE d # req.arg
      <4>1. route[d] # 0 \/ LogOutBegun(c) \/ Displaced(d, c)
        BY <1>5, <2>1, <2>3 DEF SInv, LostInv
      <4>2. Displaced(d, c) => Displaced(d, c)'
        BY <1>1, <3>2 DEF Displaced
      <4> QED BY <1>2, <1>11, <2>1, <3>2, <4>1, <4>2
    <3> QED BY <3>1, <3>2
  <2>4. LostInv'
    BY <1>1, <1>2, <2>3 DEF LostInv
  <2> QED BY <2>2, <2>4
<1> QED BY <1>7, <1>8, <1>9, <1>10, <1>12 DEF SInv

\* The login is acknowledged.
LEMMA S_LoginStore == ASSUME TInv, SInv, LoginStore PROVE SInv'
<1>1. /\ pc[Handler] = "store" /\ req.conn \in ConnIDs /\ req.arg \in AllDids
      /\ loginAck' = loginAck \cup {req.conn}
      /\ UNCHANGED <<loginSlot, route, lastMsg, torn, unrouted, recTodo, delConn, opened, state>>
  BY DEF TInv, ReqInv, LoginStore, Commands
<1>2. /\ pc'[Handler] = "idle"
      /\ \A p \in Objs : p \in Goroutines /\ p # Handler /\ pc'[p] = pc[p] /\ ref'[p] = ref[p]
  BY DEF TInv, TypeOK, LoginStore, Goto, Done
<1>3. req.conn \in opened /\ <<req.arg, req.conn>> \in loginSlot
  BY <1>1 DEF SInv, FreshInv, LoginPrivate, LoggingIn
<1>4. \A d \in AllDids, c \in ConnIDs : Claim(d, c)' <=> Claim(d, c)
  BY <1>1 DEF Claim
<1>5. \A g \in Goroutines : (pc'[g] \in Closing <=> pc[g] \in Closing) /\ (pc[g] \in Closing => pc'[g] = pc[g] /\ ref'[g] = ref[g])
  BY <1>1, <1>2 DEF Closing
<1>6. FreshInv'
  <2>1. \A c \in ConnIDs \ opened' : Untouched(c)'
    BY <1>1, <1>3, <1>4 DEF SInv, FreshInv, Untouched
  <2> QED BY <1>2, <2>1 DEF FreshInv, Opening, Closing, LoggingIn
<1>7. OneDid' /\ LoginPrivate'
  BY <1>2, <1>4 DEF SInv, OneDid, LoginPrivate, LoggingIn
<1>8. ClosedInv'
  BY <1>1, <1>5 DEF SInv, ClosedInv, Pair, Closing
<1>9. RouteInv'
  BY <1>1, <1>5 DEF SInv, RouteInv, Pair, Closing
<1>10. \A c \in ConnIDs : LogOutBegun(c) => LogOutBegun(c)'
  BY <1>1, <1>5 DEF LogOutBegun, Torn
<1>11. SlotInv'
  <2>1. loginAck \subseteq ConnIDs
    BY DEF TInv, TypeOK
  <2> QED BY <1>1, <1>3, <1>10, <2>1 DEF SInv, SlotInv
<1>12. LostInv'
  <2>1. loginAck \subseteq ConnIDs /\ pc'[Handler] # "store"
    BY <1>2 DEF TInv, TypeOK
  <2>2. Claim(req.arg, req.conn)
    BY <1>3 DEF Claim
  <2>3. \A d \in AllDids : Claim(d, req.conn) => d = req.arg
    BY <1>1, <2>2 DEF SInv, OneDid
  <2>4. route[req.arg] # 0 \/ Displaced(req.arg, req.conn)
    BY <1>1 DEF SInv, LostInv
  <2>5. \A d \in AllDids, c \in ConnIDs : Displaced(d, c) <=> Displaced(d, c)'
    BY <1>1 DEF Displaced
  <2>6. ASSUME NEW c \in loginAck', NEW d \in AllDids, Claim(d, c)'
        PROVE  route'[d] # 0 \/ LogOutBegun(c)' \/ Displaced(d, c)'
    <3>1. c \in ConnIDs /\ Claim(d, c)
      BY <1>1, <1>4, <2>1, <2>6
    <3>2. CASE c = req.conn
      BY <1>1, <2>3, <2>4, <2>5, <3>1, <3>2
    <3>3. CASE c # req.conn
      <4>1. c \in loginAck
        BY <1>1, <3>3
      <4> QED BY <1>1, <1>10, <2>5, <3>1, <4>1 DEF SInv, LostInv
    <3> QED BY <3>2, <3>3
  <2> QED BY <2>1, <2>6 DEF LostInv
<1> QED BY <1>6, <1>7, <1>8, <1>9, <1>11, <1>12 DEF SInv

\* Who closes an object: it is allocated, with a device and a connection.
LEMMA CloserRef ==
  ASSUME TInv, NEW g \in Goroutines, pc[g] \in Closing \cup {"close"}
  PROVE  /\ ref[g] \in Objs /\ state[ref[g]].connID \in ConnIDs /\ state[ref[g]].did \in AllDids
         /\ Claim(state[ref[g]].did, state[ref[g]].connID)
<1>1. ref[g] \in Objs /\ state[ref[g]].connID \in ConnIDs /\ state[ref[g]].did \in AllDids
  BY DEF TInv, TypeOK, LiveInv, Live, UsingState, Closing, ConnStates
<1> QED BY <1>1 DEF Claim

\* close takes its connection out of the slot before anything else.
LEMMA S_CloseStart == ASSUME TInv, SInv, NEW g \in Goroutines, CloseStart(g) PROVE SInv'
<1>1. /\ pc[g] = "close" /\ loginSlot' = loginSlot \ {Pair(ref[g])}
      /\ UNCHANGED <<route, lastMsg, torn, unrouted, recTodo, loginAck, delConn, opened, req, ref>>
      /\ state' = [state EXCEPT ![ref[g]] = StopTimers(state[ref[g]])]
  BY DEF CloseStart, SREM
<1>2. ref[g] \in Objs /\ state[ref[g]].connID \in ConnIDs /\ state[ref[g]].did \in AllDids
  BY <1>1, CloserRef
<1>3. SameIds
  BY <1>1, <1>2, IdsOfUpdate DEF TimerOps
<1>4. pc'[g] = "delClientIDs" /\ \A h \in Goroutines : h # g => pc'[h] = pc[h]
  BY DEF TInv, TypeOK, CloseStart, Goto
<1>5. \A d \in AllDids, c \in ConnIDs : Claim(d, c)' => Claim(d, c)
  BY <1>1, <1>3 DEF Claim, SameIds
<1>6. \A c \in ConnIDs : Untouched(c) => Untouched(c)'
  BY <1>1, <1>5 DEF Untouched
<1>7. \A h \in Goroutines : pc[h] \in Closing \cup {"close"} => Pair(ref[h])' = Pair(ref[h])
  BY <1>1, <1>3, CloserRef DEF Pair, SameIds
<1>8. Handler \in Goroutines /\ \A o \in Objs : o \in Goroutines
  OBVIOUS
<1>9. FreshInv'
  <2>1. Opening' => Opening
    BY <1>1, <1>4, <1>8 DEF Opening, Closing
  <2>2. Opening' => Untouched(req.conn)'
    <3>1. Opening => req.conn \in ConnIDs
      BY DEF Opening, TInv, ReqInv, Commands, Closing
    <3> QED BY <1>1, <1>6, <2>1, <3>1 DEF SInv, FreshInv, Untouched
  <2>3. (LoggingIn' => LoggingIn) /\ (pc'[Handler] = "sadd" => pc[Handler] = "sadd")
    BY <1>4, <1>8 DEF LoggingIn
  <2> QED BY <1>1, <1>6, <2>1, <2>2, <2>3 DEF SInv, FreshInv
<1>10. OneDid'
  BY <1>5 DEF SInv, OneDid
<1>11. LoginPrivate'
  <2> SUFFICES ASSUME LoggingIn' PROVE LoginPrivate'
    BY DEF LoginPrivate
  <2>1. LoggingIn /\ g # Handler /\ g \in Objs
    BY <1>1, <1>4, <1>8 DEF LoggingIn
  <2>2. state[ref[g]].connID # req.conn
    BY <1>1, <2>1 DEF SInv, LoginPrivate
  <2>3. <<req.arg, req.conn>> \in loginSlot' /\ lastMsg'[req.conn] = NoMsg
    BY <1>1, <2>1, <2>2 DEF SInv, LoginPrivate, Pair
  <2>4. ASSUME NEW o \in Objs
        PROVE  /\ state'[o].connID = req.conn => pc'[o] = "idle"
               /\ pc'[o] \in Closing \cup {"close"} => state'[ref'[o]].connID # req.conn
    <3>1. state'[o].connID = req.conn => pc[o] = "idle"
      BY <1>3, <2>1 DEF SInv, LoginPrivate, SameIds
    <3>2. pc'[o] \in Closing \cup {"close"} => pc[o] \in Closing \cup {"close"}
      BY <1>1, <1>4, <1>8 DEF Closing
    <3>3. pc[o] \in Closing \cup {"close"} => ref[o] \in Objs
      BY CloserRef
    <3>4. pc[o] \in Closing \cup {"close"} => state[ref[o]].connID # req.conn
      BY <2>1 DEF SInv, LoginPrivate
    <3> QED BY <1>1, <1>3, <1>4, <1>8, <3>1, <3>2, <3>3, <3>4 DEF SameIds
  <2> QED BY <1>1, <2>3, <2>4 DEF LoginPrivate
<1>12. ClosedInv'
  <2>1. ASSUME NEW h \in Goroutines, pc'[h] \in Closing PROVE Pair(ref[h])' \notin loginSlot'
    BY <1>1, <1>4, <1>7, <2>1 DEF SInv, ClosedInv
  <2>2. ASSUME NEW h \in Goroutines, pc'[h] \in {"delLastMsg", "delConn"}
        PROVE  route'[state'[ref'[h]].did] # state'[ref'[h]].connID
    <3>1. pc[h] = pc'[h] /\ ref[h] \in Objs
      BY <1>4, <2>2, CloserRef DEF Closing
    <3> QED BY <1>1, <1>3, <2>2, <3>1 DEF SInv, ClosedInv, SameIds
  <2> QED BY <2>1, <2>2 DEF ClosedInv
<1>13. RouteInv'
  <2> SUFFICES ASSUME NEW d \in AllDids, NEW c \in ConnIDs, route[d] = c
               PROVE  \/ <<d, c>> \in loginSlot' \/ <<d, c>> \in torn
                      \/ \E h \in Goroutines : pc'[h] \in {"delClientIDs", "delRoute"} /\ Pair(ref[h])' = <<d, c>>
    BY <1>1 DEF RouteInv
  <2>1. CASE <<d, c>> \in loginSlot
    BY <1>1, <1>4, <1>7, <2>1
  <2>2. ASSUME NEW h \in Goroutines, pc[h] \in {"delClientIDs", "delRoute"}, Pair(ref[h]) = <<d, c>>
        PROVE  pc'[h] \in {"delClientIDs", "delRoute"} /\ Pair(ref[h])' = <<d, c>>
    BY <1>4, <1>7, <2>2 DEF Closing
  <2> QED BY <2>1, <2>2 DEF SInv, RouteInv
<1>b. PICK b \in ConnIDs : b = state[ref[g]].connID
  BY <1>2
<1>14. LogOutBegun(b)'
  <2>1. pc'[g] \in Closing /\ state'[ref'[g]].connID = state[ref[g]].connID
    BY <1>1, <1>2, <1>3, <1>4 DEF Closing, SameIds
  <2> QED BY <1>b, <2>1 DEF LogOutBegun
<1>15. \A c \in ConnIDs : LogOutBegun(c) => LogOutBegun(c)'
  <2>1. \A h \in Goroutines : pc[h] \in Closing => pc'[h] \in Closing /\ state'[ref'[h]].connID = state[ref[h]].connID
    BY <1>1, <1>3, <1>4, CloserRef DEF Closing, SameIds
  <2> QED BY <1>1, <2>1 DEF LogOutBegun, Torn
<1>16. SlotInv' /\ LostInv'
  <2>1. loginAck \subseteq ConnIDs
    BY DEF TInv, TypeOK
  <2>3. SlotInv'
    <3> SUFFICES ASSUME NEW c \in loginAck, ~LogOutBegun(c)' PROVE \E d \in AllDids : <<d, c>> \in loginSlot'
      BY <1>1 DEF SlotInv
    <3>1. c # state[ref[g]].connID
      BY <1>b, <1>14
    <3>2. PICK d \in AllDids : <<d, c>> \in loginSlot
      BY <1>15, <2>1 DEF SInv, SlotInv
    <3> QED BY <1>1, <3>1, <3>2 DEF Pair
  <2>4. LostInv'
    BY <1>1, <1>4, <1>5, <1>8, <1>15, LostKept DEF SInv
  <2> QED BY <2>3, <2>4
<1> QED BY <1>9, <1>10, <1>11, <1>12, <1>13, <1>16 DEF SInv

\* close deletes the route of its device, its own or a later login's.
LEMMA S_CloseDelRoute == ASSUME TInv, SInv, NEW g \in Goroutines, CloseDelRoute(g) PROVE SInv'
<1>1. /\ pc[g] = "delRoute"
      /\ UNCHANGED <<loginSlot, lastMsg, torn, recTodo, loginAck, delConn, opened, req, ref, state>>
      /\ unrouted' = unrouted \cup {Pair(ref[g])}
  BY DEF CloseDelRoute
<1>2. ref[g] \in Objs /\ state[ref[g]].connID \in ConnIDs /\ state[ref[g]].did \in AllDids
  BY <1>1, CloserRef DEF Closing
<1>3. route'[state[ref[g]].did] = 0 /\ \A d \in AllDids : d # state[ref[g]].did => route'[d] = route[d]
  BY <1>2 DEF CloseDelRoute, DelRecord, TInv, TypeOK
<1>4. pc'[g] = "delLastMsg" /\ \A h \in Goroutines : h # g => pc'[h] = pc[h]
  BY DEF TInv, TypeOK, CloseDelRoute, Goto
<1>5. 0 \notin ConnIDs /\ Handler \in Goroutines /\ \A o \in Objs : o \in Goroutines
  OBVIOUS
<1>6. \A d \in AllDids, c \in ConnIDs : route'[d] = c => route[d] = c /\ d # state[ref[g]].did
  BY <1>3, <1>5
<1>7. \A d \in AllDids, c \in ConnIDs : Claim(d, c)' <=> Claim(d, c)
  BY <1>1 DEF Claim
<1>8. \A c \in ConnIDs : Untouched(c) => Untouched(c)'
  BY <1>1, <1>6, <1>7 DEF Untouched
<1>9. FreshInv'
  <2>1. /\ Opening' => Opening /\ req.conn \in ConnIDs
        /\ LoggingIn' => LoggingIn
        /\ pc'[Handler] = "sadd" => pc[Handler] = "sadd"
    BY <1>1, <1>4, <1>5 DEF Opening, LoggingIn, Closing, TInv, ReqInv, Commands
  <2>2. Opening' => Untouched(req.conn)'
    BY <1>1, <1>8, <2>1 DEF SInv, FreshInv, Untouched
  <2> QED BY <1>1, <1>8, <2>1, <2>2 DEF SInv, FreshInv
<1>10. OneDid'
  BY <1>7 DEF SInv, OneDid
<1>11. LoginPrivate'
  <2>1. /\ LoggingIn' => LoggingIn
        /\ \A o \in Objs : /\ pc[o] = "idle" => pc'[o] = "idle"
                           /\ pc'[o] \in Closing \cup {"close"} => pc[o] \in Closing \cup {"close"}
    BY <1>1, <1>4, <1>5 DEF LoggingIn, Closing
  <2> QED BY <1>1, <2>1 DEF SInv, LoginPrivate
<1>12. ClosedInv'
  <2>1. ASSUME NEW h \in Goroutines, pc'[h] \in Closing PROVE Pair(ref[h])' \notin loginSlot'
    BY <1>1, <1>4, <2>1 DEF SInv, ClosedInv, Pair, Closing
  <2>2. ASSUME NEW h \in Goroutines, pc'[h] \in {"delLastMsg", "delConn"}
        PROVE  route'[state[ref[h]].did] # state[ref[h]].connID
    <3>1. state[ref[h]].did \in AllDids /\ state[ref[h]].connID \in ConnIDs
      BY <1>2, <1>4, <2>2, CloserRef DEF Closing
    <3>2. h # g => route[state[ref[h]].did] # state[ref[h]].connID
      BY <1>4, <2>2 DEF SInv, ClosedInv
    <3> QED BY <1>3, <1>5, <1>6, <3>1, <3>2
  <2> QED BY <1>1, <2>1, <2>2 DEF ClosedInv
<1>13. RouteInv'
  <2> SUFFICES ASSUME NEW d \in AllDids, NEW c \in ConnIDs, route'[d] = c
               PROVE  \/ <<d, c>> \in loginSlot \/ <<d, c>> \in torn
                      \/ \E h \in Goroutines : pc'[h] \in {"delClientIDs", "delRoute"} /\ Pair(ref[h]) = <<d, c>>
    BY <1>1 DEF RouteInv, Pair
  <2>1. route[d] = c /\ d # state[ref[g]].did
    BY <1>6
  <2>2. \A h \in Goroutines : Pair(ref[h]) = <<d, c>> => pc'[h] = pc[h]
    BY <1>4, <2>1 DEF Pair
  <2> QED BY <2>1, <2>2 DEF SInv, RouteInv
<1>14. \A c \in ConnIDs : LogOutBegun(c) => LogOutBegun(c)'
  <2>1. \A h \in Goroutines : pc[h] \in Closing => pc'[h] \in Closing
    BY <1>4 DEF Closing
  <2> QED BY <1>1, <2>1 DEF LogOutBegun, Torn
<1>15. LostInv'
  <2>1. PICK b \in ConnIDs, e \in AllDids : b = state[ref[g]].connID /\ e = state[ref[g]].did
    BY <1>2
  <2>2. LogOutBegun(b)'
    BY <1>1, <1>4, <2>1 DEF LogOutBegun, Closing
  <2>3. <<e, b>> \in unrouted' /\ unrouted \subseteq unrouted'
    BY <1>1, <2>1 DEF Pair
  <2>4. \A d \in AllDids, c \in ConnIDs : Displaced(d, c) => Displaced(d, c)'
    BY <2>3 DEF Displaced
  <2>5. \A c \in ConnIDs : c # b => Displaced(e, c)'
    BY <2>3 DEF Displaced
  <2>6. ASSUME NEW c \in loginAck', NEW d \in AllDids, Claim(d, c)'
        PROVE  route'[d] # 0 \/ LogOutBegun(c)' \/ Displaced(d, c)'
    <3>1. c \in loginAck /\ c \in ConnIDs /\ Claim(d, c)
      BY <1>1, <1>7, <2>6 DEF TInv, TypeOK
    <3>2. CASE d = e
      BY <2>2, <2>5, <3>1, <3>2
    <3>3. CASE d # e
      BY <1>3, <1>14, <2>1, <2>4, <3>1, <3>3 DEF SInv, LostInv
    <3> QED BY <3>2, <3>3
  <2>7. ASSUME pc'[Handler] = "store" PROVE route'[req.arg] # 0 \/ Displaced(req.arg, req.conn)'
    <3>1. /\ pc[Handler] = "store" /\ g \in Objs
          /\ req.conn \in ConnIDs /\ req.arg \in AllDids
      BY <1>1, <1>4, <1>5, <2>7 DEF TInv, ReqInv, Commands
    <3>2. b # req.conn
      BY <1>1, <2>1, <3>1 DEF SInv, LoginPrivate, LoggingIn, Closing
    <3>3. route[req.arg] # 0 \/ Displaced(req.arg, req.conn)
      BY <3>1 DEF SInv, LostInv
    <3>4. CASE req.arg = e
      BY <1>1, <2>5, <3>1, <3>2, <3>4 DEF Displaced
    <3>5. CASE req.arg # e
      BY <1>1, <1>3, <2>1, <2>4, <3>1, <3>3, <3>5 DEF Displaced
    <3> QED BY <3>4, <3>5
  <2> QED BY <1>1, <2>6, <2>7 DEF LostInv, Displaced
<1>16. SlotInv'
  BY <1>1, <1>14 DEF SInv, SlotInv, TInv, TypeOK
<1> QED BY <1>9, <1>10, <1>11, <1>12, <1>13, <1>15, <1>16 DEF SInv

\* The end of a logout: the gateway knows, and a ReConn goes on to its login.
LEMMA S_CloseFinish == ASSUME TInv, SInv, NEW g \in Goroutines, CloseFinish(g) PROVE SInv'
<1>1. /\ pc[g] = "delConn" /\ delConn' = delConn \cup {state[ref[g]].connID} /\ torn' = torn \ {Pair(ref[g])}
      /\ UNCHANGED <<loginSlot, route, lastMsg, unrouted, recTodo, loginAck, opened, state>>
  BY DEF CloseFinish, DelConn
<1>2. ref[g] \in Objs /\ state[ref[g]].connID \in ConnIDs /\ state[ref[g]].did \in AllDids
  BY <1>1, CloserRef DEF Closing
<1>3. /\ pc'[g] \in {"idle", "sadd"} /\ \A h \in Goroutines : h # g => pc'[h] = pc[h] /\ ref'[h] = ref[h]
      /\ g # Handler => pc'[g] = "idle" /\ req' = req
  BY DEF TInv, TypeOK, CloseFinish, AfterLogOut, Goto, Done
<1>4. g = Handler /\ pc'[g] = "sadd" => Opening /\ req'.conn = req.conn /\ req'.cmd = "login"
  <2> SUFFICES ASSUME g = Handler, pc'[g] = "sadd" PROVE Opening /\ req'.conn = req.conn /\ req'.cmd = "login"
    OBVIOUS
  <2>1. req.cmd = "reconn" /\ req' = [req EXCEPT !.cmd = "login", !.arg = state[ref[g]].did]
    BY DEF TInv, TypeOK, CloseFinish, AfterLogOut, Goto, Done
  <2>2. req \in Commands
    BY <1>1 DEF TInv, ReqInv
  <2> QED BY <1>1, <2>1, <2>2 DEF Commands, Opening, Closing
<1>5. Handler \in Goroutines /\ \A o \in Objs : o \in Goroutines /\ o # Handler
  OBVIOUS
<1>6. \A d \in AllDids, c \in ConnIDs : Claim(d, c)' <=> Claim(d, c)
  BY <1>1 DEF Claim
<1>7. \A c \in ConnIDs : Untouched(c) => Untouched(c)'
  BY <1>1, <1>6 DEF Untouched
<1>8. \A h \in Goroutines : pc'[h] \in Closing \cup {"close", "addRecord", "store"} => h # g /\ pc'[h] = pc[h] /\ ref'[h] = ref[h]
  BY <1>3 DEF Closing
<1>9. FreshInv'
  <2>1. Opening' => Opening /\ req'.conn = req.conn /\ req.conn \in ConnIDs
    <3>1. Opening => req.conn \in ConnIDs
      BY DEF Opening, Closing, TInv, ReqInv, Commands
    <3>2. CASE g = Handler
      BY <1>3, <1>4, <3>1, <3>2 DEF Opening, Closing
    <3>3. CASE g # Handler
      BY <1>3, <1>5, <3>1, <3>3 DEF Opening, Closing
    <3> QED BY <3>2, <3>3
  <2>2. Opening' => Untouched(req.conn)'
    BY <1>7, <2>1 DEF SInv, FreshInv, Untouched
  <2>3. LoggingIn' => LoggingIn /\ req' = req
    BY <1>3, <1>5, <1>8 DEF LoggingIn
  <2>4. pc'[Handler] = "sadd" => req'.cmd # "reconn"
    BY <1>3, <1>4, <1>5 DEF SInv, FreshInv
  <2> QED BY <1>1, <1>7, <2>1, <2>2, <2>3, <2>4 DEF SInv, FreshInv
<1>10. OneDid'
  BY <1>6 DEF SInv, OneDid
<1>11. LoginPrivate'
  <2>1. LoggingIn' => LoggingIn /\ req' = req
    BY <1>3, <1>5, <1>8 DEF LoggingIn
  <2>2. \A o \in Objs : pc[o] = "idle" => pc'[o] = "idle"
    BY <1>3, <1>5
  <2> QED BY <1>1, <1>5, <1>8, <2>1, <2>2 DEF SInv, LoginPrivate
<1>12. ClosedInv'
  BY <1>1, <1>8 DEF SInv, ClosedInv, Pair, Closing
<1>13. RouteInv'
  <2> SUFFICES ASSUME NEW d \in AllDids, NEW c \in ConnIDs, route[d] = c
               PROVE  \/ <<d, c>> \in loginSlot \/ <<d, c>> \in torn'
                      \/ \E h \in Goroutines : pc'[h] \in {"delClientIDs", "delRoute"} /\ Pair(ref[h])' = <<d, c>>
    BY <1>1 DEF RouteInv
  <2>1. <<d, c>> # Pair(ref[g])
    BY <1>1 DEF SInv, ClosedInv, Pair
  <2>2. \A h \in Goroutines : pc[h] \in {"delClientIDs", "delRoute"} => pc'[h] = pc[h] /\ Pair(ref[h])' = Pair(ref[h])
    BY <1>1, <1>3 DEF Pair
  <2> QED BY <1>1, <2>1, <2>2 DEF SInv, RouteInv
<1>14. \A c \in ConnIDs : LogOutBegun(c) => LogOutBegun(c)'
  <2> SUFFICES ASSUME NEW c \in ConnIDs, LogOutBegun(c), c # state[ref[g]].connID PROVE LogOutBegun(c)'
    BY <1>1 DEF LogOutBegun
  <2>1. Torn(c) => Torn(c)'
    BY <1>1 DEF Torn, Pair
  <2>2. \A h \in Goroutines : h # g /\ pc[h] \in Closing => pc'[h] \in Closing /\ state'[ref'[h]].connID = state[ref[h]].connID
    BY <1>1, <1>3
  <2> QED BY <1>1, <2>1, <2>2 DEF LogOutBegun
<1>15. LostInv'
  BY <1>1, <1>3, <1>5, <1>6, <1>14, LostKept DEF SInv
<1>16. SlotInv'
  BY <1>1, <1>14 DEF SInv, SlotInv, TInv, TypeOK
<1> QED BY <1>9, <1>10, <1>11, <1>12, <1>13, <1>15, <1>16 DEF SInv

\* A close that breaks off is on record.
LEMMA S_CloseError == ASSUME TInv, SInv, NEW g \in Goroutines, CloseError(g) PROVE SInv'
<1>1. /\ pc[g] \in Closing \cup {"close"} /\ torn' = torn \cup {Pair(ref[g])} /\ ~(g = Handler /\ req.cmd = "reconn")
      /\ UNCHANGED <<loginSlot, route, lastMsg, unrouted, recTodo, loginAck, delConn, opened>>
      /\ state' = [state EXCEPT ![ref[g]] = StopTimers(state[ref[g]])]
  BY DEF CloseError, Closing
<1>2. ref[g] \in Objs /\ state[ref[g]].connID \in ConnIDs /\ state[ref[g]].did \in AllDids
      /\ Claim(state[ref[g]].did, state[ref[g]].connID)
  BY <1>1, CloserRef
<1>3. SameIds
  BY <1>1, <1>2, IdsOfUpdate DEF TimerOps
<1>4. /\ pc'[g] = "idle" /\ \A h \in Goroutines : h # g => pc'[h] = pc[h] /\ ref'[h] = ref[h]
      /\ g # Handler => req' = req
  BY DEF TInv, TypeOK, CloseError, Goto, Done
<1>5. Handler \in Goroutines /\ \A o \in Objs : o \in Goroutines /\ o # Handler
  OBVIOUS
<1>6. \A d \in AllDids, c \in ConnIDs : Claim(d, c)' <=> Claim(d, c)
  BY <1>1, <1>3, ClaimKept
<1>7. \A c \in ConnIDs : Untouched(c) => Untouched(c)'
  BY <1>1, <1>2, <1>6 DEF Untouched, Pair
<1>8. \A h \in Goroutines : pc'[h] # "idle" => h # g /\ pc'[h] = pc[h] /\ ref'[h] = ref[h]
  BY <1>4
<1>9. \A h \in Goroutines : pc[h] \in Closing /\ h # g => state'[ref'[h]].connID = state[ref[h]].connID
  BY <1>3, <1>4, CloserRef DEF SameIds
<1>10. FreshInv'
  <2>1. pc'[Handler] # "idle" => req' = req /\ pc'[Handler] = pc[Handler]
    BY <1>4, <1>5
  <2>2. Opening => req.conn \in ConnIDs
    BY DEF Opening, Closing, TInv, ReqInv, Commands
  <2>3. (Opening' => Opening /\ req' = req) /\ (LoggingIn' => LoggingIn /\ req' = req)
    BY <2>1 DEF Opening, LoggingIn, Closing
  <2>4. Opening' => Untouched(req.conn)'
    BY <1>7, <2>2, <2>3 DEF SInv, FreshInv, Untouched
  <2> QED BY <1>1, <1>7, <2>1, <2>3, <2>4 DEF SInv, FreshInv
<1>11. OneDid'
  BY <1>6 DEF SInv, OneDid
<1>12. LoginPrivate'
  <2> SUFFICES ASSUME LoggingIn' PROVE LoginPrivate'
    BY DEF LoginPrivate
  <2>1. LoggingIn /\ req' = req
    BY <1>4, <1>5 DEF LoggingIn
  <2>2. ASSUME NEW o \in Objs
        PROVE  /\ state'[o].connID = req.conn => pc'[o] = "idle"
               /\ pc'[o] \in Closing \cup {"close"} => state'[ref'[o]].connID # req.conn
    <3>1. state'[o].connID = req.conn => pc[o] = "idle"
      BY <1>3, <2>1 DEF SInv, LoginPrivate, SameIds
    <3>2. pc[o] \in Closing \cup {"close"} => ref[o] \in Objs /\ state[ref[o]].connID # req.conn
      BY <1>5, <2>1, CloserRef DEF SInv, LoginPrivate
    <3> QED BY <1>3, <1>4, <1>5, <1>8, <3>1, <3>2 DEF SameIds, Closing
  <2> QED BY <1>1, <2>1, <2>2 DEF SInv, LoginPrivate
<1>13. ClosedInv'
  <2>1. ASSUME NEW h \in Goroutines, pc'[h] \in Closing
        PROVE  pc[h] = pc'[h] /\ state'[ref'[h]].did = state[ref[h]].did /\ state'[ref'[h]].connID = state[ref[h]].connID
    <3>1. pc'[h] # "idle" /\ pc[h] \in Closing /\ ref'[h] = ref[h] /\ pc[h] = pc'[h]
      BY <1>8, <2>1 DEF Closing
    <3> QED BY <1>3, <3>1, CloserRef DEF SameIds
  <2> QED BY <1>1, <2>1 DEF SInv, ClosedInv, Pair, Closing
<1>14. RouteInv'
  <2> SUFFICES ASSUME NEW d \in AllDids, NEW c \in ConnIDs, route[d] = c
               PROVE  \/ <<d, c>> \in loginSlot \/ <<d, c>> \in torn'
                      \/ \E h \in Goroutines : pc'[h] \in {"delClientIDs", "delRoute"} /\ Pair(ref[h])' = <<d, c>>
    BY <1>1 DEF RouteInv
  <2>1. \A h \in Goroutines : h # g /\ pc[h] \in {"delClientIDs", "delRoute"} => pc'[h] = pc[h] /\ Pair(ref[h])' = Pair(ref[h])
    BY <1>3, <1>4, CloserRef DEF Pair, SameIds, Closing
  <2>2. CASE Pair(ref[g]) = <<d, c>>
    BY <1>1, <2>2
  <2>3. CASE \E h \in Goroutines : h # g /\ pc[h] \in {"delClientIDs", "delRoute"} /\ Pair(ref[h]) = <<d, c>>
    BY <2>1, <2>3
  <2> QED BY <1>1, <2>2, <2>3 DEF SInv, RouteInv
<1>15. \A c \in ConnIDs : LogOutBegun(c) \/ c = state[ref[g]].connID => LogOutBegun(c)'
  <2>1. \A c \in ConnIDs : Torn(c) \/ c = state[ref[g]].connID => Torn(c)'
    BY <1>1, <1>2 DEF Torn, Pair
  <2>2. \A h \in Goroutines : h # g /\ pc[h] \in Closing => pc'[h] \in Closing /\ state'[ref'[h]].connID = state[ref[h]].connID
    BY <1>4, <1>9
  <2> QED BY <1>1, <2>1, <2>2 DEF LogOutBegun
<1>16. LostInv'
  BY <1>1, <1>4, <1>5, <1>6, <1>15, LostKept DEF SInv
<1>17. SlotInv'
  BY <1>1, <1>15 DEF SInv, SlotInv, TInv, TypeOK
<1> QED BY <1>10, <1>11, <1>12, <1>13, <1>14, <1>16, <1>17 DEF SInv

\* A recovery reads its slot.
LEMMA S_RecoverSMEMBERS == ASSUME TInv, SInv, NEW s \in Slots, RecoverSMEMBERS(s) PROVE SInv'
<1>1. UNCHANGED <<loginSlot, route, lastMsg, torn, unrouted, loginAck, delConn, opened, req, ref, pc, state>>
  BY DEF RecoverSMEMBERS
<1>2. \A t \in Slots : recTodo'[t] \subseteq recTodo[t] \cup loginSlot
  BY DEF RecoverSMEMBERS, SMEMBERS, TInv, TypeOK
<1>3. \A d \in AllDids, c \in ConnIDs : Claim(d, c)' => Claim(d, c)
  BY <1>1, <1>2 DEF Claim
<1>4. \A c \in ConnIDs : Untouched(c) => Untouched(c)'
  BY <1>1, <1>3 DEF Untouched
<1>5. FreshInv'
  <2>1. Opening => req.conn \in ConnIDs
    BY DEF Opening, Closing, TInv, ReqInv, Commands
  <2>2. Opening' => Untouched(req.conn)'
    BY <1>1, <1>4, <2>1 DEF SInv, FreshInv, Untouched, Opening
  <2> QED BY <1>1, <1>4, <2>2 DEF SInv, FreshInv, Opening, LoggingIn
<1>6. OneDid'
  BY <1>3 DEF SInv, OneDid
<1>7. LoginPrivate' /\ ClosedInv' /\ RouteInv' /\ SlotInv'
  BY <1>1 DEF SInv, LoginPrivate, LoggingIn, ClosedInv, RouteInv, SlotInv, LogOutBegun, Torn, Pair
<1>8. LostInv'
  <2>1. \A c \in ConnIDs : LogOutBegun(c) => LogOutBegun(c)'
    BY <1>1 DEF LogOutBegun, Torn
  <2> QED BY <1>1, <1>3, <2>1, LostKept DEF SInv
<1> QED BY <1>5, <1>6, <1>7, <1>8 DEF SInv

\* A recovery rebuilds an object for a claim it has read.
LEMMA S_RecoverStore == ASSUME TInv, SInv, NEW s \in Slots, RecoverStore(s) PROVE SInv'
<1>1. UNCHANGED <<loginSlot, route, lastMsg, torn, unrouted, loginAck, delConn, opened, req, ref, pc>>
  BY DEF RecoverStore
<1>2. PICK p \in recTodo[s], o \in Objs :
        /\ Unused(o)
        /\ state' = [state EXCEPT ![o] = NewConnState(p[1], p[2])]
        /\ recTodo' = [recTodo EXCEPT ![s] = @ \ {p}]
  BY DEF RecoverStore
<1>3. p[1] \in AllDids /\ p[2] \in ConnIDs /\ <<p[1], p[2]>> \in recTodo[s]
      /\ \A t \in Slots : recTodo'[t] \subseteq recTodo[t]
  BY <1>2 DEF TInv, TypeOK
<1>4. /\ state'[o].connID = p[2] /\ state'[o].did = p[1] /\ pc[o] = "idle"
      /\ \A q \in Objs : q # o => state'[q] = state[q]
      /\ \A g \in Goroutines : pc[g] \in UsingState =>
           ref[g] \in Objs /\ ref[g] # o /\ state'[ref[g]] = state[ref[g]]
  BY <1>2, <1>3, Allocated
<1>5. \A d \in AllDids, c \in ConnIDs : Claim(d, c)' => Claim(d, c)
  BY <1>1, <1>3, <1>4 DEF Claim
<1>6. \A c \in ConnIDs : Untouched(c) => Untouched(c)'
  BY <1>1, <1>5 DEF Untouched
<1>7. \A g \in Goroutines : pc[g] \in Closing \cup {"close"} => state'[ref[g]] = state[ref[g]]
  BY <1>4 DEF UsingState, Closing
<1>8. FreshInv'
  <2>1. Opening => req.conn \in ConnIDs
    BY DEF Opening, Closing, TInv, ReqInv, Commands
  <2>2. Opening' => Untouched(req.conn)'
    BY <1>1, <1>6, <2>1 DEF SInv, FreshInv, Untouched, Opening
  <2> QED BY <1>1, <1>6, <2>2 DEF SInv, FreshInv, Opening, LoggingIn
<1>9. OneDid'
  BY <1>5 DEF SInv, OneDid
<1>10. LoginPrivate'
  BY <1>1, <1>4, <1>7 DEF SInv, LoginPrivate, LoggingIn
<1>11. ClosedInv' /\ RouteInv'
  BY <1>1, <1>7 DEF SInv, ClosedInv, RouteInv, Pair, Closing
<1>12. \A c \in ConnIDs : LogOutBegun(c) => LogOutBegun(c)'
  BY <1>1, <1>7 DEF LogOutBegun, Torn
<1>13. SlotInv' /\ LostInv'
  <2>1. loginAck \subseteq ConnIDs
    BY DEF TInv, TypeOK
  <2>2. LostInv'
    BY <1>1, <1>5, <1>12, LostKept DEF SInv
  <2> QED BY <1>1, <1>12, <2>1, <2>2 DEF SInv, SlotInv
<1> QED BY <1>8, <1>9, <1>10, <1>11, <1>13 DEF SInv

\* The process dies, and what it was closing is on record.
LEMMA S_Crash == ASSUME TInv, SInv, Crash \/ PushPanics \/ ReConnPanics PROVE SInv'
<1>1. /\ UNCHANGED <<loginSlot, route, lastMsg, unrouted, loginAck, delConn, opened>> /\ torn' = torn \cup Interrupted
      /\ state' = [o \in Objs |-> Fresh] /\ pc' = [g \in Goroutines |-> "idle"] /\ recTodo' = [s \in Slots |-> {}]
  BY DEF Crash, PushPanics, ReConnPanics, Lose
<1>2. /\ \A g \in Goroutines : pc'[g] = "idle"
      /\ \A o \in Objs : state'[o].connID \notin ConnIDs
      /\ \A s \in Slots : recTodo'[s] = {}
  BY <1>1 DEF Fresh
<1>3. \A d \in AllDids, c \in ConnIDs : Claim(d, c)' => Claim(d, c)
  BY <1>1, <1>2 DEF Claim
<1>4. \A d \in AllDids, c \in ConnIDs : <<d, c>> \in Interrupted => Claim(d, c)
  <2> SUFFICES ASSUME NEW d \in AllDids, NEW c \in ConnIDs, NEW g \in Goroutines, pc[g] \in Closing, Pair(ref[g]) = <<d, c>>
               PROVE  Claim(d, c)
    BY DEF Interrupted
  <2>1. d = state[ref[g]].did /\ c = state[ref[g]].connID
    BY DEF Pair
  <2> QED BY <2>1, CloserRef
<1>5. \A c \in ConnIDs : Untouched(c) => Untouched(c)'
  BY <1>1, <1>3, <1>4 DEF Untouched
<1>6. FreshInv' /\ LoginPrivate' /\ ClosedInv'
  BY <1>1, <1>2, <1>5 DEF SInv, FreshInv, LoginPrivate, Opening, LoggingIn, ClosedInv, Closing
<1>7. OneDid'
  BY <1>3 DEF SInv, OneDid
<1>8. RouteInv'
  BY <1>1 DEF SInv, RouteInv, Interrupted, Closing
<1>9. \A c \in ConnIDs : LogOutBegun(c) => LogOutBegun(c)'
  <2>1. \A c \in ConnIDs : Torn(c) => Torn(c)'
    BY <1>1 DEF Torn
  <2>2. ASSUME NEW c \in ConnIDs, NEW g \in Goroutines, pc[g] \in Closing, state[ref[g]].connID = c
        PROVE  Torn(c)'
    <3>1. state[ref[g]].did \in AllDids
      BY <2>2, CloserRef
    <3> QED BY <1>1, <2>2, <3>1 DEF Torn, Interrupted, Pair
  <2> QED BY <1>1, <2>1, <2>2 DEF LogOutBegun
<1>10. SlotInv' /\ LostInv'
  <2>1. loginAck \subseteq ConnIDs /\ pc'[Handler] # "store"
    BY <1>2 DEF TInv, TypeOK
  <2>2. LostInv'
    BY <1>1, <1>3, <1>9, <2>1, LostKept DEF SInv
  <2> QED BY <1>1, <1>9, <2>1, <2>2 DEF SInv, SlotInv
<1> QED BY <1>6, <1>7, <1>8, <1>10 DEF SInv

\* From push to SetBytes cmdHandler works for one connection.
LEMMA AppendStep == ASSUME TInv, AppendInv, [Next]_vars PROVE AppendInv'
<1> SUFFICES ASSUME pc'[Handler] \in {"append", "setBytes"} PROVE state'[ref'[Handler]].connID = req'.conn
  BY DEF AppendInv
<1>0. /\ pc \in [Goroutines -> HandlerSteps \cup LogOutSteps] /\ ref \in [Goroutines -> Objs \cup {Nil}]
      /\ Handler \in Goroutines /\ \A o \in Objs : o \in Goroutines /\ o # Handler
  BY DEF TInv, TypeOK
<1> DEFINE Stay == pc'[Handler] = pc[Handler] /\ ref'[Handler] = ref[Handler] /\ req' = req
<1>1. CASE Stay /\ (SameIds \/ state'[ref[Handler]] = state[ref[Handler]])
  <2>1. pc[Handler] \in UsingState /\ ref[Handler] \in Objs
    BY <1>1 DEF TInv, TypeOK, UsingState
  <2> QED BY <1>1, <2>1 DEF AppendInv, SameIds
<1>2. CASE cmdHandler
  <2>1. CASE PushMsg
    <3>1. req.conn \in ConnIDs /\ ref'[Handler] = table[req.conn] /\ table[req.conn] # Nil /\ state' = state /\ req' = req
      BY <1>0, <2>1 DEF PushMsg, Found, TInv, ReqInv, Commands
    <3> QED BY <3>1 DEF TInv, KeyInv
  <2>2. CASE AppendArm
    <3>1. SameIds
      BY <2>2, IdsOfUpdate DEF AppendArm, TimerOps, TInv, TypeOK, UsingState
    <3>2. ref' = ref /\ req' = req /\ pc[Handler] = "append" /\ ref[Handler] \in Objs
      BY <2>2 DEF AppendArm, TInv, TypeOK, UsingState
    <3> QED BY <3>1, <3>2 DEF AppendInv, SameIds
  <2>3. CASE PushPanics \/ ReConnPanics
    BY <1>0, <2>3 DEF PushPanics, ReConnPanics, Lose
  <2>4. CASE Close(Handler)
    BY <1>0, <2>4 DEF Close, CloseStart, CloseDelClientIDs, CloseDelRoute, CloseDelLastMsg, CloseFinish, AfterLogOut,
       Done, Goto
  <2>5. CASE LoginSADD \/ LoginAddRecord \/ LoginStore \/ Heartbeat \/ CompareAndIncr \/ AppendSetBytes \/ AckLastMsg
    BY <1>0, <2>5 DEF LoginSADD, LoginAddRecord, LoginStore, Heartbeat, CompareAndIncr, AppendSetBytes, AckLastMsg,
       Done, Goto
  <2> QED BY <1>2, <2>1, <2>2, <2>3, <2>4, <2>5 DEF cmdHandler
<1>3. ASSUME NEW o \in Objs, \/ HeartTimerFires(o) \/ ReConnTimerFires(o) \/ MsgTimerFires(o) \/ reSetReConnTimer(o)
                             \/ RePush(o) \/ LogOut(o)
      PROVE  Stay /\ SameIds
  <2>1. CASE HeartTimerFires(o) \/ ReConnTimerFires(o) \/ MsgTimerFires(o) \/ reSetReConnTimer(o)
    <3>1. SameIds
      BY <2>1, IdsOfUpdate DEF HeartTimerFires, ReConnTimerFires, MsgTimerFires, reSetReConnTimer, TimerOps
    <3> QED BY <1>0, <2>1, <3>1 DEF HeartTimerFires, ReConnTimerFires, MsgTimerFires, reSetReConnTimer, Goto
  <2>2. CASE RePush(o)
    <3>1. SameIds
      BY <2>2, IdsOfUpdate DEF RePush, rePushGet, rePushLoad, rePushArm, TimerOps, SameIds, TInv, LiveInv
    <3> QED BY <2>2, <3>1 DEF RePush, rePushGet, rePushLoad, rePushArm
  <2>3. CASE connLogOut(o) \/ CloseDelClientIDs(o) \/ CloseDelRoute(o) \/ CloseDelLastMsg(o)
    BY <1>0, <2>3 DEF connLogOut, CloseDelClientIDs, CloseDelRoute, CloseDelLastMsg, Done, Goto, SameIds
  <2>4. CASE CloseFinish(o)
    BY <1>0, <2>4 DEF CloseFinish, AfterLogOut, Done, Goto, SameIds
  <2>5. CASE CloseStart(o)
    <3>1. SameIds
      BY <1>0, <2>5, CloserRef, IdsOfUpdate DEF CloseStart, TimerOps
    <3> QED BY <1>0, <2>5, <3>1 DEF CloseStart, Goto
  <2> QED BY <1>3, <2>1, <2>2, <2>3, <2>4, <2>5 DEF LogOut, Close
<1>4. ASSUME NEW g \in Goroutines, CloseError(g) PROVE Stay /\ SameIds
  <2>1. SameIds
    BY <1>4, CloserRef, IdsOfUpdate DEF CloseError, TimerOps, Closing
  <2> QED BY <1>0, <1>4, <2>1 DEF CloseError, Done, Goto
<1>5. ASSUME NEW s \in Slots, Recover(s) PROVE Stay /\ (SameIds \/ state'[ref[Handler]] = state[ref[Handler]])
  <2>1. CASE RecoverStore(s)
    <3>1. Stay
      BY <2>1 DEF RecoverStore
    <3>2. PICK o \in Objs : Unused(o) /\ \E x : state' = [state EXCEPT ![o] = x]
      BY <2>1 DEF RecoverStore
    <3>3. ref[Handler] \in Objs /\ ref[Handler] # o
      BY <1>0, <3>1, <3>2 DEF Unused, TInv, TypeOK, UsingState
    <3> QED BY <3>1, <3>2, <3>3 DEF TInv, TypeOK
  <2>2. CASE RecoverArm(s)
    <3>1. SameIds
      BY <2>2, IdsOfUpdate DEF RecoverArm, TimerOps, TInv, LiveInv
    <3> QED BY <2>2, <3>1 DEF RecoverArm
  <2> QED BY <1>5, <2>1, <2>2 DEF Recover, RecoverSMEMBERS, RecoverGetLast, RecoverDone, SameIds
<1>6. ASSUME NEW b \in ConnIDs, Client(b) PROVE Stay /\ SameIds
  <2>1. ASSUME NEW m, Handle(m) PROVE FALSE
    BY <1>0, <2>1 DEF Handle, Goto, FirstStep
  <2>2. ASSUME NEW m, HandleLateReConn(m) PROVE FALSE
    BY <1>0, <2>2 DEF HandleLateReConn, Goto
  <2> QED BY <1>6, <2>1, <2>2 DEF Client, CancelConn, HandleLogin, HandleReConn, HandleHeartbeat, HandleUp, HandleAck,
     HandleOrDrop, HandleDropped, ClientGone, vars, SameIds
<1>7. CASE Crash
  BY <1>0, <1>7 DEF Crash, Lose
<1>8. CASE Start \/ UNCHANGED vars
  BY <1>1, <1>8 DEF Start, vars
<1> HIDE DEF Stay
<1> QED BY <1>1, <1>2, <1>3, <1>4, <1>5, <1>6, <1>7, <1>8 DEF Next

SessionInv == TInv /\ SInv /\ AppendInv

LEMMA SessionInit == Init => SessionInv
<1> SUFFICES ASSUME Init PROVE SInv /\ AppendInv
  BY TInvInit DEF SessionInv
<1>1. /\ \A g \in Goroutines : pc[g] = "idle"
      /\ \A o \in Objs : state[o].connID \notin ConnIDs
      /\ \A s \in Slots : recTodo[s] = {}
      /\ \A d \in AllDids : route[d] \notin ConnIDs
      /\ \A c \in ConnIDs : lastMsg[c] = NoMsg
      /\ loginSlot = {} /\ loginAck = {} /\ torn = {}
  BY DEF Init, Fresh
<1>2. \A d \in AllDids, c \in ConnIDs : ~Claim(d, c)
  BY <1>1 DEF Claim
<1>3. \A c \in ConnIDs : Untouched(c)
  BY <1>1, <1>2 DEF Untouched
<1>4. pc[Handler] = "idle"
  BY <1>1
<1>5. FreshInv /\ OneDid /\ LoginPrivate /\ AppendInv
  BY <1>2, <1>3, <1>4 DEF FreshInv, OneDid, LoginPrivate, AppendInv, Opening, LoggingIn, Closing
<1>6. ClosedInv /\ RouteInv /\ SlotInv /\ LostInv
  BY <1>1, <1>4 DEF ClosedInv, RouteInv, SlotInv, LostInv, Closing
<1> QED BY <1>5, <1>6 DEF SInv

LEMMA SessionStep == RedisFast /\ SessionInv /\ [Next]_vars => SessionInv'
<1> SUFFICES ASSUME RedisFast, SessionInv, [Next]_vars PROVE SessionInv'
  OBVIOUS
<1>0. TInv /\ SInv /\ AppendInv
  BY DEF SessionInv
<1>1. TInv' /\ AppendInv'
  BY <1>0, TInvStep, AppendStep
<1> SUFFICES SInv'
  BY <1>1 DEF SessionInv
<1>2. ASSUME NEW g \in Goroutines, Close(g) \/ CloseError(g) PROVE SInv'
  BY <1>0, <1>2, CalmSteps, CalmKeeps, S_CloseStart, S_CloseDelRoute, S_CloseFinish, S_CloseError DEF Close
<1>3. CASE cmdHandler
  <2>1. CASE LoginSADD \/ LoginAddRecord \/ LoginStore
    BY <1>0, <2>1, S_LoginSADD, S_LoginAddRecord, S_LoginStore
  <2>2. CASE Heartbeat \/ CompareAndIncr \/ PushMsg \/ AppendArm \/ AckLastMsg
    BY <1>0, <2>2, CalmSteps, CalmKeeps
  <2>3. CASE AppendSetBytes
    BY <1>0, <2>3, CalmSetBytes, CalmKeeps
  <2>4. CASE PushPanics \/ ReConnPanics
    BY <1>0, <2>4, S_Crash
  <2>5. CASE Close(Handler)
    BY <1>2, <2>5
  <2> QED BY <1>3, <2>1, <2>2, <2>3, <2>4, <2>5 DEF cmdHandler
<1>4. ASSUME NEW o \in Objs, \/ HeartTimerFires(o) \/ ReConnTimerFires(o) \/ MsgTimerFires(o)
                             \/ reSetReConnTimer(o) \/ LogOut(o) \/ RePush(o)
      PROVE  SInv'
  <2>1. CASE Close(o)
    BY <1>2, <2>1
  <2> QED BY <1>0, <1>4, <2>1, CalmSteps, CalmKeeps DEF LogOut
<1>5. ASSUME NEW s \in Slots, Recover(s) PROVE SInv'
  BY <1>0, <1>5, CalmSteps, CalmKeeps, S_RecoverSMEMBERS, S_RecoverStore DEF Recover
<1>6. ASSUME NEW c \in ConnIDs, Client(c) PROVE SInv'
  BY <1>0, <1>6, S_Client
<1>7. CASE Crash
  BY <1>0, <1>7, S_Crash
<1>8. CASE Start \/ UNCHANGED vars
  BY <1>0, <1>8, CalmSteps, CalmKeeps
<1> QED BY <1>2, <1>3, <1>4, <1>5, <1>6, <1>7, <1>8 DEF Next

\* A goroutine that is removing something of connection c is in its close.
LEMMA BegunIsClosing ==
  ASSUME NEW c, LogOutBegun(c)
  PROVE  c \in delConn \/ Torn(c) \/ ClosingConn(c)
  BY DEF LogOutBegun, ClosingConn, InClose

\* A route in the router's table is always accounted for: its connection is in a
\* login slot, in the table, in its close, or its close was interrupted; for any
\* number of devices, connections, crashes and logouts that race a login.
THEOREM RoutesAreOwned ==
  ASSUME RedisFast
  PROVE  Spec => []RouteIsOwned
<1>1. SessionInv /\ [Next]_vars => SessionInv'
  BY SessionStep
<1>2. SessionInv => RouteIsOwned
  <2> SUFFICES ASSUME RouteInv, NEW d \in AllDids, NEW c \in ConnIDs, route[d] = c
               PROVE  <<d, c>> \in loginSlot \/ table[c] # Nil \/ ClosingConn(c) \/ Torn(c)
    BY DEF SessionInv, SInv, RouteIsOwned
  <2>1. CASE <<d, c>> \in torn
    BY <2>1 DEF Torn
  <2>2. ASSUME NEW g \in Goroutines, pc[g] \in {"delClientIDs", "delRoute"}, Pair(ref[g]) = <<d, c>>
        PROVE  ClosingConn(c)
    <3>1. state[ref[g]].connID = c /\ pc[g] \in Closing
      BY <2>2 DEF Pair, Closing
    <3> QED BY <3>1 DEF ClosingConn, InClose
  <2> QED BY <2>1, <2>2 DEF RouteInv
<1> QED BY <1>1, <1>2, SessionInit, PTL DEF Spec

\* An acknowledged connection that is in no table and no login slot was closed at
\* the gateway, or its close is under way or was interrupted.
THEOREM LogOutsAreTold ==
  ASSUME RedisFast
  PROVE  Spec => []NoSilentLogOut
<1>1. SessionInv /\ [Next]_vars => SessionInv'
  BY SessionStep
<1>2. SessionInv => NoSilentLogOut
  BY BegunIsClosing DEF SessionInv, SInv, SlotInv, NoSilentLogOut
<1> QED BY <1>1, <1>2, SessionInit, PTL DEF Spec

\* A logged in device loses its route only to a logout of another connection of the
\* same device that ran after the device's last login; for any number of devices,
\* connections, crashes and logouts.
THEOREM RoutesAreLostByLogOut ==
  ASSUME RedisFast
  PROVE  Spec => []RouteLostOnlyByLogOut
<1>1. SessionInv /\ [Next]_vars => SessionInv'
  BY SessionStep
<1>2. SessionInv => RouteLostOnlyByLogOut
  <2> SUFFICES ASSUME SessionInv, NEW c \in loginAck \ delConn, table[c] # Nil
               PROVE  LET d == state[table[c]].did IN
                        \/ route[d] # 0 \/ ClosingConn(c) \/ Torn(c)
                        \/ \E b \in ConnIDs \ {c} : <<d, b>> \in unrouted
    BY DEF RouteLostOnlyByLogOut
  <2>1. c \in ConnIDs /\ table[c] \in Objs /\ state[table[c]].connID = c /\ state[table[c]].did \in AllDids
    BY DEF SessionInv, TInv, TypeOK, KeyInv, ConnStates
  <2>2. Claim(state[table[c]].did, c)
    BY <2>1 DEF Claim
  <2>3. route[state[table[c]].did] # 0 \/ LogOutBegun(c) \/ Displaced(state[table[c]].did, c)
    BY <2>1, <2>2 DEF SessionInv, SInv, LostInv
  <2> QED BY <2>3, BegunIsClosing DEF Displaced
<1> QED BY <1>1, <1>2, SessionInit, PTL DEF Spec

\* The last step of a logout finds its connection in no login slot.
LEMMA FinishForgets ==
  ASSUME TInv, SInv, NEW g \in Goroutines, CloseFinish(g), NEW d \in AllDids
  PROVE  <<d, state[ref[g]].connID>> \notin loginSlot
<1>1. pc[g] \in Closing
  BY DEF CloseFinish, Closing
<1>2. /\ state[ref[g]].connID \in ConnIDs /\ state[ref[g]].did \in AllDids
      /\ Claim(state[ref[g]].did, state[ref[g]].connID)
  BY <1>1, CloserRef
<1>3. <<state[ref[g]].did, state[ref[g]].connID>> \notin loginSlot
  BY <1>1 DEF SInv, ClosedInv, Pair
<1>4. <<d, state[ref[g]].connID>> \in loginSlot => d = state[ref[g]].did
  BY <1>2 DEF SInv, OneDid, Claim
<1> QED BY <1>3, <1>4

\* A connection that a logout takes from the table is in no login slot: a restart
\* does not bring it back.
THEOREM LogOutsAreForgotten ==
  ASSUME RedisFast
  PROVE  Spec => LogOutForgets
<1> DEFINE Forgets == \A c \in ConnIDs : (table[c] # Nil /\ table'[c] = Nil /\ up') =>
                        \A d \in AllDids : <<d, c>> \notin loginSlot'
<1>1. SessionInv /\ [Next]_vars => SessionInv'
  BY SessionStep
<1>2. SessionInv /\ [Next]_vars => [Forgets]_vars
  <2> SUFFICES ASSUME SessionInv, [Next]_vars, NEW c \in ConnIDs, table[c] # Nil, table'[c] = Nil, up',
                      NEW d \in AllDids
               PROVE  <<d, c>> \notin loginSlot'
    OBVIOUS
  <2>0. TInv /\ SInv /\ table \in [ConnIDs -> Objs \cup {Nil}]
    BY DEF SessionInv, TInv, TypeOK
  <2>1. ASSUME NEW g \in Goroutines, CloseFinish(g) PROVE <<d, c>> \notin loginSlot'
    <3>1. /\ pc[g] \in Closing /\ table' = [table EXCEPT ![state[ref[g]].connID] = Nil] /\ loginSlot' = loginSlot
      BY <2>1 DEF CloseFinish, Closing
    <3>2. c = state[ref[g]].connID
      BY <2>0, <3>1, CloserRef
    <3> QED BY <2>0, <2>1, <3>1, <3>2, FinishForgets
  <2>2. ASSUME NEW g \in Goroutines, \/ CloseStart(g) \/ CloseDelClientIDs(g) \/ CloseDelRoute(g)
                                     \/ CloseDelLastMsg(g) \/ CloseError(g)
        PROVE  FALSE
    BY <2>2 DEF CloseStart, CloseDelClientIDs, CloseDelRoute, CloseDelLastMsg, CloseError
  <2>3. Close(Handler) => <<d, c>> \notin loginSlot'
    BY <2>1, <2>2 DEF Close
  <2>4. ASSUME cmdHandler, ~Close(Handler) PROVE FALSE
    <3>1. CASE LoginStore
      BY <2>0, <3>1 DEF LoginStore, TInv, TypeOK, UsingState
    <3> QED BY <2>4, <3>1 DEF cmdHandler, ReConnPanics, PushPanics, Lose, LoginSADD, LoginAddRecord, Heartbeat,
               CompareAndIncr, PushMsg, AppendArm, AppendSetBytes, AckLastMsg
  <2>5. ASSUME NEW o \in Objs, \/ HeartTimerFires(o) \/ ReConnTimerFires(o) \/ MsgTimerFires(o)
                               \/ reSetReConnTimer(o) \/ connLogOut(o) \/ RePush(o)
        PROVE  FALSE
    BY <2>5 DEF HeartTimerFires, ReConnTimerFires, MsgTimerFires, reSetReConnTimer, connLogOut, RePush, rePushGet,
       rePushLoad, rePushArm
  <2>6. ASSUME NEW o \in Objs, Close(o) PROVE <<d, c>> \notin loginSlot'
    BY <2>1, <2>2, <2>6 DEF Close
  <2>7. ASSUME NEW s \in Slots, Recover(s) PROVE FALSE
    BY <2>0, <2>7 DEF Recover, RecoverSMEMBERS, RecoverStore, RecoverGetLast, RecoverArm, RecoverDone
  <2>8. ASSUME NEW b \in ConnIDs, Client(b) PROVE FALSE
    BY <2>8 DEF Client, CancelConn, HandleLogin, HandleReConn, HandleHeartbeat, HandleUp, HandleAck, HandleOrDrop,
       Handle, HandleLateReConn, HandleDropped, ClientGone, vars
  <2>9. ASSUME Crash \/ Start \/ UNCHANGED vars PROVE FALSE
    BY <2>9 DEF Crash, Lose, Start, vars
  <2> QED BY <2>2, <2>3, <2>4, <2>5, <2>6, <2>7, <2>8, <2>9 DEF Next, LogOut
<1> QED BY <1>1, <1>2, SessionInit, PTL DEF Spec, LogOutForgets

-----------------------------------------------------------------------------
(* What Redis knows, the running server serves.                             *)

LEMMA SlotOf == \A c \in ConnIDs : getConnStateSlot(c) \in Slots
  BY SlotAssumption DEF getConnStateSlot, Slots

\* A step that puts nothing into a login slot and takes nothing out of the hands of
\* those that serve what is in one.
ServedFrame ==
  /\ up' = up /\ loginSlot' \subseteq loginSlot
  /\ \A c \in ConnIDs : table[c] # Nil => table'[c] # Nil
  /\ \A s \in Slots : (recPc[s] = "smembers" => recPc'[s] = "smembers") /\ recTodo[s] \subseteq recTodo'[s]
  /\ LoggingIn => LoggingIn' /\ req' = req

LEMMA ServedKept == ASSUME SlotsAreServed, ServedFrame PROVE SlotsAreServed'
<1> SUFFICES ASSUME up', NEW d \in AllDids, NEW c \in ConnIDs, <<d, c>> \in loginSlot'
             PROVE  \/ table'[c] # Nil
                    \/ recPc'[getConnStateSlot(c)] = "smembers" \/ <<d, c>> \in recTodo'[getConnStateSlot(c)]
                    \/ LoggingIn' /\ req'.conn = c
  BY DEF SlotsAreServed, LoggingIn
<1>1. \/ table[c] # Nil
      \/ recPc[getConnStateSlot(c)] = "smembers" \/ <<d, c>> \in recTodo[getConnStateSlot(c)]
      \/ LoggingIn /\ req.conn = c
  BY DEF SlotsAreServed, ServedFrame, LoggingIn
<1> QED BY <1>1, SlotOf DEF ServedFrame

LEMMA ServedFrameSteps ==
  ASSUME TInv,
         \/ \E o \in Objs : \/ HeartTimerFires(o) \/ ReConnTimerFires(o) \/ MsgTimerFires(o)
                            \/ reSetReConnTimer(o) \/ connLogOut(o) \/ RePush(o)
         \/ \E g \in Goroutines : \/ CloseStart(g) \/ CloseDelClientIDs(g) \/ CloseDelRoute(g)
                                  \/ CloseDelLastMsg(g) \/ CloseError(g)
         \/ LoginAddRecord \/ Heartbeat \/ CompareAndIncr \/ PushMsg \/ AppendArm \/ AppendSetBytes \/ AckLastMsg
         \/ \E s \in Slots : RecoverGetLast(s) \/ RecoverArm(s) \/ RecoverDone(s)
         \/ \E c \in ConnIDs : Client(c)
         \/ UNCHANGED vars
  PROVE  ServedFrame
<1>0. pc \in [Goroutines -> HandlerSteps \cup LogOutSteps] /\ recPc \in [Slots -> {"done", "smembers", "next", "getLast", "arm"}]
      /\ Handler \in Goroutines /\ \A o \in Objs : o \in Goroutines /\ o # Handler
  BY DEF TInv, TypeOK
<1> DEFINE Same == UNCHANGED <<up, table, recTodo>> /\ loginSlot' \subseteq loginSlot
           SameRec == \A s \in Slots : recPc[s] = "smembers" => recPc'[s] = "smembers"
           SameLogin == LoggingIn => LoggingIn' /\ req' = req
<1>1. CASE Same /\ SameRec /\ SameLogin
  BY <1>1 DEF ServedFrame
<1>2. ASSUME NEW o \in Objs, HeartTimerFires(o) \/ ReConnTimerFires(o) \/ MsgTimerFires(o) \/ reSetReConnTimer(o)
      PROVE  Same /\ SameRec /\ SameLogin
  BY <1>0, <1>2 DEF HeartTimerFires, ReConnTimerFires, MsgTimerFires, reSetReConnTimer, Goto, LoggingIn
<1>3. ASSUME NEW o \in Objs, connLogOut(o) \/ RePush(o) PROVE Same /\ SameRec /\ SameLogin
  BY <1>0, <1>3 DEF connLogOut, RePush, rePushGet, rePushLoad, rePushArm, Done, Goto, LoggingIn
<1>4. ASSUME NEW g \in Goroutines, CloseStart(g) \/ CloseDelClientIDs(g) \/ CloseDelRoute(g) \/ CloseDelLastMsg(g)
      PROVE  Same /\ SameRec /\ SameLogin
  BY <1>0, <1>4 DEF CloseStart, CloseDelClientIDs, CloseDelRoute, CloseDelLastMsg, SREM, Goto, LoggingIn
<1>5. ASSUME NEW g \in Goroutines, CloseError(g) PROVE Same /\ SameRec /\ SameLogin
  BY <1>0, <1>5 DEF CloseError, Done, Goto, LoggingIn, Closing
<1>6. CASE LoginAddRecord \/ Heartbeat \/ CompareAndIncr \/ PushMsg \/ AppendArm \/ AppendSetBytes \/ AckLastMsg
  <2>1. Same /\ SameRec /\ SameLogin
    BY <1>0, <1>6 DEF LoginAddRecord, Heartbeat, CompareAndIncr, PushMsg, AppendArm, AppendSetBytes, AckLastMsg, Done,
       Goto, LoggingIn
  <2> QED BY <1>1, <2>1
<1>7. ASSUME NEW s \in Slots, RecoverGetLast(s) \/ RecoverArm(s) \/ RecoverDone(s) PROVE Same /\ SameRec /\ SameLogin
  BY <1>0, <1>7 DEF RecoverGetLast, RecoverArm, RecoverDone, LoggingIn
<1>8. ASSUME NEW c \in ConnIDs, Client(c) PROVE Same /\ SameRec /\ SameLogin
  BY <1>8 DEF Client, CancelConn, HandleLogin, HandleReConn, HandleHeartbeat, HandleUp, HandleAck, HandleOrDrop,
     Handle, HandleLateReConn, HandleDropped, Receive, ClientGone, vars, LoggingIn
<1>9. CASE UNCHANGED vars
  BY <1>1, <1>9 DEF vars, LoggingIn
<1> HIDE DEF Same, SameRec, SameLogin
<1> QED BY <1>1, <1>2, <1>3, <1>4, <1>5, <1>6, <1>7, <1>8, <1>9

LEMMA ServedStep == TInv /\ SInv /\ SlotsAreServed /\ [Next]_vars => SlotsAreServed'
<1> SUFFICES ASSUME TInv, SInv, SlotsAreServed, [Next]_vars PROVE SlotsAreServed'
  OBVIOUS
<1>0. /\ pc \in [Goroutines -> HandlerSteps \cup LogOutSteps] /\ table \in [ConnIDs -> Objs \cup {Nil}]
      /\ recTodo \in [Slots -> SUBSET (AllDids \X ConnIDs)] /\ recPc \in [Slots -> {"done", "smembers", "next", "getLast", "arm"}]
      /\ loginSlot \subseteq AllDids \X ConnIDs
      /\ Handler \in Goroutines /\ \A o \in Objs : o \in Goroutines /\ o # Handler
  BY DEF TInv, TypeOK
<1>1. ASSUME NEW d \in AllDids, NEW c \in ConnIDs, up, <<d, c>> \in loginSlot
      PROVE  \/ table[c] # Nil
             \/ recPc[getConnStateSlot(c)] = "smembers" \/ <<d, c>> \in recTodo[getConnStateSlot(c)]
             \/ LoggingIn /\ req.conn = c
  BY <1>1 DEF SlotsAreServed, LoggingIn
<1>2. ASSUME \A d \in AllDids, c \in ConnIDs : up' /\ <<d, c>> \in loginSlot' =>
               \/ table'[c] # Nil
               \/ recPc'[getConnStateSlot(c)] = "smembers" \/ <<d, c>> \in recTodo'[getConnStateSlot(c)]
               \/ LoggingIn' /\ req'.conn = c
      PROVE  SlotsAreServed'
  BY <1>2 DEF SlotsAreServed, LoggingIn
<1>3. ASSUME NEW g \in Goroutines, CloseFinish(g) PROVE SlotsAreServed'
  <2>1. /\ table' = [table EXCEPT ![state[ref[g]].connID] = Nil]
        /\ UNCHANGED <<loginSlot, up, recPc, recTodo>>
        /\ LoggingIn => LoggingIn' /\ req' = req
    BY <1>0, <1>3 DEF CloseFinish, AfterLogOut, Done, Goto, LoggingIn
  <2>2. ASSUME NEW d \in AllDids, NEW c \in ConnIDs, <<d, c>> \in loginSlot PROVE table'[c] = table[c]
    BY <1>0, <1>3, <2>1, <2>2, FinishForgets
  <2> QED BY <1>1, <1>2, <2>1, <2>2
<1>4. CASE LoginSADD
  <2>1. /\ loginSlot' = loginSlot \cup {<<req.arg, req.conn>>} /\ LoggingIn' /\ ~LoggingIn
        /\ UNCHANGED <<up, table, recPc, recTodo, req>>
    BY <1>0, <1>4 DEF LoginSADD, SADD, Goto, LoggingIn
  <2> QED BY <1>1, <1>2, <2>1
<1>5. CASE LoginStore
  <2>1. /\ table' = [table EXCEPT ![req.conn] = ref[Handler]] /\ UNCHANGED <<loginSlot, up, recPc, recTodo>>
        /\ ref[Handler] # Nil
    BY <1>0, <1>5 DEF LoginStore, TInv, TypeOK, UsingState
  <2> QED BY <1>0, <1>1, <1>2, <2>1
<1>6. ASSUME NEW s \in Slots, RecoverSMEMBERS(s) PROVE SlotsAreServed'
  <2>1. /\ recTodo' = [recTodo EXCEPT ![s] = SMEMBERS(s)] /\ recPc' = [recPc EXCEPT ![s] = "next"]
        /\ UNCHANGED <<loginSlot, up, table, pc, req>>
    BY <1>6 DEF RecoverSMEMBERS
  <2>2. \A d \in AllDids, c \in ConnIDs : <<d, c>> \in loginSlot /\ getConnStateSlot(c) = s => <<d, c>> \in SMEMBERS(s)
    BY DEF SMEMBERS
  <2>3. LoggingIn' <=> LoggingIn
    BY <2>1 DEF LoggingIn
  <2> QED BY <1>0, <1>1, <1>2, <2>1, <2>2, <2>3, SlotOf
<1>7. ASSUME NEW s \in Slots, RecoverStore(s) PROVE SlotsAreServed'
  <2>1. /\ UNCHANGED <<loginSlot, up, pc, req>> /\ recPc' = [recPc EXCEPT ![s] = "getLast"] /\ recPc[s] = "next"
    BY <1>7 DEF RecoverStore
  <2>2. PICK p \in recTodo[s], o \in Objs : /\ table' = [table EXCEPT ![p[2]] = o]
                                            /\ recTodo' = [recTodo EXCEPT ![s] = @ \ {p}]
    BY <1>7 DEF RecoverStore
  <2>3. p[2] \in ConnIDs /\ p = <<p[1], p[2]>>
    BY <1>0, <2>2
  <2>4. table'[p[2]] # Nil /\ \A c \in ConnIDs : c # p[2] => table'[c] = table[c]
    BY <1>0, <2>2, <2>3
  <2>5. \A t \in Slots, d \in AllDids, c \in ConnIDs : c # p[2] /\ <<d, c>> \in recTodo[t] => <<d, c>> \in recTodo'[t]
    BY <1>0, <2>2, <2>3
  <2>6. \A t \in Slots : recPc[t] = "smembers" => recPc'[t] = "smembers"
    BY <1>0, <2>1
  <2>7. LoggingIn' <=> LoggingIn
    BY <2>1 DEF LoggingIn
  <2> QED BY <1>1, <1>2, <2>1, <2>4, <2>5, <2>6, <2>7, SlotOf
<1>8. CASE Crash \/ PushPanics \/ ReConnPanics
  <2>1. ~up'
    BY <1>8 DEF Crash, PushPanics, ReConnPanics, Lose
  <2> QED BY <1>2, <2>1
<1>9. CASE Start
  <2>1. \A s \in Slots : recPc'[s] = "smembers"
    BY <1>9 DEF Start
  <2> QED BY <1>2, <2>1, SlotOf
<1>10. ASSUME NEW g \in Goroutines, Close(g) \/ CloseError(g) PROVE SlotsAreServed'
  BY <1>3, <1>10, ServedFrameSteps, ServedKept DEF Close
<1>11. CASE cmdHandler
  BY <1>0, <1>4, <1>5, <1>8, <1>10, <1>11, ServedFrameSteps, ServedKept DEF cmdHandler
<1>12. ASSUME NEW o \in Objs, \/ HeartTimerFires(o) \/ ReConnTimerFires(o) \/ MsgTimerFires(o)
                              \/ reSetReConnTimer(o) \/ LogOut(o) \/ RePush(o)
       PROVE  SlotsAreServed'
  BY <1>0, <1>10, <1>12, ServedFrameSteps, ServedKept DEF LogOut
<1>13. ASSUME NEW s \in Slots, Recover(s) PROVE SlotsAreServed'
  BY <1>6, <1>7, <1>13, ServedFrameSteps, ServedKept DEF Recover
<1> QED BY <1>8, <1>9, <1>10, <1>11, <1>12, <1>13, ServedFrameSteps, ServedKept DEF Next

\* Whatever a login slot of Redis names is in the table of the running server, or is
\* about to be put there by its login or by the recovery of the slot, for any number
\* of connections, slots and crashes and however a recovery races logins and closes.
THEOREM SessionsAreServed ==
  ASSUME RedisFast
  PROVE  Spec => []SlotsAreServed
<1>1. Init => SlotsAreServed
  BY DEF Init, SlotsAreServed
<1>2. SessionInv /\ [Next]_vars => SessionInv'
  BY SessionStep
<1>3. SessionInv /\ SlotsAreServed /\ [Next]_vars => SlotsAreServed'
  BY ServedStep DEF SessionInv
<1> QED BY <1>1, <1>2, <1>3, SessionInit, PTL DEF Spec

-----------------------------------------------------------------------------
(* Who pushes a stored message again.                                       *)

Unacked(c) ==
  lastMsg[c] # NoMsg /\ table[c] # Nil => RetryPending(c) \/ ClosingConn(c) \/ Torn(c)

\* The message timer of o runs, or its callback does.
Pending(o) == state[o].msgTimer = "armed" \/ rePushPc[o] # "idle"
Reading(s) == recPc[s] \in {"getLast", "arm"}

\* A step that stores no message of c, files no object for it, and drops nothing
\* that will retry, close or explain.
RetryFrame(c) ==
  /\ lastMsg'[c] \in {lastMsg[c], NoMsg} /\ table'[c] \in {table[c], Nil}
  /\ \A o \in Objs : state[o].connID = c /\ Pending(o) => state'[o].connID = c /\ Pending(o)'
  /\ \A s \in Slots : Reading(s) /\ state[recRef[s]].connID = c => Reading(s)' /\ state'[recRef'[s]].connID = c
  /\ \A g \in Goroutines : InClose(g, c) => InClose(g, c)'
  /\ Torn(c) => Torn(c)'

LEMMA RetryKept == ASSUME NEW c \in ConnIDs, Unacked(c), RetryFrame(c) PROVE Unacked(c)'
<1>1. RetryPending(c) => RetryPending(c)'
  BY DEF RetryPending, RetryFrame, Pending, Reading
<1>2. ClosingConn(c) => ClosingConn(c)'
  BY DEF ClosingConn, RetryFrame
<1> QED BY <1>1, <1>2 DEF Unacked, RetryFrame

\* The operations that leave a running message timer running.
LEMMA MsgUpdate ==
  ASSUME TInv, NEW o \in Objs, NEW r, state' = [state EXCEPT ![o] = r],
         r \in {StopHeartTimer(state[o]), StopReConnTimer(state[o]), ArmReConnTimer(state[o]),
                ArmHeartTimer(state[o]), ArmMsgTimer(state[o])}
  PROVE  \A p \in Objs : /\ state'[p].connID = state[p].connID
                         /\ state[p].msgTimer = "armed" => state'[p].msgTimer = "armed"
<1>1. state[o] \in ConnStates /\ state'[o] = r /\ \A p \in Objs : p # o => state'[p] = state[p]
  BY DEF TInv, TypeOK
<1>2. r.connID = state[o].connID /\ (state[o].msgTimer = "armed" => r.msgTimer = "armed")
  BY <1>1 DEF ConnStates, StopHeartTimer, StopReConnTimer, ArmReConnTimer, ArmHeartTimer, ArmMsgTimer
<1> QED BY <1>1, <1>2

\* Arming the message timer.
LEMMA ArmUpdate ==
  ASSUME TInv, NEW o \in Objs, state' = [state EXCEPT ![o] = ArmMsgTimer(state[o])]
  PROVE  state'[o].msgTimer = "armed" /\ state'[o].connID = state[o].connID
  BY DEF TInv, TypeOK, ConnStates, ArmMsgTimer

\* Objects that goroutines and recoveries refer to are real.
LEMMA RefsReal ==
  ASSUME TInv
  PROVE  /\ \A s \in Slots : Reading(s) => recRef[s] \in Objs /\ state[recRef[s]].connID \in ConnIDs
         /\ \A g \in Goroutines : \A c : InClose(g, c) => ref[g] \in Objs
         /\ pc[Handler] \in UsingState => ref[Handler] \in Objs
  BY DEF TInv, TypeOK, LiveInv, Live, Reading, InClose, UsingState, Closing

\* Goroutines that start no close and leave none.
LEMMA RetryFrameOf ==
  ASSUME TInv, NEW c \in ConnIDs,
         lastMsg'[c] \in {lastMsg[c], NoMsg}, table'[c] \in {table[c], Nil}, torn' = torn,
         \A p \in Objs : state'[p].connID = state[p].connID,
         \A p \in Objs : state[p].connID = c /\ Pending(p) => Pending(p)',
         \A s \in Slots : Reading(s) /\ state[recRef[s]].connID = c => Reading(s)' /\ recRef'[s] = recRef[s],
         \A g \in Goroutines : pc[g] \in Closing \cup {"close"} =>
           pc'[g] \in Closing \cup {"close"} /\ ref'[g] = ref[g]
  PROVE  RetryFrame(c)
<1>1. \A g \in Goroutines : InClose(g, c) => InClose(g, c)'
  BY RefsReal DEF InClose
<1>2. \A s \in Slots : Reading(s) /\ state[recRef[s]].connID = c => Reading(s)' /\ state'[recRef'[s]].connID = c
  BY RefsReal
<1> QED BY <1>1, <1>2 DEF RetryFrame, Torn

\* The heart and reconnect timers, the commands, and the middle of a close have
\* nothing to do with message timers.
LEMMA RetryFrameSteps ==
  ASSUME TInv, NEW c \in ConnIDs,
         \/ \E o \in Objs : HeartTimerFires(o) \/ ReConnTimerFires(o) \/ MsgTimerFires(o) \/ reSetReConnTimer(o) \/ connLogOut(o)
         \/ \E g \in Goroutines : CloseDelClientIDs(g) \/ CloseDelRoute(g) \/ CloseDelLastMsg(g)
         \/ LoginAddRecord \/ Heartbeat \/ CompareAndIncr \/ PushMsg \/ AppendArm
         \/ \E s \in Slots : RecoverSMEMBERS(s) \/ RecoverDone(s)
         \/ \E b \in ConnIDs : Client(b)
         \/ UNCHANGED vars
  PROVE  RetryFrame(c)
<1>0. /\ pc \in [Goroutines -> HandlerSteps \cup LogOutSteps] /\ ref \in [Goroutines -> Objs \cup {Nil}]
      /\ Handler \in Goroutines /\ (\A o \in Objs : o \in Goroutines /\ o # Handler)
      /\ lastMsg \in [ConnIDs -> ClientIDs \cup {NoMsg}]
      /\ recPc \in [Slots -> {"done", "smembers", "next", "getLast", "arm"}]
  BY DEF TInv, TypeOK
<1> DEFINE Msgs == \A p \in Objs : /\ state'[p].connID = state[p].connID
                                   /\ state[p].msgTimer = "armed" => state'[p].msgTimer = "armed"
           Keep == UNCHANGED <<lastMsg, table, torn, recPc, recRef, rePushPc>>
           Closers == \A g \in Goroutines : pc[g] \in Closing \cup {"close"} =>
                        pc'[g] \in Closing \cup {"close"} /\ ref'[g] = ref[g]
<1>1. CASE Msgs /\ Keep /\ Closers
  BY <1>1, RetryFrameOf DEF Pending, Reading
<1>2. ASSUME NEW o \in Objs, HeartTimerFires(o) \/ ReConnTimerFires(o) \/ reSetReConnTimer(o) PROVE RetryFrame(c)
  <2>1. Msgs
    BY <1>2, MsgUpdate DEF HeartTimerFires, ReConnTimerFires, reSetReConnTimer
  <2>2. Keep /\ Closers
    BY <1>0, <1>2 DEF HeartTimerFires, ReConnTimerFires, reSetReConnTimer, Goto, Closing
  <2> QED BY <1>1, <2>1, <2>2
<1>3. ASSUME NEW o \in Objs, MsgTimerFires(o) PROVE RetryFrame(c)
  <2>1. /\ \A p \in Objs : p # o => state'[p] = state[p]
        /\ \A p \in Objs : state'[p].connID = state[p].connID
    BY <1>3, TimerUpdate DEF MsgTimerFires, TimerOps, TInv, TypeOK
  <2>2. /\ UNCHANGED <<lastMsg, table, torn, recPc, recRef, pc, ref>> /\ rePushPc'[o] = "get"
        /\ \A p \in Objs : p # o => rePushPc'[p] = rePushPc[p]
    BY <1>3 DEF MsgTimerFires, TInv, TypeOK
  <2>3. \A p \in Objs : Pending(p) => Pending(p)'
    BY <2>1, <2>2 DEF Pending
  <2> QED BY <2>1, <2>2, <2>3, RetryFrameOf DEF Reading
<1>4. ASSUME NEW o \in Objs, connLogOut(o) PROVE RetryFrame(c)
  <2>1. Msgs /\ Keep /\ pc[o] = "load" /\ \A g \in Goroutines : g # o => pc'[g] = pc[g] /\ ref'[g] = ref[g]
    BY <1>0, <1>4 DEF connLogOut, Done, Goto
  <2>2. Closers
    BY <2>1 DEF Closing
  <2> QED BY <1>1, <2>1, <2>2
<1>5. ASSUME NEW g \in Goroutines, CloseDelClientIDs(g) \/ CloseDelRoute(g) \/ CloseDelLastMsg(g) PROVE RetryFrame(c)
  <2>1. /\ UNCHANGED <<table, torn, recPc, recRef, rePushPc, state>> /\ lastMsg'[c] \in {lastMsg[c], NoMsg}
    BY <1>0, <1>5 DEF CloseDelClientIDs, CloseDelRoute, CloseDelLastMsg
  <2>2. Closers
    BY <1>0, <1>5 DEF CloseDelClientIDs, CloseDelRoute, CloseDelLastMsg, Goto, Closing
  <2> QED BY <2>1, <2>2, RetryFrameOf DEF Pending, Reading
<1>6. CASE Heartbeat \/ AppendArm
  <2>1. Msgs
    BY <1>6, MsgUpdate DEF Heartbeat, AppendArm, TInv, TypeOK, UsingState
  <2>2. Keep /\ Closers
    BY <1>0, <1>6 DEF Heartbeat, AppendArm, Done, Goto, Closing
  <2> QED BY <1>1, <2>1, <2>2
<1>7. CASE LoginAddRecord \/ CompareAndIncr \/ PushMsg
  <2>1. Keep /\ Closers /\ state' = state
    BY <1>0, <1>7 DEF LoginAddRecord, CompareAndIncr, PushMsg, Done, Goto, Closing
  <2> QED BY <1>1, <2>1
<1>8. ASSUME NEW s \in Slots, RecoverSMEMBERS(s) \/ RecoverDone(s) PROVE RetryFrame(c)
  <2>1. /\ UNCHANGED <<lastMsg, table, torn, rePushPc, state, pc, ref>> /\ ~Reading(s)
        /\ \A t \in Slots : t # s => recPc'[t] = recPc[t] /\ recRef'[t] = recRef[t]
    BY <1>0, <1>8 DEF RecoverSMEMBERS, RecoverDone, Reading, TInv, TypeOK
  <2>2. \A t \in Slots : Reading(t) => Reading(t)' /\ recRef'[t] = recRef[t]
    BY <2>1 DEF Reading
  <2> QED BY <2>1, <2>2, RetryFrameOf DEF Pending
<1>9. ASSUME NEW b \in ConnIDs, Client(b) PROVE RetryFrame(c)
  <2>1. ASSUME NEW m, Handle(m) \/ HandleLateReConn(m) PROVE Keep /\ Closers /\ state' = state
    BY <1>0, <2>1 DEF Handle, HandleLateReConn, Receive, Goto, Closing
  <2>2. ASSUME UNCHANGED vars \/ ClientGone(b) PROVE Keep /\ Closers /\ state' = state
    BY <2>2 DEF ClientGone, vars
  <2>3. Keep /\ Closers /\ state' = state
    BY <1>9, <2>1, <2>2 DEF Client, CancelConn, HandleLogin, HandleReConn, HandleHeartbeat, HandleUp, HandleAck,
       HandleOrDrop, HandleDropped
  <2> QED BY <1>1, <2>3
<1>10. CASE UNCHANGED vars
  BY <1>1, <1>10 DEF vars
<1> QED BY <1>2, <1>3, <1>4, <1>5, <1>6, <1>7, <1>8, <1>9, <1>10

\* rePush hands the obligation from its callback to the timer of the object it
\* finds, or finds that there is nothing to retry.
LEMMA R_RePush ==
  ASSUME TInv, RePushInv, NEW c \in ConnIDs, Unacked(c), NEW o \in Objs, RePush(o)
  PROVE  Unacked(c)'
<1>0. /\ rePushPc \in [Objs -> {"idle", "get", "load", "arm"}] /\ rePushRef \in [Objs -> Objs \cup {Nil}]
      /\ UNCHANGED <<lastMsg, table, torn, recPc, recRef, pc, ref>>
      /\ \A p \in Objs : p # o => rePushPc'[p] = rePushPc[p]
  BY DEF TInv, TypeOK, RePush, rePushGet, rePushLoad, rePushArm
<1>1. CASE rePushGet(o) \/ rePushLoad(o)
  <2>1. state' = state
    BY <1>1 DEF rePushGet, rePushLoad
  <2>2. CASE rePushPc'[o] # "idle" \/ state[o].connID # c
    <3>1. \A p \in Objs : state[p].connID = c /\ Pending(p) => Pending(p)'
      BY <1>0, <2>1, <2>2 DEF Pending
    <3> QED BY <1>0, <2>1, <3>1, RetryFrameOf, RetryKept DEF Reading
  <2>3. CASE rePushPc'[o] = "idle" /\ state[o].connID = c
    <3>1. lastMsg[c] = NoMsg \/ table[c] = Nil
      BY <1>0, <1>1, <2>3 DEF rePushGet, rePushLoad, Found
    <3> QED BY <1>0, <3>1 DEF Unacked
  <2> QED BY <2>2, <2>3
<1>2. CASE rePushArm(o)
  <2>1. /\ rePushRef[o] \in Objs /\ state[rePushRef[o]].connID = state[o].connID
        /\ state' = [state EXCEPT ![rePushRef[o]] = ArmMsgTimer(state[rePushRef[o]])]
    BY <1>2 DEF rePushArm, TInv, LiveInv, RePushInv
  <2>2. \A p \in Objs : /\ state'[p].connID = state[p].connID
                        /\ state[p].msgTimer = "armed" => state'[p].msgTimer = "armed"
    BY <2>1, MsgUpdate
  <2>3. CASE state[o].connID = c
    <3>1. state'[rePushRef[o]].msgTimer = "armed" /\ state'[rePushRef[o]].connID = c
      BY <2>1, <2>3, ArmUpdate
    <3> QED BY <2>1, <3>1 DEF Unacked, RetryPending
  <2>4. CASE state[o].connID # c
    <3>1. \A p \in Objs : state[p].connID = c /\ Pending(p) => Pending(p)'
      BY <1>0, <2>2, <2>4 DEF Pending
    <3> QED BY <1>0, <2>2, <3>1, RetryFrameOf, RetryKept DEF Reading
  <2> QED BY <2>3, <2>4
<1> QED BY <1>1, <1>2 DEF RePush

\* A close ends the retries of its own connection only.
LEMMA R_Close ==
  ASSUME TInv, NEW c \in ConnIDs, Unacked(c), NEW g \in Goroutines, Close(g) \/ CloseError(g)
  PROVE  Unacked(c)'
<1>0. /\ pc \in [Goroutines -> HandlerSteps \cup LogOutSteps] /\ ref \in [Goroutines -> Objs \cup {Nil}]
      /\ table \in [ConnIDs -> Objs \cup {Nil}]
  BY DEF TInv, TypeOK
<1>1. CASE CloseDelClientIDs(g) \/ CloseDelRoute(g) \/ CloseDelLastMsg(g)
  BY <1>1, RetryFrameSteps, RetryKept
<1>2. CASE CloseStart(g)
  <2>1. /\ pc[g] = "close" /\ UNCHANGED <<lastMsg, table, torn, recPc, recRef, rePushPc, ref>>
        /\ pc'[g] = "delClientIDs" /\ \A h \in Goroutines : h # g => pc'[h] = pc[h]
    BY <1>0, <1>2 DEF CloseStart, Goto
  <2>2. ref[g] \in Objs
    BY <2>1, CloserRef
  <2>3. /\ \A p \in Objs : p # ref[g] => state'[p] = state[p]
        /\ \A p \in Objs : state'[p].connID = state[p].connID
    BY <1>2, <2>2, TimerUpdate DEF CloseStart, TimerOps, TInv, TypeOK
  <2>4. CASE state[ref[g]].connID = c
    <3>1. InClose(g, c)'
      BY <2>1, <2>2, <2>3, <2>4 DEF InClose, Closing
    <3> QED BY <3>1 DEF Unacked, ClosingConn
  <2>5. CASE state[ref[g]].connID # c
    <3>1. \A p \in Objs : state[p].connID = c /\ Pending(p) => Pending(p)'
      BY <2>1, <2>3, <2>5 DEF Pending
    <3>2. \A h \in Goroutines : pc[h] \in Closing \cup {"close"} => pc'[h] \in Closing \cup {"close"} /\ ref'[h] = ref[h]
      BY <2>1 DEF Closing
    <3> QED BY <2>1, <2>3, <3>1, <3>2, RetryFrameOf, RetryKept DEF Reading
  <2> QED BY <2>4, <2>5
<1>3. CASE CloseFinish(g)
  <2>1. /\ UNCHANGED <<lastMsg, recPc, recRef, rePushPc, state>> /\ pc[g] \in Closing
        /\ \A h \in Goroutines : h # g => pc'[h] = pc[h] /\ ref'[h] = ref[h]
        /\ table' = [table EXCEPT ![state[ref[g]].connID] = Nil] /\ torn' = torn \ {Pair(ref[g])}
    BY <1>0, <1>3 DEF CloseFinish, AfterLogOut, Done, Goto, Closing
  <2>2. CASE state[ref[g]].connID = c
    BY <1>0, <2>1, <2>2 DEF Unacked
  <2>3. CASE state[ref[g]].connID # c
    <3>1. \A h \in Goroutines : InClose(h, c) => InClose(h, c)'
      BY <2>1, <2>3 DEF InClose
    <3>2. Torn(c) => Torn(c)'
      BY <2>1, <2>3 DEF Torn, Pair
    <3>3. table'[c] = table[c]
      BY <1>0, <2>1, <2>3
    <3>4. RetryFrame(c)
      BY <2>1, <3>1, <3>2, <3>3 DEF RetryFrame, Pending, Reading
    <3> QED BY <3>4, RetryKept
  <2> QED BY <2>2, <2>3
<1>4. CASE CloseError(g)
  <2>1. /\ pc[g] \in Closing \cup {"close"} /\ UNCHANGED <<lastMsg, table, recPc, recRef, rePushPc>>
        /\ \A h \in Goroutines : h # g => pc'[h] = pc[h] /\ ref'[h] = ref[h]
        /\ torn' = torn \cup {Pair(ref[g])}
    BY <1>0, <1>4 DEF CloseError, Done, Goto, Closing
  <2>2. ref[g] \in Objs /\ state[ref[g]].did \in AllDids
    BY <2>1, CloserRef
  <2>3. /\ \A p \in Objs : p # ref[g] => state'[p] = state[p]
        /\ \A p \in Objs : state'[p].connID = state[p].connID
    BY <1>4, <2>2, TimerUpdate DEF CloseError, TimerOps, TInv, TypeOK
  <2>4. CASE state[ref[g]].connID = c
    BY <2>1, <2>2, <2>4 DEF Unacked, Torn, Pair
  <2>5. CASE state[ref[g]].connID # c
    <3>1. \A p \in Objs : state[p].connID = c /\ Pending(p) => Pending(p)'
      BY <2>1, <2>3, <2>5 DEF Pending
    <3>2. \A h \in Goroutines : InClose(h, c) => InClose(h, c)'
      BY <2>1, <2>3, <2>5, RefsReal DEF InClose
    <3>3. \A s \in Slots : Reading(s) /\ state[recRef[s]].connID = c => Reading(s)' /\ state'[recRef'[s]].connID = c
      BY <2>1, <2>3, RefsReal DEF Reading
    <3>4. RetryFrame(c)
      BY <2>1, <2>3, <3>1, <3>2, <3>3 DEF RetryFrame, Torn
    <3> QED BY <3>4, RetryKept
  <2> QED BY <2>4, <2>5
<1> QED BY <1>1, <1>2, <1>3, <1>4 DEF Close

\* A new object takes the place of one that has nothing to retry.
LEMMA AllocatedRetry ==
  ASSUME TInv, NEW o \in Objs, NEW d \in AllDids, NEW b \in ConnIDs, Unused(o), NEW c \in ConnIDs,
         state' = [state EXCEPT ![o] = NewConnState(d, b)],
         UNCHANGED <<lastMsg, torn, rePushPc>>, table'[c] = table[c],
         \A s \in Slots : Reading(s) => recPc'[s] = recPc[s] /\ recRef'[s] = recRef[s],
         \A g \in Goroutines : pc[g] \in Closing \cup {"close"} =>
           pc'[g] \in Closing \cup {"close"} /\ ref'[g] = ref[g]
  PROVE  RetryFrame(c)
<1>1. \A p \in Objs : p # o => state'[p] = state[p]
  BY DEF TInv, TypeOK
<1>2. ~Pending(o)
  <2>0. state[o] \in ConnStates /\ StopTimers(state[o]) = state[o]
    BY DEF Unused, TInv, TypeOK
  <2>1. StopTimers(state[o]).msgTimer = "nil"
    BY <2>0 DEF StopTimers, ConnStates
  <2> QED BY <2>0, <2>1 DEF Pending, Unused
<1>3. \A p \in Objs : state[p].connID = c /\ Pending(p) => state'[p].connID = c /\ Pending(p)'
  BY <1>1, <1>2 DEF Pending
<1>4. \A s \in Slots : Reading(s) /\ state[recRef[s]].connID = c => Reading(s)' /\ state'[recRef'[s]].connID = c
  BY <1>1, RefsReal DEF Unused, Reading
<1>5. \A g \in Goroutines : InClose(g, c) => InClose(g, c)'
  BY <1>1, RefsReal DEF Unused, InClose
<1> QED BY <1>3, <1>4, <1>5 DEF RetryFrame, Torn

\* The steps of cmdHandler; a login finds no stored message, and an append leaves
\* the timer of its object running.
LEMMA R_cmdHandler ==
  ASSUME TInv, SInv, AppendInv, SetBytesInv, NEW c \in ConnIDs, Unacked(c), cmdHandler
  PROVE  Unacked(c)'
<1>0. /\ pc \in [Goroutines -> HandlerSteps \cup LogOutSteps] /\ ref \in [Goroutines -> Objs \cup {Nil}]
      /\ table \in [ConnIDs -> Objs \cup {Nil}] /\ lastMsg \in [ConnIDs -> ClientIDs \cup {NoMsg}]
      /\ Handler \in Goroutines
  BY DEF TInv, TypeOK
<1>1. CASE Close(Handler)
  BY <1>1, R_Close DEF Close
<1>2. CASE PushPanics \/ ReConnPanics
  <2>1. Lose
    BY <1>2 DEF PushPanics, ReConnPanics
  <2>2. table'[c] = Nil
    BY <2>1 DEF Lose
  <2> QED BY <2>2 DEF Unacked
<1>3. CASE LoginSADD
  <2>1. PICK o \in Objs : Unused(o) /\ state' = [state EXCEPT ![o] = NewConnState(req.arg, req.conn)]
                          /\ ref' = [ref EXCEPT ![Handler] = o]
    BY <1>3 DEF LoginSADD
  <2>2. /\ req.arg \in AllDids /\ req.conn \in ConnIDs /\ UNCHANGED <<lastMsg, torn, rePushPc, table, recPc, recRef>>
        /\ pc[Handler] = "sadd"
    BY <1>3 DEF LoginSADD, TInv, ReqInv, Commands
  <2>3. \A g \in Goroutines : pc[g] \in Closing \cup {"close"} => pc'[g] \in Closing \cup {"close"} /\ ref'[g] = ref[g]
    BY <1>0, <1>3, <2>1, <2>2 DEF LoginSADD, Goto, Closing
  <2> QED BY <2>1, <2>2, <2>3, AllocatedRetry, RetryKept
<1>4. CASE LoginStore
  <2>1. /\ UNCHANGED <<lastMsg, torn, rePushPc, recPc, recRef, state>> /\ pc[Handler] = "store"
        /\ table' = [table EXCEPT ![req.conn] = ref[Handler]]
    BY <1>4 DEF LoginStore
  <2>2. \A g \in Goroutines : pc[g] \in Closing \cup {"close"} => pc'[g] \in Closing \cup {"close"} /\ ref'[g] = ref[g]
    BY <1>0, <1>4 DEF LoginStore, Done, Goto, Closing
  <2>3. CASE c = req.conn
    BY <2>1, <2>3 DEF SInv, LoginPrivate, LoggingIn, Unacked
  <2>4. CASE c # req.conn
    <3>1. table'[c] = table[c]
      BY <1>0, <2>1, <2>4
    <3> QED BY <2>1, <2>2, <3>1, RetryFrameOf, RetryKept DEF Pending, Reading
  <2> QED BY <2>3, <2>4
<1>5. CASE AppendSetBytes
  <2>1. /\ UNCHANGED <<table, torn, rePushPc, recPc, recRef, state>> /\ pc[Handler] = "setBytes"
        /\ lastMsg' = [lastMsg EXCEPT ![req.conn] = req.arg]
    BY <1>5 DEF AppendSetBytes
  <2>2. \A g \in Goroutines : pc[g] \in Closing \cup {"close"} => pc'[g] \in Closing \cup {"close"} /\ ref'[g] = ref[g]
    BY <1>0, <1>5 DEF AppendSetBytes, Done, Goto, Closing
  <2>3. CASE c = req.conn
    <3>1. ref[Handler] \in Objs /\ state[ref[Handler]].msgTimer = "armed" /\ state[ref[Handler]].connID = c
      BY <2>1, <2>3, RefsReal DEF SetBytesInv, AppendInv, UsingState
    <3> QED BY <2>1, <3>1 DEF Unacked, RetryPending
  <2>4. CASE c # req.conn
    <3>1. lastMsg'[c] = lastMsg[c]
      BY <1>0, <2>1, <2>4
    <3> QED BY <2>1, <2>2, <3>1, RetryFrameOf, RetryKept DEF Pending, Reading
  <2> QED BY <2>3, <2>4
<1>6. CASE AckLastMsg
  <2>1. /\ UNCHANGED <<table, torn, rePushPc, recPc, recRef>> /\ ref[Handler] \in Objs
        /\ \A g \in Goroutines : pc[g] \in Closing \cup {"close"} => pc'[g] \in Closing \cup {"close"} /\ ref'[g] = ref[g]
    BY <1>0, <1>6, RefsReal DEF AckLastMsg, Done, Goto, Closing, UsingState
  <2>2. CASE UNCHANGED <<lastMsg, state>>
    BY <2>1, <2>2, RetryFrameOf, RetryKept DEF Pending, Reading
  <2>3. CASE /\ lastMsg' = [lastMsg EXCEPT ![state[ref[Handler]].connID] = NoMsg]
             /\ state' = [state EXCEPT ![ref[Handler]] = StopMsgTimer(state[ref[Handler]])]
    <3>1. /\ \A p \in Objs : p # ref[Handler] => state'[p] = state[p]
          /\ \A p \in Objs : state'[p].connID = state[p].connID
      BY <2>1, <2>3, TimerUpdate DEF TimerOps, TInv, TypeOK
    <3>2. CASE c = state[ref[Handler]].connID
      BY <1>0, <2>3, <3>2 DEF Unacked
    <3>3. CASE c # state[ref[Handler]].connID
      <4>1. lastMsg'[c] = lastMsg[c]
        BY <1>0, <2>3, <3>3
      <4>2. \A p \in Objs : state[p].connID = c /\ Pending(p) => Pending(p)'
        BY <2>1, <3>1, <3>3 DEF Pending
      <4> QED BY <2>1, <3>1, <4>1, <4>2, RetryFrameOf, RetryKept DEF Reading
    <3> QED BY <3>2, <3>3
  <2> QED BY <1>6, <2>2, <2>3 DEF AckLastMsg
<1> QED BY <1>1, <1>2, <1>3, <1>4, <1>5, <1>6, RetryFrameSteps, RetryKept DEF cmdHandler

\* A recovery reads the last message of every object it files, and arms its timer.
LEMMA R_Recover ==
  ASSUME TInv, NEW c \in ConnIDs, Unacked(c), NEW s \in Slots, Recover(s)
  PROVE  Unacked(c)'
<1>0. /\ recPc \in [Slots -> {"done", "smembers", "next", "getLast", "arm"}] /\ recRef \in [Slots -> Objs \cup {Nil}]
      /\ table \in [ConnIDs -> Objs \cup {Nil}] /\ recTodo \in [Slots -> SUBSET (AllDids \X ConnIDs)]
  BY DEF TInv, TypeOK
<1>1. CASE RecoverSMEMBERS(s) \/ RecoverDone(s)
  BY <1>1, RetryFrameSteps, RetryKept
<1>2. CASE RecoverStore(s)
  <2>1. PICK p \in recTodo[s], o \in Objs :
          /\ Unused(o)
          /\ state' = [state EXCEPT ![o] = NewConnState(p[1], p[2])]
          /\ table' = [table EXCEPT ![p[2]] = o]
          /\ recRef' = [recRef EXCEPT ![s] = o]
    BY <1>2 DEF RecoverStore
  <2>2. /\ p[1] \in AllDids /\ p[2] \in ConnIDs /\ UNCHANGED <<lastMsg, torn, rePushPc, pc, ref>>
        /\ recPc[s] = "next" /\ recPc'[s] = "getLast" /\ recRef'[s] = o
        /\ \A t \in Slots : t # s => recPc'[t] = recPc[t] /\ recRef'[t] = recRef[t]
    BY <1>0, <1>2, <2>1 DEF RecoverStore
  <2>3. CASE c = p[2]
    <3>1. state'[o] = NewConnState(p[1], p[2])
      BY <2>1 DEF TInv, TypeOK
    <3>2. state'[o].connID = c
      BY <2>3, <3>1, NewStateDid
    <3> QED BY <2>2, <3>2 DEF Unacked, RetryPending
  <2>4. CASE c # p[2]
    <3>1. table'[c] = table[c]
      BY <1>0, <2>1, <2>2, <2>4
    <3>2. \A t \in Slots : Reading(t) => recPc'[t] = recPc[t] /\ recRef'[t] = recRef[t]
      BY <2>2 DEF Reading
    <3> QED BY <2>1, <2>2, <3>1, <3>2, AllocatedRetry, RetryKept
  <2> QED BY <2>3, <2>4
<1>3. CASE RecoverGetLast(s)
  <2>1. /\ UNCHANGED <<lastMsg, torn, rePushPc, pc, ref, state, table, recRef>> /\ Reading(s)
        /\ \A t \in Slots : t # s => recPc'[t] = recPc[t]
        /\ recPc'[s] = IF lastMsg[state[recRef[s]].connID] = NoMsg THEN "next" ELSE "arm"
    BY <1>0, <1>3 DEF RecoverGetLast, Reading
  <2>2. CASE lastMsg[c] = NoMsg
    BY <2>1, <2>2 DEF Unacked
  <2>3. CASE lastMsg[c] # NoMsg
    <3>1. \A t \in Slots : Reading(t) /\ state[recRef[t]].connID = c => Reading(t)' /\ recRef'[t] = recRef[t]
      BY <2>1, <2>3 DEF Reading
    <3> QED BY <2>1, <3>1, RetryFrameOf, RetryKept DEF Pending
  <2> QED BY <2>2, <2>3
<1>4. CASE RecoverArm(s)
  <2>1. /\ UNCHANGED <<lastMsg, torn, rePushPc, pc, ref, table, recRef>> /\ recRef[s] \in Objs
        /\ \A t \in Slots : t # s => recPc'[t] = recPc[t]
        /\ state' = [state EXCEPT ![recRef[s]] = ArmMsgTimer(state[recRef[s]])]
    BY <1>0, <1>4, RefsReal DEF RecoverArm, Reading
  <2>2. \A p \in Objs : /\ state'[p].connID = state[p].connID
                        /\ state[p].msgTimer = "armed" => state'[p].msgTimer = "armed"
    BY <2>1, MsgUpdate
  <2>3. CASE c = state[recRef[s]].connID
    <3>1. state'[recRef[s]].msgTimer = "armed" /\ state'[recRef[s]].connID = c
      BY <2>1, <2>3, ArmUpdate
    <3> QED BY <2>1, <3>1 DEF Unacked, RetryPending
  <2>4. CASE c # state[recRef[s]].connID
    <3>1. \A t \in Slots : Reading(t) /\ state[recRef[t]].connID = c => Reading(t)' /\ recRef'[t] = recRef[t]
      BY <2>1, <2>4 DEF Reading
    <3> QED BY <2>1, <2>2, <3>1, RetryFrameOf, RetryKept DEF Pending
  <2> QED BY <2>3, <2>4
<1> QED BY <1>1, <1>2, <1>3, <1>4 DEF Recover

\* What a step does to the heap: it keeps the connection of every object, loses
\* all of them, or puts a new object in the place of an unused one.
LEMMA StepKinds ==
  ASSUME TInv, [Next]_vars
  PROVE  \/ SameIds
         \/ Lose
         \/ \E o \in Objs : Unused(o) /\ UNCHANGED rePush /\ \A p \in Objs : p # o => state'[p] = state[p]
<1>1. ASSUME NEW g \in Goroutines, Close(g) \/ CloseError(g) PROVE SameIds
  <2>1. CASE CloseStart(g) \/ CloseError(g)
    BY <2>1, CloserRef, IdsOfUpdate DEF CloseStart, CloseError, Closing, TimerOps
  <2> QED BY <1>1, <2>1 DEF Close, CloseDelClientIDs, CloseDelRoute, CloseDelLastMsg, CloseFinish, SameIds
<1>2. CASE LoginSADD \/ \E s \in Slots : RecoverStore(s)
  BY <1>2 DEF LoginSADD, RecoverStore, TInv, TypeOK
<1>3. CASE Crash \/ PushPanics \/ ReConnPanics
  BY <1>3 DEF Crash, PushPanics, ReConnPanics
<1>4. ASSUME cmdHandler, ~LoginSADD, ~PushPanics, ~ReConnPanics PROVE SameIds
  <2>1. CASE Heartbeat \/ AppendArm \/ AckLastMsg
    BY <2>1, IdsOfUpdate DEF Heartbeat, AppendArm, AckLastMsg, TimerOps, SameIds, TInv, TypeOK, UsingState
  <2> QED BY <1>1, <1>4, <2>1 DEF cmdHandler, LoginAddRecord, LoginStore, CompareAndIncr, PushMsg, AppendSetBytes, SameIds
<1>5. ASSUME NEW o \in Objs, \/ HeartTimerFires(o) \/ ReConnTimerFires(o) \/ MsgTimerFires(o)
                             \/ reSetReConnTimer(o) \/ LogOut(o) \/ RePush(o)
      PROVE  SameIds
  <2>1. CASE HeartTimerFires(o) \/ ReConnTimerFires(o) \/ MsgTimerFires(o) \/ reSetReConnTimer(o)
    BY <2>1, IdsOfUpdate DEF HeartTimerFires, ReConnTimerFires, MsgTimerFires, reSetReConnTimer, TimerOps
  <2>2. CASE RePush(o)
    BY <2>2, IdsOfUpdate DEF RePush, rePushGet, rePushLoad, rePushArm, TimerOps, SameIds, TInv, LiveInv
  <2>3. CASE LogOut(o)
    BY <1>1, <2>3 DEF LogOut, connLogOut, SameIds
  <2> QED BY <1>5, <2>1, <2>2, <2>3
<1>6. ASSUME NEW s \in Slots, Recover(s), ~RecoverStore(s) PROVE SameIds
  <2>1. CASE RecoverArm(s)
    BY <2>1, IdsOfUpdate DEF RecoverArm, TimerOps, TInv, LiveInv
  <2> QED BY <1>6, <2>1 DEF Recover, RecoverSMEMBERS, RecoverGetLast, RecoverDone, SameIds
<1>7. ASSUME (\E c \in ConnIDs : Client(c)) \/ Start \/ UNCHANGED vars PROVE SameIds
  <2>1. ASSUME NEW c \in ConnIDs, Client(c) PROVE state' = state
    BY <2>1 DEF Client, CancelConn, HandleLogin, HandleReConn, HandleHeartbeat, HandleUp, HandleAck, HandleOrDrop,
       Handle, HandleLateReConn, HandleDropped, ClientGone, vars
  <2>2. state' = state
    BY <1>7, <2>1 DEF Start, vars
  <2> QED BY <2>2 DEF SameIds
<1> QED BY <1>1, <1>2, <1>3, <1>4, <1>5, <1>6, <1>7 DEF Next

LEMMA RePushStep == ASSUME TInv, RePushInv, [Next]_vars PROVE RePushInv'
<1>0. \A o \in Objs : rePushPc[o] = "arm" => rePushRef[o] \in Objs /\ state[rePushRef[o]].connID = state[o].connID
  BY DEF TInv, LiveInv, RePushInv
<1>1. ASSUME NEW o \in Objs, RePush(o) PROVE RePushInv'
  <2>1. SameIds
    BY <1>1, IdsOfUpdate DEF RePush, rePushGet, rePushLoad, rePushArm, TimerOps, SameIds, TInv, LiveInv
  <2>2. \A p \in Objs : p # o => rePushPc'[p] = rePushPc[p] /\ rePushRef'[p] = rePushRef[p]
    BY <1>1 DEF RePush, rePushGet, rePushLoad, rePushArm, TInv, TypeOK
  <2>3. rePushPc'[o] = "arm" => rePushRef'[o] \in Objs /\ state[rePushRef'[o]].connID = state[o].connID
    <3>1. CASE rePushLoad(o)
      <4>1. rePushRef'[o] = table[state[o].connID] /\ state[o].connID \in ConnIDs
            /\ (rePushPc'[o] = "arm" => table[state[o].connID] # Nil)
        BY <3>1 DEF rePushLoad, Found, TInv, TypeOK, LiveInv, Live
      <4> QED BY <4>1 DEF TInv, TypeOK, KeyInv
    <3> QED BY <1>1, <3>1 DEF RePush, rePushGet, rePushArm, TInv, TypeOK
  <2> QED BY <1>0, <2>1, <2>2, <2>3 DEF RePushInv, SameIds
<1>2. CASE Lose
  BY <1>2 DEF Lose, RePushInv
<1>3. CASE \E o \in Objs : Unused(o) /\ UNCHANGED rePush /\ \A p \in Objs : p # o => state'[p] = state[p]
  BY <1>0, <1>3 DEF Unused, RePushInv
<1>4. CASE SameIds /\ \A o \in Objs : rePushPc'[o] = "arm" => rePushPc[o] = "arm" /\ rePushRef'[o] = rePushRef[o]
  BY <1>0, <1>4 DEF RePushInv, SameIds
<1>5. ASSUME \A o \in Objs : ~RePush(o), ~Lose
      PROVE  \A o \in Objs : rePushPc'[o] = "arm" => rePushPc[o] = "arm" /\ rePushRef'[o] = rePushRef[o]
  <2>1. UNCHANGED rePush \/ \E o \in Objs : MsgTimerFires(o)
    <3>1. ASSUME NEW g \in Goroutines, Close(g) \/ CloseError(g) PROVE UNCHANGED rePush
      BY <3>1 DEF Close, CloseStart, CloseDelClientIDs, CloseDelRoute, CloseDelLastMsg, CloseFinish, CloseError
    <3>2. ASSUME cmdHandler PROVE UNCHANGED rePush
      BY <1>5, <3>1, <3>2 DEF cmdHandler, ReConnPanics, LoginSADD, LoginAddRecord, LoginStore, Heartbeat, CompareAndIncr,
         PushMsg, PushPanics, AppendArm, AppendSetBytes, AckLastMsg
    <3>3. ASSUME NEW s \in Slots, Recover(s) PROVE UNCHANGED rePush
      BY <3>3 DEF Recover, RecoverSMEMBERS, RecoverStore, RecoverGetLast, RecoverArm, RecoverDone
    <3>4. ASSUME NEW o \in Objs, HeartTimerFires(o) \/ ReConnTimerFires(o) \/ reSetReConnTimer(o) \/ LogOut(o)
          PROVE  UNCHANGED rePush
      BY <3>1, <3>4 DEF HeartTimerFires, ReConnTimerFires, reSetReConnTimer, LogOut, connLogOut
    <3>5. ASSUME NEW c \in ConnIDs, Client(c) PROVE UNCHANGED rePush
      BY <3>5 DEF Client, CancelConn, HandleLogin, HandleReConn, HandleHeartbeat, HandleUp, HandleAck, HandleOrDrop,
         Handle, HandleLateReConn, HandleDropped, ClientGone, vars
    <3>6. ASSUME Crash \/ Start \/ UNCHANGED vars PROVE UNCHANGED rePush
      BY <1>5, <3>6 DEF Crash, Start, vars
    <3> QED BY <1>5, <3>1, <3>2, <3>3, <3>4, <3>5, <3>6 DEF Next
  <2>2. ASSUME NEW o \in Objs, MsgTimerFires(o)
        PROVE  \A p \in Objs : rePushPc'[p] = "arm" => rePushPc[p] = "arm" /\ rePushRef'[p] = rePushRef[p]
    BY <2>2 DEF MsgTimerFires, TInv, TypeOK
  <2> QED BY <2>1, <2>2
<1> QED BY <1>1, <1>2, <1>3, <1>4, <1>5, StepKinds

LEMMA SetBytesStep == ASSUME RedisFast, TInv, SetBytesInv, [Next]_vars PROVE SetBytesInv'
<1>0. /\ pc \in [Goroutines -> HandlerSteps \cup LogOutSteps] /\ ref \in [Goroutines -> Objs \cup {Nil}]
      /\ Handler \in Goroutines /\ \A o \in Objs : o \in Goroutines /\ o # Handler
  BY DEF TInv, TypeOK
<1> SUFFICES ASSUME pc'[Handler] = "setBytes"
             PROVE  /\ state'[ref'[Handler]].msgTimer = "armed"
                    /\ \A o \in Objs : pc'[o] \in Closing => ref'[o] # ref'[Handler]
  BY DEF SetBytesInv
<1> DEFINE Held == /\ pc[Handler] = "setBytes" /\ ref'[Handler] = ref[Handler]
                   /\ state[ref[Handler]].msgTimer = "armed" => state'[ref[Handler]].msgTimer = "armed"
                   /\ \A o \in Objs : pc'[o] \in Closing /\ ref'[o] = ref[Handler] => pc[o] \in Closing /\ ref[o] = ref[Handler]
<1>1. CASE Held
  BY <1>1 DEF SetBytesInv
<1>2. CASE AppendArm
  <2>1. /\ pc[Handler] = "append" /\ CanLock(ref[Handler]) /\ ref' = ref /\ \A o \in Objs : pc'[o] = pc[o]
        /\ state' = [state EXCEPT ![ref[Handler]] = ArmMsgTimer(state[ref[Handler]])]
    BY <1>0, <1>2 DEF AppendArm, Goto
  <2>2. state'[ref[Handler]].msgTimer = "armed"
    BY <2>1, ArmUpdate, RefsReal DEF UsingState
  <2>3. \A o \in Objs : pc[o] \in Closing => ref[o] # ref[Handler]
    BY <1>0, <2>1 DEF CanLock, Locked
  <2> QED BY <2>1, <2>2, <2>3
<1>3. ASSUME cmdHandler, ~AppendArm PROVE FALSE
  <2>1. CASE PushPanics \/ ReConnPanics
    BY <1>0, <2>1 DEF PushPanics, ReConnPanics, Lose
  <2>2. CASE Close(Handler)
    BY <1>0, <2>2 DEF Close, CloseStart, CloseDelClientIDs, CloseDelRoute, CloseDelLastMsg, CloseFinish, AfterLogOut,
       Done, Goto
  <2>3. CASE LoginSADD \/ LoginAddRecord \/ LoginStore \/ Heartbeat \/ CompareAndIncr \/ PushMsg \/ AppendSetBytes \/ AckLastMsg
    BY <1>0, <2>3 DEF LoginSADD, LoginAddRecord, LoginStore, Heartbeat, CompareAndIncr, PushMsg, AppendSetBytes,
       AckLastMsg, Done, Goto
  <2> QED BY <1>3, <2>1, <2>2, <2>3 DEF cmdHandler
<1>4. ASSUME pc[Handler] = "setBytes" PROVE ref[Handler] \in Objs
  BY <1>4, RefsReal DEF UsingState
<1>5. ASSUME NEW o \in Objs, HeartTimerFires(o) \/ ReConnTimerFires(o) \/ reSetReConnTimer(o) \/ RePush(o) \/ connLogOut(o)
      PROVE  Held
  <2>1. pc[Handler] = "setBytes" /\ ref'[Handler] = ref[Handler]
    BY <1>0, <1>5 DEF HeartTimerFires, ReConnTimerFires, reSetReConnTimer, RePush, rePushGet, rePushLoad, rePushArm,
       connLogOut, Done, Goto
  <2>2. \A p \in Objs : pc'[p] \in Closing => pc'[p] = pc[p] /\ ref'[p] = ref[p]
    BY <1>0, <1>5 DEF HeartTimerFires, ReConnTimerFires, reSetReConnTimer, RePush, rePushGet, rePushLoad, rePushArm,
       connLogOut, Done, Goto, Closing
  <2>3. \A p \in Objs : state[p].msgTimer = "armed" => state'[p].msgTimer = "armed"
    BY <1>5, MsgUpdate DEF HeartTimerFires, ReConnTimerFires, reSetReConnTimer, RePush, rePushGet, rePushLoad, rePushArm,
       connLogOut, TInv, LiveInv
  <2> QED BY <1>4, <2>1, <2>2, <2>3
<1>6. ASSUME NEW o \in Objs, MsgTimerFires(o) PROVE FALSE
  BY <1>6 DEF MsgTimerFires, Prompt
<1>7. ASSUME NEW o \in Objs, Close(o) PROVE Held
  <2>1. pc[Handler] = "setBytes" /\ ref'[Handler] = ref[Handler]
    BY <1>0, <1>7 DEF Close, CloseStart, CloseDelClientIDs, CloseDelRoute, CloseDelLastMsg, CloseFinish, AfterLogOut, Done, Goto
  <2>2. CASE CloseStart(o)
    <3>1. ref[o] # ref[Handler] /\ ref[o] \in Objs
      BY <1>0, <2>1, <2>2, CloserRef DEF CloseStart, CanLock, Locked
    <3>2. \A p \in Objs : p # ref[o] => state'[p] = state[p]
      BY <2>2, <3>1, TimerUpdate DEF CloseStart, TimerOps, TInv, TypeOK
    <3>3. ref' = ref /\ \A p \in Objs : p # o => pc'[p] = pc[p]
      BY <1>0, <2>2 DEF CloseStart, Goto
    <3> QED BY <1>4, <2>1, <3>1, <3>2, <3>3
  <2>3. CASE CloseDelClientIDs(o) \/ CloseDelRoute(o) \/ CloseDelLastMsg(o)
    <3>1. /\ state' = state /\ ref' = ref /\ pc[o] \in Closing /\ \A p \in Objs : p # o => pc'[p] = pc[p]
      BY <1>0, <2>3 DEF CloseDelClientIDs, CloseDelRoute, CloseDelLastMsg, Goto, Closing
    <3> QED BY <2>1, <3>1
  <2>4. CASE CloseFinish(o)
    <3>1. /\ state' = state /\ pc'[o] \notin Closing /\ \A p \in Objs : p # o => pc'[p] = pc[p] /\ ref'[p] = ref[p]
      BY <1>0, <2>4 DEF CloseFinish, AfterLogOut, Done, Goto, Closing
    <3> QED BY <2>1, <3>1
  <2> QED BY <1>7, <2>2, <2>3, <2>4 DEF Close
<1>8. ASSUME NEW g \in Goroutines, CloseError(g) PROVE Held
  <2>1. /\ pc[Handler] = "setBytes" /\ ref'[Handler] = ref[Handler] /\ g \in Objs /\ pc'[g] = "idle"
        /\ \A p \in Objs : p # g => pc'[p] = pc[p] /\ ref'[p] = ref[p]
    BY <1>0, <1>8 DEF CloseError, Done, Goto
  <2>2. ref[g] # ref[Handler] /\ ref[g] \in Objs
    BY <1>0, <1>8, <2>1, CloserRef DEF CloseError, CanLock, Locked, SetBytesInv, Closing
  <2>3. \A p \in Objs : p # ref[g] => state'[p] = state[p]
    BY <1>8, <2>2, TimerUpdate DEF CloseError, TimerOps, TInv, TypeOK
  <2> QED BY <1>4, <2>1, <2>2, <2>3 DEF Closing
<1>9. ASSUME NEW s \in Slots, Recover(s) PROVE Held
  <2>1. pc' = pc /\ ref' = ref
    BY <1>9 DEF Recover, RecoverSMEMBERS, RecoverStore, RecoverGetLast, RecoverArm, RecoverDone
  <2>2. state[ref[Handler]].msgTimer = "armed" => state'[ref[Handler]].msgTimer = "armed"
    <3>1. CASE RecoverStore(s)
      BY <1>0, <1>4, <2>1, <3>1 DEF RecoverStore, Unused, TInv, TypeOK
    <3>2. CASE RecoverArm(s)
      BY <1>4, <2>1, <3>2, MsgUpdate, RefsReal DEF RecoverArm, Reading
    <3> QED BY <1>9, <3>1, <3>2 DEF Recover, RecoverSMEMBERS, RecoverGetLast, RecoverDone
  <2> QED BY <2>1, <2>2
<1>10. ASSUME NEW c \in ConnIDs, Client(c) PROVE Held
  <2>1. ASSUME NEW m, Handle(m) \/ HandleLateReConn(m) PROVE FALSE
    BY <1>0, <2>1 DEF Handle, HandleLateReConn, Goto, FirstStep
  <2> QED BY <1>10, <2>1 DEF Client, CancelConn, HandleLogin, HandleReConn, HandleHeartbeat, HandleUp, HandleAck,
     HandleOrDrop, HandleDropped, ClientGone, vars
<1>11. ASSUME Crash PROVE FALSE
  BY <1>0, <1>11 DEF Crash, Lose
<1>12. CASE Start \/ UNCHANGED vars
  BY <1>1, <1>12 DEF Start, vars
<1> HIDE DEF Held
<1> QED BY <1>1, <1>2, <1>3, <1>5, <1>6, <1>7, <1>8, <1>9, <1>10, <1>11, <1>12 DEF Next, LogOut

\* A process that does not run has an empty table, and nothing that fills it.
LEMMA DownStep == ASSUME TInv, DownInv, [Next]_vars PROVE DownInv'
<1>0. /\ pc \in [Goroutines -> HandlerSteps \cup LogOutSteps] /\ table \in [ConnIDs -> Objs \cup {Nil}]
      /\ Handler \in Goroutines /\ \A o \in Objs : o \in Goroutines /\ o # Handler
  BY DEF TInv, TypeOK
<1>1. CASE Lose
  BY <1>0, <1>1 DEF Lose, DownInv
<1>2. CASE up' = TRUE
  BY <1>2 DEF DownInv
<1>3. CASE up' = up /\ up
  BY <1>3 DEF DownInv
<1>4. CASE up' = up /\ ~up /\ pc'[Handler] = pc[Handler] /\ recPc' = recPc /\ \A c \in ConnIDs : table'[c] \in {table[c], Nil}
  BY <1>4 DEF DownInv
<1>5. ASSUME ~up PROVE pc[Handler] = "idle" /\ \A s \in Slots : recPc[s] = "done"
  BY <1>5 DEF DownInv
<1>6. ASSUME cmdHandler, ~Lose PROVE up' = up /\ up
  BY <1>5, <1>6 DEF cmdHandler, Close, CloseStart, CloseDelClientIDs, CloseDelRoute, CloseDelLastMsg, CloseFinish,
     ReConnPanics, LoginSADD, LoginAddRecord, LoginStore, Heartbeat, CompareAndIncr,
     PushMsg, PushPanics, AppendArm, AppendSetBytes, AckLastMsg
<1>7. ASSUME NEW o \in Objs, HeartTimerFires(o) \/ ReConnTimerFires(o) \/ MsgTimerFires(o) \/ reSetReConnTimer(o)
                             \/ LogOut(o) \/ RePush(o)
      PROVE  up' = up /\ pc'[Handler] = pc[Handler] /\ recPc' = recPc /\ \A c \in ConnIDs : table'[c] \in {table[c], Nil}
  <2>1. CASE CloseFinish(o)
    BY <1>0, <2>1 DEF CloseFinish, AfterLogOut, Done, Goto
  <2> QED BY <1>0, <1>7, <2>1 DEF HeartTimerFires, ReConnTimerFires, MsgTimerFires, reSetReConnTimer, LogOut, RePush,
     rePushGet, rePushLoad, rePushArm, connLogOut, Close, CloseStart, CloseDelClientIDs, CloseDelRoute, CloseDelLastMsg,
     Done, Goto
<1>8. ASSUME NEW g \in Goroutines, CloseError(g)
      PROVE  up' = up /\ (up \/ pc'[Handler] = pc[Handler]) /\ recPc' = recPc /\ table' = table
  <2>1. g = Handler => up
    BY <1>5, <1>8 DEF CloseError
  <2> QED BY <1>0, <1>8, <2>1 DEF CloseError, Done, Goto
<1>9. ASSUME NEW s \in Slots, Recover(s) PROVE up' = up /\ up
  BY <1>5, <1>9 DEF Recover, RecoverSMEMBERS, RecoverStore, RecoverGetLast, RecoverArm, RecoverDone
<1>10. ASSUME NEW c \in ConnIDs, Client(c)
       PROVE  up' = up /\ (up \/ (pc' = pc /\ recPc' = recPc /\ table' = table))
  BY <1>10 DEF Client, CancelConn, HandleLogin, HandleReConn, HandleHeartbeat, HandleUp, HandleAck, HandleOrDrop,
     Handle, HandleLateReConn, HandleDropped, Receive, ClientGone, vars
<1>11. CASE Crash
  BY <1>1, <1>11 DEF Crash
<1>12. CASE Start
  BY <1>2, <1>12 DEF Start
<1>13. CASE UNCHANGED vars
  BY <1>3, <1>4, <1>13 DEF vars
<1>14. up \in BOOLEAN
  BY DEF TInv, TypeOK
<1> QED BY <1>1, <1>3, <1>4, <1>6, <1>7, <1>8, <1>9, <1>10, <1>11, <1>12, <1>13, <1>14 DEF Next

RetryInv == SessionInv /\ RePushInv /\ SetBytesInv /\ DownInv /\ \A c \in ConnIDs : Unacked(c)

LEMMA RetryStep == RedisFast /\ RetryInv /\ [Next]_vars => RetryInv'
<1> SUFFICES ASSUME RedisFast, RetryInv, [Next]_vars PROVE RetryInv'
  OBVIOUS
<1>0. TInv /\ SInv /\ AppendInv /\ RePushInv /\ SetBytesInv /\ DownInv
  BY DEF RetryInv, SessionInv
<1>1. SessionInv' /\ RePushInv' /\ SetBytesInv' /\ DownInv'
  BY <1>0, SessionStep, RePushStep, SetBytesStep, DownStep DEF RetryInv
<1> SUFFICES ASSUME NEW c \in ConnIDs PROVE Unacked(c)'
  BY <1>1 DEF RetryInv
<1>2. Unacked(c)
  BY DEF RetryInv
<1>3. ASSUME RetryFrame(c) PROVE Unacked(c)'
  BY <1>2, <1>3, RetryKept
<1>4. CASE cmdHandler
  BY <1>0, <1>2, <1>4, R_cmdHandler
<1>5. ASSUME NEW o \in Objs, \/ HeartTimerFires(o) \/ ReConnTimerFires(o) \/ MsgTimerFires(o)
                             \/ reSetReConnTimer(o) \/ connLogOut(o)
      PROVE  Unacked(c)'
  BY <1>0, <1>3, <1>5, RetryFrameSteps
<1>6. ASSUME NEW o \in Objs, RePush(o) PROVE Unacked(c)'
  BY <1>0, <1>2, <1>6, R_RePush
<1>7. ASSUME NEW g \in Goroutines, Close(g) \/ CloseError(g) PROVE Unacked(c)'
  BY <1>0, <1>2, <1>7, R_Close
<1>8. ASSUME NEW s \in Slots, Recover(s) PROVE Unacked(c)'
  BY <1>0, <1>2, <1>8, R_Recover
<1>9. CASE (\E b \in ConnIDs : Client(b)) \/ UNCHANGED vars
  BY <1>0, <1>3, <1>9, RetryFrameSteps
<1>10. CASE Crash \/ Start
  <2>1. table'[c] = Nil
    BY <1>0, <1>10 DEF Crash, Lose, Start, DownInv
  <2> QED BY <2>1 DEF Unacked
<1>11. \A o \in Objs : o \in Goroutines
  OBVIOUS
<1> QED BY <1>4, <1>5, <1>6, <1>7, <1>8, <1>9, <1>10, <1>11 DEF Next, LogOut

\* A stored message that is not acknowledged is always going to be pushed again
\* while its connection is logged in: the message timer, rePush, the recovery and
\* appendMsg hand the obligation over, and only a logout ends it; for any number
\* of connections, objects, slots, messages and crashes.
THEOREM RetriesGoOn ==
  ASSUME RedisFast
  PROVE  Spec => []UnackedIsRetried
<1>1. Init => RetryInv
  <2> SUFFICES ASSUME Init PROVE RetryInv
    OBVIOUS
  <2>1. SessionInv
    BY SessionInit
  <2>2. RePushInv /\ SetBytesInv /\ DownInv
    BY DEF Init, RePushInv, SetBytesInv, DownInv
  <2>3. \A c \in ConnIDs : lastMsg[c] = NoMsg
    BY DEF Init
  <2> QED BY <2>1, <2>2, <2>3 DEF RetryInv, Unacked
<1>2. RetryInv /\ [Next]_vars => RetryInv'
  BY RetryStep
<1>3. RetryInv => UnackedIsRetried
  BY DEF RetryInv, Unacked, UnackedIsRetried
<1> QED BY <1>1, <1>2, <1>3, PTL DEF Spec

=============================================================================
