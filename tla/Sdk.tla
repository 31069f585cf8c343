-------------------------------- MODULE Sdk --------------------------------
(***************************************************************************)
(* The client SDK (common/sdk) as the terminal client (client/cui.go) uses *)
(* it.  Five goroutines share a Chat: the user interface sends and quits,  *)
(* one reconnects, loop reads and acknowledges, doRecv shows what loop     *)
(* hands over recvChan, heartbeat beats.  Only the table of client IDs is  *)
(* under the mutex; conn.conn and connID are not.                          *)
(*                                                                         *)
(* A connection is the number of its dial, and the state server gives it   *)
(* the same number as connID.  The server is what the SDK sees of          *)
(* StateServer: it takes a text whose client ID is the next of its         *)
(* connection, acknowledges it, pushes it back and keeps it as last        *)
(* message until acknowledged.  Heartbeats only move the server's timers   *)
(* and are left out, the end of their goroutine is not.                    *)
(***************************************************************************)
EXTENDS Integers, Sequences, SequencesExt, FiniteSets

CONSTANTS MaxTexts,    \* texts the user enters
          MaxDials,    \* connections, the first included
          MaxInFlight  \* packets the server lets pile up before it pushes again

ASSUME BoundsAssumption == {MaxTexts, MaxDials, MaxInFlight} \subseteq Nat \ {0}

VARIABLES
  usr,        \* the user interface: step, and client ID, text and generation of a Send
  said,       \* texts entered
  rec,        \* ReConn: its step; it holds the mutex from "close" to "send"
  loop,       \* step, connection being read and packet in hand
  cur, open,  \* chat.conn.conn; the connections whose client end is open
  connID,     \* chat.conn.connID
  table, gen, \* MsgClientIDTable[SessionID]; how often it has been replaced
  closing,    \* how far Close has come
  ended,      \* the process: "no", "crash", "exit"
  upNet, dnNet,         \* packets under way on every connection
  logged, maxID, last,  \* server: connections logged in, next client ID, last message
  shown, taken, dropped,  \* history: texts shown; texts taken and dropped, with their connection
  torn, reordered  \* history: a Send crossed a ReConn; the gateway's pool changed an order

client == <<usr, said, rec, loop, cur, open, connID, table, gen, closing, ended>>
server == <<logged, maxID, last, taken, dropped, reordered>>
vars == <<client, upNet, dnNet, server, shown, torn>>

Dials == 1..MaxDials
Texts == 1..MaxTexts
NoText == 0
Running == ended = "no"
Pkt(k, id, m) == [k |-> k, id |-> id, m |-> m]
NoPkt == Pkt("push", 0, NoText)

\* connect.send: a write on a connection that was closed fails, and no caller
\* of Send looks at the error.
send(e, p) == [upNet EXCEPT ![e] = IF e \in open THEN Append(@, p) ELSE @]
\* conn.Close: the peer sees the end after what was written before.
Hangup(e) == [upNet EXCEPT ![e] = IF e \in open THEN Append(@, Pkt("eof", 0, NoText)) ELSE @]

-----------------------------------------------------------------------------
(* The user interface.                                                      *)

\* NewChat after the dial, and the start of RunMain.
login ==
  /\ Running
  /\ usr.pc = "boot"
  /\ upNet' = send(cur, Pkt("login", 0, NoText))
  /\ usr' = [usr EXCEPT !.pc = "idle"]
  /\ UNCHANGED <<said, rec, loop, cur, open, connID, table, gen, closing, ended>>
  /\ UNCHANGED <<dnNet, server, shown, torn>>

\* doSay, Send up to getClientID.
getClientID ==
  /\ Running
  /\ usr.pc = "idle" /\ said < MaxTexts
  /\ rec \in {"idle", "done"}
  /\ said' = said + 1
  /\ usr' = [pc |-> "write", id |-> table, m |-> said + 1, gen |-> gen]
  /\ table' = table + 1
  /\ UNCHANGED <<rec, loop, cur, open, connID, gen, closing, ended, upNet, dnNet, server, shown, torn>>

\* The rest of Send.
Send ==
  /\ Running
  /\ usr.pc = "write"
  /\ upNet' = send(cur, Pkt("up", usr.id, usr.m))
  /\ torn' = (torn \/ (usr.gen # gen /\ cur \in open))
  /\ usr' = [usr EXCEPT !.pc = "idle"]
  /\ UNCHANGED <<said, rec, loop, cur, open, connID, table, gen, closing, ended>>
  /\ UNCHANGED <<dnNet, server, shown>>

\* quit: Close, then the end of RunMain.  sendChan is used by nobody.
Close ==
  /\ Running
  /\ usr.pc = "idle"
  /\ \/ /\ closing = "no" /\ closing' = "conn"
        /\ upNet' = Hangup(cur) /\ open' = open \ {cur}
        /\ UNCHANGED ended
     \/ /\ closing = "conn" /\ closing' = "closeChan"
        /\ UNCHANGED <<open, ended, upNet>>
     \/ /\ closing = "closeChan" /\ closing' = "recvChan"
        /\ ended' = IF loop.pc = "hand" THEN "crash" ELSE ended
        /\ UNCHANGED <<open, upNet>>
     \/ /\ closing = "recvChan" /\ ended' = "exit"
        /\ UNCHANGED <<closing, open, upNet>>
  /\ UNCHANGED <<usr, said, rec, loop, cur, connID, table, gen, dnNet, server, shown, torn>>

-----------------------------------------------------------------------------
(* ReConn, on a goroutine of its own.                                       *)

\* A new table of client IDs, under the mutex.
ReConn_OldTable ==
  /\ Running
  /\ usr.pc # "boot" /\ rec \in {"idle", "done"} /\ cur < MaxDials
  /\ rec' = "close"
  /\ gen' = gen + 1
  /\ UNCHANGED <<usr, said, loop, cur, open, connID, table, closing, ended, upNet, dnNet, server, shown, torn>>
ReConn ==
  /\ Running
  /\ usr.pc # "boot" /\ rec \in {"idle", "done"} /\ cur < MaxDials
  /\ rec' = "close"
  /\ table' = 0 /\ gen' = gen + 1
  /\ UNCHANGED <<usr, said, loop, cur, open, connID, closing, ended, upNet, dnNet, server, shown, torn>>

\* connect.reConn: Close of the old connection.
ReConnClose ==
  /\ Running
  /\ rec = "close" /\ rec' = "dial"
  /\ upNet' = Hangup(cur) /\ open' = open \ {cur}
  /\ UNCHANGED <<usr, said, loop, cur, connID, table, gen, closing, ended, dnNet, server, shown, torn>>

\* A dial that fails leaves a nil connection, which the next use dereferences.
ReConnDial ==
  /\ Running
  /\ rec = "dial"
  /\ \/ /\ cur' = cur + 1 /\ open' = open \cup {cur + 1}
        /\ rec' = "send" /\ UNCHANGED ended
     \/ ended' = "crash" /\ UNCHANGED <<cur, open, rec>>
  /\ UNCHANGED <<usr, said, loop, connID, table, gen, closing, upNet, dnNet, server, shown, torn>>

\* Chat.reConn: the request names the connection the client believes it had.
reConn ==
  /\ Running
  /\ rec = "send" /\ rec' = "done"
  /\ upNet' = send(cur, Pkt("reconn", connID, NoText))
  /\ UNCHANGED <<usr, said, loop, cur, open, connID, table, gen, closing, ended, dnNet, server, shown, torn>>

-----------------------------------------------------------------------------
(* loop and doRecv.                                                         *)

\* The select on closeChan; ReadData is called with the connection of now.
LoopTop ==
  /\ Running
  /\ loop.pc = "top"
  /\ loop' = IF closing \in {"closeChan", "recvChan"} THEN [loop EXCEPT !.pc = "done"]
             ELSE [loop EXCEPT !.pc = "read", !.e = cur]
  /\ UNCHANGED <<usr, said, rec, cur, open, connID, table, gen, closing, ended>>
  /\ UNCHANGED <<upNet, dnNet, server, shown, torn>>

\* ReadData returns a packet.
LoopRead ==
  /\ Running
  /\ loop.pc = "read" /\ loop.e \in open /\ dnNet[loop.e] # <<>>
  /\ dnNet' = [dnNet EXCEPT ![loop.e] = Tail(@)]
  /\ loop' = [loop EXCEPT !.pc = "handle", !.p = Head(dnNet[loop.e])]
  /\ UNCHANGED <<usr, said, rec, cur, open, connID, table, gen, closing, ended, upNet, server, shown, torn>>

\* handAckMsg; the ACK of a text carries nothing the client uses.
handAckMsg(p) == connID' = IF p.k \in {"login", "reconn"} THEN p.id ELSE connID

\* handPushMsg: the ACK goes to the connection of now, not to the one it was read from.
handPushMsg_NoAck == upNet' = upNet
handPushMsg == upNet' = send(cur, Pkt("ack", connID, NoText))

\* The packet, read perhaps before a ReConn, is handled; the send to recvChan
\* panics once Close has closed it.
LoopHandle ==
  /\ Running
  /\ loop.pc = "handle"
  /\ loop' = [loop EXCEPT !.pc = "hand"]
  /\ \/ /\ loop.p.k = "push" /\ handPushMsg
        /\ UNCHANGED connID
     \/ /\ loop.p.k # "push" /\ handAckMsg(loop.p)
        /\ UNCHANGED upNet
  /\ ended' = IF closing = "recvChan" THEN "crash" ELSE ended
  /\ UNCHANGED <<usr, said, rec, cur, open, table, gen, closing, dnNet, server, shown, torn>>

\* ReadData fails: loop tries again with the connection of then.
LoopError_Gone ==
  /\ Running
  /\ loop.pc = "read" /\ loop.e \notin open
  /\ loop' = [loop EXCEPT !.pc = "done"]
  /\ UNCHANGED <<usr, said, rec, cur, open, connID, table, gen, closing, ended>>
  /\ UNCHANGED <<upNet, dnNet, server, shown, torn>>
LoopError ==
  /\ Running
  /\ loop.pc = "read" /\ loop.e \notin open
  /\ loop' = [loop EXCEPT !.pc = "top"]
  /\ UNCHANGED <<usr, said, rec, cur, open, connID, table, gen, closing, ended>>
  /\ UNCHANGED <<upNet, dnNet, server, shown, torn>>

\* doRecv, always ready, takes the message and shows a text.
doRecv ==
  /\ Running
  /\ loop.pc = "hand"
  /\ loop' = [loop EXCEPT !.pc = "top", !.p = NoPkt]
  /\ shown' = shown \cup {loop.p.m}
  /\ UNCHANGED <<usr, said, rec, cur, open, connID, table, gen, closing, ended>>
  /\ UNCHANGED <<upNet, dnNet, server, torn>>

\* heartbeat returns on closeChan into its deferred call of itself, for ever:
\* the stack overflows unless the process is gone first.
heartbeat ==
  /\ Running
  /\ closing \in {"closeChan", "recvChan"}
  /\ ended' = "crash"
  /\ UNCHANGED <<usr, said, rec, loop, cur, open, connID, table, gen, closing>>
  /\ UNCHANGED <<upNet, dnNet, server, shown, torn>>

-----------------------------------------------------------------------------
(* The server, with the gateway before it.                                  *)

Push(e, p) == dnNet' = [dnNet EXCEPT ![e] = Append(@, p)]
\* connLogOut, which answers for a connection it does not know too.
LogOut(es) ==
  /\ maxID' = [f \in Dials |-> IF f \in es \cap logged THEN 0 ELSE maxID[f]]
  /\ last' = [f \in Dials |-> IF f \in es THEN NoText ELSE last[f]]

ServeLogin(e, p) ==
  /\ p.k \in {"login", "reconn"}
  /\ LogOut({p.id} \cap Dials)
  /\ logged' = (logged \ {p.id}) \cup {e}
  /\ Push(e, Pkt(p.k, e, NoText))
  /\ UNCHANGED <<taken, dropped>>

\* upMsgHandler.  On a connection not logged in the message is counted and
\* pushed before appendLastMsg fails.
ServeUp(e, p) ==
  /\ p.k = "up"
  /\ \/ /\ p.id = maxID[e]
        /\ maxID' = [maxID EXCEPT ![e] = @ + 1]
        /\ last' = [last EXCEPT ![e] = IF e \in logged THEN p.m ELSE @]
        /\ taken' = taken \cup {<<p.m, e>>}
        /\ dnNet' = [dnNet EXCEPT ![e] = @ \o <<Pkt("upack", e, NoText), Pkt("push", 0, p.m)>>]
        /\ UNCHANGED dropped
     \/ /\ p.id # maxID[e]
        /\ dropped' = dropped \cup {<<p.m, e>>}
        /\ UNCHANGED <<maxID, last, taken, dnNet>>
  /\ UNCHANGED logged

ServeAck(e, p) ==
  /\ p.k = "ack"
  /\ last' = [f \in Dials |-> IF f = p.id /\ f \in logged THEN NoText ELSE last[f]]
  /\ UNCHANGED <<logged, maxID, taken, dropped, dnNet>>

ServeEof(e, p) ==
  /\ p.k = "eof"
  /\ LogOut({e}) /\ logged' = logged \ {e}
  /\ UNCHANGED <<taken, dropped, dnNet>>

\* The pool of the gateway may let a packet pass the one before it.
Serve(e) ==
  /\ Running
  /\ \E i \in (1..Len(upNet[e])) \cap {1, 2} :
       LET p == upNet[e][i] IN
       /\ upNet' = [upNet EXCEPT ![e] = RemoveAt(@, i)]
       /\ i = 2 => ~reordered  \* bound: one exchange
       /\ reordered' = (reordered \/ i = 2)
       /\ ServeLogin(e, p) \/ ServeUp(e, p) \/ ServeAck(e, p) \/ ServeEof(e, p)
  /\ UNCHANGED <<client, shown, torn>>

\* rePush: the last message again, until its ACK.
RePush(e) ==
  /\ Running
  /\ e \in logged /\ last[e] # NoText
  /\ dnNet[e] = <<>> /\ Len(upNet[e]) < MaxInFlight
  /\ Push(e, Pkt("push", 0, last[e]))
  /\ UNCHANGED <<client, upNet, server, shown, torn>>

-----------------------------------------------------------------------------
Init ==
  /\ usr = [pc |-> "boot", id |-> 0, m |-> NoText, gen |-> 0] /\ said = 0
  /\ rec = "idle" /\ loop = [pc |-> "top", e |-> 1, p |-> NoPkt]
  /\ cur = 1 /\ open = {1} /\ connID = 0 /\ table = 0 /\ gen = 0
  /\ closing = "no" /\ ended = "no"
  /\ upNet = [e \in Dials |-> <<>>] /\ dnNet = [e \in Dials |-> <<>>]
  /\ logged = {} /\ maxID = [e \in Dials |-> 0] /\ last = [e \in Dials |-> NoText]
  /\ shown = {} /\ taken = {} /\ dropped = {}
  /\ torn = FALSE /\ reordered = FALSE

Looping == LoopTop \/ LoopRead \/ LoopHandle \/ LoopError \/ doRecv
ReConnecting == ReConnClose \/ ReConnDial \/ reConn
Next ==
  \/ login \/ getClientID \/ Send \/ Close
  \/ ReConn \/ ReConnecting
  \/ Looping \/ heartbeat
  \/ \E e \in Dials : Serve(e) \/ RePush(e)

Spec == Init /\ [][Next]_vars
\* Goroutines run, packets arrive, and the last message is pushed again.
FairSpec ==
  /\ Spec
  /\ WF_vars(login) /\ WF_vars(Looping) /\ WF_vars(ReConnecting)
  /\ \A e \in Dials : WF_vars(Serve(e)) /\ WF_vars(RePush(e))

-----------------------------------------------------------------------------
Packets == [k : {"login", "reconn", "up", "ack", "eof", "upack", "push"},
            id : 0..MaxTexts + MaxDials, m : Texts \cup {NoText}]
\* The variables have their types; at most one connection of the client is open.
TypeOK ==
  /\ usr \in [pc : {"boot", "idle", "write"}, id : 0..MaxTexts, m : Texts \cup {NoText}, gen : 0..MaxDials]
  /\ loop \in [pc : {"top", "read", "handle", "hand", "done"}, e : Dials, p : Packets]
  /\ cur \in Dials /\ open \subseteq {cur} /\ connID \in 0..cur /\ table \in 0..MaxTexts
  /\ \A e \in Dials : upNet[e] \in Seq(Packets) /\ dnNet[e] \in Seq(Packets)
  /\ logged \subseteq Dials /\ taken \cup dropped \subseteq Texts \X Dials
  /\ closing \in {"no", "conn", "closeChan", "recvChan"} /\ ended \in {"no", "crash", "exit"}

\* The client numbers its texts as the server counts them: a text written on the
\* connection in use is refused only after a Send took its ID before a ReConn
\* and wrote after it, or after the gateway's pool changed an order.  The SDK
\* never sends a refused text again.
NumbersAgree == \A d \in dropped : d[2] = cur => torn \/ reordered

Over == closing # "no" \/ ended # "no"
\* A text the server has taken on the connection in use is shown, although
\* loop may be reading the connection before, or waiting for doRecv.
TakenIsShown ==
  []<>(Over \/ \A t \in taken : t[2] = cur => t[1] \in shown)

\* The server's last message of the connection in use does not stay for ever:
\* the client learns its new connID, and an ACK that names the wrong connection
\* is made good when the message is pushed again.
AckReachesServer ==
  []<>(Over \/ (usr.pc # "boot" /\ last[cur] = NoText))
=============================================================================
