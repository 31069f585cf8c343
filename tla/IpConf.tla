------------------------------- MODULE IpConf -------------------------------
(***************************************************************************)
(* The IP configuration service (ipconf/ with common/discovery): gateways  *)
(* register with etcd and put their free capacity there; DataHandler reads *)
(* and then watches the keys and turns them into events; the dispatcher    *)
(* keeps a candidate table, every candidate a goroutine with a window of   *)
(* its last reports; a request scores, sorts and returns the candidates.   *)
(*                                                                         *)
(* A report is its message_bytes; connect_num appears as the static score  *)
(* it becomes.  etcd is external: the present keys, and the log of events, *)
(* whose positions are the revisions.                                      *)
(***************************************************************************)
EXTENDS Integers, Sequences, FiniteSets, FiniteSetsExt

CONSTANTS Nodes, Requests,
          Reports,    \* values of message_bytes
          Loads,      \* what the gateways do, see load
          windowSize, \* 5 in the code
          Addresses,  \* addresses of a Stat
          Top         \* 5 in the code

NoMeta == -1  \* the value of a registration without metadata
Nothing == -2
ASSUME SizesAssumption ==
  /\ windowSize \in Nat \ {0} /\ Top \in Nat \ {0}
  /\ Reports \subseteq Nat /\ Addresses \subseteq Nat /\ Addresses # {}
ASSUME LoadsAssumption ==
  Loads \subseteq [puts : [Nodes -> Nat], bare : SUBSET Nodes, ends : SUBSET Nodes]

VARIABLES
  load,      \* fixed by Init: puts of every gateway, those without metadata, those that end
  kv, log,   \* etcd: value of every key; events [n, v], v = Nothing for a DELETE
  puts,      \* reports put by every gateway
  ended,     \* gateways that closed or lost their lease
  data,      \* DataHandler: step, keys of the snapshot left, next revision, event in hand
  disp,      \* the goroutine of Init: step, event; it holds the lock in "send"
  table,     \* candidateTable
  queue, idx, sum,  \* stateWindow of every candidate
  ed,        \* goroutine of NewEndport: none, recv, swap
  stat,      \* what ed.Stats points to: CalculateActiveSorce and CalculateStaticSorce of it
  score,     \* ActiveSorce and StaticSorce of every candidate
  req,       \* requests: step, candidates, those still to score, response
  down,      \* the process died of a panic
  taken      \* history: the reports appended, by node

etcd == <<load, kv, log, puts, ended>>
windows == <<queue, idx, sum, taken>>
vars == <<etcd, data, disp, table, windows, ed, stat, score, req, down>>

Up == ~down
Free == disp.pc # "send"  \* dp.RWMutex

-----------------------------------------------------------------------------
(* Gateways: ServiceRegister.                                               *)

\* NewServiceRegister, then UpdateValue.
PutKey(n) ==
  /\ n \notin ended /\ puts[n] < load.puts[n]
  /\ \E v \in IF n \in load.bare THEN {NoMeta} ELSE Reports :
       kv' = [kv EXCEPT ![n] = v] /\ log' = Append(log, [n |-> n, v |-> v])
  /\ puts' = [puts EXCEPT ![n] = @ + 1]
  /\ UNCHANGED <<load, ended, data, disp, table, windows, ed, stat, score, req, down>>

\* Close revokes the lease, or the lease is lost, which ListenLeaseRespChan only logs.
LeaseEnds(n) ==
  /\ n \in load.ends \ ended /\ kv[n] # Nothing
  /\ kv' = [kv EXCEPT ![n] = Nothing] /\ log' = Append(log, [n |-> n, v |-> Nothing])
  /\ ended' = ended \cup {n}
  /\ UNCHANGED <<load, puts, data, disp, table, windows, ed, stat, score, req, down>>

-----------------------------------------------------------------------------
(* DataHandler and WatchService.                                            *)

Revision_Skips == Len(log) + 2
Revision == Len(log) + 1

\* A first Get that fails is returned, and DataHandler panics.
WatchService ==
  /\ Up
  /\ data.pc = "get"
  /\ \/ /\ data' = [data EXCEPT !.pc = "next", !.todo = {[n |-> n, v |-> kv[n]] : n \in {m \in Nodes : kv[m] # Nothing}},
                                !.at = Revision]
        /\ UNCHANGED down
     \/ down' = TRUE /\ UNCHANGED data
  /\ UNCHANGED <<etcd, disp, table, windows, ed, stat, score, req>>

\* setFunc: an event for the channel.  A registration without metadata gives a
\* nil event, which setFunc writes to.
setFunc(e) ==
  \/ e.v # NoMeta /\ data' = [data EXCEPT !.pc = "send", !.ev = e, !.todo = @ \ {e}] /\ UNCHANGED down
  \/ e.v = NoMeta /\ down' = TRUE /\ UNCHANGED data

DataSet ==
  /\ Up
  /\ data.pc = "next" /\ \E e \in data.todo : setFunc(e)
  /\ UNCHANGED <<etcd, disp, table, windows, ed, stat, score, req>>

\* delFunc cannot parse the empty value of a DELETE event and logs the error.
delFunc(e) == e.v = Nothing /\ data' = [data EXCEPT !.at = @ + 1]

\* watcher.
WatchEvent ==
  /\ Up
  /\ data.pc = "next" /\ data.todo = {} /\ data.at <= Len(log)
  /\ LET e == log[data.at] IN
     \/ delFunc(e)
     \/ e.v # Nothing /\ data' = [data EXCEPT !.at = @ + 1, !.todo = {e}]
  /\ UNCHANGED <<etcd, disp, table, windows, ed, stat, score, req, down>>

-----------------------------------------------------------------------------
(* The dispatcher and the endports.                                         *)

\* eventChan is unbuffered; addNode up to UpdateStat, with the lock.  NewEndport
\* starts the goroutine of the window.
addNode_NoGoroutine ==
  /\ Up
  /\ data.pc = "send" /\ disp.pc = "recv"
  /\ table' = table \cup {data.ev.n}
  /\ disp' = [pc |-> "send", ev |-> data.ev]
  /\ data' = [data EXCEPT !.pc = "next"]
  /\ UNCHANGED <<etcd, windows, ed, stat, score, req, down>>
addNode ==
  /\ Up
  /\ data.pc = "send" /\ disp.pc = "recv"
  /\ table' = table \cup {data.ev.n}
  /\ ed' = [ed EXCEPT ![data.ev.n] = IF data.ev.n \in table THEN @ ELSE "recv"]
  /\ disp' = [pc |-> "send", ev |-> data.ev]
  /\ data' = [data EXCEPT !.pc = "next"]
  /\ UNCHANGED <<etcd, windows, stat, score, req, down>>

\* appendStat: the slot of the oldest report is taken off the sum and reused.
Slot(n) == (idx[n] % windowSize) + 1
appendStat_KeepsOld(n, v) ==
  /\ sum' = [sum EXCEPT ![n] = @ + v]
  /\ queue' = [queue EXCEPT ![n][Slot(n)] = v]
  /\ idx' = [idx EXCEPT ![n] = @ + 1]
appendStat(n, v) ==
  /\ sum' = [sum EXCEPT ![n] = @ - queue[n][Slot(n)] + v]
  /\ queue' = [queue EXCEPT ![n][Slot(n)] = v]
  /\ idx' = [idx EXCEPT ![n] = @ + 1]

\* UpdateStat meets the receive of the endport's goroutine; the lock is released.
UpdateStat ==
  /\ Up
  /\ disp.pc = "send" /\ ed[disp.ev.n] = "recv"
  /\ LET n == disp.ev.n IN
       /\ appendStat(n, disp.ev.v)
       /\ taken' = [taken EXCEPT ![n] = Append(@, disp.ev.v)]
       /\ ed' = [ed EXCEPT ![n] = "swap"]
  /\ disp' = [disp EXCEPT !.pc = "recv"]
  /\ UNCHANGED <<etcd, data, table, stat, score, req, down>>

\* SwapPointer is given the Stat instead of the field ed.Stats that points to it:
\* the address of the new Stat overwrites ConnectNum, the first word of the old
\* one, and MessageBytes stays what it was.  Addresses are anything; as numbers
\* they are all far below one.
Swap(n) ==
  /\ Up
  /\ ed[n] = "swap"
  /\ ed' = [ed EXCEPT ![n] = "recv"]
  /\ \E a \in Addresses : stat' = [stat EXCEPT ![n].static = a]
  /\ UNCHANGED <<etcd, data, disp, table, windows, score, req, down>>

-----------------------------------------------------------------------------
(* A request: GetIpInfoList, Dispatch.                                      *)

getCandidateEndport(r) ==
  /\ Up /\ Free
  /\ req[r].pc = "idle"
  /\ req' = [req EXCEPT ![r] = [pc |-> "score", eds |-> table, todo |-> table, res |-> <<>>]]
  /\ UNCHANGED <<etcd, data, disp, table, windows, ed, stat, score, down>>

\* The scores are fields of the candidates, which all requests share.
CalculateScore(r) ==
  /\ Up
  /\ req[r].pc = "score"
  /\ \E n \in req[r].todo :
       /\ score' = [score EXCEPT ![n] = stat[n]]
       /\ req' = [req EXCEPT ![r].todo = @ \ {n}]
  /\ UNCHANGED <<etcd, data, disp, table, windows, ed, stat, down>>

top5Endports(s) == SubSeq(s, 1, Min({Top, Len(s)}))

Before(m, n) ==
  \/ score[m].active > score[n].active
  \/ score[m].active = score[n].active /\ score[m].static > score[n].static
Orders(S) ==
  {s \in [1..Cardinality(S) -> S] :
     \A i, j \in 1..Cardinality(S) : i < j => s[i] # s[j] /\ ~Before(s[j], s[i])}
\* sort.Slice and top5Endports; candidates with equal scores come in any order.
Respond(r) ==
  /\ Up
  /\ req[r].pc = "score" /\ req[r].todo = {}
  /\ \E s \in Orders(req[r].eds) :
       req' = [req EXCEPT ![r] = [pc |-> "done", eds |-> {}, todo |-> {},
                                  res |-> top5Endports(s)]]
  /\ UNCHANGED <<etcd, data, disp, table, windows, ed, stat, score, down>>

-----------------------------------------------------------------------------
Init ==
  /\ load \in Loads
  /\ kv = [n \in Nodes |-> Nothing] /\ log = <<>> /\ puts = [n \in Nodes |-> 0] /\ ended = {}
  /\ data = [pc |-> "get", todo |-> {}, at |-> 0, ev |-> [n |-> CHOOSE n \in Nodes : TRUE, v |-> Nothing]]
  /\ disp = [pc |-> "recv", ev |-> data.ev]
  /\ table = {} /\ ed = [n \in Nodes |-> "none"]
  /\ queue = [n \in Nodes |-> [i \in 1..windowSize |-> 0]]
  /\ idx = [n \in Nodes |-> 0] /\ sum = [n \in Nodes |-> 0] /\ taken = [n \in Nodes |-> <<>>]
  /\ stat = [n \in Nodes |-> [active |-> 0, static |-> 0]] /\ score = stat
  /\ req = [r \in Requests |-> [pc |-> "idle", eds |-> {}, todo |-> {}, res |-> <<>>]]
  /\ down = FALSE

Serving(r) == getCandidateEndport(r) \/ CalculateScore(r) \/ Respond(r)
Next ==
  \/ \E n \in Nodes : PutKey(n) \/ LeaseEnds(n) \/ Swap(n)
  \/ WatchService \/ DataSet \/ WatchEvent \/ addNode \/ UpdateStat
  \/ \E r \in Requests : Serving(r)

Spec == Init /\ [][Next]_vars
\* Goroutines run; a request is served once it has come.
FairSpec ==
  /\ Spec
  /\ WF_vars(WatchService) /\ WF_vars(DataSet) /\ WF_vars(WatchEvent)
  /\ WF_vars(addNode) /\ WF_vars(UpdateStat) /\ \A n \in Nodes : WF_vars(Swap(n))
  /\ \A r \in Requests : WF_vars(Serving(r))

-----------------------------------------------------------------------------
\* The variables have their types: window, table and positions in the log stay in range.
TypeOK ==
  /\ data.pc \in {"get", "next", "send"} /\ data.at \in 0..Len(log) + 1
  /\ disp.pc \in {"recv", "send"} /\ table \subseteq Nodes
  /\ ed \in [Nodes -> {"none", "recv", "swap"}]
  /\ \A n \in Nodes : queue[n] \in [1..windowSize -> Reports \cup {0}] /\ idx[n] \in Nat /\ sum[n] \in Nat
  /\ \A r \in Requests : Len(req[r].res) <= Top

Last(n) == {i \in 1..Len(taken[n]) : i > Len(taken[n]) - windowSize}
\* The sum the window keeps by adding and subtracting is the sum of the last
\* windowSize reports.
WindowSums == \A n \in Nodes : sum[n] = MapThenSumSet(LAMBDA i : taken[n][i], Last(n))

\* The newest report of a gateway ends up in its window.
NewestCounts ==
  []<>(down \/ \A n \in Nodes : kv[n] # Nothing => taken[n] # <<>> /\ taken[n][Len(taken[n])] = kv[n])

\* Requests are answered although the dispatcher holds the lock while it waits
\* for the goroutine of an endport.
RequestsAreAnswered == <>(down \/ \A r \in Requests : req[r].pc = "done")
=============================================================================
