-------------------------- MODULE PrpcDiscovProofs --------------------------
(***************************************************************************)
(* Proofs about PrpcDiscov, for any servers, services, dialers, faults and *)
(* leases: no registration falls between the read of a service and its     *)
(* watch.                                                                  *)
(*                                                                         *)
(* RegisteredIsCached alone is not inductive.  A put counts as coming only *)
(* if a watch is there to deliver it (WatchInv) and writes the map that is *)
(* read (MapInv).                                                          *)
(***************************************************************************)
EXTENDS PrpcDiscov, TLAPS

Events == {"put", "del"} \X Servers
DialPCs == {"build", "fetch", "listen", "append", "tell", "refetch", "read", "update", "ready"}
DialStates == [pc : DialPCs, m : Dialers \cup {None}]

\* The parts of the state the argument is about, and the map a dialer has in hand.
DTypes ==
  /\ keys \subseteq Servers /\ log \in Seq(Events)
  /\ map \in [Dialers -> [Services -> SUBSET (Servers \cup {None})]]
  /\ down \in Dialers \cup {None}
  /\ dial \in [Dialers -> DialStates]
  /\ \A g \in Dialers : dial[g].pc \in {"fetch", "refetch"} => dial[g].m \in Dialers
  /\ watches \subseteq [s : Services, at : Nat]
  /\ \A w \in watches : w.at \in 1..Len(log) + 1

\* There is one map, unless it has been replaced.
MapInv == ~wiped => \A m \in Dialers : m # down => map[m] = NoMap

\* What is watched is cached and, of the services no other one's watch fills in,
\* what is cached is watched.
WatchInv ==
  /\ watches # {} => down # None
  /\ ~wiped => \A w \in watches : InCache(w.s)
  /\ \A s \in Services : InCache(s) /\ Whole(s) => \E w \in watches : w.s = s

DInv == DTypes /\ MapInv /\ WatchInv /\ RegisteredIsCached

-----------------------------------------------------------------------------
(* Steps.                                                                   *)

\* What RegisteredIsCached says about one endpoint.
Follows(s, i) == i \in keys => i \in map[down][s] \/ Coming(s, i)

LEMMA FollowsDef ==
  RegisteredIsCached <=>
    \A s \in Services : InCache(s) /\ Whole(s) => \A i \in Servers : SvcOf[i] = s => Follows(s, i)
  BY DEF RegisteredIsCached, Follows

Client == <<map, down, watches, wiped, load>>

\* A dialer moves on, or a server, and neither etcd nor the cache changes.
LEMMA D_Quiet ==
  ASSUME DInv, UNCHANGED <<keys, log, Client>>,
         dial' \in [Dialers -> DialStates],
         \A g \in Dialers : dial'[g].pc \in {"fetch", "refetch"} => dial'[g].m \in Dialers
  PROVE  DInv'
<1>1. DTypes'
  BY DEF DInv, DTypes, Client
<1>2. MapInv'
  BY DEF DInv, MapInv, NoMap, Client
<1>3. WatchInv'
  BY DEF DInv, WatchInv, InCache, Cached, Whole, Client
<1>4. RegisteredIsCached'
  <2>1. \A s \in Services : \A i : Coming(s, i)' <=> Coming(s, i)
    BY DEF Coming, Client
  <2>2. \A s \in Services : InCache(s)' /\ Whole(s)' => InCache(s) /\ Whole(s)
    BY DEF InCache, Cached, Whole, Client
  <2> QED BY <2>1, <2>2 DEF DInv, RegisteredIsCached, Client
<1> QED BY <1>1, <1>2, <1>3, <1>4 DEF DInv

\* The log after an event: its old part, and the event last.
LEMMA Appended ==
  ASSUME log \in Seq(Events), NEW ev \in Events, log' = Append(log, ev)
  PROVE  /\ log' \in Seq(Events) /\ Len(log') = Len(log) + 1 /\ Len(log) \in Nat
         /\ \A n \in 1..Len(log) : log'[n] = log[n]
         /\ log'[Len(log) + 1] = ev
  OBVIOUS

\* An event of etcd, an endpoint put or deleted, reaches every watch.
LEMMA D_Event ==
  ASSUME DInv, NEW i \in Servers, NEW e \in {"put", "del"},
         log' = Append(log, <<e, i>>),
         keys' = IF e = "put" THEN keys \cup {i} ELSE keys \ {i},
         UNCHANGED <<dial, Client>>
  PROVE  DInv'
<1>1. log \in Seq(Events) /\ <<e, i>> \in Events /\ keys \subseteq Servers
  BY DEF DInv, DTypes, Events
<1>2. /\ log' \in Seq(Events) /\ Len(log') = Len(log) + 1 /\ Len(log) \in Nat
      /\ \A n \in 1..Len(log) : log'[n] = log[n]
      /\ log'[Len(log) + 1] = <<e, i>>
  BY <1>1, Appended
<1>3. DTypes'
  BY <1>1, <1>2 DEF DInv, DTypes, Client
<1>5. MapInv'
  BY DEF DInv, MapInv, NoMap, Client
<1>6. WatchInv'
  BY DEF DInv, WatchInv, InCache, Cached, Whole, Client
<1>7. RegisteredIsCached'
  <2> SUFFICES ASSUME NEW s \in Services, InCache(s), Whole(s), NEW j \in Servers, SvcOf[j] = s
               PROVE  Follows(s, j)'
    BY FollowsDef DEF RegisteredIsCached, Follows, InCache, Cached, Whole, Client
  <2>1. Follows(s, j)
    BY FollowsDef DEF DInv
  <2>2. Coming(s, j) => Coming(s, j)'
    <3> SUFFICES ASSUME NEW w \in watches, w.s = s, NEW n \in w.at..Len(log), log[n] = <<"put", j>>
                 PROVE  Coming(s, j)'
      BY DEF Coming
    <3>1. w.at \in 1..Len(log) + 1
      BY DEF DInv, DTypes
    <3>2. n \in w.at..Len(log') /\ log'[n] = <<"put", j>>
      BY <1>2, <3>1
    <3> QED BY <3>2 DEF Coming, Client
  <2>3. e = "put" => Coming(s, i)'
    <3>1. PICK w \in watches : w.s = s
      BY DEF DInv, WatchInv
    <3>2. w.at \in 1..Len(log) + 1
      BY DEF DInv, DTypes
    <3>3. Len(log) + 1 \in w.at..Len(log')
      BY <1>2, <3>2
    <3> QED BY <1>2, <3>1, <3>3 DEF Coming, Client
  <2> QED BY <2>1, <2>2, <2>3 DEF Follows, Client
<1> QED BY <1>3, <1>5, <1>6, <1>7 DEF DInv

\* Delete writes an event only for a key that is there.
LEMMA D_Delete ==
  ASSUME DInv, NEW i \in Servers, Delete(i), UNCHANGED cliVars
  PROVE  DInv'
<1>1. UNCHANGED <<dial, Client>>
  BY DEF Delete, cliVars, Client
<1>2. CASE i \in keys
  BY <1>1, <1>2, D_Event DEF Delete
<1>3. CASE i \notin keys
  <2>1. UNCHANGED <<keys, log>>
    BY <1>3 DEF Delete
  <2> QED BY <1>1, <2>1, D_Quiet DEF DInv, DTypes
<1> QED BY <1>2, <1>3

\* The steps of a server and of its lease.
LEMMA D_Server ==
  ASSUME DInv, NEW i \in Servers,
         Register(i) \/ Run(i) \/ Signal(i) \/ Exit(i) \/ Kill(i) \/ LeaseExpires(i)
  PROVE  DInv'
<1>1. CASE UNCHANGED <<etcd, cliVars>>
  <2>1. UNCHANGED <<keys, log, dial, Client>>
    BY <1>1 DEF etcd, cliVars, Client
  <2> QED BY <2>1, D_Quiet DEF DInv, DTypes
<1>2. CASE Put(i) /\ UNCHANGED cliVars
  <2>1. UNCHANGED <<dial, Client>>
    BY <1>2 DEF Put, cliVars, Client
  <2> QED BY <1>2, <2>1, D_Event DEF Put
<1>3. CASE Delete(i) /\ UNCHANGED cliVars
  BY <1>3, D_Delete
<1> QED BY <1>1, <1>2, <1>3
        DEF Register, Run, registerService, KeepAlive, unRegisterService, Signal, Exit, Kill, Off, LeaseExpires

\* A dialer's next step and map are what they should be.
LEMMA D_Dial ==
  ASSUME DInv, NEW g \in Dialers, NEW r \in DialStates, dial' = [dial EXCEPT ![g] = r],
         r.pc \in {"fetch", "refetch"} => r.m \in Dialers
  PROVE  /\ dial' \in [Dialers -> DialStates]
         /\ \A h \in Dialers : dial'[h].pc \in {"fetch", "refetch"} => dial'[h].m \in Dialers
  BY DEF DInv, DTypes

\* The steps of a dialer but the reading of etcd.
LEMMA D_Dialer ==
  ASSUME DInv, NEW g \in Dialers,
         \/ GetService(g) \/ AddListenerRead(g) \/ AddListenerWrite(g)
         \/ ReadEndpoints(g) \/ UpdateState(g)
  PROVE  DInv'
<1>1. UNCHANGED <<keys, log, Client>>
  BY DEF GetService, AddListenerRead, AddListenerWrite, ReadEndpoints, UpdateState, etcd, Client
<1>2. dial \in [Dialers -> DialStates] /\ down \in Dialers \cup {None}
  BY DEF DInv, DTypes
<1>3. PICK r : /\ dial' = [dial EXCEPT ![g] = r] /\ r \in DialStates
               /\ r.pc \in {"fetch", "refetch"} => r.m \in Dialers
  <2>1. CASE GetService(g)
    <3>1. ASSUME NEW p \in DialPCs, NEW m \in Dialers \cup {None}, dial' = [dial EXCEPT ![g] = [pc |-> p, m |-> m]],
                 p \in {"fetch", "refetch"} => m \in Dialers
          PROVE  \E r \in DialStates : dial' = [dial EXCEPT ![g] = r] /\ (r.pc \in {"fetch", "refetch"} => r.m \in Dialers)
      <4>1. [pc |-> p, m |-> m] \in DialStates
        BY DEF DialStates
      <4> QED BY <3>1, <4>1
    <3>2. CASE InCache(Want[g])
      <4>1. /\ After(dial[g].pc) \in DialPCs /\ After(dial[g].pc) \notin {"fetch", "refetch"}
            /\ dial' = [dial EXCEPT ![g] = [pc |-> After(dial[g].pc), m |-> down]]
        BY <1>2, <2>1, <3>2 DEF GetService, After, DialPCs
      <4> QED BY <1>2, <3>1, <4>1
    <3>3. CASE ~InCache(Want[g])
      <4>1. /\ (IF dial[g].pc = "build" THEN "fetch" ELSE "refetch") \in DialPCs
            /\ (IF down = None THEN g ELSE down) \in Dialers
        BY <1>2 DEF DialPCs
      <4>2. dial' = [dial EXCEPT ![g] = [pc |-> IF dial[g].pc = "build" THEN "fetch" ELSE "refetch",
                                         m |-> IF down = None THEN g ELSE down]]
        BY <1>2, <2>1, <3>3 DEF GetService
      <4> QED BY <3>1, <4>1, <4>2
    <3> QED BY <3>2, <3>3
  <2>2. ASSUME NEW p \in {"append", "tell", "update", "ready"}, dial' = [dial EXCEPT ![g].pc = p]
        PROVE  \E r \in DialStates : dial' = [dial EXCEPT ![g] = r] /\ r.pc \notin {"fetch", "refetch"}
    <3> DEFINE r == [dial[g] EXCEPT !.pc = p]
    <3>1. r \in DialStates /\ r.pc = p
      BY <1>2 DEF DialStates, DialPCs
    <3>2. dial' = [dial EXCEPT ![g] = r]
      BY <2>2
    <3> QED BY <3>1, <3>2
  <2> QED BY <2>1, <2>2 DEF AddListenerRead, AddListenerWrite, ReadEndpoints, UpdateState, Pc
<1> QED BY <1>1, <1>3, D_Dial, D_Quiet

\* What a watch leaves behind when it moves past an event.
LEMMA WatchMoves ==
  ASSUME DInv, NEW w \in watches, w.at <= Len(log), UNCHANGED log,
         watches' = (watches \ {w}) \cup {[w EXCEPT !.at = @ + 1]}
  PROVE  /\ log[w.at] \in Events /\ w.at \in 1..Len(log)
         /\ watches' \subseteq [s : Services, at : Nat] /\ \A v \in watches' : v.at \in 1..Len(log') + 1
         /\ \A v \in watches' : v.s = w.s \/ v \in watches
         /\ \E v \in watches' : v.s = w.s /\ v.at = w.at + 1
         /\ \A v \in watches : \E u \in watches' : u.s = v.s
         /\ \A s, i : Coming(s, i) => Coming(s, i)' \/ (w.s = s /\ log[w.at] = <<"put", i>>)
<1> DEFINE x == [w EXCEPT !.at = @ + 1]
<1>1. /\ log \in Seq(Events) /\ Len(log) \in Nat /\ watches \subseteq [s : Services, at : Nat]
      /\ w \in [s : Services, at : Nat] /\ w.at \in 1..Len(log) + 1
  BY DEF DInv, DTypes
<1>2. x \in [s : Services, at : Nat] /\ x.s = w.s /\ x.at = w.at + 1 /\ w.at \in 1..Len(log)
  BY <1>1
<1>3. log[w.at] \in Events
  BY <1>1, <1>2
<1> HIDE DEF x
<1>4. watches' = (watches \ {w}) \cup {x}
  BY DEF x
<1>5. /\ watches' \subseteq [s : Services, at : Nat]
      /\ \A v \in watches' : v.s = w.s \/ v \in watches
      /\ \E v \in watches' : v.s = w.s /\ v.at = w.at + 1
      /\ \A v \in watches : \E u \in watches' : u.s = v.s
  BY <1>1, <1>2, <1>4
<1>6. ASSUME NEW v \in watches' PROVE v.at \in 1..Len(log') + 1
  <2>1. CASE v = x
    BY <1>1, <1>2, <2>1
  <2>2. CASE v \in watches
    BY <2>2 DEF DInv, DTypes
  <2> QED BY <1>4, <2>1, <2>2
<1>7. ASSUME NEW s, NEW i, Coming(s, i), ~(w.s = s /\ log[w.at] = <<"put", i>>)
      PROVE  Coming(s, i)'
  <2>1. PICK v \in watches : v.s = s /\ \E n \in v.at..Len(log) : log[n] = <<"put", i>>
    BY <1>7 DEF Coming
  <2>2. CASE v # w
    BY <1>4, <2>1, <2>2 DEF Coming
  <2>3. CASE v = w
    <3>1. PICK n \in w.at..Len(log) : log[n] = <<"put", i>>
      BY <2>1, <2>3
    <3>2. n # w.at
      BY <1>7, <2>1, <2>3, <3>1
    <3>3. n \in x.at..Len(log')
      BY <1>1, <1>2, <3>2
    <3>4. x \in watches' /\ x.s = s
      BY <1>2, <1>4, <2>1, <2>3
    <3> QED BY <3>1, <3>3, <3>4 DEF Coming
  <2> QED BY <2>2, <2>3
<1> QED BY <1>2, <1>3, <1>5, <1>6, <1>7

\* watch passes over a deletion, or over an endpoint of another service.
LEMMA D_WatchSkip == ASSUME DInv, NEW w \in watches, WatchSkip(w) PROVE DInv'
<1>1. /\ w.at <= Len(log) /\ watches' = (watches \ {w}) \cup {[w EXCEPT !.at = @ + 1]}
      /\ UNCHANGED <<keys, log, load, map, down, dial, wiped>>
      /\ log[w.at][1] = "del" \/ ~Matches(w.s, log[w.at][2])
  BY DEF WatchSkip, etcd
<1>2. /\ watches' \subseteq [s : Services, at : Nat] /\ \A v \in watches' : v.at \in 1..Len(log') + 1
      /\ \A v \in watches' : v.s = w.s \/ v \in watches
      /\ \A v \in watches : \E u \in watches' : u.s = v.s
      /\ \A s, i : Coming(s, i) => Coming(s, i)' \/ (w.s = s /\ log[w.at] = <<"put", i>>)
  BY <1>1, WatchMoves
<1>3. DTypes'
  BY <1>1, <1>2 DEF DInv, DTypes
<1>4. MapInv'
  BY <1>1 DEF DInv, MapInv, NoMap
<1>5. WatchInv'
  BY <1>1, <1>2 DEF DInv, WatchInv, InCache, Cached, Whole
<1>6. RegisteredIsCached'
  <2> SUFFICES ASSUME NEW s \in Services, InCache(s), Whole(s), NEW j \in Servers, SvcOf[j] = s
               PROVE  Follows(s, j)'
    BY <1>1, FollowsDef DEF RegisteredIsCached, Follows, InCache, Cached, Whole
  <2>1. Follows(s, j)
    BY FollowsDef DEF DInv
  <2>2. Coming(s, j) => Coming(s, j)'
    BY <1>1, <1>2 DEF Matches
  <2> QED BY <1>1, <2>1, <2>2 DEF Follows
<1> QED BY <1>3, <1>4, <1>5, <1>6 DEF DInv

\* updateDownService: an endpoint enters the map.
LEMMA D_WatchPut == ASSUME DInv, NEW w \in watches, WatchPut(w) PROVE DInv'
<1>0. PICK i : i = log[w.at][2]
  OBVIOUS
<1> DEFINE t == SvcOf[i]
<1>1. /\ w.at <= Len(log) /\ watches' = (watches \ {w}) \cup {[w EXCEPT !.at = @ + 1]}
      /\ UNCHANGED <<keys, log, load, down, dial, wiped>>
      /\ log[w.at][1] = "put" /\ Matches(w.s, i)
      /\ map' = [map EXCEPT ![down][t] = (@ \ {None}) \cup {i}]
  BY <1>0 DEF WatchPut, etcd
<1>2. /\ watches' \subseteq [s : Services, at : Nat] /\ \A v \in watches' : v.at \in 1..Len(log') + 1
      /\ \A v \in watches' : v.s = w.s \/ v \in watches
      /\ \E v \in watches' : v.s = w.s /\ v.at = w.at + 1
      /\ \A v \in watches : \E u \in watches' : u.s = v.s
      /\ \A s, j : Coming(s, j) => Coming(s, j)' \/ (w.s = s /\ log[w.at] = <<"put", j>>)
      /\ log[w.at] \in Events /\ w.at \in 1..Len(log)
  BY <1>1, WatchMoves
<1>3. i \in Servers /\ log[w.at] = <<"put", i>> /\ i # None /\ t \in Services
  BY <1>0, <1>1, <1>2, NamesAssumption DEF Events, Services
<1>4. down \in Dialers /\ map \in [Dialers -> [Services -> SUBSET (Servers \cup {None})]]
  BY DEF DInv, DTypes, WatchInv
<1>5. /\ map' \in [Dialers -> [Services -> SUBSET (Servers \cup {None})]]
      /\ \A m \in Dialers : m # down => map'[m] = map[m]
      /\ \A s \in Services : s # t => map'[down][s] = map[down][s]
      /\ map'[down][t] = (map[down][t] \ {None}) \cup {i}
  BY <1>1, <1>3, <1>4
<1>6. DTypes'
  BY <1>1, <1>2, <1>5 DEF DInv, DTypes
<1>7. MapInv'
  BY <1>1, <1>5 DEF DInv, MapInv, NoMap
<1>8. /\ InCache(t)' /\ \A s \in Services : s # t => (InCache(s)' <=> InCache(s))
      /\ \A s \in Services : Whole(s)' <=> Whole(s)
      /\ Whole(t) => w.s = t /\ InCache(t)
  <2>1. InCache(t)' /\ \A s \in Services : s # t => (InCache(s)' <=> InCache(s))
    BY <1>1, <1>3, <1>4, <1>5, NamesAssumption DEF InCache, Cached
  <2>2. \A s \in Services : Whole(s)' <=> Whole(s)
    BY <1>1 DEF Whole
  <2>3. Whole(t) => w.s = t
    BY <1>1 DEF Whole, Matches
  <2>4. Whole(t) => InCache(w.s)
    BY DEF DInv, WatchInv, Whole
  <2> QED BY <2>1, <2>2, <2>3, <2>4
<1>9. WatchInv'
  <2>1. w.s \in Services /\ \A v \in watches : v.s \in Services
    BY DEF DInv, DTypes
  <2>2. ~wiped => \A v \in watches' : InCache(v.s)
    BY <1>2 DEF DInv, WatchInv
  <2>3. ~wiped' => \A v \in watches' : InCache(v.s)'
    BY <1>1, <1>2, <1>8, <2>2
  <2>4. \A s \in Services : InCache(s)' /\ Whole(s)' => \E v \in watches' : v.s = s
    BY <1>2, <1>8 DEF DInv, WatchInv
  <2>5. watches' # {} => down' # None
    BY <1>1, <1>4, NamesAssumption
  <2> QED BY <2>3, <2>4, <2>5 DEF WatchInv
<1>10. RegisteredIsCached'
  <2> SUFFICES ASSUME NEW s \in Services, InCache(s)', Whole(s), NEW j \in Servers, SvcOf[j] = s
               PROVE  Follows(s, j)'
    BY <1>8, FollowsDef DEF RegisteredIsCached, Follows
  <2>1. InCache(s) /\ Follows(s, j)
    BY <1>8, FollowsDef DEF DInv
  <2>2. j # i => (j \in map'[down][s] <=> j \in map[down][s])
    BY <1>5, NamesAssumption
  <2>3. Coming(s, j) => Coming(s, j)' \/ j = i
    BY <1>2, <1>3
  <2>5. CASE j # i
    BY <1>1, <2>1, <2>2, <2>3, <2>5 DEF Follows
  <2>6. CASE j = i
    <3>1. s = t /\ i \in map'[down][s]
      BY <1>5, <1>8, <2>6
    <3> QED BY <1>1, <2>6, <3>1 DEF Follows
  <2> QED BY <2>5, <2>6
<1> QED BY <1>6, <1>7, <1>9, <1>10 DEF DInv

\* GetService reads etcd, stores the map it had in hand and starts a watch from
\* the revision of what it read.
LEMMA D_Fetch == ASSUME DInv, NEW g \in Dialers, Fetch(g) PROVE DInv'
<1>1. CASE UNCHANGED <<map, down, wiped, watches, dial>>
  <2>1. UNCHANGED <<keys, log, Client>>
    BY <1>1 DEF Fetch, etcd, Client
  <2> QED BY <1>1, <2>1, D_Quiet DEF DInv, DTypes
<1>2. CASE ~UNCHANGED <<map, down, wiped, watches, dial>>
  <2>0. PICK m, t, found : m = dial[g].m /\ t = Want[g] /\ found = {i \in keys : Matches(Want[g], i)}
    OBVIOUS
  <2>1. /\ map' = [map EXCEPT ![m][t] = found] /\ down' = m
        /\ wiped' = (wiped \/ (down # None /\ down # m))
        /\ watches' = watches \cup {[s |-> t, at |-> Len(log) + 1]}
        /\ Pc(g, After(dial[g].pc))
        /\ UNCHANGED <<keys, log, load>>
        /\ dial[g].pc \in {"fetch", "refetch"}
    BY <1>2, <2>0 DEF Fetch, Stored, Revision, etcd
  <2>2. /\ m \in Dialers /\ m # None /\ t \in Services /\ found \subseteq keys /\ keys \subseteq Servers /\ found # {None}
        /\ log \in Seq(Events) /\ Len(log) \in Nat
        /\ \A i \in keys : SvcOf[i] = t => i \in found
    <3>1. keys \subseteq Servers /\ log \in Seq(Events) /\ m \in Dialers
      BY <2>0, <2>1 DEF DInv, DTypes
    <3>2. t \in Services /\ found \subseteq keys /\ \A i \in keys : SvcOf[i] = t => i \in found
      BY <2>0 DEF Services, Matches
    <3> QED BY <3>1, <3>2, NamesAssumption
  <2>3. map \in [Dialers -> [Services -> SUBSET (Servers \cup {None})]] /\ dial \in [Dialers -> DialStates]
    BY DEF DInv, DTypes
  <2>4. /\ map' \in [Dialers -> [Services -> SUBSET (Servers \cup {None})]]
        /\ \A h \in Dialers : h # m => map'[h] = map[h]
        /\ \A s \in Services : s # t => map'[m][s] = map[m][s]
        /\ map'[m][t] = found
    BY <2>1, <2>2, <2>3
  <2>5. DTypes'
    <3> DEFINE r == After(dial[g].pc)
               x == [s |-> t, at |-> Len(log) + 1]
    <3>1. r \in DialPCs /\ r \notin {"fetch", "refetch"}
      BY DEF DialPCs, After
    <3>2. x \in [s : Services, at : Nat] /\ x.at = Len(log) + 1
      BY <2>2
    <3> HIDE DEF r, x
    <3>3. dial' = [dial EXCEPT ![g].pc = r] /\ watches' = watches \cup {x}
      BY <2>1 DEF r, x, Pc
    <3>4. /\ dial' \in [Dialers -> DialStates]
          /\ \A h \in Dialers : dial'[h].pc \in {"fetch", "refetch"} => dial'[h].m \in Dialers
      BY <2>3, <3>1, <3>3 DEF DInv, DTypes, DialStates
    <3>5. watches' \subseteq [s : Services, at : Nat] /\ \A w \in watches' : w.at \in 1..Len(log) + 1
      BY <2>2, <3>2, <3>3 DEF DInv, DTypes
    <3> QED BY <2>1, <2>2, <2>4, <3>4, <3>5 DEF DInv, DTypes
  <2>7. ~wiped' => ~wiped /\ (down = m \/ (down = None /\ map[m] = NoMap))
    BY <2>1, <2>2 DEF DInv, MapInv
  <2>8. MapInv'
    <3> SUFFICES ASSUME ~wiped', NEW h \in Dialers, h # m PROVE map'[h] = NoMap
      BY <2>1 DEF MapInv, NoMap
    <3>1. ~wiped /\ h # down
      BY <2>7, NamesAssumption
    <3> QED BY <2>4, <3>1 DEF DInv, MapInv
  <2>9. /\ InCache(t)'
        /\ ~wiped' => \A s \in Services : s # t => (InCache(s)' <=> InCache(s))
        /\ \A s \in Services : Whole(s)' => Whole(s)
    <3>1. InCache(t)'
      BY <2>1, <2>2, <2>4 DEF InCache, Cached
    <3>2. ASSUME ~wiped', NEW s \in Services, s # t PROVE InCache(s)' <=> InCache(s)
      BY <2>1, <2>2, <2>4, <2>7, <3>2 DEF InCache, Cached, NoMap
    <3>3. \A s \in Services : Whole(s)' => Whole(s)
      BY <2>1 DEF Whole
    <3> QED BY <3>1, <3>2, <3>3
  <2>10. WatchInv'
    <3>1. \E w \in watches' : w.s = t
      <4> DEFINE x == [s |-> t, at |-> Len(log) + 1]
      <4>1. x.s = t /\ x \in watches'
        BY <2>1
      <4> QED BY <4>1
    <3>2. \A w \in watches' : w.s = t \/ w \in watches
      BY <2>1
    <3>3. ~wiped' => \A w \in watches' : InCache(w.s)'
      BY <2>7, <2>9, <3>2 DEF DInv, WatchInv, DTypes
    <3>4. \A s \in Services : InCache(s)' /\ Whole(s)' => \E w \in watches' : w.s = s
      <4> SUFFICES ASSUME NEW s \in Services, InCache(s)', Whole(s)', s # t
                   PROVE  \E w \in watches' : w.s = s
        BY <3>1
      <4>1. InCache(s) /\ Whole(s)
        BY <2>9 DEF Whole
      <4> QED BY <2>1, <4>1 DEF DInv, WatchInv
    <3> QED BY <2>1, <2>2, <3>3, <3>4 DEF WatchInv
  <2>11. RegisteredIsCached'
    <3> SUFFICES ASSUME NEW s \in Services, InCache(s)', Whole(s)', NEW j \in Servers, SvcOf[j] = s
                 PROVE  Follows(s, j)'
      BY FollowsDef DEF RegisteredIsCached, Follows
    <3>1. CASE s = t
      BY <2>1, <2>2, <2>4, <3>1 DEF Follows
    <3>2. CASE s # t
      <4>1. InCache(s) /\ Whole(s) /\ ~wiped'
        BY <2>9, <3>2 DEF Whole
      <4>2. Follows(s, j) /\ down = m
        BY <2>7, <4>1, FollowsDef DEF DInv, InCache
      <4>3. Coming(s, j) => Coming(s, j)'
        BY <2>1 DEF Coming
      <4> QED BY <2>1, <2>4, <3>2, <4>2, <4>3 DEF Follows
    <3> QED BY <3>1, <3>2
  <2> QED BY <2>5, <2>8, <2>10, <2>11 DEF DInv
<1> QED BY <1>1, <1>2

LEMMA DInvInit == Init => DInv
<1> SUFFICES ASSUME Init PROVE DInv
  OBVIOUS
<1>1. NoMap \in [Services -> SUBSET (Servers \cup {None})] /\ [pc |-> "build", m |-> None] \in DialStates
  BY DEF NoMap, DialStates, DialPCs
<1>2. DTypes
  BY <1>1 DEF Init, DTypes
<1>3. MapInv
  BY DEF Init, MapInv
<1>4. WatchInv /\ RegisteredIsCached
  BY DEF Init, WatchInv, RegisteredIsCached, InCache
<1> QED BY <1>2, <1>3, <1>4 DEF DInv

LEMMA DInvStep == DInv /\ [Next]_vars => DInv'
<1> SUFFICES ASSUME DInv, [Next]_vars PROVE DInv'
  OBVIOUS
<1>1. CASE UNCHANGED vars
  <2>1. UNCHANGED <<keys, log, dial, Client>>
    BY <1>1 DEF vars, etcd, cliVars, Client
  <2> QED BY <2>1, D_Quiet DEF DInv, DTypes
<1>2. ASSUME NEW g \in Dialers, Dialing(g) PROVE DInv'
  BY <1>2, D_Dialer, D_Fetch DEF Dialing
<1>3. CASE Watching
  BY <1>3, D_WatchPut, D_WatchSkip DEF Watching
<1> QED BY <1>1, <1>2, <1>3, D_Server DEF Next

\* An endpoint that is registered is cached or on its way to the cache, whatever
\* the servers, the leases and the failures: GetService starts its watch where
\* its read ended, so that no put falls between the two.
THEOREM NoPutIsMissed == Spec => []RegisteredIsCached
<1>1. DInv => RegisteredIsCached
  BY DEF DInv
<1> QED BY <1>1, DInvInit, DInvStep, PTL DEF Spec
=============================================================================
