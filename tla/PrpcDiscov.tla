---------------------------- MODULE PrpcDiscov ----------------------------
(***************************************************************************)
(* Service discovery of PRPC on etcd: a server process (prpc/server.go)    *)
(* registers its endpoint through the run goroutine of its Register        *)
(* (prpc/discov/etcd), a client process dials services through the         *)
(* resolver (prpc/resolver), which caches endpoints and follows etcd with  *)
(* a watch.                                                                *)
(*                                                                         *)
(* A server has one endpoint, named like it.  The client dials the         *)
(* services of Dialers concurrently on one Discovery.  etcd is external: a *)
(* set of keys and the log of its events; a revision is a position in the  *)
(* log, leases may expire, calls may fail.                                 *)
(***************************************************************************)
EXTENDS Integers, Sequences, FiniteSets

CONSTANTS Servers, SvcOf,   \* servers; the service of each
          Dialers, Want,    \* goroutines that dial; the service each wants
          Loads             \* what happens, see load
Services == {SvcOf[i] : i \in Servers} \cup {Want[g] : g \in Dialers}
None == "none"
ASSUME NamesAssumption ==
  DOMAIN SvcOf = Servers /\ DOMAIN Want = Dialers /\ None \notin Servers \cup Dialers
ASSUME LoadsAssumption == 
  Loads \subseteq [starts : [Servers -> Nat], stops : SUBSET Servers,
                   dialers : SUBSET Dialers, faults : Nat, nested : SUBSET (Services \X Services)]

VARIABLES
  load,          \* fixed by Init: starts of every server, servers that are stopped, dialers
                 \* at work, servers whose calls to etcd fail or whose lease is lost (how many), and
                 \* nested: <<s, t>> where the name of t is that of s and more
  srv, starts,   \* the goroutine in Start: off, serve, unregister, sleep; starts to come
  entry,         \* registerServices[name]: none, new (isRegistered false), registered
  alive,         \* keepAliveCh: nil, open, closed
  spin,          \* the run goroutine is in KeepAlive for ever
  keys, log,     \* etcd: the endpoints present; events <<"put" or "del", i>>
  map, down,     \* maps the client has made, by the goroutine that made it; the one in downServices
  dial,          \* dialers: step, map in hand
  seen,          \* the endpoints a listener is about to tell
  listeners,     \* r.listeners
  copy,          \* the slice an AddListener has read, see AddListener
  addrs,         \* what the client connection of a dialer was told last
  watches,       \* watch goroutines: service, next position of the log
  dead,          \* the client process died, or the mutex is held for ever
  faults,        \* history: servers for which a call to etcd failed
  wiped,         \* history: a map was replaced by an emptier one
  lost           \* history: dialers whose listener was overwritten, or whose newest
                 \* endpoints were, by older ones

srvVars == <<srv, starts, entry, alive, spin, faults>>
etcd == <<load, keys, log>>
cliVars == <<map, down, dial, seen, listeners, copy, addrs, watches, dead, wiped, lost>>
vars == <<srvVars, etcd, cliVars>>

Matches(s, i) == SvcOf[i] = s \/ <<s, SvcOf[i]>> \in load.nested  \* clientv3.WithPrefix
Put(i) == UNCHANGED load /\ keys' = keys \cup {i} /\ log' = Append(log, <<"put", i>>)
Delete(i) ==
  /\ UNCHANGED load
  /\ keys' = keys \ {i}
  /\ log' = IF i \in keys THEN Append(log, <<"del", i>>) ELSE log
Fault(i) == Cardinality(faults \cup {i}) <= load.faults /\ faults' = faults \cup {i}

-----------------------------------------------------------------------------
(* Servers.                                                                 *)

\* Start up to Register, whose send meets the select of run.
Register(i) ==
  /\ srv[i] = "off" /\ starts[i] > 0
  /\ srv' = [srv EXCEPT ![i] = "serve"]
  /\ starts' = [starts EXCEPT ![i] = @ - 1]
  /\ entry' = [entry EXCEPT ![i] = "new"]
  /\ UNCHANGED <<alive, spin, faults, etcd, cliVars>>

\* registerServiceOrKeepAlive with a service to register.  Whatever fails in
\* registerService, the caller marks the service registered.
registerService(i) ==
  /\ srv[i] \in {"serve", "unregister"} /\ entry[i] = "new"
  /\ \/ Put(i) /\ alive' = [alive EXCEPT ![i] = "open"] /\ UNCHANGED faults
     \/ Put(i) /\ Fault(i) /\ UNCHANGED alive                               \* KeepAlive fails
     \/ Fault(i) /\ alive' = [alive EXCEPT ![i] = "open"] /\ UNCHANGED etcd  \* Put fails
     \/ Fault(i) /\ UNCHANGED <<etcd, alive>>                               \* Grant fails
  /\ entry' = [entry EXCEPT ![i] = "registered"]
  /\ UNCHANGED <<srv, starts, spin, cliVars>>

\* KeepAlive drains the channel until it would block; a closed one never does.
KeepAlive_Blocks(i) ==
  /\ srv[i] \in {"serve", "unregister"} /\ entry[i] = "registered" /\ ~spin[i]
  /\ spin' = [spin EXCEPT ![i] = TRUE]
  /\ UNCHANGED <<srv, starts, entry, alive, faults, etcd, cliVars>>
KeepAlive(i) ==
  /\ srv[i] \in {"serve", "unregister"} /\ entry[i] = "registered"
  /\ alive[i] = "closed" /\ ~spin[i]
  /\ spin' = [spin EXCEPT ![i] = TRUE]
  /\ UNCHANGED <<srv, starts, entry, alive, faults, etcd, cliVars>>

\* SIGTERM: s.Stop, then UnRegister.
Signal(i) ==
  /\ srv[i] = "serve" /\ i \in load.stops
  /\ srv' = [srv EXCEPT ![i] = "unregister"]
  /\ UNCHANGED <<starts, entry, alive, spin, faults, etcd, cliVars>>

\* UnRegister's send meets the select of run: unRegisterService.  The entry is
\* dropped whether or not the Delete succeeds.
unRegisterService(i) ==
  /\ srv[i] = "unregister" /\ ~spin[i]
  /\ \/ Delete(i) /\ UNCHANGED faults
     \/ Fault(i) /\ UNCHANGED etcd
  /\ entry' = [entry EXCEPT ![i] = "none"]
  /\ srv' = [srv EXCEPT ![i] = "sleep"]
  /\ UNCHANGED <<starts, alive, spin, cliVars>>

\* Start returns, or the process is killed.
Off(i) ==
  /\ srv' = [srv EXCEPT ![i] = "off"]
  /\ entry' = [entry EXCEPT ![i] = "none"]
  /\ alive' = [alive EXCEPT ![i] = "nil"]
  /\ spin' = [spin EXCEPT ![i] = FALSE]
  /\ UNCHANGED <<starts, faults, etcd, cliVars>>
Exit(i) == srv[i] = "sleep" /\ Off(i)
Kill(i) == i \in load.stops /\ srv[i] \in {"serve", "unregister"} /\ Off(i)

\* etcd drops the keys of a lease nobody has kept alive for its TTL.  A process
\* without a keepAliveCh does not notice, nor one whose own Put has failed and
\* whose key is of an earlier lease; one that lost its lease finds the channel
\* closed.
LeaseExpires(i) ==
  /\ i \in keys
  /\ Delete(i)
  /\ \/ /\ alive[i] # "open" \/ i \in faults
        /\ UNCHANGED <<alive, faults>>
     \/ /\ alive[i] = "open" /\ Fault(i)
        /\ alive' = [alive EXCEPT ![i] = "closed"]
  /\ UNCHANGED <<srv, starts, entry, spin, cliVars>>

-----------------------------------------------------------------------------
(* The client: GetService, the listeners and the watch.                     *)

Cached(m, s) == map[m][s] # {None}
InCache(s) == down # None /\ Cached(down, s)
NoMap == [s \in Services |-> {None}]
Pc(g, pc) == dial' = [dial EXCEPT ![g].pc = pc]

\* GetService up to its mutex, called by Build first and by its listener then.
After(pc) == IF pc \in {"build", "fetch"} THEN "listen" ELSE "read"  \* behind GetService
GetService(g) ==
  /\ ~dead
  /\ g \in load.dialers /\ dial[g].pc \in {"build", "tell"}
  /\ \/ /\ InCache(Want[g])
        /\ dial' = [dial EXCEPT ![g] = [pc |-> After(@.pc), m |-> down]]
     \/ /\ ~InCache(Want[g])
        /\ dial' = [dial EXCEPT ![g] = [pc |-> IF @.pc = "build" THEN "fetch" ELSE "refetch",
                                        m |-> IF down = None THEN g ELSE down]]
  /\ UNCHANGED <<srvVars, etcd, map, down, seen, listeners, copy, addrs, watches, dead, wiped, lost>>

\* The rest of it, under the mutex: the map read before the lock is the one
\* stored.  A failed Get is dereferenced.
Revision_Skips == Len(log) + 2
Revision == Len(log) + 1
Stored(m) == m
Fetch(g) ==
  /\ ~dead
  /\ dial[g].pc \in {"fetch", "refetch"}
  /\ \/ LET m == dial[g].m
            found == {i \in keys : Matches(Want[g], i)}
        IN
        /\ map' = [map EXCEPT ![m][Want[g]] = found]
        /\ down' = Stored(m)
        /\ wiped' = (wiped \/ (down # None /\ down # m))
        /\ watches' = watches \cup {[s |-> Want[g], at |-> Revision]}
        /\ Pc(g, After(dial[g].pc))
        /\ UNCHANGED dead
     \/ dead' = TRUE /\ UNCHANGED <<map, down, wiped, watches, dial>>
  /\ UNCHANGED <<srvVars, etcd, seen, listeners, copy, addrs, lost>>

\* The listener that Build calls itself holds no mutex: between its reading of
\* service.Endpoints and its UpdateState a watch may tell a newer list.
ReadEndpoints(g) ==
  /\ ~dead
  /\ dial[g].pc = "read" /\ Pc(g, "update")
  /\ seen' = [seen EXCEPT ![g] = map[dial[g].m][Want[g]]]
  /\ UNCHANGED <<srvVars, etcd, map, down, listeners, copy, addrs, watches, dead, wiped, lost>>
UpdateState(g) ==
  /\ ~dead
  /\ dial[g].pc = "update" /\ Pc(g, "ready")
  /\ addrs' = [addrs EXCEPT ![g] = seen[g]]
  /\ lost' = IF addrs[g] \subseteq seen[g] THEN lost ELSE lost \cup {g}
  /\ seen' = [seen EXCEPT ![g] = {}]
  /\ UNCHANGED <<srvVars, etcd, map, down, listeners, copy, watches, dead, wiped>>

\* AddListener appends to a slice no lock protects.
AddListenerRead(g) ==
  /\ ~dead
  /\ dial[g].pc = "listen" /\ Pc(g, "append")
  /\ copy' = [copy EXCEPT ![g] = listeners]
  /\ UNCHANGED <<srvVars, etcd, map, down, seen, listeners, addrs, watches, dead, wiped, lost>>
AddListenerWrite(g) ==
  /\ ~dead
  /\ dial[g].pc = "append" /\ Pc(g, "tell")
  /\ listeners' = copy[g] \cup {g}
  /\ copy' = [copy EXCEPT ![g] = {}]
  /\ lost' = lost \cup (listeners \ copy[g])
  /\ UNCHANGED <<srvVars, etcd, map, down, seen, addrs, watches, dead, wiped>>

\* NotifyListeners, with the mutex held: a listener whose service is not in the
\* cache waits in GetService for the mutex its caller holds.
NotifyListeners_None(nmap) == UNCHANGED <<addrs, dead, lost>>
NotifyListeners(nmap) ==
  \/ /\ \A g \in listeners : nmap[down][Want[g]] # {None}
     /\ addrs' = [g \in Dialers |-> IF g \in listeners THEN nmap[down][Want[g]] ELSE addrs[g]]
     /\ lost' = lost \ listeners
     /\ UNCHANGED dead
  \/ /\ \E g \in listeners : nmap[down][Want[g]] = {None}
     /\ dead' = TRUE /\ UNCHANGED <<addrs, lost>>

\* watch and updateDownService: an endpoint is added to the service its key
\* names.  A service not in the cache appears there with that endpoint only.
WatchPut(w) ==
  /\ ~dead
  /\ w.at <= Len(log) /\ log[w.at][1] = "put" /\ Matches(w.s, log[w.at][2])
  /\ LET i == log[w.at][2]
         s == SvcOf[i]
         nmap == [map EXCEPT ![down][s] = (@ \ {None}) \cup {i}]
     IN
     /\ map' = nmap
     /\ IF Cached(down, s) THEN NotifyListeners(nmap) ELSE UNCHANGED <<addrs, dead, lost>>
  /\ watches' = (watches \ {w}) \cup {[w EXCEPT !.at = @ + 1]}
  /\ UNCHANGED <<srvVars, etcd, down, dial, seen, listeners, copy, wiped>>

\* The value of a DELETE event is empty and does not parse: delDownService is
\* not reached, and the endpoint stays in the cache for ever.
WatchSkip(w) ==
  /\ ~dead
  /\ w.at <= Len(log)
  /\ log[w.at][1] = "del" \/ ~Matches(w.s, log[w.at][2])
  /\ watches' = (watches \ {w}) \cup {[w EXCEPT !.at = @ + 1]}
  /\ UNCHANGED <<srvVars, etcd, map, down, dial, seen, listeners, copy, addrs, dead, wiped, lost>>

-----------------------------------------------------------------------------
Init ==
  /\ load \in Loads
  /\ srv = [i \in Servers |-> "off"] /\ starts = load.starts
  /\ entry = [i \in Servers |-> "none"] /\ alive = [i \in Servers |-> "nil"]
  /\ spin = [i \in Servers |-> FALSE] /\ faults = {}
  /\ keys = {} /\ log = <<>>
  /\ map = [g \in Dialers |-> NoMap] /\ down = None
  /\ dial = [g \in Dialers |-> [pc |-> "build", m |-> None]]
  /\ listeners = {} /\ copy = [g \in Dialers |-> {}] /\ addrs = [g \in Dialers |-> {}]
  /\ seen = [g \in Dialers |-> {}]
  /\ watches = {} /\ dead = FALSE /\ wiped = FALSE /\ lost = {}

Run(i) == registerService(i) \/ KeepAlive(i) \/ unRegisterService(i)
Dialing(g) ==
  GetService(g) \/ Fetch(g) \/ AddListenerRead(g) \/ AddListenerWrite(g) \/ ReadEndpoints(g) \/ UpdateState(g)
Watching == \E w \in watches : WatchPut(w) \/ WatchSkip(w)
Next ==
  \/ \E i \in Servers : Register(i) \/ Run(i) \/ Signal(i) \/ Exit(i) \/ Kill(i) \/ LeaseExpires(i)
  \/ \E g \in Dialers : Dialing(g)
  \/ Watching

Spec == Init /\ [][Next]_vars
\* Goroutines run and etcd delivers the events of a watch; nothing makes a
\* server start, stop or fail.
FairSpec ==
  /\ Spec /\ WF_vars(Watching)
  /\ \A i \in Servers : WF_vars(Run(i)) /\ WF_vars(Exit(i))
  /\ \A g \in Dialers : WF_vars(Dialing(g))

-----------------------------------------------------------------------------
\* The variables have their types: positions of watches stay in the log.
TypeOK ==
  /\ srv \in [Servers -> {"off", "serve", "unregister", "sleep"}]
  /\ entry \in [Servers -> {"none", "new", "registered"}] /\ alive \in [Servers -> {"nil", "open", "closed"}]
  /\ keys \subseteq Servers
  /\ \A g \in Dialers : \A s \in Services : Cached(g, s) => map[g][s] \subseteq Servers
  /\ down \in Dialers \cup {None} /\ \A g \in Dialers : addrs[g] \subseteq Servers
  /\ \A w \in watches : w.at \in 1..Len(log) + 1

\* The put of i is ahead of a watch of s.
Coming(s, i) == \E w \in watches : w.s = s /\ \E n \in w.at..Len(log) : log[n] = <<"put", i>>
Whole(s) == ~wiped /\ \A p \in load.nested : p[2] # s
\* No endpoint falls between the read of a service and its watch: one that is
\* registered is cached or its put is on its way.  A service whose name extends
\* another's, and a client whose first map was replaced, are exempt.  Nothing is
\* said of the reverse: an endpoint that is gone stays cached, see WatchSkip.
RegisteredIsCached ==
  \A s \in Services : InCache(s) /\ Whole(s) =>
    \A i \in Servers : i \in keys /\ SvcOf[i] = s => i \in map[down][s] \/ Coming(s, i)

\* A client connection learns of every endpoint registered for its service, but
\* one whose listener another Build overwrote, and one that was told an older
\* list after a newer one and nothing since.
EndpointsAreTold ==
  []<>(dead \/ \A g \in load.dialers \ lost : Whole(Want[g]) =>
         {i \in keys : SvcOf[i] = Want[g]} \subseteq addrs[g])

\* A server told to stop stops, unless its lease was lost.
ShutdownEnds == []<>(\A i \in Servers : srv[i] = "unregister" => alive[i] = "closed")
=============================================================================
