---------------------------- MODULE UserStorage ----------------------------
(***************************************************************************)
(* The storage of the user domain service (domain/user/storage): RPC       *)
(* handlers query, create and update users concurrently, over a database   *)
(* reached through gorm and a cache manager (common/cache/manager.go).     *)
(*                                                                         *)
(* A row has one column per part of the DTO, 0 is Go's zero value, and a   *)
(* DTO leaves out a part by NoPart.  The database (external) executes one  *)
(* statement atomically, keeps the rows an open transaction has updated    *)
(* locked until it ends, lets other requests read the committed rows, and  *)
(* breaks a deadlock by failing a statement.  Any statement may fail.      *)
(***************************************************************************)
EXTENDS Integers, Sequences, FiniteSets, SequencesExt

CONSTANTS
  Users,      \* user IDs
  Requests,   \* RPCs, each handled by a goroutine of its own
  Loads       \* what the requests are: see Init

\* Requests name users.
ASSUME LoadsAssumption == \A l \in Loads, r \in Requests : ToSet(l.req[r].users) \subseteq Users

Parts == {"Setting", "Information"}   \* columns; the DTO's Pprofile behaves alike
NoPart == -1
NoUser == [p \in Parts |-> NoPart]    \* no row of that user

VARIABLES
  load,      \* fixed by Init: of every request its kind, the users it names in order and
             \* the DTO of each; and how many statements may fail
  rows,      \* committed rows in the order of their insertion: user and columns
  tx,        \* rows updated by the open transaction of every request, "none" if it has none
  pc, at,    \* of every request: its step, and how many users it has updated
  res,       \* what a query has found so far
  result,    \* what the RPC returned: none, ok, err
  mset,      \* history: what MSet was given and MDel has not taken back
  faults,    \* history: requests that met a failing statement
  applied,   \* history: updates whose transaction was committed
  since      \* history: values of a user committed since a query began

db == <<rows, tx>>
vars == <<load, db, pc, at, res, result, mset, faults, applied, since>>

Kind(r) == load.req[r].kind
Named(r) == load.req[r].users
Dto(r, u) == load.req[r].dto[u]
Goto(r, label) == pc' = [pc EXCEPT ![r] = label]
Return(r, v) == Goto(r, "done") /\ result' = [result EXCEPT ![r] = v]
Fault(r) == Cardinality(faults \cup {r}) <= load.faults /\ faults' = faults \cup {r}

-----------------------------------------------------------------------------
(* Conversions and cache.                                                   *)

\* A part that the DTO leaves out becomes the zero value.
convertUserDTOToDAO(dto) == [p \in Parts |-> IF dto[p] = NoPart THEN 0 ELSE dto[p]]

\* Updates(user) with a struct: zero values do not change a column.
Updates(row, dao) ==
  [row EXCEPT !.cols = [p \in Parts |-> IF dao[p] = 0 THEN @[p] ELSE dao[p]]]

\* The last row of the user wins, as in the loop over the rows found.
Value(rs, u) ==
  LET of == {i \in 1..Len(rs) : rs[i].u = u}
  IN IF of = {} THEN NoUser ELSE rs[CHOOSE i \in of : \A j \in of : j <= i].cols

\* MGet returns nil: every key is a miss, whatever MSet was given.
MGet_Stored(r) == {u \in ToSet(Named(r)) : mset[u] # NoUser}
MGet(r) == {}

\* Committed values change to those of rs.
See(rs) ==
  since' = [r \in Requests |-> [u \in Users |->
              IF pc[r] \in {"find", "mset"} THEN since[r][u] \cup {Value(rs, u)} ELSE since[r][u]]]

-----------------------------------------------------------------------------
(* QueryUsers.                                                              *)

QueryCache(r) ==
  /\ Kind(r) = "query" /\ pc[r] = "start"
  /\ since' = [since EXCEPT ![r] = [u \in Users |-> {Value(rows, u)}]]
  /\ res' = [res EXCEPT ![r] = [u \in Users |-> IF u \in MGet(r) THEN mset[u] ELSE NoUser]]
  /\ IF ToSet(Named(r)) \subseteq MGet(r) THEN Return(r, "ok")
     ELSE Goto(r, "find") /\ UNCHANGED result
  /\ UNCHANGED <<load, db, at, mset, faults, applied>>

\* One SELECT for all the misses.  Its error is not looked at: no user is found.
Find(r) ==
  /\ pc[r] = "find"
  /\ Goto(r, "mset")
  /\ \/ /\ res' = [res EXCEPT ![r] = [u \in Users |->
                     IF u \in ToSet(Named(r)) \ MGet(r) THEN Value(rows, u) ELSE @[u]]]
        /\ UNCHANGED faults
     \/ Fault(r) /\ UNCHANGED res
  /\ UNCHANGED <<load, db, at, result, mset, applied, since>>

\* MSet and the domain event, then the response.
QuerySet(r) ==
  /\ pc[r] = "mset"
  /\ mset' = [u \in Users |-> IF u \in ToSet(Named(r)) /\ res[r][u] # NoUser THEN res[r][u] ELSE mset[u]]
  /\ Return(r, "ok")
  /\ UNCHANGED <<load, db, at, res, faults, applied, since>>

-----------------------------------------------------------------------------
(* CreateUsers and UpdateUsers.                                             *)

\* db.Create: one statement for all users, an error for none; nothing keeps a user from
\* having two rows.
Create(r) ==
  /\ Kind(r) = "create" /\ pc[r] = "start"
  /\ \/ /\ Named(r) # <<>>
        /\ rows' = rows \o [i \in DOMAIN Named(r) |->
                      [u |-> Named(r)[i], cols |-> convertUserDTOToDAO(Dto(r, Named(r)[i]))]]
        /\ Goto(r, "mdel")
        /\ See(rows')
        /\ UNCHANGED <<result, faults>>
     \/ /\ Fault(r) \/ (Named(r) = <<>> /\ UNCHANGED faults)
        /\ Return(r, "err") /\ UNCHANGED <<rows, since>>
  /\ UNCHANGED <<load, tx, at, res, mset, applied>>

\* db.Begin.  When it fails, the first statement of the transaction does, too, if any.
Begin(r) ==
  /\ Kind(r) = "update" /\ pc[r] = "start"
  /\ \/ /\ tx' = [tx EXCEPT ![r] = [on |-> TRUE, w |-> <<>>]]
        /\ Goto(r, "update") /\ UNCHANGED faults
     \/ Fault(r) /\ Goto(r, IF Named(r) = <<>> THEN "mdel" ELSE "rollback") /\ UNCHANGED tx
  /\ UNCHANGED <<load, rows, at, res, result, mset, applied, since>>

RowsOf(u) == {i \in 1..Len(rows) : rows[i].u = u}
Holds(q, i) == tx[q].on /\ \E k \in 1..Len(tx[q].w) : i \in tx[q].w[k].rows
\* The requests whose locks the next UPDATE of r waits for.
WaitsFor(r) ==
  IF pc[r] # "update" \/ at[r] = Len(Named(r)) THEN {}
  ELSE {q \in Requests \ {r} : \E i \in RowsOf(Named(r)[at[r] + 1]) : Holds(q, i)}

\* One UPDATE of the loop; an error, also that of a deadlock, ends it.
UpdateRow(r) ==
  /\ pc[r] = "update" /\ at[r] < Len(Named(r))
  /\ LET u == Named(r)[at[r] + 1] IN
       \/ /\ WaitsFor(r) = {}
          /\ tx' = [tx EXCEPT ![r].w = Append(@, [rows |-> RowsOf(u), dao |-> convertUserDTOToDAO(Dto(r, u))])]
          /\ at' = [at EXCEPT ![r] = @ + 1]
          /\ UNCHANGED <<pc, faults>>
       \/ Fault(r) /\ Goto(r, "rollback") /\ UNCHANGED <<tx, at>>
  /\ UNCHANGED <<load, rows, res, result, mset, applied, since>>

DeadlockFound(r) ==
  /\ \E q \in WaitsFor(r) : r \in WaitsFor(q)
  /\ Goto(r, "rollback")
  /\ UNCHANGED <<load, db, at, res, result, mset, faults, applied, since>>

Written(r) ==
  FoldLeft(LAMBDA rs, w : [i \in 1..Len(rs) |-> IF i \in w.rows THEN Updates(rs[i], w.dao) ELSE rs[i]],
           rows, tx[r].w)
Ended(r) == [tx EXCEPT ![r] = [on |-> FALSE, w |-> <<>>]]

\* tx.Rollback; the deferred Commit of an ended transaction does nothing.
Rollback_Commits(r) ==
  /\ pc[r] = "rollback"
  /\ rows' = Written(r) /\ tx' = Ended(r)
  /\ applied' = applied \cup {r}
  /\ See(rows')
  /\ Return(r, "err")
  /\ UNCHANGED <<load, at, res, mset, faults>>
Rollback_Leaves(r) ==
  /\ pc[r] = "rollback"
  /\ Return(r, "err")
  /\ UNCHANGED <<load, db, at, res, mset, faults, applied, since>>
Rollback(r) ==
  /\ pc[r] = "rollback"
  /\ tx' = Ended(r)
  /\ Return(r, "err")
  /\ UNCHANGED <<load, rows, at, res, mset, faults, applied, since>>

\* The deferred tx.Commit; its error is dropped.
Commit_BeforeLast(r) ==
  /\ pc[r] = "update" /\ at[r] + 1 >= Len(Named(r))
  /\ rows' = Written(r) /\ tx' = Ended(r) /\ See(rows') /\ Goto(r, "mdel")
  /\ applied' = IF at[r] = Len(Named(r)) THEN applied \cup {r} ELSE applied
  /\ UNCHANGED <<load, at, res, result, mset, faults>>
Commit(r) ==
  /\ pc[r] = "update" /\ at[r] = Len(Named(r))
  /\ \/ rows' = Written(r) /\ applied' = applied \cup {r} /\ See(rows') /\ UNCHANGED faults
     \/ Fault(r) /\ UNCHANGED <<rows, applied, since>>
  /\ tx' = Ended(r)
  /\ Goto(r, "mdel")
  /\ UNCHANGED <<load, at, res, result, mset>>

\* MDel, an empty body as MSet's, and of a creation the domain event.
DelCache(r) ==
  /\ pc[r] = "mdel"
  /\ mset' = [u \in Users |-> IF u \in ToSet(Named(r)) THEN NoUser ELSE mset[u]]
  /\ Return(r, "ok")
  /\ UNCHANGED <<load, db, at, res, faults, applied, since>>

-----------------------------------------------------------------------------

Init ==
  /\ load \in Loads
  /\ rows = <<>>
  /\ tx = [r \in Requests |-> [on |-> FALSE, w |-> <<>>]]
  /\ pc = [r \in Requests |-> "start"]
  /\ at = [r \in Requests |-> 0]
  /\ res = [r \in Requests |-> [u \in Users |-> NoUser]]
  /\ result = [r \in Requests |-> "none"]
  /\ mset = [u \in Users |-> NoUser]
  /\ faults = {} /\ applied = {}
  /\ since = [r \in Requests |-> [u \in Users |-> {}]]

Handling(r) == \/ QueryCache(r) \/ Find(r) \/ QuerySet(r) \/ Create(r) \/ Begin(r)
               \/ UpdateRow(r) \/ DeadlockFound(r) \/ Rollback(r) \/ Commit(r) \/ DelCache(r)
Next == \E r \in Requests : Handling(r)

Spec == Init /\ [][Next]_vars

\* Every handler's goroutine runs, and the database answers.
FairSpec == Spec /\ \A r \in Requests : WF_vars(Handling(r))

-----------------------------------------------------------------------------
(* Correctness.                                                             *)

Columns == [Parts -> 0..3]
Steps == {"start", "find", "mset", "update", "rollback", "mdel", "done"}

\* The variables have their types; a column is never null and a row names a user.
TypeOK ==
  /\ \A i \in 1..Len(rows) : rows[i].u \in Users /\ rows[i].cols \in Columns
  /\ pc \in [Requests -> Steps]
  /\ at \in [Requests -> 0..Cardinality(Users)]
  /\ res \in [Requests -> [Users -> Columns \cup {NoUser}]]
  /\ \A r \in Requests : tx[r].on => Kind(r) = "update" /\ pc[r] \in {"update", "rollback"}

\* A query returns for every user it names a value the database held at some moment
\* between the beginning and the end of the query, however updates race it; only a
\* failed SELECT, whose error QueryUsers drops, makes users disappear.
ReadsAreFresh ==
  \A r \in Requests : Kind(r) = "query" /\ result[r] = "ok" /\ r \notin faults =>
    \A u \in ToSet(Named(r)) : res[r][u] \in since[r][u]

\* An UpdateUsers that returned an error changed no row of any of its users, although
\* its Commit is deferred and runs on every path.
ErrorChangesNothing == \A r \in Requests : result[r] = "err" => r \notin applied

\* An UpdateUsers that returned no error was committed as a whole; only a failed Commit,
\* whose error batchUpdateUsers drops, may break this.
OkIsCommitted ==
  \A r \in Requests : Kind(r) = "update" /\ result[r] = "ok" /\ r \notin faults => r \in applied

\* Every request is answered: no transaction keeps its locks, also when two updates
\* name the same users in opposite orders.
RequestsEnd == \A r \in Requests : <>(pc[r] = "done")

=============================================================================
