------------------------- MODULE UserStorageProofs -------------------------
(***************************************************************************)
(* What UserStorage promises for any users, requests and failures: answers *)
(* and errors say what happened to the database, and reads are fresh.      *)
(***************************************************************************)
EXTENDS UserStorage, TLAPS

\* Results and history variables are functions of the requests.
Shape ==
  /\ load \in Loads
  /\ pc \in [Requests -> Steps]
  /\ result \in [Requests -> {"none", "ok", "err"}]
  /\ DOMAIN res = Requests
  /\ \A r \in Requests : DOMAIN res[r] = Users
  /\ DOMAIN since = Requests
  /\ \A r \in Requests : DOMAIN since[r] = Users

\* A request answers once, at its end; only updates pass the steps of an update.
Answers ==
  \A r \in Requests :
    /\ result[r] # "none" => pc[r] = "done"
    /\ pc[r] \in {"find", "mset"} => Kind(r) = "query"
    /\ pc[r] \in {"update", "rollback"} => Kind(r) = "update"
    /\ Kind(r) = "query" => pc[r] \in {"start", "find", "mset", "done"}

\* The history of commits agrees with the steps of the requests.
Commits ==
  \A r \in Requests :
    /\ r \in applied => pc[r] \in {"mdel", "done"} /\ result[r] # "err"
    /\ Kind(r) = "update" /\ pc[r] = "mdel" /\ r \notin faults => r \in applied
    /\ Kind(r) = "update" /\ result[r] = "ok" /\ r \notin faults => r \in applied

\* While a query is under way the current value of every user counts as seen.
Current ==
  \A r \in Requests : pc[r] \in {"find", "mset"} => \A u \in Users : Value(rows, u) \in since[r][u]

\* What a query has found was seen.
Found ==
  \A r \in Requests : Kind(r) = "query" /\ r \notin faults /\ (pc[r] = "mset" \/ result[r] = "ok")
    => \A u \in ToSet(Named(r)) : res[r][u] \in since[r][u]

IInv == Shape /\ Answers /\ Commits /\ Current /\ Found

\* A request's steps: its pc moves, and it answers at most once.
LEMMA ShapeStep ==
  ASSUME Shape, NEW r \in Requests, Handling(r)
  PROVE  Shape'
<1> USE DEF Shape, Steps, Goto, Return
<1>1. CASE QueryCache(r) BY <1>1 DEF QueryCache
<1>2. CASE Find(r) BY <1>2 DEF Find
<1>3. CASE QuerySet(r) BY <1>3 DEF QuerySet
<1>4. CASE Create(r) BY <1>4 DEF Create, See
<1>5. CASE Begin(r) BY <1>5 DEF Begin
<1>6. CASE UpdateRow(r) BY <1>6 DEF UpdateRow
<1>7. CASE DeadlockFound(r) BY <1>7 DEF DeadlockFound
<1>8. CASE Rollback(r) BY <1>8 DEF Rollback
<1>9. CASE Commit(r) BY <1>9 DEF Commit, See
<1>10. CASE DelCache(r) BY <1>10 DEF DelCache
<1> QED BY <1>1, <1>2, <1>3, <1>4, <1>5, <1>6, <1>7, <1>8, <1>9, <1>10 DEF Handling

\* Kinds, users and DTOs of the requests never change.
LEMMA LoadStep ==
  ASSUME NEW r \in Requests, Handling(r)
  PROVE  load' = load
BY DEF Handling, QueryCache, Find, QuerySet, Create, Begin, UpdateRow, DeadlockFound, Rollback, Commit, DelCache

LEMMA AnswersStep ==
  ASSUME Shape, Answers, NEW r \in Requests, Handling(r)
  PROVE  Answers'
<1> USE DEF Shape, Steps, Answers, Goto, Return
<1>0. load' = load BY LoadStep
<1>a. \A q \in Requests : Kind(q)' = Kind(q) BY <1>0 DEF Kind
<1>1. CASE QueryCache(r) BY <1>a, <1>1 DEF QueryCache
<1>2. CASE Find(r) BY <1>a, <1>2 DEF Find
<1>3. CASE QuerySet(r) BY <1>a, <1>3 DEF QuerySet
<1>4. CASE Create(r) BY <1>a, <1>4 DEF Create
<1>5. CASE Begin(r) BY <1>a, <1>5 DEF Begin
<1>6. CASE UpdateRow(r)
  <2>1. /\ result' = result /\ pc[r] = "update"
        /\ pc' = pc \/ pc' = [pc EXCEPT ![r] = "rollback"]
    BY <1>6, Zenon DEF UpdateRow
  <2> QED BY <2>1, <1>a
<1>7. CASE DeadlockFound(r)
  <2>1. pc[r] = "update" BY <1>7 DEF DeadlockFound, WaitsFor
  <2> QED BY <1>a, <1>7, <2>1 DEF DeadlockFound
<1>8. CASE Rollback(r) BY <1>a, <1>8 DEF Rollback
<1>9. CASE Commit(r) BY <1>a, <1>9 DEF Commit
<1>10. CASE DelCache(r) BY <1>a, <1>10 DEF DelCache
<1> QED BY <1>1, <1>2, <1>3, <1>4, <1>5, <1>6, <1>7, <1>8, <1>9, <1>10 DEF Handling

LEMMA CommitsStep ==
  ASSUME Shape, Answers, Commits, NEW r \in Requests, Handling(r)
  PROVE  Commits'
<1> USE DEF Shape, Steps, Answers, Commits, Goto, Return, Fault
<1>0. load' = load BY LoadStep
<1>a. \A q \in Requests : Kind(q)' = Kind(q) BY <1>0 DEF Kind
<1>1. CASE QueryCache(r) BY <1>a, <1>1 DEF QueryCache
<1>2. CASE Find(r) BY <1>a, <1>2 DEF Find
<1>3. CASE QuerySet(r) BY <1>a, <1>3 DEF QuerySet
<1>4. CASE Create(r) BY <1>a, <1>4 DEF Create
<1>5. CASE Begin(r) BY <1>a, <1>5 DEF Begin
<1>6. CASE UpdateRow(r)
  <2>1. /\ result' = result /\ applied' = applied /\ pc[r] = "update"
        /\ \/ pc' = pc /\ faults' = faults
           \/ pc' = [pc EXCEPT ![r] = "rollback"] /\ faults' = faults \cup {r}
    BY <1>6, Zenon DEF UpdateRow
  <2> QED BY <2>1, <1>a
<1>7. CASE DeadlockFound(r)
  <2>1. pc[r] = "update" BY <1>7 DEF DeadlockFound, WaitsFor
  <2> QED BY <1>a, <1>7, <2>1 DEF DeadlockFound
<1>8. CASE Rollback(r) BY <1>a, <1>8 DEF Rollback
<1>9. CASE Commit(r) BY <1>a, <1>9 DEF Commit
<1>10. CASE DelCache(r) BY <1>a, <1>10 DEF DelCache
<1> QED BY <1>1, <1>2, <1>3, <1>4, <1>5, <1>6, <1>7, <1>8, <1>9, <1>10 DEF Handling

\* The history records every committed value of the users while a query runs.
LEMMA CurrentStep ==
  ASSUME Shape, Answers, Current, NEW r \in Requests, Handling(r)
  PROVE  Current'
<1> USE DEF Shape, Steps, Current, Goto, Return
<1>a. ASSUME rows' = rows, since' = since,
             \A q \in Requests : pc[q]' \in {"find", "mset"} => pc[q] \in {"find", "mset"}
      PROVE  Current'
  BY <1>a
<1>b. ASSUME See(rows'),
             \A q \in Requests : pc[q]' \in {"find", "mset"} => pc[q] \in {"find", "mset"}
      PROVE  Current'
  BY <1>b DEF See
<1>1. CASE QueryCache(r) BY <1>1 DEF QueryCache, db
<1>2. CASE Find(r) BY <1>a, <1>2 DEF Find, db
<1>3. CASE QuerySet(r) BY <1>a, <1>3 DEF QuerySet, db
<1>4. CASE Create(r)
  <2>1. \A q \in Requests : pc[q]' \in {"find", "mset"} => pc[q] \in {"find", "mset"}
    BY <1>4 DEF Create
  <2>2. See(rows') \/ (rows' = rows /\ since' = since)
    BY <1>4 DEF Create
  <2> QED BY <2>1, <2>2, <1>a, <1>b
<1>5. CASE Begin(r) BY <1>a, <1>5 DEF Begin
<1>6. CASE UpdateRow(r)
  <2>1. /\ rows' = rows /\ since' = since
        /\ pc' = pc \/ pc' = [pc EXCEPT ![r] = "rollback"]
    BY <1>6, Zenon DEF UpdateRow
  <2> QED BY <2>1, <1>a
<1>7. CASE DeadlockFound(r) BY <1>a, <1>7 DEF DeadlockFound, db
<1>8. CASE Rollback(r) BY <1>a, <1>8 DEF Rollback
<1>9. CASE Commit(r)
  <2>1. \A q \in Requests : pc[q]' \in {"find", "mset"} => pc[q] \in {"find", "mset"}
    BY <1>9 DEF Commit
  <2>2. See(rows') \/ (rows' = rows /\ since' = since)
    BY <1>9 DEF Commit
  <2> QED BY <2>1, <2>2, <1>a, <1>b
<1>10. CASE DelCache(r) BY <1>a, <1>10 DEF DelCache, db
<1> QED BY <1>1, <1>2, <1>3, <1>4, <1>5, <1>6, <1>7, <1>8, <1>9, <1>10 DEF Handling

\* What was seen stays seen: but for the query that begins, the history only grows.
LEMMA SeenStep ==
  ASSUME Shape, NEW r \in Requests, Handling(r), ~QueryCache(r)
  PROVE  \A q \in Requests, u \in Users : since[q][u] \subseteq since'[q][u]
<1> USE DEF Shape
<1>a. ASSUME See(rows') PROVE \A q \in Requests, u \in Users : since[q][u] \subseteq since'[q][u]
  BY <1>a DEF See
<1>b. since' = since \/ See(rows')
  BY Zenon DEF Handling, Find, QuerySet, Create, Begin, UpdateRow, DeadlockFound, Rollback, Commit, DelCache
<1> QED BY <1>a, <1>b

LEMMA FoundStep ==
  ASSUME Shape, Answers, Current, Found, NEW r \in Requests, Handling(r)
  PROVE  Found'
<1> USE DEF Shape, Steps, Answers, Goto, Return, Fault
<1>0. load' = load BY LoadStep
<1>a. \A q \in Requests : Kind(q)' = Kind(q) /\ Named(q)' = Named(q) BY <1>0 DEF Kind, Named
<1>b. \A q \in Requests : ToSet(Named(q)) \subseteq Users BY LoadsAssumption DEF Named
\* Steps that find nothing new.
<1>c. ASSUME ~QueryCache(r), res' = res, faults \subseteq faults',
             \A q \in Requests : Kind(q) = "query" /\ q \notin faults'
                                   /\ (pc[q]' = "mset" \/ result[q]' = "ok")
                                 => pc[q] = "mset" \/ result[q] = "ok"
      PROVE  Found'
  <2>1. \A q \in Requests, u \in Users : since[q][u] \subseteq since'[q][u] BY <1>c, SeenStep
  <2> QED BY <2>1, <1>a, <1>b, <1>c DEF Found
<1>1. CASE QueryCache(r) BY <1>a, <1>b, <1>1 DEF QueryCache, Found, MGet
<1>2. CASE Find(r) BY <1>a, <1>b, <1>2 DEF Find, Found, Current, MGet
<1>3. CASE QuerySet(r) /\ ~QueryCache(r) BY <1>c, <1>3 DEF QuerySet
<1>4. CASE Create(r) /\ ~QueryCache(r) BY <1>c, <1>4 DEF Create
<1>5. CASE Begin(r) /\ ~QueryCache(r) BY <1>c, <1>5 DEF Begin
<1>6. CASE UpdateRow(r) /\ ~QueryCache(r)
  <2>1. /\ res' = res /\ result' = result
        /\ faults' = faults \/ faults' = faults \cup {r}
        /\ pc' = pc \/ pc' = [pc EXCEPT ![r] = "rollback"]
    BY <1>6, Zenon DEF UpdateRow
  <2> QED BY <2>1, <1>6, <1>c
<1>7. CASE DeadlockFound(r) /\ ~QueryCache(r) BY <1>c, <1>7 DEF DeadlockFound
<1>8. CASE Rollback(r) /\ ~QueryCache(r) BY <1>c, <1>8 DEF Rollback
<1>9. CASE Commit(r) /\ ~QueryCache(r) BY <1>c, <1>9 DEF Commit
<1>10. CASE DelCache(r) /\ ~QueryCache(r) BY <1>c, <1>10 DEF DelCache
<1> QED BY <1>1, <1>2, <1>3, <1>4, <1>5, <1>6, <1>7, <1>8, <1>9, <1>10 DEF Handling

LEMMA Inductive == Spec => []IInv
<1>1. Init => IInv
  BY DEF Init, IInv, Shape, Steps, Answers, Commits, Current, Found
<1>2. IInv /\ [Next]_vars => IInv'
  <2> SUFFICES ASSUME IInv, [Next]_vars PROVE IInv' OBVIOUS
  <2>1. CASE Next
    <3>1. PICK r \in Requests : Handling(r) BY <2>1 DEF Next
    <3> QED BY <3>1, ShapeStep, AnswersStep, CommitsStep, CurrentStep, FoundStep DEF IInv
  <2>2. CASE UNCHANGED vars
    BY <2>2 DEF vars, db, IInv, Shape, Answers, Commits, Current, Found, Kind, Named, Value
  <2> QED BY <2>1, <2>2
<1> QED BY <1>1, <1>2, PTL DEF Spec

\* Query results (storage.go:59-98) are values the database held during the query, for any
\* users, requests and failing statements.
THEOREM FreshReads == Spec => []ReadsAreFresh
<1>1. IInv => ReadsAreFresh BY DEF IInv, Found, ReadsAreFresh
<1> QED BY <1>1, Inductive, PTL

\* An error of UpdateUsers (storage.go:209-224) leaves the rows as they were.
THEOREM ErrorsChangeNothing == Spec => []ErrorChangesNothing
<1>1. IInv => ErrorChangesNothing BY DEF IInv, Commits, ErrorChangesNothing
<1> QED BY <1>1, Inductive, PTL

\* An UpdateUsers that returned nil and met no failing statement was committed.
THEOREM OkMeansCommitted == Spec => []OkIsCommitted
<1>1. IInv => OkIsCommitted BY DEF IInv, Commits, OkIsCommitted
<1> QED BY <1>1, Inductive, PTL

=============================================================================
