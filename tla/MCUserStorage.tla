--------------------------- MODULE MCUserStorage ---------------------------
(* Small instances of UserStorage for TLC. *)
EXTENDS UserStorage

CONSTANTS u1, u2, r1, r2, r3, r4

Dtos(s, i) == [p \in Parts |-> IF p = "Setting" THEN s ELSE i]
Req(kind, users, s, i) == [kind |-> kind, users |-> users, dto |-> [u \in Users |-> Dtos(s, i)]]

\* A creation, two updates of different parts that meet in either order or clear a
\* column, and a query; or a second creation, a second query or a request for nobody in
\* place of an update.
MCLoads ==
  {[faults |-> 1,
    req |-> (r1 :> Req("create", <<u1, u2>>, 1, NoPart)) @@ (r2 :> Req("update", <<u1, u2>>, 2, NoPart))
            @@ (r3 :> x) @@ (r4 :> Req("query", <<u1, u2>>, NoPart, NoPart))]
    : x \in {Req("update", <<u2, u1>>, NoPart, 3), Req("update", <<u2>>, 0, 3),
             Req("create", <<u1>>, NoPart, 1), Req("query", <<u1>>, NoPart, NoPart),
             Req("query", <<>>, NoPart, NoPart), Req("create", <<>>, NoPart, NoPart),
             Req("update", <<>>, NoPart, NoPart)}}

=============================================================================
