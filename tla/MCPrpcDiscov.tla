--------------------------- MODULE MCPrpcDiscov ---------------------------
(***************************************************************************)
(* PrpcDiscov for TLC, with two services.  One server starts twice and     *)
(* meets faults while one client dials; two servers start and one of them  *)
(* stops while a client dials both services, whose names are apart or one  *)
(* the beginning of the other.                                             *)
(***************************************************************************)
EXTENDS PrpcDiscov
CONSTANTS a, b, ga, gb
MCSvcOf == [i \in Servers |-> IF i = a THEN "state" ELSE "state2"]
MCWant == [g \in Dialers |-> IF g = ga THEN "state" ELSE "state2"]
Once == [i \in Servers |-> 1]
L(n, st, ds, f, ne) == [starts |-> n, stops |-> st, dialers |-> ds, faults |-> f, nested |-> ne]
MCLoads ==
  { L([Once EXCEPT ![a] = 2, ![b] = 0], {a}, {ga}, 1, {}),
    L(Once, {b}, {ga, gb}, 0, {}),
    L(Once, {}, {ga, gb}, 0, {<<"state", "state2">>}) }
=============================================================================
