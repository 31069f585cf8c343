----------------------------- MODULE MCBizflow -----------------------------
(***************************************************************************)
(* Bizflow for TLC: the diamond of bizflow_test.go, as it is and with      *)
(* nodes that fail; a chain whose nodes meet every kind of error; a graph  *)
(* of one node; the three graphs AddNode refuses.                          *)
(***************************************************************************)
EXTENDS Bizflow
CONSTANTS w1, w2, w3
Diamond == [A |-> {}, B |-> {"A"}, C |-> {"A"}, D |-> {"B", "C"}]
Always(o) == [n \in DOMAIN Diamond |-> {o}]
Never == [n \in DOMAIN Diamond |-> 0]
F(order, deps, retry, ends) == [order |-> order, deps |-> deps, retry |-> retry, ends |-> ends]
ABCD == <<"A", "B", "C", "D">>
MCPools == {{w1}, {w1, w2}, {w1, w2, w3}}
MCFlows ==
  { F(ABCD, Diamond, Never, Always("ok")),
    F(ABCD, Diamond, [Never EXCEPT !["B"] = 1],
      [Always("ok") EXCEPT !["B"] = {"ok", "retry"}, !["C"] = {"ok", "nonretry", "abort"}]),
    F(<<"A", "B">>, [Diamond EXCEPT !["D"] = {}], [Never EXCEPT !["A"] = 1],
      [Always("ok") EXCEPT !["A"] = Outcomes, !["B"] = Outcomes]),
    F(<<"A">>, Diamond, Never, Always("ok")),
    F(<<"A", "D">>, [Diamond EXCEPT !["D"] = {}], Never, Always("ok")),
    F(<<"A", "D">>, Diamond, Never, Always("ok")),
    F(<<"A", "B">>, [Diamond EXCEPT !["B"] = {"B"}], Never, Always("ok")) }
=============================================================================
