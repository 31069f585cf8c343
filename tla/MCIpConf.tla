------------------------------ MODULE MCIpConf ------------------------------
(***************************************************************************)
(* IpConf for TLC: two gateways, one of which ends; one gateway whose      *)
(* reports go more than once round the window; one without metadata.       *)
(***************************************************************************)
EXTENDS IpConf
CONSTANTS n1, n2, r1
MCLoads ==
  { [puts |-> [n \in Nodes |-> IF n = n1 THEN 2 ELSE 1], bare |-> {}, ends |-> {n1}],
    [puts |-> [n \in Nodes |-> IF n = n1 THEN 4 ELSE 0], bare |-> {}, ends |-> {}],
    [puts |-> [n \in Nodes |-> 1], bare |-> {n2}, ends |-> {n2}] }
=============================================================================
