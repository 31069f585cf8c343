----------------------------- MODULE MCGateway -----------------------------
(***************************************************************************)
(* Gateway for TLC.  Five loads keep the cases small and apart: a hang-up  *)
(* racing DelConn while another client takes the descriptor; two workers   *)
(* on two DelConns of one connection, likewise; a limit of zero; three IDs *)
(* from a clock that goes where it likes; one client that sends enough     *)
(* packets to fill the pool and both channels.                             *)
(***************************************************************************)
EXTENDS Gateway
CONSTANTS c1, c2, c3, w1, w2
Quiet == [c \in Conns |-> 0]
One == [Quiet EXCEPT ![c1] = 1]
MCLoads ==
  { [conns |-> {c1, c2}, talk |-> One, hang |-> {c1}, dels |-> 1,
     clock |-> {1}, max |-> 1, pool |-> {w1}],
    [conns |-> {c1, c2}, talk |-> One, hang |-> {}, dels |-> 2,
     clock |-> {1}, max |-> 1, pool |-> {w1, w2}],
    [conns |-> {c1, c2, c3}, talk |-> Quiet, hang |-> {c1, c2}, dels |-> 0,
     clock |-> {1}, max |-> 0, pool |-> {w1}],
    [conns |-> {c1, c2, c3}, talk |-> Quiet, hang |-> {}, dels |-> 0,
     clock |-> 1..3, max |-> 3, pool |-> {w1}],
    [conns |-> {c1}, talk |-> [Quiet EXCEPT ![c1] = 4], hang |-> {}, dels |-> 1,
     clock |-> {1}, max |-> 1, pool |-> {w1}] }
=============================================================================
