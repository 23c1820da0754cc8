----------------------------- MODULE MCFlowAcct -----------------------------
(***************************************************************************)
(* Three connections, the third of which reuses the addresses and ports of *)
(* the first.                                                              *)
(***************************************************************************)
EXTENDS FlowAcct

CONSTANTS c1, c2, c3

MCTupleOf == [c \in Conns |-> IF c = c3 THEN c1 ELSE c]
=============================================================================
