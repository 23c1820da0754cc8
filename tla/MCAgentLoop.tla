----------------------------- MODULE MCAgentLoop -----------------------------
(***************************************************************************)
(* File contents that move every setting the loop reacts to: both sensors  *)
(* on and off, two NFLOG groups, two intervals, both probe modes, and a    *)
(* file that does not load.                                                *)
(***************************************************************************)
EXTENDS LoopPosts

MCFirst == [ok |-> TRUE, interval |-> 1, demo |-> TRUE, tcp |-> 0, flow |-> FALSE, join |-> TRUE]

MCBodies ==
  {MCFirst,
   [MCFirst EXCEPT !.tcp = 5, !.flow = TRUE, !.demo = FALSE],
   [MCFirst EXCEPT !.tcp = 6, !.interval = 2, !.flow = TRUE, !.join = FALSE],
   [MCFirst EXCEPT !.ok = FALSE]}
=============================================================================
