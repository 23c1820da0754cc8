----------------------------- MODULE MCTcpStats -----------------------------
(***************************************************************************)
(* Two remotes of one /24 and a third of another, both directions of one   *)
(* connection, an IPv6 SYN, a packet of another protocol and a short one.  *)
(* Two rows per table and two remembered SYNs, so that all three overflow. *)
(***************************************************************************)
EXTENDS TcpStats

Tcp(s, d, syn) == [kind |-> "tcp", src |-> s, dst |-> d, ports |-> 1, syn |-> syn, v6 |-> FALSE]

MCPackets ==
  {Tcp("lan", "near", TRUE), Tcp("near", "lan", TRUE), Tcp("lan", "next", TRUE),
   Tcp("far", "lan", FALSE),
   [Tcp("lan6", "far6", TRUE) EXCEPT !.v6 = TRUE],
   [Tcp("lan", "near", FALSE) EXCEPT !.kind = "other"],
   [Tcp("lan", "near", FALSE) EXCEPT !.kind = "short"]}

MCPrefixOf ==
  [len \in {24, 32} |->
     [ip \in {"lan", "near", "next", "far", "lan6", "far6"} |->
        IF len = 24 THEN (IF ip \in {"near", "next"} THEN "near/24" ELSE "far/24") ELSE ip]]
=============================================================================
