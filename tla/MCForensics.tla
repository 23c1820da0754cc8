----------------------------- MODULE MCForensics -----------------------------
(***************************************************************************)
(* Two hosts behind one WAN address: "next" gets the WAN port that "web"   *)
(* has given back, towards the same server and port.  The core's records   *)
(* of "next" carry no start.  Each of the lasting connections differs from *)
(* "web" in one field that nf_flows_correlate compares, "mail" in the      *)
(* destination port, which it does not.                                    *)
(***************************************************************************)
EXTENDS Forensics

Web == [ipv6 |-> FALSE, proto |-> 6, lan |-> "hostA", lanPort |-> 7, wan |-> "wan", wanPort |-> 9,
        dst |-> "server", dstPort |-> 80, hasStart |-> TRUE]

MCFlow ==
  [c \in Conns |->
    CASE c = "web"  -> Web
      [] c = "next" -> [Web EXCEPT !.lan = "hostB", !.lanPort = 9, !.hasStart = FALSE]
      [] c = "mail" -> [Web EXCEPT !.dstPort = 25, !.hasStart = FALSE]
      [] c = "dns"  -> [Web EXCEPT !.proto = 17, !.hasStart = FALSE]
      [] c = "peer" -> [Web EXCEPT !.wanPort = 8, !.hasStart = FALSE]
      [] c = "isp2" -> [Web EXCEPT !.wan = "wan2", !.hasStart = FALSE]
      [] c = "far"  -> [Web EXCEPT !.dst = "host", !.hasStart = FALSE]
      [] c = "six"  -> [Web EXCEPT !.ipv6 = TRUE, !.hasStart = FALSE]]
=============================================================================
