---------------------------- MODULE MCAgentConfig ----------------------------
(***************************************************************************)
(* Documents that set one or two of the paths below, each to every text:   *)
(* a number in and out of every range, a truth value, a mode, a name, a    *)
(* text that is empty and one that fits no buffer.                         *)
(***************************************************************************)
EXTENDS AgentConfig

MCNumeral == [t \in {"0", "1", "40", "2000", "70000", "5000000"} |->
  CASE t = "0" -> 0 [] t = "1" -> 1 [] t = "40" -> 40 [] t = "2000" -> 2000
    [] t = "70000" -> 70000 [] t = "5000000" -> 5000000]

MCTexts == DOMAIN MCNumeral \cup {"", "false", "http", "long"}

(* Spellings of one setting, and settings that depend on each other. *)
MCPaths ==
  {{"router_id"}, {"spool.max_lines"}, {"tcp_stats.nflog_group"}, {"tcp_prefix_len"},
   {"flow_acct.dump_interval_ms"}, {"demo_mode", "demo.enabled"},
   {"demo.interval_ms", "sample_interval_ms"}, {"emit.mode", "https_url"},
   {"egress.url", "https_url"}, {"tls_ca_file", "egress.insecure"},
   {"egress.tls_insecure", "egress.insecure"}}

MCUnreadable == [unreadable |-> "yes"]

MCEdits ==
  {MCUnreadable, << >>,
   [p \in {"router_id"} |-> "40"],
   [p \in {"emit.mode", "https_url"} |-> "http"],
   [p \in {"tls_ca_file", "demo.interval_ms"} |-> "40"],
   [p \in {"tcp_prefix_len", "spool.max_lines"} |-> "40"],
   [p \in {"emit.mode"} |-> "http"],
   [p \in {"demo_mode", "egress.insecure"} |-> "long"]}

MCFiles ==
  MCEdits \cup UNION {[paths -> MCTexts] : paths \in MCPaths}

(* Every file is loaded, and followed by one more operation; the longer    *)
(* sequences are explored with the files of MCEdits.                       *)
LongSequences ==
  ops = 0 \/ (ops = 1 /\ pc = "apply") \/ {file, read, base, staged.base} \subseteq MCEdits
=============================================================================
