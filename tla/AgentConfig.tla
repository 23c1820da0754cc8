----------------------------- MODULE AgentConfig -----------------------------
(***************************************************************************)
(* The configuration of a running agent: agent/config_yaml.c and           *)
(* agent/config_defaults.c, cpe_agent_reload_config and                    *)
(* cpe_agent_apply_config of agent/agent_core.c, main's first load, the    *)
(* reload on SIGHUP, and the functions of agent/lua_bind.c that change the *)
(* configuration of an agent started with --lua.                           *)
(*                                                                         *)
(* A document maps the paths it mentions to the text of their scalars; the *)
(* YAML syntax belongs to the parser.  A path looked up in the document is *)
(* one of several spellings of a setting.  The sensors that apply_config   *)
(* opens and closes are in AgentLoop, the ring it resizes in AgentCore.    *)
(***************************************************************************)
EXTENDS Naturals, Sequences, FiniteSetsExt

CONSTANTS
  Numeral,    \* the texts that strtoul reads to their end, and their value
  Long,       \* the texts longer than every buffer of cpe_agent_config_t
  LuaTexts,   \* strings a Lua script passes
  LuaNumbers, \* integers a Lua script passes
  U16, U32,   \* 2^16 and 2^32, scaled down
  HardLines,  \* CPE_SPOOL_MAX_LINES_HARD
  Unreadable, \* a file that cannot be opened or parsed
  Files,      \* what the file may be at first: documents, or Unreadable
  Edits,      \* what it may be replaced by
  Overrides,  \* arguments of --router-id, "" when it is not given
  MaxOps      \* bound on edits and reconfigurations

ASSUME ConfigAssumption ==
  /\ \A t \in DOMAIN Numeral : Numeral[t] \in Nat
  /\ "" \notin Long /\ "" \notin DOMAIN Numeral
  /\ LuaNumbers \subseteq Nat
  /\ {U16, U32, HardLines, MaxOps} \subseteq Nat \ {0}
  /\ Edits \subseteq Files

VARIABLES
  mode,      \* "daemon" runs the loop, "lua" a script or the prompt
  hasPath,   \* --config was given
  override,  \* router_id_override
  file,      \* the file at that path
  pc,        \* "start", "load", "apply", "ready" or "exited"
  read,      \* the file as it was last read
  staged,    \* the configuration to apply
  cfg,       \* a->cfg without its generation
  gen,       \* a->cfg.generation
  cap,       \* a->spool_cap
  last,      \* what the last reconfiguration came to
  base, over, \* history: the document in force and what was set on top of it
  ops        \* history: edits and reconfigurations so far

startVars == <<mode, hasPath, override>>
agentVars == <<cfg, gen, cap, base, over>>
vars == <<mode, hasPath, override, file, pc, read, staged, cfg, gen, cap, last, base, over, ops>>

-----------------------------------------------------------------------------
(***************************************************************************)
(* g_paths: each path in its order, with the setting it is a spelling of   *)
(* and the kind of check apply_scalar makes.                               *)
(***************************************************************************)
At(path, field, kind) == [path |-> path, field |-> field, kind |-> kind]

g_paths == <<
  At("router_id", "router_id", "str"), At("emit.mode", "emit_mode", "str"),
  At("emit_mode", "emit_mode", "str"), At("emit.path", "spool_path", "str"),
  At("spool.path", "spool_path", "str"), At("spool_path", "spool_path", "str"),
  At("spool.max_lines", "spool_max_lines", "size"), At("spool_max_lines", "spool_max_lines", "size"),
  At("demo.target", "demo_target", "str"), At("demo_target", "demo_target", "str"),
  At("arping.if", "arping_if", "str"), At("arping_if", "arping_if", "str"),
  At("arping.iface", "arping_if", "str"), At("iface", "arping_if", "str"), At("wifi.if", "wifi_if", "str"),
  At("wifi_if", "wifi_if", "str"), At("wifi.iface", "wifi_if", "str"),
  At("demo.interval_ms", "demo_interval_ms", "interval"),
  At("demo_interval_ms", "demo_interval_ms", "interval"),
  At("sample.interval_ms", "demo_interval_ms", "interval"),
  At("sample_interval_ms", "demo_interval_ms", "interval"), At("demo.enabled", "demo_mode", "bool"),
  At("demo_mode", "demo_mode", "bool"), At("demo.timeout_ms", "probe_timeout_ms", "pos"),
  At("probe.timeout_ms", "probe_timeout_ms", "pos"), At("probe_timeout_ms", "probe_timeout_ms", "pos"),
  At("egress.url", "https_url", "str"), At("https_url", "https_url", "str"),
  At("egress.username", "egress_user", "str"), At("egress.user", "egress_user", "str"),
  At("egress_user", "egress_user", "str"), At("egress.password", "egress_password", "str"),
  At("egress_password", "egress_password", "str"), At("egress.ca_file", "tls_ca_file", "ca"),
  At("tls_ca_file", "tls_ca_file", "ca"), At("egress.cert_file", "tls_cert_file", "str"),
  At("tls_cert_file", "tls_cert_file", "str"), At("egress.key_file", "tls_key_file", "str"),
  At("tls_key_file", "tls_key_file", "str"), At("egress.tls_insecure", "egress_tls_insecure", "bool"),
  At("egress.insecure", "egress_tls_insecure", "bool"), At("tcp_stats.enabled", "tcp_stats_enabled", "bool"),
  At("tcp_stats_enabled", "tcp_stats_enabled", "bool"),
  At("tcp_stats.nflog_group", "tcp_nflog_group", "group"), At("tcp_nflog_group", "tcp_nflog_group", "group"),
  At("tcp_stats.nflog_size", "tcp_nflog_size", "pos"), At("tcp_nflog_size", "tcp_nflog_size", "pos"),
  At("tcp_stats.emit_interval_ms", "tcp_emit_interval_ms", "pos"),
  At("tcp_emit_interval_ms", "tcp_emit_interval_ms", "pos"),
  At("tcp_stats.emit_top_n", "tcp_emit_top_n", "pos"), At("tcp_emit_top_n", "tcp_emit_top_n", "pos"),
  At("tcp_stats.prefix_len", "tcp_prefix_len", "plen"), At("tcp_prefix_len", "tcp_prefix_len", "plen"),
  At("flow_acct.enabled", "flow_acct_enabled", "bool"), At("flow_acct_enabled", "flow_acct_enabled", "bool"),
  At("flow_acct.join_update", "flow_join_update", "bool"),
  At("flow_acct.emit_destroy", "flow_emit_destroy", "bool"),
  At("flow_acct.emit_new", "flow_emit_new", "bool"),
  At("flow_acct.poll_interval_ms", "flow_poll_interval_ms", "pos"),
  At("flow_acct.dump_interval_ms", "flow_dump_interval_ms", "u32"),
  At("flow_acct.sample_emit_ms", "flow_sample_emit_ms", "pos"),
  At("flow_acct.sample_top_n", "flow_sample_top_n", "pos"),
  At("flow_acct.max_flows", "flow_max_flows", "pos"), At("ipc.socket", "ipc_socket", "str"),
  At("ipc_socket", "ipc_socket", "str"), At("ipc.path", "ipc_socket", "str"),
  At("proxies.openai_url", "openai_proxy_url", "str"), At("openai_proxy_url", "openai_proxy_url", "str"),
  At("proxies.postgres_url", "postgres_proxy_url", "str"),
  At("postgres_proxy_url", "postgres_proxy_url", "str") >>

(* cpe_agent_config_defaults; sample_interval_ms has no path of its own. *)
Defaults == [
  router_id |-> "cpe-lab-1", emit_mode |-> "stdout", spool_path |-> "cpe_perf.ndjson",
  spool_max_lines |-> 256, demo_target |-> "1.1.1.1", arping_if |-> "", wifi_if |-> "",
  demo_interval_ms |-> 5000, demo_mode |-> TRUE, probe_timeout_ms |-> 1000, https_url |-> "",
  egress_user |-> "", egress_password |-> "", tls_ca_file |-> "", tls_cert_file |-> "",
  tls_key_file |-> "", egress_tls_insecure |-> TRUE, tcp_stats_enabled |-> FALSE,
  tcp_nflog_group |-> 5, tcp_nflog_size |-> 60, tcp_emit_interval_ms |-> 10000,
  tcp_emit_top_n |-> 20, tcp_prefix_len |-> 24, flow_acct_enabled |-> FALSE,
  flow_join_update |-> TRUE, flow_emit_destroy |-> TRUE, flow_emit_new |-> FALSE,
  flow_poll_interval_ms |-> 200, flow_dump_interval_ms |-> 200, flow_sample_emit_ms |-> 2000,
  flow_sample_top_n |-> 32, flow_max_flows |-> 1024, ipc_socket |-> "cpe_agent.sock",
  openai_proxy_url |-> "", postgres_proxy_url |-> "", sample_interval_ms |-> 5000 ]

(* A configuration, or a set of changes, with further changes on top. *)
With(c, change) ==
  [f \in DOMAIN c \cup DOMAIN change |-> IF f \in DOMAIN change THEN change[f] ELSE c[f]]

-----------------------------------------------------------------------------
(***************************************************************************)
(* The scalars: copy_str, parse_bool, parse_u32 and parse_size with the    *)
(* range apply_scalar asks for.                                            *)
(***************************************************************************)
Yes == {"1", "true", "True", "yes", "on"}
No  == {"0", "false", "False", "no", "off"}

InRange(text, lo, hi) == text \in DOMAIN Numeral /\ Numeral[text] \in lo..hi

Accepts(kind, text) ==
  CASE kind \in {"str", "ca"}       -> text \notin Long
    [] kind = "bool"                -> text \in Yes \cup No
    [] kind = "size"                -> text \in DOMAIN Numeral /\ Numeral[text] > 0
    [] kind \in {"pos", "interval"} -> InRange(text, 1, U32 - 1)
    [] kind = "u32"                 -> InRange(text, 0, U32 - 1)
    [] kind = "group"               -> InRange(text, 1, U16 - 1)
    [] kind = "plen"                -> InRange(text, 1, 32)

Value(kind, text) ==
  CASE kind \in {"str", "ca"} -> text
    [] kind = "bool"          -> text \in Yes
    [] OTHER                  -> Numeral[text]

(* What one spelling that is present sets.  A CA file turns verification   *)
(* on; the option that turns it off comes later in the list.               *)
Effect(e, text) ==
  CASE e.kind = "interval" -> [f \in {e.field, "sample_interval_ms"} |-> Value(e.kind, text)]
    [] e.kind = "ca"       -> [f \in {e.field, "egress_tls_insecure"} |-> IF f = e.field THEN text ELSE FALSE]
    [] OTHER               -> [f \in {e.field} |-> Value(e.kind, text)]

(* lookup: an empty scalar counts as absent. *)
Lookup(doc, path) == path \in DOMAIN doc /\ doc[path] # ""

(* Mutant: a text that cannot be used is passed over. *)
ApplyScalarSkips(acc, e, doc) ==
  IF Lookup(doc, e.path) /\ Accepts(e.kind, doc[e.path])
  THEN [cfg |-> With(acc.cfg, Effect(e, doc[e.path])), ok |-> TRUE]
  ELSE acc

(* One turn of the loop of load_from_ctx: the first text that cannot be    *)
(* used ends it and leaves the rest unset.                                 *)
ApplyScalar(acc, e, doc) ==
  IF ~acc.ok \/ ~Lookup(doc, e.path) THEN acc
  ELSE IF Accepts(e.kind, doc[e.path])
       THEN [cfg |-> With(acc.cfg, Effect(e, doc[e.path])), ok |-> TRUE]
       ELSE [cfg |-> acc.cfg, ok |-> FALSE]

(* load_from_ctx: from the defaults, path by path. *)
LoadFromCtx(doc) ==
  LET upTo[n \in 0..Len(g_paths)] ==
        IF n = 0 THEN [cfg |-> Defaults, ok |-> TRUE] ELSE ApplyScalar(upTo[n - 1], g_paths[n], doc)
  IN  upTo[Len(g_paths)]

(* cpe_agent_config_load_yaml_path: a file is loaded if it opens and       *)
(* parses.                                                                 *)
LoadYamlPath(f) == IF f = Unreadable THEN [cfg |-> Defaults, ok |-> FALSE] ELSE LoadFromCtx(f)

(* cpe_agent_config_validate *)
Valid(c) ==
  /\ c.router_id # ""
  /\ c.emit_mode \in {"stdout", "spool", "http", "https"}
  /\ c.emit_mode = "spool" => c.spool_path # ""
  /\ c.emit_mode \in {"http", "https"} => c.https_url # ""
  /\ c.spool_max_lines \in 1..HardLines
  /\ c.demo_interval_ms # 0 \/ c.sample_interval_ms # 0
  /\ c.demo_target # ""

(* The zeros apply_config replaces before it validates. *)
Filled(c) ==
  LET sample == IF c.sample_interval_ms # 0 THEN c.sample_interval_ms
                ELSE IF c.demo_interval_ms # 0 THEN c.demo_interval_ms ELSE 5000
  IN  [c EXCEPT !.spool_max_lines = IF @ = 0 THEN 256 ELSE @,
                !.sample_interval_ms = sample,
                !.demo_interval_ms = IF @ = 0 THEN sample ELSE @,
                !.probe_timeout_ms = IF @ = 0 THEN 1000 ELSE @]

-----------------------------------------------------------------------------
Nothing == << >>                        \* an empty document, or no settings on top

(* main: cpe_agent_create has set the defaults; the file is not read yet.  *)
Init ==
  /\ mode \in {"daemon", "lua"}
  /\ hasPath \in BOOLEAN
  /\ override \in Overrides
  /\ file \in Files
  /\ pc = "start"
  /\ read = Nothing
  /\ staged = [cfg |-> Defaults, base |-> Nothing, over |-> Nothing]
  /\ cfg = Defaults /\ gen = 0 /\ cap = Defaults.spool_max_lines
  /\ last = "none"
  /\ base = Nothing /\ over = Nothing
  /\ ops = 0

(* The operator saves the file, by renaming a complete one over it. *)
EditFile ==
  /\ pc \in {"apply", "ready"} /\ ops < MaxOps
  /\ file' \in Edits
  /\ ops' = ops + 1
  /\ UNCHANGED <<startVars, pc, read, staged, agentVars, last>>

(***************************************************************************)
(* cpe_agent_reload_config up to the call of apply_config.  It works on a  *)
(* local configuration: nothing of it is in force when it fails.           *)
(***************************************************************************)
Stage(c, b, o, rid) ==
  staged' = IF rid = "" THEN [cfg |-> c, base |-> b, over |-> o]
            ELSE [cfg  |-> [c EXCEPT !.router_id = rid], base |-> b,
                  over |-> With(o, [router_id |-> rid])]

(* main gives up when its first load fails; later ones change nothing. *)
Fail(why) ==
  /\ last' = why
  /\ pc' = IF gen = 0 THEN "exited" ELSE "ready"

ReloadConfig(withPath, rid) ==
  LET loaded == LoadYamlPath(file)
  IN  /\ ops' = IF gen = 0 THEN ops ELSE ops + 1
      /\ read' = IF withPath THEN file ELSE read
      /\ \/ /\ (withPath => loaded.ok) /\ rid \notin Long
            /\ pc' = "apply" /\ UNCHANGED last
            /\ IF withPath THEN Stage(loaded.cfg, file, Nothing, rid)
                           ELSE Stage(cfg, base, over, rid)
         \/ /\ (withPath /\ ~loaded.ok) \/ rid \in Long
            /\ Fail("load")
            /\ UNCHANGED staged
      /\ UNCHANGED <<startVars, file, agentVars>>

Start == pc = "start" /\ ReloadConfig(hasPath, override)

(* handle_hup: --router-id is applied again. *)
HupReload ==
  /\ pc = "ready" /\ mode = "daemon" /\ ops < MaxOps
  /\ ReloadConfig(hasPath, override)

(* cpe.reload(path) and cpe.reload(): --router-id is not applied again. *)
LuaReload ==
  /\ pc = "ready" /\ mode = "lua" /\ ops < MaxOps
  /\ \E withPath \in BOOLEAN : ReloadConfig(withPath, "")

(***************************************************************************)
(* cpe_agent_apply_config: fill, validate, resize the ring, then commit.   *)
(* The old ring is gone when there is no memory for the new one.           *)
(***************************************************************************)
(* Mutant: the configuration is copied before it is validated. *)
ApplyConfigEarly(c, b, o) ==
  LET n == Filled(c)
  IN  /\ cfg' = n
      /\ \/ /\ Valid(n)
            /\ gen' = gen + 1 /\ cap' = n.spool_max_lines
            /\ base' = b /\ over' = o
            /\ last' = "applied" /\ pc' = "ready"
         \/ /\ ~Valid(n)
            /\ Fail("invalid")
            /\ UNCHANGED <<gen, cap, base, over>>

ApplyConfig(c, b, o) ==
  LET n == Filled(c)
  IN  \/ /\ Valid(n)
         /\ cfg' = n /\ gen' = gen + 1 /\ cap' = n.spool_max_lines
         /\ base' = b /\ over' = o
         /\ last' = "applied" /\ pc' = "ready"
      \/ /\ ~Valid(n)
         /\ Fail("invalid")
         /\ UNCHANGED agentVars
      \/ /\ Valid(n) /\ n.spool_max_lines # cap
         /\ Fail("memory")
         /\ cap' = 0
         /\ UNCHANGED <<cfg, gen, base, over>>

Apply ==
  /\ pc = "apply"
  /\ ApplyConfig(staged.cfg, staged.base, staged.over)
  /\ UNCHANGED <<startVars, file, read, staged, ops>>

(***************************************************************************)
(* lua_bind.c: every function copies the configuration, changes the copy   *)
(* and applies it; an argument out of range is an error before that.       *)
(***************************************************************************)
LuaSet(change) ==
  /\ pc = "ready" /\ mode = "lua" /\ ops < MaxOps
  /\ ApplyConfig(With(cfg, change), base, With(over, change))
  /\ ops' = ops + 1
  /\ UNCHANGED <<startVars, file, read, staged>>

Short == LuaTexts \ Long

SetTarget   == \E t \in Short : LuaSet([demo_target |-> t])
SetRouterId == \E t \in Short : LuaSet([router_id |-> t])
SetIface    == \E t \in Short : LuaSet([arping_if |-> t])
SetWifiIf   == \E t \in Short : LuaSet([wifi_if |-> t])
LongestInterval == 3600000   \* an hour, in ms
SetInterval ==
  \E ms \in LuaNumbers \cap 1..LongestInterval :
    LuaSet([demo_interval_ms |-> ms, sample_interval_ms |-> ms])

(* cpe.sample: a script leaves the demo mode for good.  In the live mode   *)
(* it changes no setting.                                                  *)
LiveSample == cfg.demo_mode /\ LuaSet([demo_mode |-> FALSE])

(* cpe.live_ping(target), or without a target. *)
LivePing ==
  \/ \E t \in Short : LuaSet([demo_target |-> t, demo_mode |-> FALSE])
  \/ LiveSample

(* cpe.tcp_open(group): the group is cast to sixteen bits. *)
TcpOpen ==
  \/ LuaSet([tcp_stats_enabled |-> TRUE])
  \/ \E g \in LuaNumbers :
       LuaSet([tcp_stats_enabled |-> TRUE, tcp_nflog_group |-> g % U16])

Lua ==
  LuaReload \/ SetTarget \/ SetRouterId \/ SetIface \/ SetWifiIf \/ SetInterval
            \/ LiveSample \/ LivePing \/ TcpOpen

Next == EditFile \/ Start \/ HupReload \/ Apply \/ Lua

Spec == Init /\ [][Next]_vars
-----------------------------------------------------------------------------
(***************************************************************************)
(* What a document means, setting by setting: the last spelling that is    *)
(* present, else the default.                                              *)
(***************************************************************************)
Present(doc, f) == {n \in DOMAIN g_paths : g_paths[n].field = f /\ Lookup(doc, g_paths[n].path)}

Says(doc, f) ==
  LET e == g_paths[Max(Present(doc, f))]
  IN  IF Present(doc, f) = {} THEN Defaults[f] ELSE Value(e.kind, doc[e.path])

Meaning(doc) ==
  [f \in DOMAIN Defaults |->
    CASE f = "sample_interval_ms"  -> Says(doc, "demo_interval_ms")
      [] f = "egress_tls_insecure" /\ Present(doc, f) = {} -> Present(doc, "tls_ca_file") = {}
      [] OTHER                     -> Says(doc, f)]

Bad(doc) ==
  \E n \in DOMAIN g_paths :
    Lookup(doc, g_paths[n].path) /\ ~Accepts(g_paths[n].kind, doc[g_paths[n].path])

(* The configuration in force is what one whole document means, with what  *)
(* was set on top of it since: no failed load, rejected change or reload   *)
(* leaves a mixture behind, and of several spellings the last one counts   *)
(* (load_from_ctx, reload_config, apply_config).                           *)
ConfigIsMeaning ==
  cfg = With(Meaning(base), over)

(* A document is refused for a cause, and for every cause: a text that     *)
(* cannot be used counts even under a spelling that a later one overrides, *)
(* and what is in force is always valid.                                   *)
RefusedIffBad ==
  /\ last = "load" /\ pc # "apply" => override \in Long \/ read = Unreadable \/ Bad(read)
  /\ gen > 0 => ~Bad(base) /\ Valid(cfg)
=============================================================================
