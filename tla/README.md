# Verification of the netforensics CPE agent

TLA+ models of the CPE agent of netforensics (`src/agent/`), of its smaller
sibling `forensicsd` and of the join of NAT and flow records, the TLC runs that
check them on small instances, and TLAPS proofs of their invariants for every
size of the instance.
`PROJECT.json` maps every definition to the lines it models and lists components,
runs, mutants, hazards, findings and theorems.

## 1. Inventory

The repository is a telemetry agent for customer-premises routers and the tools
around it. The agent is one single-threaded process: everything in it runs in
callbacks of one loop. What makes it hard is what runs beside it: signal
handlers, the kernel's conntrack and NFLOG sockets, clients of its control
socket, and the HTTP collector.

| Component | State | Operations | Interacts with |
|---|---|---|---|
| Agent core (`agent_core.c`) | ring of NDJSON lines (`spool`, `spool_head/tail/cnt/cap/drops`), 16-entry event queue, configuration, latest results | `spool_push_line`, `emit_flush`, `spool_flush`, `apply_config`, `reload_config`, `next_event`, `provide_buffer`, sample ticks | every producer of lines; the sink (stdout, file, HTTP) |
| Loop and `main` (`agent_loop.c`, `main.c`; `agent_loop_poll.c` without libuv) | `g_hup`, `g_stop`, two timers | `on_timer`, `on_ipc_timer`, `handle_hup`, signal handlers | core, sensors, control socket |
| Configuration (`config_defaults.c`, `config_yaml.c`, the setters of `lua_bind.c`) | the configuration in force, its generation | defaults, load, validate, `apply_config`, `cpe.set_*` | `reload_config`; Lua scripts |
| Flow accounting (`flow_acct.c`) | table of up to 1024 flows, `table_used`, two netlink sockets | `flow_open/close/poll/tick`, `apply_event`, `find_slot` | kernel conntrack; spool; control socket |
| TCP statistics (`tcp_stats.c`) | totals, rows per remote and per prefix, ring of 64 SYNs | `tcp_poll`, `tcp_feed_payload`, `apply_packet`, `tcp_tick`, `tcp_emit`, `tcp_reset` | NFLOG; spool; control socket |
| Control socket (`ipc_server.c`, `ipc_client.c`) | 8 client slots with a line buffer each, the socket file | `create`, `destroy`, `poll`, `handle_request`; `client_request` | `cpe_ctl`, the core and both sensors |
| HTTP(S) egress (`tls_egress.c`) | none between calls; one connection during a call | `http_post`, `plain_http_post`, `mbedtls_https_post` | collector; called by `emit_flush` |
| Live probes (`live_ping.c`, `live_arping.c`, `live_trace.c`) | one socket during a call | ping, arping, traceroute, MTR ticks | network; spool |
| `forensicsd` (`cpe/forensicsd.c`, `src/nfct_netlink.c`, `src/nl80211_netlink.c`) | two netlink sockets, `g_stop` | poll loop, event drain, Wi-Fi dumps | kernel conntrack and nl80211; stdout |
| Flow correlation (`src/flow_correlate.c`) | none | observations from conntrack and IPFIX, match | lines of `forensicsd`, records of a core router |
| Wi-Fi statistics, the rest of Lua, `cpe_ctl`, ClickHouse queries | none between calls, or an interpreter | queries and conversions | control socket, HTTP |
| BMP and IPFIX ingest, gateway stub | none | decoding | ClickHouse |

What is hard in it, and the property that makes each part correct:

* **Core.** The ring wraps, drops its oldest line when full, advances past lines
  before it knows that they were written, and is released by a resize before its
  replacement exists. Every line pushed must be in the ring, delivered or
  accounted for; order must hold; no line may stay for ever.
* **Loop.** Signals arrive between any two instructions; a reload may fail at any
  stage and the sensors may fail to open. No SIGHUP may be lost; sensors and
  timer must follow the configuration in force; stop must end the loop.
* **Configuration.** A file has up to four spellings for a setting, is replaced
  while it is being read, and fails half way; changes come from reloads, the
  command line and scripts. What is in force must always be what one whole file
  means plus what was set on top of it.
* **Flow accounting.** Two sockets with no order between them, events lost
  without an error, dumps cut off by a timeout, tuples reused, a table that
  evicts. The table must agree with conntrack and each teardown must be reported
  once, with its final count.
* **TCP statistics.** Both tables evict, the SYN ring wraps, the prefix length
  changes under way. Rows must be unique and agree with the totals.
* **Control socket.** Clients send pieces of lines, send ahead, stay silent, do
  not read, or vanish; there are more clients than slots; a crash leaves the
  socket file behind. Streams must not mix, replies must match, slots must come
  back, and `cpe_ctl`, which sets no timeout, must return.
* **Live probes.** One message decides, and a raw socket hands over anybody's:
  a result must be about its own request, and a call must return however busy
  the network is.
* **forensicsd.** One thread serves an event socket and a dump socket that may
  hold leftovers; events are lost without an error, and a WAN port passes from
  one host to the next. A line must join only with connections NAT allows, what
  was received must be logged, a signal must end the daemon.
* **Egress.** The collector answers early, late, in pieces or never, and closes
  in the middle. Success must mean stored, and a POST must end.

`PROJECT.json` lists these as hazards with their lines. `components` says of each
part whether it is modelled.

## 2. Modules

| Module | Models | State and actions |
|---|---|---|
| `LineQueue` | what the spool promises: a bounded FIFO that forgets and counts its oldest line | `Accept`, `Displace`, `Release`, `Doubt`, `Arrive`, `Replace` |
| `AgentCore` | spool, event queue, flush to each sink, resize (`agent_core.c`, `config_defaults.c`) | `ring`, `head`, `tail`, `cnt`, `cap`, `drops`, `eq`, `cfg` carry the names of the code; `PushLine`, `SampleTick` (demo: push, then the sample), `LiveSampleTick` (the sample, then the push), `FlushStdioOk/Fails`, `FlushHttpOk/Fails`, `ApplyConfig` (its four outcomes are `Config*`), `NextEvent`. `CollectorStores` is external: a POST given up may still be stored |
| `SpoolFlush` | when the loop flushes the spool (`agent_loop.c`, `ipc_server.c`) on top of `AgentCore` | `due` says that a callback goes on to its `emit_flush`; `Tick` makes it true, `PushOnly` are lines without a flush (the control socket), `FlushOk/Fails/Nothing` are the flush |
| `AgentLoop` | both builds of the loop: two libuv timers, or rounds with slices of sleep; signals, reload, rebinding of the sensors (`agent_loop.c`, `agent_loop_poll.c`, `main.c`, `agent_core.c`, the open and tick functions of the sensors) | `loop` says which build runs; `pc` walks the callbacks or the round; `HupTest` and `HupClear` split `hup_take`; `LoadFile`, `Apply`, `RearmTimer` split `handle_hup`; `Top`, `ServeAfterSample`, `SleepSlice`, `SliceEnd` are the poll build's own; signals and edits of the file come between any two |
| `LoopPosts` | `AgentLoop` on a thread that may be inside a POST (`emit_flush` over http or https) | `posting`; each step at a place that flushes may begin one, `PostEnds` ends it, signals go on meanwhile |
| `AgentConfig` | where the configuration in force comes from (`config_yaml.c`, `config_defaults.c`, `reload_config`, `apply_config`, `lua_bind.c`) | `g_paths` is the table of the code, each path with its setting and kind of check; `LoadFromCtx` walks it with `ApplyScalar`; `Start`, `HupReload`, `LuaReload` read, `Apply` commits, `SetTarget` … `TcpOpen` are the Lua functions |
| `FlowAcct` | `flow_acct.c` and the kernel around it | kernel: `Create`, `Traffic`, `Destroy`, `DumpVisit`; agent: `StartTick`, `ReadEvent`, `EndPoll`, `ReadDump`, `EndDump`, all through `ApplyEvent` |
| `IpcServer` | `ipc_server.c`, `ipc_client.c` | agent: `Start`, `Stop`, `Crash`, and the steps of `cpe_ipc_server_poll`; clients: `Connect`, `SendRequest`, `ReadReply`, `ReadEnd` (`cpe_ctl`), `SendPiece`, `Leave` (any other) |
| `IpcPosts` | `IpcServer` on the same thread: the emit request posts inside `handle_request`, the timers between polls | `posting`, `PollStep`, `PostEnds`, `Lifetime`, `ClientsGoOn` |
| `HttpPost` | `tls_egress.c`, both schemes, and a collector | `Begin` … `ReadEnd` in the order of the code; `Collector*`, `StoresLate`. Its variables and its `Post*` formulas have names of their own so that its proofs can stand beside those of the loop that calls it |
| `TcpStats` | `tcp_stats.c` without its socket | `TickStart`, `PollRequest`, `OnPayload`, `PollEnd`, `FeedPayload`, `EmitRequest`, `Reset`, `Reload` |
| `LiveProbe` | live ping, arping, traceroute and MTR (`live_*.c`), the kernel's sockets and the network | `Ping`, `PingReads`; `Arping`, `ArpingReads`, `ArpingSkips`; `ProbeTimeout`; `Trace`, `TraceUdp`, `TraceIcmp`, `TraceReads`, `TraceTimeout`, `TraceUnsent`; the network: `Answer`, `Foreign` |
| `Forensics` | `forensicsd --netlink` and `flow_correlate.c` | kernel: `OpenConn`, `UpdateConn`, `CloseConn`, `Signal`; daemon: `OpenNfct`, `OpenWifi`, `Loop`, `Poll*`, `SkipDump`, `Dump*`, `Recv*`, `Close`; `ObsFromNfct`, `ObsFromIpfix`, `Correlate` are functions |
| `MC*` | constants for TLC | |
| `*_proofs` | theorems about `AgentCore`, `AgentLoop` and `HttpPost`, `AgentConfig`, `FlowAcct`, `IpcServer`, `TcpStats`, `LiveProbe`, `Forensics` | section 4 |

How they fit together: `AgentCore` takes one POST as a step with four outcomes
(accepted, refused, given up and stored, given up and not stored); `HttpPost`
shows which of these a POST can have and that it ends, over plain http. Over
https neither handshake nor read has a time limit, so `LoopPosts` and `IpcPosts`
let a POST hold up the thread for ever, and the properties that need its return
say so. `SpoolFlush` keeps the conditions under which the loop flushes at all.
`AgentLoop` treats a
sample, a poll and a tick as steps that leave configuration and sockets as they
are, except for the retries of the opens; the steps themselves are `AgentCore`,
`TcpStats`, `FlowAcct` and `IpcServer`. A file that loads and validates is one
bit there; `AgentConfig` says which files that are, and what they mean. Because the agent is single-threaded,
these run one at a time, which is why each can be checked on its own with the
other parts as arbitrary callers.

Definitions that follow a code definition directly and end in a comment
"mutant" are faulty variants of it. Each property has one that breaks it.

### Abstractions

* A line is the number of its push; a configuration file is a record of the
  settings that something reacts to (`AgentLoop`) or the map of its paths to
  their texts (`AgentConfig`), texts being numbers, truth values, modes, names,
  empty or too long; a stream is a sequence of units, each a
  piece of text or the newline that ends a request.
* Time is left out: an armed timer may expire whenever the loop is idle, a
  timeout may fire whenever the awaited thing is not there. `FlowAcct` keeps a
  clock because eviction compares times.
* `FlowAcct` assumes conntrack accounting is on: a DESTROY and a dump record have
  counters, a NEW has none, an UPDATE may or may not (`UpdateCounts`). Connections
  may be older than the sockets. Rates and the "sample" lines at
  the end of a tick read the table and push lines; they change nothing that the
  module keeps.
* In `AgentLoop` a reload is rejected for lack of memory without the effect on
  the ring, which is the subject of `AgentCore`.
* `TcpStats` counts packets and SYNs; FIN, RST and bytes are counted in the same
  statements. No address is 0.0.0.0, for which the code skips the tracking of
  SYNs and the row. A receive may bring several payloads and counts once against
  the budget of a poll.
* `AgentConfig` leaves out the YAML syntax, the sensors and the ring;
  `--demo`, which `main` sets on top of the first load, is in `AgentLoop`.
  `U32` is scaled down because TLC's integers have 32 bits.
* In `Forensics` a connection stands for its addresses; whether a dump is due is
  a free choice; of the lines printed the last is kept, since a join looks at
  one line at a time. An event is decoded with both tuples, one, none or not at
  all (`nfct_feed_input` fails). `Lasting` connections are begun once and stay.
* `HttpPost` leaves out URL parsing and the headers.
* `LiveProbe` leaves out round-trip times, the choice of an interface and the
  demo variants. A host's ICMP sockets are all of one kind, because
  `open_icmp_socket` gets what the kernel's `ping_group_range` allows. No answer
  is so late that the sequence number has come round to that of its ping, which
  takes 65536 pings. Any router and the target may answer a UDP probe with "port
  unreachable" or another "unreachable".

## 3. Runs

All bounds are named constants of the modules; `config` also has the constraint
`LongSequences`.

| Run | Instance | Shows |
|---|---|---|
| `spool` | ring of 2 or 3 lines, event queue of 1, 3 pushes, 2 reconfigurations, 1 failed POST | `RingShape`, `Window`: head, tail and count describe one window that holds the newest lines. `LossAccounted`: each line is held, delivered, dropped, wiped or unwritten. `SinkInOrder`: delivery order, with repetition only after a failed POST. `DropsTold`, `CapMatchesConfig`. `SpoolSpec`: refinement of `LineQueue`. `EveryLineSettles`: no line stays for ever, if flushes keep falling due. 143,316 states |
| `reload` | both builds, 4 file bodies, intervals of 1 and 2 slices, 2 edits, any number of signals | `HupNotLost`; `LoopFollowsConfig`: sensors and timer follow one and the same configuration; `HupHonoured`, `StopExits` under fairness, if POSTs return. 39,109 states |
| `flow_exact` | 3 connections, two of which share a tuple, any of them possibly older than the sockets; 2 slots, two events per tick, updates without counters | `FlowListLive`, `FlowListComplete`: the table is the live conntrack table once everything is read, save for older connections that no dump has visited. `NoDoubleEntry`. `BytesOwn`: once everything is read no row has bytes of another connection, although slots pass from one to the next and a NEW leaves them alone. 8,691,412 states |
| `flow_lossy` | 2 connections, 1 slot, lost events, split dumps, a spool that may be missing | `DestroyIsFinal`. `TeardownKept`: a connection that is gone is reported, was lost by the kernel or for want of a spool, or has its DESTROY still in the socket, and `TeardownReported`: it is reported in the end, even after eviction. 480,589 states |
| `ipc` | `cpe_ctl`, a client that sends pieces, a silent client; 2 slots, buffers of 2 units, 1 unread reply | `StreamIntact`: no piece of a stream is lost, doubled or mixed with another's. `RepliesInOrder`, `RecvHasRoom`. `NoneStranded`: an open connection has a place, and no complete line of it stays in a buffer, where only another `recv` would make the agent look at it. `CtlServed`: `cpe_ctl` goes without an answer only if all slots are taken or no agent runs, and a restart after a crash is reachable. `CtlReturns` under fairness, if POSTs return. 983,091 states |
| `post` | http and https, 2 sends, 3 attempts | `OkMeansStored`; `PostReturns` for http |
| `tcp` | 5 packets out of a set with two remotes per prefix, IPv6 and unparsable ones; tables and SYN ring of 2 | `RowsUnique`, `RowsAddUp`, `RetransExact`, `RemotesCountedOnce`. 2,307,414 states |
| `probe` | target two hops away, traces up to TTL 3 with 2 probes each, calls begun until 2 requests were sent, the answer to the request before the latest may come late, sequence numbers that wrap at 2, both kinds of ICMP socket | `SampleTrue`: a ping or arping sample is about its own request. `TraceTrue`: reached only on the target's last word or on another host's "port unreachable", the former never missed; no gap, no hop after the target, no hop farther than its TTL. `ProbeReturns` under fairness. 816,038 states |
| `config` | 8 file contents at any time, at the start also every assignment of 10 texts to 11 groups of one or two paths; after each of these one edit or reconfiguration, with the 8 contents four in any order; with and without `--config`, `--router-id` short and too long; daemon and Lua | `ConfigIsMeaning`: the configuration in force is what one whole document means, defined setting by setting without the walk over the table, with what was set on top since; a failed load, a rejected change or a failed allocation leaves no mixture. `RefusedIffBad`: a load fails only for a cause, and nothing in force is bad or invalid. The sequences reach a load staged after a failed one, a file replaced between read and apply, a change from Lua between two reloads |
| `forensics` | a connection whose WAN port is given to a second host later; six lasting ones that differ from it in destination port, protocol, WAN port, WAN address, destination host and family, one of which sends any number of updates; events decoded in part or not at all, 1 event of buffer, 1 tick of the clock, skew 0, 2 datagrams in the Wi-Fi socket | `Attribution`: a core record is joined, within the skew, with the lines of exactly the connections that agree with it in family, protocol, WAN address and port and destination host; another connection's only if the destination ports differ, which the code does not compare, or the two were not open together. `WifiFresh`: unless a receive failed, a dump never prints an earlier dump's stations. `EventLogged`, `StopEnds` under fairness, the latter if the events pause. 433,940 states |
| `flow_zombie`, `sigpipe` | minimal | violations, see section 6 |

The cfgs leave out `TypeOK` and the simplest invariants (`UsedCounts`, for one),
which hold on the same instances; where the module has a `*_proofs` module they
are proved, as part of the inductive invariant.

Why the bounds suffice: a ring of two lines is full after two pushes, so three
pushes drop a line and wrap, and two resizes meet a ring in each of these states; one event slot
overruns at the second event; two edits of the file let a second reload meet
what a failed or partial first one left; two connections on one tuple and one
slot force merging and eviction; two slots and three clients fill the server;
a buffer of two units is full after one incomplete line; tables of two rows
evict at the third remote; two requests let the answer to the first come while
the second waits, and a target before the last TTL lets a trace end early; four
edits and reconfigurations let a good, a bad and an unreadable file follow each
other with a change from Lua between; two connections and one tick let a WAN port be
reused within and outside the skew, six more differ from the first in one field each, and a Wi-Fi socket with two datagrams holds
the acknowledgement of the start together with an answer.

`CHECK_DEADLOCK FALSE` is set where the system may stop: the loop exits, every
client has been served, the daemon has ended, the attempts, requests or
reconfigurations are used up. `spool`, `flow_*` and `tcp`
are checked for deadlock.

### Fairness

* `SpoolFlush`: weak fairness of a flush that a callback has come to, strong
  fairness of its success, because a collector or disk that refuses for ever
  leaves nothing to say. That flushes fall due is not fairness but the premise
  `[]<>due` of `EveryLineSettles`: the loop flushes after a sample that went well, after
  TCP lines and after flow work, and a line pushed over the control socket while
  every sample fails and the sensors are idle does stay.
* `LoopPosts`: weak fairness of the callbacks outside a POST, because libuv runs to completion
  what it has begun and repeats both timers; strong fairness of `SampleTimer`,
  because libuv runs expired timers in order of deadline, so that the 200 ms
  timer cannot starve the other. The poll build only needs that its thread goes
  on. Nothing says that a POST ends: `HupHonoured` and `StopExits` have the premise
  `PostsReturn`, which `HttpPost` shows for plain http, which is void for stdout and
  the spool file, and which is an assumption about the collector for https.
* `Forensics`: weak fairness of the daemon's own steps; `poll` returns at its
  timeout of at most a second. Nothing of the kernel, the signals or the faults.
  Updates may come for ever. `StopEnds` has the premise `DrainsEnd`: the inner loop
  reads on as long as they arrive faster than they are printed.
* `FlowAcct`: weak fairness of the steps of a tick and of the kernel's walk. That
  ticks go on means that the thread comes back from its POSTs.
* `IpcPosts`: weak fairness of the poll (the 200 ms timer) outside a POST and of the
  steps of `cpe_ctl` once connected. `CtlReturns` has the premise `PostsReturn`.
  Nothing is assumed of other clients.
* `HttpPost`: weak fairness of the steps of the POST. Nothing of the collector.
* `LiveProbe`: weak fairness of the steps of a call that was begun: `poll`
  returns at its timeout. Nothing of the network.

## 4. Proofs

Every theorem holds for every value of the constants that the module's named
assumption admits; TLC evaluates these assumptions in the runs. The assumptions
give types and say that sizes are not zero. The others are: in `FlowAcct` the
connections are finitely many; in `IpcServer` the clients are too, and a buffer
holds at least two units; in `TcpStats` no packet has the address that stands
for an unused entry of the ring (the code keeps a flag, `flows[].used`, instead);
in `AgentConfig` the empty text is neither a number nor too long; in `AgentLoop` the first file loads, as the agent does not start otherwise.

An invariant of a run is seldom inductive by itself. For each component there is
one inductive invariant; the listed properties follow from it.

**`AgentCore_proofs`.** `IndInv == TypeOK /\ RingShape /\ Window` gives `TypeCorrect`,
`RingShapeHolds`, `WindowHolds`. `Window` needs `RingShape`, because only that makes
the slot at `tail` the one behind the newest line, and lemmas on `%` (`ModWrap`,
`ModLap`, `ModShift`, `ModInjective`), because SMT does not reason about `%` by a
variable. `SpoolRefines` shows step by step that the ring implements `LineQueue`:
each action maps to one of the queue's or to a stutter. `AccountInv` adds where
each line is: `BodiesKnown` (a body given up held consecutive lines, and none that
is still held after a gap) and `SinkKnown` (what the sink has left the ring or was
in a body given up). From it follow `LossAccountedHolds`, `SinkInOrderHolds`,
`DropsToldHolds`, `CapMatchesConfigHolds`. `LoopRunsCore` carries all of this over to
`SpoolFlush`: each of its steps is one of the core or leaves the core alone.

**`AgentLoop_proofs`**, for any set of builds.
`IndInv == TypeOK /\ FileAhead /\ HupNotLost /\ SensorsFollowConfig /\ TimerFollowsConfig`.
`FileAhead`, that neither the last signal nor the last read is ahead of the file,
is what `HupNotLost` needs at the step that reads the file. Theorems `LoopTypes`,
`HupNeverLost`, `SensorsFollow`, `TimerFollows`, and the last two together `LoopFollows`.
`PostingLoopRuns` carries them over to `LoopPosts`, so safety does not depend on POSTs returning.

The same module holds the proofs about `HttpPost`. `PostInv` says what each stage
of the client implies: a 2xx answer on the way, or a collector that has stored,
means that this attempt is stored. `OkMeansStoredHolds`.

**`AgentConfig_proofs`.** `LoadIsMeaning` is about the algorithm: `load_from_ctx`
succeeds exactly for the documents without a bad text, and then returns what the
document means, for every document. It is an induction over the 70 entries of
`g_paths`, carried out with the least-number principle of `WellFoundedInduction`: `Read`
says that after `k` turns the result is what the first `k` paths mean (`MeansTo`), or
that one of them is bad. It rests on facts about the table, each proved from the table itself: every entry names a setting
of `Defaults` and a known kind (`TableFields`, `TableKinds`), and the options that
turn verification off come after the ones that turn it on (`TableOrder`), without
which a CA file could undo them. `ConfigInv` is the invariant of the running agent:
what is in force and what is staged are `Whole`, that is the meaning of one
document that is not bad with the later changes on top, without the zeros
(`NoZeros`) that `apply_config` would replace; and a refusal has its cause
(`LoadRefused`). `ConfigIsMeaningHolds`, `RefusedIffBadHolds`. `RefusedIffBad` is
limited to the moments when no load is staged, because between the read of a good
file and its `apply_config` the failure on record is still that of an earlier
load; it takes four operations to get there, and the run goes that far.

**`FlowAcct_proofs`.** `FlowInv` adds to the properties `RowsKnown` (a row's tuple is
that of its id, without which a merge by tuple could pair two ids) and `TornDown`
(a DESTROY in the queue carries the final count, is the only one of its connection
and is not yet reported). `UsedCountsHolds`, `NoDoubleEntryHolds`,
`DestroyIsFinalHolds` hold with lost events and cut dumps. `FlowListLiveHolds`
assumes neither happens and `emit_destroy` is on (`~Lossy`, `~SplitDump`,
`EmitDestroy`), which the runs show to be necessary: `LiveInv` says that whatever
is in a queue or a row is live or has its DESTROY still to come.
`FlowListCompleteHolds` assumes in addition a slot for every tuple
(`Cardinality(Tuples) <= MaxFlows`), since otherwise rows are evicted: `CompInv` says
that a live connection has its NEW event still to come, or a row that nothing in a
queue can take over. The slot count is a pigeonhole argument over rows with
different tuples; connections older than the sockets are excepted until a dump
has visited them. `BytesOwnHolds` has the same assumptions. `BytesInv` says that every
counted record under way was counted for the connection it names, and that a
row's bytes are its own unless the row's connection has its DESTROY still to come,
which will free the row; counters only grow, so reading a record late does no
harm. Without a slot for every tuple it is false of the code: an evicted slot
shows its victim's bytes until a record with counters comes. `TeardownKeptHolds` is the safety half of `TeardownReported`: what is left to
liveness is only that the socket is read.

**`IpcServer_proofs`.** `IpcInv`: each connection has one place (`Owners`), what a
client sent is what was consumed, buffered and on the way (`Streams`), an unused
connection is blank, the socket file is live exactly while the agent runs
(`PathLive`), and outside the parsing of lines a buffer has room (`BufRoom`).
`StreamIntactHolds`, `RepliesInOrderHolds`, `RecvHasRoomHolds`, and the action
property `CtlServedHolds`, which also needs that `cpe_ctl` sends one whole line
(`CtlLine`). `NoneStrandedHolds`, the safety half of `CtlReturns`, adds `OpenInPlace` and
`LinesHandled`: outside the loop over the lines no buffer holds a complete one.
`PostingServerRuns` carries the invariants over to `IpcPosts`.

**`TcpStats_proofs`.** `TcpInv == TypeOK /\ RowsUnique /\ RingInv`. `RingInv` relates
the ring to the tuples seen: what it holds was seen, each SYN is entered or
counted, and while all tuples fit none was overwritten. `RowsUniqueHolds`,
`RetransExactHolds`. On top of it `SumsInv == RowsAddUp /\ RemotesCountedOnce /\
RowsBegun`; `RowsBegun`, that a row of a remote has a packet, makes the first packet
of a row the sign of a new row. The sums are recursive functions; what they do
when a row changes, is added or is written over (`SumChange`, `SumLonger`,
`SumEntered`) is an induction along the table, carried out on the set of places
up to which it holds with the least-number principle of `WellFoundedInduction`,
because the induction theorems over operators cannot be instantiated.
`RowsAddUpHolds`, `RemotesCountedOnceHolds`.

**`LiveProbe_proofs`.** `ProbeInv`: the call, its stage and its socket agree
(`Phase`); the latest request is the call's own, and a ping in flight has the
awaited sequence number only if it is that request (`OwnRequest`); so a waiting
message fits what is asked (`WaitingFits`), and an answer that came still waits
(`HeardWaits`). `HopsTrue` adds to `TraceTrue` that the target's last word came at the TTL in
hand and that the hop under way is no farther than it. `SampleTrueHolds`, `TraceTrueHolds`.

**`Forensics_proofs`.** `ForensicsInv == TypeOK /\ WifiInv /\ NatInv`. Until a receive
fails, only the last datagram in the Wi-Fi socket ends a dump and what is left of
an earlier one has no stations (`WifiInv`); lines and queued events are of
connections that were begun, and no two open connections have the same reply
tuple (`NatInv`). With it, two connections that agree in all that is compared and
in the destination port cannot both be open. `AttributionHolds`, `WifiFreshHolds`.

Only model-checked is liveness, which the prover does not do: `EveryLineSettles`,
`HupHonoured`, `StopExits`, `TeardownReported`, `CtlReturns`, `PostReturns`,
`ProbeReturns`, `EventLogged`, `StopEnds`. Every invariant and every safety action
property that a passing run checks is proved. For some of the liveness properties the part
that is safety is proved separately: `LossAccounted` for `EveryLineSettles`, `HupNotLost` for
`HupHonoured`, `TeardownKept` for `TeardownReported`, `NoneStranded` for `CtlReturns`.

## 5. What is not modelled

`components` gives a reason for each part. In the modelled parts these are left
out: `--once` and `max_ticks`; getters and setters of the latest Wi-Fi and trace
results; overlapping agents on one socket path, where the old one's destroy
unlinks the new one's socket (`ipc_server.c:719`); lengths in bytes (a reply of
exactly 8191 bytes is sent without its newline); flow accounting with
`emit_destroy` off, where a destroyed connection keeps its slot until it is
evicted (`flow_acct.c:354`); `forensicsd --demo`.

`cpe_ctl`, its Lua and its ClickHouse queries, Wi-Fi statistics, BMP and IPFIX
ingest are conversions without state between calls; there is nothing to
interleave, and their formats are better served by tests.

## 6. Findings

Each is a run that TLC ends with a counterexample, quoted with the contradicted
line in `PROJECT.json`.

1. `flow_zombie`: the drain of a dump gives up after 50 ms of silence. A record
   left in the socket can be read after the connection's DESTROY; its row stays
   in `flow_list` until it is evicted.
2. `sigpipe`: `plain_http_post` sends without `MSG_NOSIGNAL` and SIGPIPE is not
   ignored; a collector that closes early ends the agent.

Noticed without a run, in the agent:

* `--demo` is applied once, after the first load; a SIGHUP reload starts from the
  file again and the samples become live, although
  `docs/guides/cpe-agent-features.md:50` says "Force synthetic probes (overrides
  live YAML)".
* A `flow_list` of 64 rows, the documented limit
  (`docs/guides/cpe-agent-flow-acct.md:57`), outgrows the reply buffer at about
  45 rows and is answered by an error (`ipc_server.c:463`).
* A changed `join_update`, `nflog_size` or `ipc.socket` is not applied by a
  reload while the socket is open (`agent_core.c:251-307`).
* `cpe.reload()` without a path reads nothing again, and `cpe.reload(path)`
  drops `--router-id` (`lua_bind.c:751`); `cpe.tcp_open(group)` casts the group
  to 16 bits (`lua_bind.c:1036`).
* `flow_dump_interval_ms: 0` does not disable the dump, although
  `include/cpe_agent_config.h:69` says "0 → 200; 0 disables active dump".
* A read error of the configuration file counts as its end
  (`config_yaml.c:545`): what was read so far, or the defaults, are applied.
* Nothing sets `slots[0].waiting`, so `provide_buffer` refuses every buffer
  (`agent_core.c:351`), although `cpe_agent.h:123` offers it as the answer to
  NEED_ALLOC.
* Over a raw ICMP socket neither ping nor trace compares the identifier, so
  another program's echo reply with the same sequence number counts, and the ICMP
  fallback of a trace takes a router's "unreachable" for the target
  (`live_trace.c:459`).
* Over UDP any host's "port unreachable", a firewall's for instance, ends a trace
  as if the target had answered: the offender is not compared with the target
  (`live_trace.c:295`); the target's other "unreachable" codes count as a hop.
* An evicted slot of the flow table keeps its victim's `flow_id` and `first_seen_ms`,
  and its bytes until a record with counters comes (`flow_acct.c:318-350`); a
  `new` line of a reused tuple can show the bytes of the connection before.
* Lines pushed by `tcp_emit` over the control socket are not flushed
  (`ipc_server.c:607`); they wait for the next flush of a timer.
* Neither the handshake nor the read of an HTTPS POST has a timeout
  (`tls_egress.c:450`, `tls_egress.c:501`): a silent collector stops the whole agent,
  SIGTERM under libuv included; `tcp_emit` cuts the prefix
  lines to the number of remotes.

In `forensicsd` and the correlation:

* `nf_flows_correlate` does not compare the destination port, although
  `include/netforensics.h:47` speaks of a "WAN 5-tuple window"; a core
  observation is never IPv6, so IPv6 connections are never joined; the printed
  NAT lines carry no destination, so a join over lines has less to go by.
* A DESTROY of a protocol without ports is printed as its id alone.
* The inner receive loop does not look at `g_stop` (`forensicsd.c:357`).
* The acknowledgement of GETFAMILY stays in the nl80211 socket: `poll` returns at
  once until the first dump. After a failed receive the rest of an answer stays
  there too, later dumps print the stations of the one before, and the loop does
  not sleep between them.
* Skews are differences of `CLOCK_REALTIME`, which may step.

## 7. Plan

Done: all modules of section 2 and the proofs of section 4. What would come next:

1. The parts of `lua_bind.c` and `ipc_server.c` that only read, if a property about
   their answers is wanted (for instance that `flow_list` and `tcp_stats` show one
   state and not a mixture of two ticks, which today follows from the single thread).
2. A safety half for the remaining liveness properties: `StopExits`, `PostReturns`,
   `ProbeReturns`, `EventLogged`, `StopEnds`.
