------------------------------ MODULE TcpStats ------------------------------
(***************************************************************************)
(* agent/tcp_stats.c: the counters the agent keeps of the TCP packets that *)
(* NFLOG hands it: totals, one row per remote address, one row per network *)
(* prefix, and a ring of recent SYNs that tells a retransmission from a    *)
(* new connection.  Both tables have a fixed size and evict their least    *)
(* used row.                                                               *)
(*                                                                         *)
(* A packet is its addresses, its ports, whether it is a SYN, and whether  *)
(* it is IPv6; FIN, RST and bytes are counted exactly as packets are and   *)
(* left out, as are the float that ranks remotes and the text of a line.   *)
(***************************************************************************)
EXTENDS Naturals, Sequences, FiniteSets, FiniteSetsExt

CONSTANTS
  Packets,      \* the payloads NFLOG may deliver
  Private,      \* addresses of the private ranges
  Lengths,      \* values of tcp_stats.prefix_len
  PrefixOf,     \* length -> address -> network
  RemoteMax,    \* CPE_TCP_REMOTE_MAX (256)
  PrefixMax,    \* CPE_TCP_PREFIX_MAX (128)
  FlowsMax,     \* SYNs remembered (64)
  TopN,         \* emit_top_n
  PollMax,      \* messages one poll reads (128 in a tick, 64 on request)
  MaxPackets    \* bound on the packets delivered

(* No packet has the address that stands for an unused entry of the ring:  *)
(* the code keeps a flag, flows[].used, for that.  Nor is any address      *)
(* 0.0.0.0, which apply_packet neither looks up nor counts in a prefix.    *)
ASSUME TcpAssumption ==
  /\ \A p \in Packets : p.kind \in {"tcp", "other", "short"}
                        /\ p.syn \in BOOLEAN /\ p.v6 \in BOOLEAN /\ p.src # "none"
  /\ {RemoteMax, PrefixMax, FlowsMax, TopN, PollMax} \subseteq Nat \ {0}
  /\ MaxPackets \in Nat

VARIABLES
  pc,         \* "idle", or polling in a tick or for a request
  budget,     \* messages this poll may still read
  cfgLen,     \* the configured prefix_len
  plen,       \* st->prefix_len
  total,      \* pkt_total, syn_total, syn_retrans_total
  intake,     \* pkts_parsed, pkts_non_tcp, pkts_parse_fail
  remotes,    \* remotes[0 .. remote_count-1]
  prefixes,   \* prefixes[0 .. prefix_count-1]
  flows,      \* flows[]: the tuples of recent SYNs
  flowI,      \* flow_i
  emitted,    \* lines the last emission pushed
  seen,       \* history: packets delivered so far
  v4,         \* history: IPv4 packets, and IPv4 SYNs, since the last reset
  synced,     \* history: the tuples of those SYNs
  evicted     \* history: "remote" and "prefix" rows evicted since then

countVars == <<total, intake, remotes, prefixes, flows, flowI, v4, synced, evicted>>
vars == <<pc, budget, cfgLen, plen, countVars, emitted, seen>>

Unused == [src |-> "none", dst |-> "none", ports |-> 0]
Zero == [pkt |-> 0, syn |-> 0, retr |-> 0]

NoIntake == [parsed |-> 0, nonTcp |-> 0, fail |-> 0]
NoFlows == [i \in 0..(FlowsMax - 1) |-> Unused]

Init ==
  /\ pc = "idle" /\ budget = 0
  /\ cfgLen \in Lengths /\ plen = cfgLen
  /\ total = Zero /\ intake = NoIntake
  /\ remotes = <<>> /\ prefixes = <<>>
  /\ flows = NoFlows /\ flowI = 0
  /\ v4 = [pkt |-> 0, syn |-> 0] /\ synced = {} /\ evicted = {}
  /\ emitted = 0 /\ seen = 0

(***************************************************************************)
(* apply_packet.                                                           *)
(***************************************************************************)
(* The public side is the remote one; of two alike, the destination. *)
Remote(p) ==
  IF ~p.v6 /\ p.dst \in Private /\ p.src \notin Private THEN p.src ELSE p.dst

Tuple(p) == [src |-> p.src, dst |-> p.dst, ports |-> p.ports]

(* A SYN, or SYN-ACK, of IPv4 is looked up among the recent ones. *)
Tracked(p) == p.syn /\ ~p.v6
Retrans(p) == Tracked(p) /\ \E i \in DOMAIN flows : flows[i] = Tuple(p)

(* flow_is_retrans: a tuple not found takes the place of the oldest. *)
Remember(p) ==
  IF Tracked(p) /\ ~Retrans(p)
  THEN /\ flows' = [flows EXCEPT ![flowI] = Tuple(p)]
       /\ flowI' = (flowI + 1) % FlowsMax
  ELSE UNCHANGED <<flows, flowI>>

One(b) == IF b THEN 1 ELSE 0

Bumped(row, p) ==
  [row EXCEPT !.pkt = @ + 1, !.syn = @ + One(p.syn), !.retr = @ + One(Retrans(p))]

RowsButLast(table, key) == {i \in 1..(Len(table) - 1) : table[i].key = key}   \* mutant

(* remote_index and prefix_index: the row with this key, else a new one at *)
(* the end, else the first of the rows with the fewest packets.            *)
Rows(table, key) == {i \in 1..Len(table) : table[i].key = key}
Fewest(table) == {i \in 1..Len(table) : \A j \in 1..Len(table) : table[i].pkt <= table[j].pkt}

Index(table, key, max) ==
  IF Rows(table, key) # {} THEN Min(Rows(table, key))
  ELSE IF Len(table) < max THEN Len(table) + 1
  ELSE Min(Fewest(table))

Evicts(table, key, max) == Rows(table, key) = {} /\ Len(table) >= max

(* The row that is to be bumped: the one found, or an empty one. *)
RowFor(table, key, max, fresh) ==
  IF Rows(table, key) # {} THEN table[Index(table, key, max)] ELSE fresh

Put(table, i, row) == [k \in 1..(IF i > Len(table) THEN i ELSE Len(table)) |->
                         IF k = i THEN row ELSE table[k]]

FreshRemote(ip) == [key |-> ip, pkt |-> 0, syn |-> 0, retr |-> 0]
FreshPrefix(px) == [key |-> px, pkt |-> 0, syn |-> 0, retr |-> 0, remotes |-> 0]

RemoteRow(p) ==
  Bumped(RowFor(remotes, Remote(p), RemoteMax, FreshRemote(Remote(p))), p)

FirstTouchAny(p) == TRUE   \* mutant

(* The first packet of a remote's row counts that remote in its prefix. *)
FirstTouch(p) == RemoteRow(p).pkt = 1

(* Mutant: the retransmission is not counted in the prefix. *)
PrefixRowNoRetrans(p, px) ==
  LET row == RowFor(prefixes, px, PrefixMax, FreshPrefix(px))
  IN  [row EXCEPT !.pkt = @ + 1, !.syn = @ + One(p.syn), !.remotes = @ + One(FirstTouch(p))]

PrefixRow(p, px) ==
  LET row == Bumped(RowFor(prefixes, px, PrefixMax, FreshPrefix(px)), p)
  IN  [row EXCEPT !.remotes = @ + One(FirstTouch(p))]

ApplyPacket(p) ==
  LET ip == Remote(p)
      px == PrefixOf[plen][ip]
  IN  /\ total' = Bumped(total, p)
      /\ Remember(p)
      /\ remotes' = Put(remotes, Index(remotes, ip, RemoteMax), RemoteRow(p))
      /\ prefixes' = IF p.v6 THEN prefixes
                     ELSE Put(prefixes, Index(prefixes, px, PrefixMax), PrefixRow(p, px))
      /\ v4' = [pkt |-> v4.pkt + One(~p.v6), syn |-> v4.syn + One(Tracked(p))]
      /\ synced' = IF Tracked(p) THEN synced \cup {Tuple(p)} ELSE synced
      /\ evicted' = evicted
           \cup (IF Evicts(remotes, ip, RemoteMax) THEN {"remote"} ELSE {})
           \cup (IF ~p.v6 /\ Evicts(prefixes, px, PrefixMax) THEN {"prefix"} ELSE {})

(* What does not parse is counted and changes no table. *)
Skip == UNCHANGED <<total, remotes, prefixes, flows, flowI, v4, synced, evicted>>

(* A payload is counted as parsed, and as failed or non-TCP if it is. *)
Take(p, nonTcp) ==
  /\ seen < MaxPackets
  /\ seen' = seen + 1
  /\ intake' = [parsed |-> intake.parsed + 1,
                nonTcp |-> intake.nonTcp + One(nonTcp),
                fail   |-> intake.fail + One(p.kind # "tcp" /\ ~nonTcp)]
  /\ IF p.kind = "tcp" THEN ApplyPacket(p) ELSE Skip
  /\ UNCHANGED <<cfgLen, plen, emitted>>

(***************************************************************************)
(* The operations.                                                         *)
(***************************************************************************)
(* A reload; the tick picks it up. *)
Reload ==
  /\ pc = "idle"
  /\ cfgLen' \in Lengths
  /\ UNCHANGED <<pc, budget, plen, countVars, emitted, seen>>

(* cpe_agent_tcp_tick refreshes the settings, then polls.  The tables stay *)
(* as they are when the prefix length changes.                             *)
TickStart ==
  /\ pc = "idle"
  /\ pc' = "tick" /\ budget' = PollMax
  /\ plen' = cfgLen
  /\ UNCHANGED <<cfgLen, countVars, emitted, seen>>

(* The request tcp_poll polls with the settings of the last tick. *)
PollRequest ==
  /\ pc = "idle"
  /\ pc' = "request" /\ budget' = PollMax
  /\ UNCHANGED <<cfgLen, plen, countVars, emitted, seen>>

(* on_nflog_payload; other protocols are told from truncated packets.  One *)
(* receive may bring several payloads and is charged when it is through.   *)
OnPayload(p) ==
  /\ pc # "idle" /\ budget > 0
  /\ budget' \in {budget, budget - 1}
  /\ Take(p, p.kind = "other")
  /\ UNCHANGED pc

(* cpe_agent_tcp_feed_payload does not tell them apart. *)
FeedPayload(p) ==
  /\ pc = "idle"
  /\ Take(p, FALSE)
  /\ UNCHANGED <<pc, budget>>

Least(a, b) == IF a <= b THEN a ELSE b

(* cpe_agent_tcp_emit: a summary, the busiest remotes, the busiest         *)
(* prefixes; the number of prefixes is cut to that of the remotes.         *)
Lines ==
  LET n == Least(TopN, Len(remotes))
  IN  1 + n + Least(n, Len(prefixes))

(* The queue is empty or the budget spent; a tick emits if it is time. *)
PollEnd ==
  /\ pc # "idle"
  /\ pc' = "idle" /\ budget' = 0
  /\ emitted' \in (IF pc = "tick" THEN {emitted, Lines} ELSE {emitted})
  /\ UNCHANGED <<cfgLen, plen, countVars, seen>>

(* The request tcp_emit. *)
EmitRequest ==
  /\ pc = "idle"
  /\ emitted' = Lines
  /\ UNCHANGED <<pc, budget, cfgLen, plen, countVars, seen>>

(* Mutant: the remembered SYNs survive the reset. *)
ResetKeepsFlows ==
  /\ pc = "idle"
  /\ total' = Zero /\ intake' = NoIntake
  /\ remotes' = <<>> /\ prefixes' = <<>>
  /\ v4' = [pkt |-> 0, syn |-> 0] /\ synced' = {} /\ evicted' = {}
  /\ UNCHANGED <<pc, budget, cfgLen, plen, emitted, seen, flows, flowI>>

(* cpe_agent_tcp_reset, the request tcp_reset. *)
Reset ==
  /\ pc = "idle"
  /\ total' = Zero /\ intake' = NoIntake
  /\ remotes' = <<>> /\ prefixes' = <<>>
  /\ flows' = NoFlows /\ flowI' = 0
  /\ v4' = [pkt |-> 0, syn |-> 0] /\ synced' = {} /\ evicted' = {}
  /\ UNCHANGED <<pc, budget, cfgLen, plen, emitted, seen>>

Next ==
  \/ Reload \/ TickStart \/ PollRequest \/ PollEnd \/ EmitRequest \/ Reset
  \/ \E p \in Packets : OnPayload(p) \/ FeedPayload(p)

Spec == Init /\ [][Next]_vars
-----------------------------------------------------------------------------
(* What the rows are about. *)
Addresses == {p.src : p \in Packets} \cup {p.dst : p \in Packets}
Networks == {PrefixOf[len][ip] : len \in Lengths, ip \in Addresses}
Tuples == {Tuple(p) : p \in Packets}

(* Every variable holds a value of its type, and no table outgrows its     *)
(* array.                                                                  *)
TypeOK ==
  /\ pc \in {"idle", "tick", "request"} /\ budget \in 0..PollMax
  /\ cfgLen \in Lengths /\ plen \in Lengths
  /\ total \in [pkt : Nat, syn : Nat, retr : Nat]
  /\ intake \in [parsed : Nat, nonTcp : Nat, fail : Nat]
  /\ remotes \in Seq([key : Addresses, pkt : Nat, syn : Nat, retr : Nat])
  /\ prefixes \in Seq([key : Networks, pkt : Nat, syn : Nat, retr : Nat, remotes : Nat])
  /\ Len(remotes) <= RemoteMax /\ Len(prefixes) <= PrefixMax
  /\ flows \in [0..(FlowsMax - 1) -> Tuples \cup {Unused}]
  /\ flowI \in 0..(FlowsMax - 1)
  /\ v4 \in [pkt : Nat, syn : Nat] /\ synced \subseteq Tuples
  /\ seen \in 0..MaxPackets /\ evicted \subseteq {"remote", "prefix"}
  /\ emitted \in 0..(1 + 2 * TopN)

(* The columns of a table, and the sum of a column. *)
Pkts(table) == [i \in 1..Len(table) |-> table[i].pkt]
Syns(table) == [i \in 1..Len(table) |-> table[i].syn]
Retrs(table) == [i \in 1..Len(table) |-> table[i].retr]
Remotes(table) == [i \in 1..Len(table) |-> table[i].remotes]

SumOf(col) ==
  LET upTo[n \in 0..Len(col)] == IF n = 0 THEN 0 ELSE upTo[n - 1] + col[n]
  IN  upTo[Len(col)]

(* No address and no prefix has two rows, so tcp_by_ip and tcp_by_prefix   *)
(* find all there is about it; eviction and changes of the prefix length   *)
(* do not break that.                                                      *)
RowsUnique ==
  /\ \A i, j \in 1..Len(remotes) : remotes[i].key = remotes[j].key => i = j
  /\ \A i, j \in 1..Len(prefixes) : prefixes[i].key = prefixes[j].key => i = j

(* The rows add up to the totals in every counter as long as nothing was   *)
(* evicted, also when the prefix length changed in between; after an       *)
(* eviction they never exceed them.                                        *)
RowsAddUp ==
  LET rp == SumOf(Pkts(remotes))
      rs == SumOf(Syns(remotes))
      rr == SumOf(Retrs(remotes))
      pp == SumOf(Pkts(prefixes))
      ps == SumOf(Syns(prefixes))
      pr == SumOf(Retrs(prefixes))
  IN  /\ rp <= total.pkt /\ rs <= total.syn /\ rr <= total.retr
      /\ pp <= v4.pkt /\ ps <= v4.syn /\ pr <= total.retr
      /\ "remote" \notin evicted => <<rp, rs, rr>> = <<total.pkt, total.syn, total.retr>>
      /\ "prefix" \notin evicted => <<pp, ps, pr>> = <<v4.pkt, v4.syn, total.retr>>

(* The first SYN of a 4-tuple is never taken for a retransmission, and     *)
(* every later one is, as long as the ring of recent SYNs holds all the    *)
(* tuples; beyond that the count is only ever too low.                     *)
RetransExact ==
  LET repeats == v4.syn - Cardinality(synced)
  IN  /\ total.retr <= repeats
      /\ Cardinality(synced) <= FlowsMax => total.retr = repeats

(* The prefixes together never claim more remotes than there are rows,     *)
(* unless a remote was evicted and counted again when it came back.        *)
RemotesCountedOnce ==
  "remote" \notin evicted => SumOf(Remotes(prefixes)) <= Len(remotes)
=============================================================================
