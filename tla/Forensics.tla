------------------------------ MODULE Forensics ------------------------------
(***************************************************************************)
(* forensicsd --netlink (cpe/forensicsd.c) over its two netlink sockets    *)
(* (src/nfct_netlink.c, src/nl80211_netlink.c), and the join of its NAT    *)
(* observations with the flow records of a core router                     *)
(* (src/flow_correlate.c).  The kernel's NAT, conntrack and nl80211 and    *)
(* the decoders of libnetdiag are external.                                *)
(*                                                                         *)
(* A connection stands for its addresses, given by Flow; an event is one   *)
(* datagram of the conntrack socket.  Of the lines printed the last one is *)
(* kept, with the event it came from: a join looks at one line at a time.  *)
(***************************************************************************)
EXTENDS Naturals, Sequences, FiniteSets

CONSTANTS
  Conns,        \* connections of the customer's hosts
  Lasting,      \* those that are older than the daemon and outlive it
  Flow,         \* their addresses: see FlowType
  Updated,      \* those whose UPDATEs are received: none without --update
  MaxSkew,      \* max_skew_ms of nf_flows_correlate
  QueueLen,     \* events that the receive buffer holds
  MaxClock,     \* bound on the clock
  MaxWifiQueue  \* bound on datagrams that the nl80211 socket holds

(* A LAN source, the WAN source after NAT, and the destination, which is   *)
(* always known; 0 stands for the port of a protocol without ports,        *)
(* hasStart for a flow record that carries the start of the flow.          *)
FlowType ==
  [ipv6 : BOOLEAN, proto : Nat \ {0}, lan : STRING, lanPort : Nat, wan : STRING,
   wanPort : Nat, dst : STRING \ {""}, dstPort : Nat, hasStart : BOOLEAN]

(* What NAT tells connections apart by. *)
ReplyTuple(c) ==
  <<Flow[c].ipv6, Flow[c].proto, Flow[c].wan, Flow[c].wanPort, Flow[c].dst, Flow[c].dstPort>>

ASSUME ForensicsAssumption ==
  /\ Flow \in [Conns -> FlowType] /\ Lasting \subseteq Conns /\ Updated \subseteq Conns
  /\ \A c, d \in Lasting : c # d => ReplyTuple(c) # ReplyTuple(d)
  /\ {MaxSkew, MaxClock} \subseteq Nat
  /\ {QueueLen, MaxWifiQueue} \subseteq Nat \ {0}

VARIABLES
  conn,     \* conntrack: "none", "open" or "closed"
  opened,   \* the start of a connection, if its flow record carries one
  clock,    \* CLOCK_REALTIME
  pc,       \* where run_netlink is
  gStop,    \* g_stop
  nq,       \* datagrams of the conntrack socket
  wifi,     \* wfd >= 0
  wq,       \* datagrams of the nl80211 socket
  revents,  \* what poll returned: "none", "wifi", "nfct" or "error"
  line,     \* the last line about NAT, with its event and observation
  failed    \* history: a receive from the nl80211 socket failed

kernelVars == <<conn, opened, clock>>
wifiVars   == <<wifi, wq, failed>>
vars == <<conn, opened, clock, pc, gStop, nq, wifi, wq, revents, line,
          failed>>

-----------------------------------------------------------------------------
(***************************************************************************)
(* Observations.                                                           *)
(***************************************************************************)
NoObs == [ok |-> FALSE]

Unset == [ok |-> TRUE, fromCpe |-> TRUE, ipv6 |-> FALSE, proto |-> 0, src |-> "", srcPort |-> 0,
          wan |-> "", wanPort |-> 0, dst |-> "", ts |-> 0, event |-> ""]

(* nf_obs_from_nfct: a DESTROY may carry nothing but the id; anything else *)
(* needs both tuples.                                                      *)
ObsFromNfct(e, ts) ==
  LET f == Flow[e.conn]
      o == [Unset EXCEPT !.ts = ts, !.event = e.event]
  IN  CASE e.tuples = "both" -> [o EXCEPT !.ipv6 = f.ipv6, !.proto = f.proto, !.src = f.lan,
                                          !.srcPort = f.lanPort, !.wan = f.wan,
                                          !.wanPort = f.wanPort, !.dst = f.dst]
        [] e.tuples = "none" /\ e.event = "DESTROY" -> o
        [] OTHER -> NoObs

(* nf_obs_from_ipfix: the record has a 5-tuple of IPv4 addresses. *)
ObsFromIpfix(c, fallback) ==
  LET f == Flow[c]
  IN  [Unset EXCEPT !.fromCpe = FALSE, !.proto = f.proto, !.src = f.wan, !.srcPort = f.wanPort,
                    !.dst = f.dst, !.ts = IF f.hasStart THEN opened[c] ELSE fallback]

Near(t, u) == IF t > u THEN t - u <= MaxSkew ELSE u - t <= MaxSkew

(* Mutant: the port before NAT is compared. *)
CorrelateLanPort(cpe, core) ==
  /\ cpe.ipv6 = core.ipv6 /\ cpe.proto = core.proto
  /\ cpe.wan = core.src /\ cpe.srcPort = core.srcPort
  /\ cpe.dst # "" /\ (core.dst # "" \/ cpe.ipv6) => cpe.dst = core.dst
  /\ Near(cpe.ts, core.ts)

(* nf_flows_correlate: family, protocol, WAN source, destination host when *)
(* both know it (for IPv6, when the CPE does), and time; the destination   *)
(* port takes no part.                                                     *)
Correlate(cpe, core) ==
  /\ cpe.ipv6 = core.ipv6 /\ cpe.proto = core.proto
  /\ cpe.wan = core.src /\ cpe.wanPort = core.srcPort
  /\ cpe.dst # "" /\ (core.dst # "" \/ cpe.ipv6) => cpe.dst = core.dst
  /\ Near(cpe.ts, core.ts)

(* nf_obs_format: a DESTROY without ports is printed as its id. *)
Format(o) ==
  IF o.event = "DESTROY" /\ o.srcPort = 0 /\ o.wanPort = 0 THEN "id" ELSE "nat"

(* Mutant: nothing is printed for an event that is no observation. *)
EmitEventsDecoded(e) ==
  LET o == ObsFromNfct(e, clock)
  IN  line' = IF o.ok THEN [of |-> e, kind |-> Format(o), obs |-> o] ELSE line

(* emit_nfct_events: one line for each event, raw if it is no observation; *)
(* a datagram that nfct_feed_input rejects yields none.                    *)
EmitEvents(e) ==
  LET o == ObsFromNfct(e, clock)
  IN  line' = IF e.tuples = "garbled" THEN line
              ELSE [of |-> e, kind |-> IF o.ok THEN Format(o) ELSE "raw", obs |-> o]

-----------------------------------------------------------------------------
Init ==
  /\ conn = [c \in Conns |-> IF c \in Lasting THEN "open" ELSE "none"] /\ opened = [c \in Conns |-> 0] /\ clock = 0
  /\ pc = "open"
  /\ gStop = FALSE
  /\ nq = << >>
  /\ wifi = FALSE /\ wq = << >> /\ failed = FALSE
  /\ revents = "none"
  /\ line = [kind |-> "none"]

(***************************************************************************)
(* The kernel.  With NETLINK_NO_ENOBUFS an event that finds the receive    *)
(* buffer full is lost without an error.  NAT gives no two connections     *)
(* that are open the same WAN source towards the same host and port.       *)
(***************************************************************************)
Listening == pc \notin {"open", "exited"}

Deliver(e) ==
  nq' = IF Listening /\ Len(nq) < QueueLen THEN Append(nq, e) ELSE nq

(* Every event has an id; the decoder may miss one of the tuples or both   *)
(* (which makes a difference for a DESTROY), or reject the datagram.       *)
Decoded(event) == {"both", "one", "garbled"} \cup IF event = "DESTROY" THEN {"none"} ELSE {}
Event(c, event, tuples) == [conn |-> c, event |-> event, tuples |-> tuples]

OpenConn(c) ==
  /\ conn[c] = "none"
  /\ \A d \in Conns : conn[d] = "open" => ReplyTuple(d) # ReplyTuple(c)
  /\ conn' = [conn EXCEPT ![c] = "open"]
  /\ opened' = [opened EXCEPT ![c] = IF Flow[c].hasStart THEN clock ELSE 0]
  /\ \E tuples \in Decoded("NEW") : Deliver(Event(c, "NEW", tuples))
  /\ UNCHANGED <<clock, pc, gStop, wifiVars, revents, line>>

UpdateConn(c) ==
  /\ c \in Updated /\ conn[c] = "open"
  /\ Deliver(Event(c, "UPDATE", "both"))
  /\ UNCHANGED <<conn, opened, clock, pc, gStop, wifiVars, revents, line>>

CloseConn(c) ==
  /\ conn[c] = "open" /\ c \notin Lasting
  /\ conn' = [conn EXCEPT ![c] = "closed"]
  /\ \E tuples \in Decoded("DESTROY") : Deliver(Event(c, "DESTROY", tuples))
  /\ UNCHANGED <<opened, clock, pc, gStop, wifiVars, revents, line>>

(* Time 0 is the daemon's start; a connection may be older. *)
Tick ==
  /\ Listening /\ clock < MaxClock
  /\ clock' = clock + 1
  /\ UNCHANGED <<conn, opened, pc, gStop, nq, wifiVars, revents, line>>

(* on_sig.  A signal interrupts a poll that has begun; just before it, and *)
(* anywhere else, the signal is only noted.                                *)
Signal ==
  /\ pc \notin {"open", "openWifi", "exited"}
  /\ gStop' = TRUE
  /\ pc' \in {pc} \cup IF pc = "poll" THEN {"loop"} ELSE {}
  /\ UNCHANGED <<kernelVars, nq, wifiVars, revents, line>>

-----------------------------------------------------------------------------
(***************************************************************************)
(* run_netlink.  Without conntrack there is nothing to do; without nl80211 *)
(* it goes on.  A signal ends the process until the handlers are in place. *)
(***************************************************************************)
OpenFails ==
  /\ pc \in {"open", "openWifi"}
  /\ pc' = "exited"
  /\ UNCHANGED <<kernelVars, gStop, nq, wifiVars, revents, line>>

OpenNfct ==
  /\ pc = "open"
  /\ pc' = "openWifi"
  /\ UNCHANGED <<kernelVars, gStop, nq, wifiVars, revents, line>>

(* ctrl_resolve_family: GETFAMILY is sent with NLM_F_ACK and one datagram  *)
(* is read; the acknowledgement stays in the socket.                       *)
Resolved == <<[type |-> "ack", old |-> TRUE]>>

OpenWifi ==
  /\ pc = "openWifi"
  /\ pc' = "loop"
  /\ wifi' \in BOOLEAN
  /\ wq' = IF wifi' THEN Resolved ELSE << >>
  /\ UNCHANGED <<kernelVars, gStop, nq, failed, revents, line>>

Loop ==
  /\ pc = "loop"
  /\ pc' = IF gStop THEN "close" ELSE "poll"
  /\ UNCHANGED <<kernelVars, gStop, nq, wifiVars, revents, line>>

Polled(ready) ==
  /\ pc = "poll"
  /\ pc' = "wifi" /\ revents' = ready
  /\ UNCHANGED <<kernelVars, gStop, nq, wifiVars, line>>

PollReady == nq # << >> /\ Polled("nfct")

PollWifiReady == nq = << >> /\ wq # << >> /\ Polled("wifi")

(* Mutant: poll waits until there is something to read. *)
PollTimeoutNever == nq # << >> /\ wq = << >> /\ Polled("none")

(* At most a second later, or when the next dump is due. *)
PollTimeout == nq = << >> /\ wq = << >> /\ Polled("none")

(* POLLERR or POLLHUP on the conntrack socket. *)
PollHangup == Polled("error")

PollFails ==
  /\ pc = "poll"
  /\ pc' = "close"
  /\ UNCHANGED <<kernelVars, gStop, nq, wifiVars, revents, line>>

(* What poll returned is looked at when the dump is over, for the last     *)
(* time in this round.                                                     *)
AfterWifi ==
  /\ pc' = CASE revents \in {"none", "wifi"} -> "loop"
             [] revents = "error"            -> "close"
             [] revents = "nfct"             -> "drain"
  /\ revents' = "none"

(* No dump is due, or its request cannot be sent.  Whether the interval    *)
(* has passed since the last dump is left open.                            *)
SkipDump ==
  /\ pc = "wifi"
  /\ AfterWifi
  /\ UNCHANGED <<kernelVars, gStop, nq, wifiVars, line>>

(* nl80211_netlink_dump_stations; the kernel queues the answer: stations   *)
(* with NLMSG_DONE behind them, in one datagram or two, or an error.       *)
DumpStations ==
  /\ pc = "wifi" /\ wifi
  /\ \E types \in {<<"stations", "done">>, <<"stations+done">>, <<"error">>} :
       /\ Len(wq \o types) <= MaxWifiQueue
       /\ wq' = [n \in DOMAIN wq |-> [wq[n] EXCEPT !.old = TRUE]]
                  \o [n \in DOMAIN types |-> [type |-> types[n], old |-> FALSE]]
  /\ pc' = "dump"
  /\ UNCHANGED <<kernelVars, gStop, nq, wifi, failed, revents, line>>

(* Mutant: one datagram is taken for the whole answer. *)
DumpRecvOnce ==
  /\ pc = "dump" /\ wq # << >>
  /\ wq' = Tail(wq)
  /\ AfterWifi
  /\ UNCHANGED <<kernelVars, gStop, nq, wifi, failed, line>>

(* wifi_dump_once prints the stations of each datagram, until the one that *)
(* holds NLMSG_DONE.                                                       *)
DumpRecv ==
  /\ pc = "dump" /\ wq # << >>
  /\ wq' = Tail(wq)
  /\ IF Head(wq).type \in {"done", "stations+done"} THEN AfterWifi ELSE UNCHANGED <<pc, revents>>
  /\ UNCHANGED <<kernelVars, gStop, nq, wifi, failed, line>>

DumpEmpty ==
  /\ pc = "dump" /\ wq = << >>
  /\ AfterWifi
  /\ UNCHANGED <<kernelVars, gStop, nq, wifi, wq, failed, line>>

(* What is left of the answer stays in the socket. *)
DumpRecvFails ==
  /\ pc = "dump"
  /\ failed' = TRUE
  /\ AfterWifi
  /\ UNCHANGED <<kernelVars, gStop, nq, wifi, wq, line>>

(* The inner loop reads until the socket is empty; g_stop is not looked at. *)
Recv ==
  /\ pc = "drain" /\ nq # << >>
  /\ nq' = Tail(nq)
  /\ EmitEvents(Head(nq))
  /\ UNCHANGED <<kernelVars, pc, gStop, wifiVars, revents>>

RecvEmpty ==
  /\ pc = "drain" /\ nq = << >>
  /\ pc' = "loop"
  /\ UNCHANGED <<kernelVars, gStop, nq, wifiVars, revents, line>>

RecvFails ==
  /\ pc = "drain"
  /\ gStop' = TRUE
  /\ pc' = "loop"
  /\ UNCHANGED <<kernelVars, nq, wifiVars, revents, line>>

Close ==
  /\ pc = "close"
  /\ pc' = "exited"
  /\ nq' = << >> /\ wq' = << >> /\ wifi' = FALSE
  /\ UNCHANGED <<kernelVars, gStop, failed, revents, line>>

Steps ==
  \/ OpenNfct \/ OpenWifi \/ Loop
  \/ PollReady \/ PollWifiReady \/ PollTimeout
  \/ SkipDump \/ DumpStations \/ DumpRecv \/ DumpEmpty
  \/ Recv \/ RecvEmpty \/ Close

Faults == OpenFails \/ PollHangup \/ PollFails \/ DumpRecvFails \/ RecvFails

(* What happens after the daemon has ended is left out. *)
Kernel ==
  /\ pc # "exited"
  /\ (\E c \in Conns : OpenConn(c) \/ UpdateConn(c) \/ CloseConn(c)) \/ Tick \/ Signal

Next == Steps \/ Faults \/ Kernel

Spec == Init /\ [][Next]_vars

FairSpec == Spec /\ WF_vars(Steps)
-----------------------------------------------------------------------------
Events == [conn : Conns, event : {"NEW", "UPDATE", "DESTROY"}, tuples : Decoded("DESTROY")]
Answers == [type : {"ack", "stations", "done", "stations+done", "error"}, old : BOOLEAN]

(* Every variable holds a value of its type, and no socket more than it    *)
(* can; the line comes from the event it names.                            *)
TypeOK ==
  /\ conn \in [Conns -> {"none", "open", "closed"}]
  /\ opened \in [Conns -> 0..MaxClock]
  /\ clock \in 0..MaxClock
  /\ pc \in {"open", "openWifi", "loop", "poll", "wifi", "dump", "drain", "close", "exited"}
  /\ {gStop, wifi, failed} \subseteq BOOLEAN
  /\ revents \in {"none", "wifi", "nfct", "error"}
  /\ nq \in Seq(Events) /\ Len(nq) <= QueueLen
  /\ wq \in Seq(Answers) /\ Len(wq) <= MaxWifiQueue
  /\ \/ line = [kind |-> "none"]
     \/ \E e \in Events, t \in 0..MaxClock, kind \in {"id", "nat", "raw"} :
          line = [of |-> e, kind |-> kind, obs |-> ObsFromNfct(e, t)]

(* The line offers its connection for the core's record of a connection,   *)
(* the record taken at any time since the connection began.                *)
Offered(c) == line.kind # "none" /\ line.obs.ok /\ Correlate(line.obs, ObsFromIpfix(c, clock))

(* A core record of an IPv4 connection is joined with a line of the same   *)
(* connection that lies within the skew, and never with that of another    *)
(* WAN address or port, protocol, family or destination host.  Two         *)
(* connections that agree in all these are told apart only by the          *)
(* destination port, which nf_flows_correlate does not compare (the header *)
(* says "WAN 5-tuple"): either's line is joined with either's record, as   *)
(* is that of a connection that had the same WAN source before.            *)
Attribution ==
  \A c \in {c \in Conns : conn[c] # "none" /\ ~Flow[c].ipv6} :
    LET d == line.of.conn
        alike == ~Flow[d].ipv6 /\ \A f \in {"proto", "wan", "wanPort", "dst"} : Flow[d][f] = Flow[c][f]
    IN  /\ Offered(c) => /\ alike
                         /\ d # c => Flow[d].dstPort # Flow[c].dstPort \/ "closed" \in {conn[c], conn[d]}
        /\ line.kind # "none" /\ alike /\ line.of.tuples = "both"
             /\ Near(line.obs.ts, ObsFromIpfix(c, clock).ts) => Offered(c)

(* As long as no receive failed, the stations printed for a dump are of    *)
(* that dump: neither the acknowledgement left by the start nor the answer *)
(* to an earlier request shifts them (wifi_dump_once).                     *)
WifiFresh ==
  pc = "dump" /\ wq # << >> /\ Head(wq).old /\ Head(wq).type \in {"stations", "stations+done"}
    => failed

(* The NEW and the DESTROY of a connection that reached the socket are     *)
(* logged, as an observation or raw, unless the decoder rejects them or    *)
(* the daemon ends first: neither dumps nor a Wi-Fi socket that is always  *)
(* readable nor a flood of updates keep them from being read (run_netlink). *)
EventLogged ==
  \A c \in Conns \ Lasting : \A event \in {"NEW", "DESTROY"} :
    (\E i \in DOMAIN nq : nq[i].conn = c /\ nq[i].event = event /\ nq[i].tuples # "garbled") ~>
      \/ pc = "exited"
      \/ line.kind # "none" /\ line.of.conn = c /\ line.of.event = event

(* The events do not come for ever as fast as the inner loop reads them,   *)
(* which looks at g_stop only when it has found the socket empty.          *)
DrainsEnd == []<>(pc # "drain")

(* After SIGTERM or SIGINT the daemon ends, also when the signal comes     *)
(* between the test of g_stop and poll, or while events are being read,    *)
(* provided that the events let the inner loop come to its end.            *)
StopEnds == DrainsEnd => (gStop ~> pc = "exited")
=============================================================================
