------------------------------ MODULE LiveProbe ------------------------------
(***************************************************************************)
(* agent/live_ping.c, agent/live_arping.c and agent/live_trace.c: the      *)
(* probes the agent sends itself.  A probe opens a socket, sends one       *)
(* request, waits for an answer or a timeout and closes the socket; a      *)
(* traceroute sends PerHop probes for each TTL until one of them reached   *)
(* the target.  Answers may be late, lost or meant for somebody else.      *)
(*                                                                         *)
(* Who receives what is the kernel's doing: a UDP socket with IP_RECVERR   *)
(* and a SOCK_DGRAM ping socket get answers to their own request only, the *)
(* latter only echo replies; a raw ICMP socket and an ARP packet socket    *)
(* get whatever arrives.                                                   *)
(***************************************************************************)
EXTENDS Naturals, Sequences

CONSTANTS
  Distance,   \* the TTL at which the target is reached
  MaxTtl,     \* max_ttl, at most CPE_TRACE_HOP_MAX
  PerHop,     \* probes_per_hop: 1 for traceroute, 3 for mtr
  Sockets,    \* ICMP sockets a kernel may grant, a subset of {"dgram", "raw"}
  UdpWorks,   \* IP_RECVERR is available
  Patience,   \* probe_timeout_ms, in foreign ARP frames of 1 ms each
  SeqMod,     \* values of the ICMP sequence number (65536)
  Late,       \* earlier requests whose answers may still come
  RxMax,      \* bound on the messages waiting in a socket
  MaxSent     \* bound on the requests after which no call is begun

ASSUME ProbeAssumption ==
  /\ {Distance, MaxTtl, PerHop, Patience, SeqMod, RxMax} \subseteq Nat \ {0}
  /\ Sockets \subseteq {"dgram", "raw"} /\ UdpWorks \in BOOLEAN
  /\ {MaxSent, Late} \subseteq Nat

VARIABLES
  icmp,      \* the ICMP socket that open_icmp_socket gets on this host
  call,      \* "none", "ping", "arping" or "trace"
  pc,        \* "idle", "send" (between the probes of a trace) or "wait"
  sock,      \* the open socket: "none", "udp", "dgram", "raw" or "packet"
  rx,        \* messages waiting in it
  sent,      \* history: requests sent so far; the number of the latest
  flight,    \* requests that may still be answered
  seq,       \* the static sequence number of live_ping
  left,      \* deadline_left of arping
  useUdp,    \* use_udp of run_trace
  echoSeq,   \* echo_seq of run_trace
  ttl, hop,  \* where run_trace is, and the counters of that hop
  trace,     \* the hops recorded, reached, and (history) who ended it: see Report
  sample,    \* the latest ping or arping sample
  heard,     \* history: the reply to the latest request came while it waited
  clean      \* history: no raw socket was used in this trace

callVars == <<call, pc, sock, rx>>
netVars  == <<sent, flight, heard>>
traceVars == <<useUdp, echoSeq, ttl, hop, trace, clean>>
vars == <<icmp, callVars, netVars, seq, left, traceVars, sample>>

NoHop == [sent |-> 0, replies |-> 0, from |-> 0]
NoMsg == [n |-> 0, of |-> "none", seq |-> 0, what |-> "none", from |-> 0]

(* The result that is stored and from which emit_summary writes its lines; *)
(* and, as history, the TTL at which the target gave its last word (0:     *)
(* never) and whether another host said "port unreachable" in its place.   *)
Report(hops, reached, answered, refused) ==
  [hops |-> hops, reached |-> reached, answered |-> answered, refused |-> refused]
NoReport == Report(<<>>, FALSE, 0, FALSE)

Init ==
  /\ icmp \in Sockets
  /\ call = "none" /\ pc = "idle" /\ sock = "none" /\ rx = <<>>
  /\ sent = 0 /\ flight = {} /\ heard = FALSE
  /\ seq = 0 /\ left = 0
  /\ useUdp = UdpWorks /\ echoSeq = 0 /\ ttl = 0 /\ hop = NoHop /\ trace = NoReport /\ clean = TRUE
  /\ sample = [call |-> "none"]

(***************************************************************************)
(* The network.  An answer says which request of which call it answers,    *)
(* what it is, and who sent it: the target is at Distance, a router at its *)
(* TTL, anybody else at 0.                                                 *)
(***************************************************************************)
Msg(r, what, from) == [n |-> r.n, of |-> r.of, seq |-> r.seq, what |-> what, from |-> from]

(* A host on the way may refuse to go on with any "unreachable", that of   *)
(* the port included (what a firewall's REJECT sends), and so may the      *)
(* target; as its last word the target answers an echo request with a      *)
(* reply and a UDP datagram with "port unreachable" (or, where a service   *)
(* listens, with a datagram, which counts as the same).                    *)
Answers(r) ==
  LET Refusals(hosts) == {Msg(r, what, k) : what \in {"unreach", "port"}, k \in hosts}
      routers == {k \in 1..(Distance - 1) : k < r.ttl}
  IN  CASE r.via = "arp" -> {Msg(r, "arp", Distance)}
        [] r.via # "arp" /\ r.ttl < Distance ->
             {Msg(r, "exceeded", r.ttl)} \cup Refusals(routers)
        [] r.via # "arp" /\ r.ttl >= Distance ->
             (IF r.via = "icmp" THEN {Msg(r, "echo", Distance)} ELSE {})
               \cup Refusals(routers \cup {Distance})

(* What the open socket receives. *)
Receives(m) ==
  CASE sock = "udp"    -> m.n = sent /\ m.what \in {"port", "exceeded", "unreach"}
    [] sock = "dgram"  -> m.n = sent /\ m.what = "echo"
    [] sock = "raw"    -> m.what # "arp"
    [] sock = "packet" -> m.what = "arp"
    [] OTHER           -> FALSE

(* An answer comes, in time or late; one that no open socket receives, and *)
(* one that never comes, changes nothing.                                  *)
Answer ==
  \E r \in flight : \E m \in Answers(r) :
    /\ Receives(m) /\ Len(rx) < RxMax
    /\ rx' = Append(rx, m)
    /\ heard' = (heard \/ (m.n = sent /\ m.what \in {"echo", "arp"}))
    /\ flight' = flight \ {r}
    /\ UNCHANGED <<icmp, call, pc, sock, sent, seq, left, traceVars, sample>>

(* Traffic that has nothing to do with the agent: replies to the pings of  *)
(* other programs, with the same sequence number or another, ARP between   *)
(* other hosts, and ARP in which the target answers another host.          *)
Foreign ==
  /\ sock \in {"raw", "packet"} /\ Len(rx) < RxMax
  /\ \E s \in {seq, (seq + 1) % SeqMod},
        what \in (IF sock = "raw" THEN {"echo"} ELSE {"other", "arp"}) :
       rx' = Append(rx, Msg([n |-> 0, of |-> "foreign", seq |-> IF sock = "raw" THEN s ELSE 0],
                            what, 0))
  /\ UNCHANGED <<icmp, call, pc, sock, netVars, seq, left, traceVars, sample>>

(***************************************************************************)
(* A request leaves through a new socket; the call waits for what comes.   *)
(* Answers come at most Late requests later, and not so late that the      *)
(* sequence number has come round to that of their ping: 65536 pings.      *)
(***************************************************************************)
Request(via, s, hops, number) ==
  /\ sent' = sent + 1
  /\ flight' = {r \in flight : /\ r.n + Late > sent
                               /\ call' = "ping" /\ r.of = "ping" => r.seq # number}
                 \cup {[n |-> sent + 1, of |-> call', via |-> via, ttl |-> hops, seq |-> number]}
  /\ heard' = FALSE
  /\ sock' = s /\ rx' = <<>> /\ pc' = "wait"

Close == sock' = "none" /\ rx' = <<>>

Begin(kind) == pc = "idle" /\ sent < MaxSent /\ call' = kind

(* cpe_agent_live_ping_tick.  A target the kernel refuses to send to leaves *)
(* the sequence number advanced and no sample.                             *)
Ping ==
  /\ Begin("ping")
  /\ seq' = (seq + 1) % SeqMod
  /\ Request("icmp", icmp, Distance, seq')
  /\ UNCHANGED <<icmp, left, traceVars, sample>>

PingUnsent ==
  /\ pc = "idle" /\ sent < MaxSent
  /\ seq' = (seq + 1) % SeqMod
  /\ UNCHANGED <<icmp, callVars, netVars, left, traceVars, sample>>

(* What a sample says, and (history) which message it rests on, the number *)
(* of its request, and whether the deadline was used up.                   *)
SampleOf(replied, by, spent) ==
  [call |-> call, via |-> sock, replied |-> replied, by |-> by, n |-> sent,
   heard |-> heard, spent |-> spent]

Finish(replied, by, spent) ==
  /\ sample' = SampleOf(replied, by, spent)
  /\ call' = "none" /\ pc' = "idle" /\ Close
  /\ UNCHANGED <<icmp, netVars, seq, traceVars>>

IsReplyAny(m) == m.what = "echo"   \* mutant: the sequence number is not compared

(* An echo reply with the sequence number of the request; the identifier   *)
(* is not looked at.                                                       *)
IsReply(m) == m.what = "echo" /\ m.seq = seq

(* One message is read and decides. *)
PingReads ==
  /\ pc = "wait" /\ call = "ping" /\ rx # <<>>
  /\ Finish(IsReply(Head(rx)), Head(rx), FALSE)
  /\ UNCHANGED left

Arping ==
  /\ Begin("arping")
  /\ left' = Patience
  /\ Request("arp", "packet", Distance, 0)
  /\ UNCHANGED <<icmp, seq, traceVars, sample>>

(* A reply in which the sender claims the address asked for, whoever asked. *)
IsArpReplyFor(m) == m.what = "arp"

ArpingReads ==
  /\ pc = "wait" /\ call = "arping" /\ rx # <<>> /\ left > 0
  /\ IsArpReplyFor(Head(rx))
  /\ Finish(TRUE, Head(rx), FALSE)
  /\ UNCHANGED left

(* Mutant: a frame that comes within a millisecond costs no time. *)
ArpingSkipsFree ==
  /\ pc = "wait" /\ call = "arping" /\ rx # <<>> /\ left > 0
  /\ ~IsArpReplyFor(Head(rx))
  /\ rx' = Tail(rx)
  /\ left' \in 0..left
  /\ UNCHANGED <<icmp, call, pc, sock, netVars, seq, traceVars, sample>>

(* Any other frame is skipped and costs at least 1 ms of the deadline, *)
(* what it took to come included.                                      *)
ArpingSkips ==
  /\ pc = "wait" /\ call = "arping" /\ rx # <<>> /\ left > 0
  /\ ~IsArpReplyFor(Head(rx))
  /\ rx' = Tail(rx)
  /\ left' \in 0..(left - 1)
  /\ UNCHANGED <<icmp, call, pc, sock, netVars, seq, traceVars, sample>>

(* poll returns without a message: loss. *)
ProbeTimeout ==
  /\ pc = "wait" /\ call \in {"ping", "arping"}
  /\ rx = <<>> \/ (call = "arping" /\ left = 0)
  /\ Finish(FALSE, NoMsg, call = "arping" /\ left = 0)
  /\ UNCHANGED left

(***************************************************************************)
(* run_trace.                                                              *)
(***************************************************************************)
Trace ==
  /\ Begin("trace")
  /\ pc' = "send"
  /\ useUdp' = UdpWorks
  /\ echoSeq' = 0 /\ ttl' = 1 /\ hop' = NoHop /\ trace' = NoReport /\ clean' = TRUE
  /\ UNCHANGED <<icmp, sock, rx, netVars, seq, left, sample>>

TraceUdp ==
  /\ pc = "send" /\ useUdp
  /\ UNCHANGED call
  /\ Request("udp", "udp", ttl, 0)
  /\ UNCHANGED <<icmp, seq, left, traceVars, sample>>

(* Without IP_RECVERR, or once a UDP probe could not be sent, ICMP echo    *)
(* requests are used for the rest of the trace.                            *)
TraceIcmp ==
  /\ pc = "send"
  /\ useUdp' = FALSE
  /\ echoSeq' = (echoSeq + 1) % SeqMod
  /\ UNCHANGED call
  /\ Request("icmp", icmp, ttl, echoSeq')
  /\ clean' = (icmp # "raw")
  /\ UNCHANGED <<icmp, seq, left, ttl, hop, trace, sample>>

(* A hop keeps the address of the last host that answered. *)
HopRecord(replied, from) ==
  [sent |-> hop.sent + 1,
   replies |-> hop.replies + (IF replied THEN 1 ELSE 0),
   from |-> IF replied THEN from ELSE hop.from]

(* History: the target gave its last word, or another host did so for it. *)
LastWord(m) == m.what \in {"echo", "port"} /\ m.from = Distance
StandIn(m) == m.what = "port" /\ m.from # Distance

(* The outcome of a probe, then the next probe, the next hop or the end. *)
Record(replied, m, dest) ==
  LET h == HopRecord(replied, m.from)
      reached == trace.reached \/ dest
      full == h.sent = PerHop
      over == full /\ (reached \/ ttl = MaxTtl)
  IN  /\ trace' = Report(IF full THEN Append(trace.hops, h) ELSE trace.hops, reached,
                         IF trace.answered = 0 /\ LastWord(m) THEN ttl ELSE trace.answered,
                         trace.refused \/ StandIn(m))
      /\ hop' = IF full THEN NoHop ELSE h
      /\ ttl' = IF full /\ ~over THEN ttl + 1 ELSE ttl
      /\ call' = IF over THEN "none" ELSE call
      /\ pc' = IF over THEN "idle" ELSE "send"
      /\ Close
      /\ UNCHANGED <<icmp, netVars, seq, left, clean, sample>>

IsDestAny(m) == m.what \in {"port", "echo", "unreach"}   \* mutant: any "unreachable" will do

(* udp_wait_probe takes only "port unreachable" for the target's answer,   *)
(* probe_icmp_once an echo reply or any "unreachable"; neither compares    *)
(* who sent it with the target.                                            *)
IsDest(m) == IF sock = "udp" THEN m.what = "port" ELSE m.what \in {"echo", "port", "unreach"}

(* One message is read, whatever it is. *)
TraceReads ==
  /\ pc = "wait" /\ call = "trace" /\ rx # <<>>
  /\ Record(TRUE, Head(rx), IsDest(Head(rx)))
  /\ UNCHANGED <<useUdp, echoSeq>>

TraceTimeout ==
  /\ pc = "wait" /\ call = "trace" /\ rx = <<>>
  /\ Record(FALSE, NoMsg, FALSE)
  /\ UNCHANGED <<useUdp, echoSeq>>

(* Neither kind of probe could be sent: counted as a timeout. *)
TraceUnsent ==
  /\ pc = "send"
  /\ Record(FALSE, NoMsg, FALSE)
  /\ useUdp' = FALSE
  /\ echoSeq' = (echoSeq + 1) % SeqMod

Network == Answer \/ Foreign
Probe ==
  \/ PingReads \/ ArpingReads \/ ArpingSkips \/ ProbeTimeout
  \/ TraceUdp \/ TraceIcmp \/ TraceReads \/ TraceTimeout \/ TraceUnsent
Start == Ping \/ PingUnsent \/ Arping \/ Trace

Next == Start \/ Probe \/ Network

Spec == Init /\ [][Next]_vars

(* A call that was begun goes on: poll returns at its timeout. *)
FairSpec == Spec /\ WF_vars(Probe)
-----------------------------------------------------------------------------
Calls == {"ping", "arping", "trace"}
Requests == [n : Nat, of : Calls, via : {"icmp", "udp", "arp"}, ttl : Nat, seq : Nat]
Messages ==
  [n : Nat, of : Calls \cup {"foreign", "none"}, seq : Nat,
   what : {"echo", "port", "unreach", "exceeded", "arp", "other", "none"}, from : Nat]
Hops == [sent : Nat, replies : Nat, from : Nat]
Reports == [hops : Seq(Hops), reached : BOOLEAN, answered : 0..MaxTtl, refused : BOOLEAN]
Kinds == {"none", "udp", "dgram", "raw", "packet"}

(* Every variable holds a value of its type. *)
TypeOK ==
  /\ icmp \in Sockets
  /\ call \in Calls \cup {"none"} /\ pc \in {"idle", "send", "wait"} /\ sock \in Kinds
  /\ rx \in Seq(Messages) /\ Len(rx) <= RxMax
  /\ sent \in Nat /\ flight \subseteq Requests /\ heard \in BOOLEAN
  /\ seq \in 0..(SeqMod - 1) /\ left \in 0..Patience
  /\ useUdp \in BOOLEAN /\ echoSeq \in 0..(SeqMod - 1)
  /\ ttl \in 0..MaxTtl /\ hop \in Hops
  /\ trace \in Reports /\ clean \in BOOLEAN
  /\ sample \in {[call |-> "none"]} \cup
       [call : Calls, via : Kinds, replied : BOOLEAN, by : Messages, n : Nat,
        heard : BOOLEAN, spent : BOOLEAN]

(* A sample tells the truth about its own request.  A late answer to an    *)
(* earlier ping is never credited to the current one; a ping socket takes  *)
(* nobody else's reply either, and reports a loss only if none came;       *)
(* arping does not overlook a reply among other frames unless these used   *)
(* up its deadline.                                                        *)
SampleTrue ==
  /\ sample.call = "ping" =>
       /\ sample.replied /\ sample.by.of = "ping" => sample.by.n = sample.n
       /\ sample.via = "dgram" => /\ sample.replied => sample.by.n = sample.n
                                  /\ sample.heard => sample.replied
  /\ sample.call = "arping" /\ sample.heard => sample.replied \/ sample.spent

(* Unless a raw socket was used, a trace that reports the target as reached *)
(* rests on the target's own last word, or on a host that answered a UDP   *)
(* probe with "port unreachable" in its place (udp_wait_probe does not     *)
(* compare the offender), never on a TTL that ran out or another           *)
(* "unreachable"; the target's last word is never missed, and no hop comes *)
(* after it.  The hops have no gap, each has all its probes and names a    *)
(* host that is no farther away than itself.                               *)
TraceTrue ==
  clean =>
    /\ trace.reached => trace.answered # 0 \/ trace.refused
    /\ trace.answered # 0 => trace.reached /\ Len(trace.hops) <= trace.answered
    /\ Len(trace.hops) = (IF pc = "idle" \/ call # "trace" THEN ttl ELSE ttl - 1)
    /\ \A k \in 1..Len(trace.hops) :
         trace.hops[k].from <= k /\ trace.hops[k].sent = PerHop

(* Every probe returns, however much foreign traffic there is: the loop    *)
(* that waits for it is not held up for ever.                              *)
ProbeReturns == pc # "idle" ~> pc = "idle"
=============================================================================
