--------------------------- MODULE LiveProbe_proofs ---------------------------
(***************************************************************************)
(* live_ping.c, live_arping.c and live_trace.c: for every distance, TTL,   *)
(* number of probes per hop and amount of late and foreign traffic, a      *)
(* sample is about its own request, and a trace without a raw socket       *)
(* reports the target as reached if it gave its last word, and otherwise   *)
(* only if another host said "port unreachable" in its place.              *)
(***************************************************************************)
EXTENDS LiveProbe, SequenceTheorems, TLAPS

(* The constants. *)
LEMMA Constants ==
  ASSUME ProbeAssumption
  PROVE  /\ Distance \in Nat /\ 0 < Distance /\ MaxTtl \in Nat /\ 0 < MaxTtl
         /\ PerHop \in Nat /\ 0 < PerHop /\ Patience \in Nat /\ 0 < Patience
         /\ SeqMod \in Nat /\ 0 < SeqMod /\ RxMax \in Nat /\ 0 < RxMax
         /\ MaxSent \in Nat
         /\ Sockets \subseteq {"dgram", "raw"} /\ UdpWorks \in BOOLEAN
BY DEF ProbeAssumption

LEMMA ModTyped ==
  ASSUME NEW size \in Nat, 0 < size, NEW i \in Nat
  PROVE  i % size \in 0..(size - 1)
  OBVIOUS

(* A message is put behind those that wait. *)
LEMMA AppendTo ==
  ASSUME NEW S, NEW s \in Seq(S), NEW x \in S
  PROVE  /\ Append(s, x) \in Seq(S) /\ Len(Append(s, x)) = Len(s) + 1
         /\ \A k \in 1..(Len(s) + 1) : Append(s, x)[k] = IF k <= Len(s) THEN s[k] ELSE x
<1>1. /\ Append(s, x) \in Seq(S) /\ Len(Append(s, x)) = Len(s) + 1
      /\ \A k \in 1..Len(s) : Append(s, x)[k] = s[k]
      /\ Append(s, x)[Len(s) + 1] = x
  BY AppendProperties
<1>2. Len(s) \in Nat
  BY LenProperties
<1> QED
  BY <1>1, <1>2

(***************************************************************************)
(* What the steps do.                                                      *)
(***************************************************************************)
(* An answer says which request it answers.  Only the target sends an echo *)
(* reply, and nobody answers from farther away than the TTL.               *)
LEMMA AnswersTrue ==
  ASSUME ProbeAssumption, NEW r \in Requests, NEW m \in Answers(r)
  PROVE  /\ m \in Messages /\ m.n = r.n /\ m.of = r.of /\ m.seq = r.seq
         /\ m.what # "arp" => m.from <= r.ttl
         /\ m.what = "echo" => m.from = Distance
<1>1. Distance \in Nat /\ r.ttl \in Nat /\ r.via \in {"icmp", "udp", "arp"}
  BY Constants DEF Requests
<1>2. /\ \A what \in {"echo", "port", "unreach", "exceeded", "arp", "other", "none"}, from \in Nat :
           Msg(r, what, from) \in Messages
      /\ \A what, from : /\ Msg(r, what, from).n = r.n /\ Msg(r, what, from).of = r.of
                         /\ Msg(r, what, from).seq = r.seq
                         /\ Msg(r, what, from).what = what /\ Msg(r, what, from).from = from
  BY DEF Msg, Messages, Requests
<1>3. CASE r.via = "arp"
  <2>1. m = Msg(r, "arp", Distance)
    BY <1>3 DEF Answers
  <2> QED
    BY <1>1, <1>2, <2>1
<1>4. CASE r.via # "arp" /\ r.ttl < Distance
  <2>1. \/ m = Msg(r, "exceeded", r.ttl)
        \/ \E what \in {"unreach", "port"}, k \in 1..(Distance - 1) : k < r.ttl /\ m = Msg(r, what, k)
    BY <1>1, <1>4 DEF Answers
  <2>2. CASE m = Msg(r, "exceeded", r.ttl)
    BY <1>1, <1>2, <1>4, <2>2
  <2>3. CASE \E what \in {"unreach", "port"}, k \in 1..(Distance - 1) : k < r.ttl /\ m = Msg(r, what, k)
    BY <1>1, <1>2, <2>3
  <2> QED
    BY <2>1, <2>2, <2>3
<1>5. CASE r.via # "arp" /\ r.ttl >= Distance
  <2>1. \/ m = Msg(r, "echo", Distance)
        \/ \E what \in {"unreach", "port"} : m = Msg(r, what, Distance)
        \/ \E what \in {"unreach", "port"}, k \in 1..(Distance - 1) : k < r.ttl /\ m = Msg(r, what, k)
    BY <1>1, <1>5 DEF Answers
  <2>2. CASE \/ m = Msg(r, "echo", Distance)
             \/ \E what \in {"unreach", "port"} : m = Msg(r, what, Distance)
    BY <1>1, <1>2, <1>5, <2>2
  <2>3. CASE \E what \in {"unreach", "port"}, k \in 1..(Distance - 1) : k < r.ttl /\ m = Msg(r, what, k)
    BY <1>1, <1>2, <2>3
  <2> QED
    BY <2>1, <2>2, <2>3
<1> QED
  BY <1>1, <1>3, <1>4, <1>5

(* What each kind of socket lets through. *)
LEMMA ReceivesWhat ==
  ASSUME NEW m, Receives(m)
  PROVE  /\ sock # "none"
         /\ sock \in {"udp", "dgram"} => m.n = sent
         /\ sock = "udp" => m.what \in {"port", "exceeded", "unreach"}
         /\ sock = "dgram" => m.what = "echo"
         /\ sock = "packet" => m.what = "arp"
BY DEF Receives

(* A message that arrives is put behind the others. *)
LEMMA AnswerEffect ==
  ASSUME ProbeAssumption, TypeOK, Answer
  PROVE  \E r \in flight, m \in Messages :
           /\ m \in Answers(r) /\ Receives(m) /\ Len(rx) < RxMax
           /\ rx' = Append(rx, m) /\ flight' = flight \ {r}
           /\ heard' = (heard \/ (m.n = sent /\ m.what \in {"echo", "arp"}))
           /\ UNCHANGED <<icmp, call, pc, sock, sent, seq, left, traceVars, sample>>
<1>1. PICK r \in flight : \E m \in Answers(r) :
        /\ Receives(m) /\ Len(rx) < RxMax
        /\ rx' = Append(rx, m) /\ flight' = flight \ {r}
        /\ heard' = (heard \/ (m.n = sent /\ m.what \in {"echo", "arp"}))
        /\ UNCHANGED <<icmp, call, pc, sock, sent, seq, left, traceVars, sample>>
  BY DEF Answer
<1>2. r \in Requests
  BY DEF TypeOK
<1> QED
  BY <1>1, <1>2, AnswersTrue

LEMMA ForeignEffect ==
  ASSUME ProbeAssumption, TypeOK, Foreign
  PROVE  \E m \in Messages :
           /\ sock \in {"raw", "packet"} /\ m.of = "foreign" /\ Len(rx) < RxMax
           /\ rx' = Append(rx, m)
           /\ UNCHANGED <<icmp, call, pc, sock, netVars, seq, left, traceVars, sample>>
<1>1. seq \in Nat /\ (seq + 1) % SeqMod \in Nat
  <2>1. seq + 1 \in Nat /\ seq \in Nat
    BY Constants DEF TypeOK
  <2>2. (seq + 1) % SeqMod \in 0..(SeqMod - 1)
    BY <2>1, Constants, ModTyped
  <2> QED
    BY <2>1, <2>2
<1>2. PICK s \in {seq, (seq + 1) % SeqMod}, what \in {"echo", "other", "arp"} :
        rx' = Append(rx, Msg([n |-> 0, of |-> "foreign", seq |-> IF sock = "raw" THEN s ELSE 0],
                             what, 0))
  BY DEF Foreign
<1> DEFINE m == Msg([n |-> 0, of |-> "foreign", seq |-> IF sock = "raw" THEN s ELSE 0], what, 0)
<1>3. m \in Messages /\ m.of = "foreign"
  BY <1>1 DEF Msg, Messages
<1> HIDE DEF m
<1>4. rx' = Append(rx, m)
  BY <1>2 DEF m
<1> QED
  BY <1>3, <1>4 DEF Foreign

(* The request that a step adds to those in flight. *)
Sent(via, hops, number) == [n |-> sent + 1, of |-> call', via |-> via, ttl |-> hops, seq |-> number]

LEMMA RequestEffect ==
  ASSUME NEW via, NEW s, NEW hops, NEW number, Request(via, s, hops, number)
  PROVE  /\ sent' = sent + 1 /\ heard' = FALSE /\ sock' = s /\ rx' = << >> /\ pc' = "wait"
         /\ Sent(via, hops, number) \in flight'
         /\ \A r \in flight' :
              \/ r = Sent(via, hops, number)
              \/ r \in flight /\ (call' = "ping" /\ r.of = "ping" => r.seq # number)
BY DEF Request, Sent

(* The four steps that send: which call, through what, and what they keep. *)
LEMMA SendEffect ==
  ASSUME ProbeAssumption, TypeOK, Ping \/ Arping \/ TraceUdp \/ TraceIcmp
  PROVE  \E via \in {"icmp", "udp", "arp"}, s \in Kinds, hops \in Nat, number \in Nat :
           /\ Request(via, s, hops, number)
           /\ \/ /\ Ping /\ call' = "ping" /\ s = icmp /\ number = seq' /\ pc = "idle"
                 /\ sent < MaxSent /\ seq' = (seq + 1) % SeqMod /\ UNCHANGED traceVars
              \/ /\ Arping /\ call' = "arping" /\ s = "packet" /\ seq' = seq /\ pc = "idle"
                 /\ UNCHANGED traceVars
              \/ /\ TraceUdp \/ TraceIcmp
                 /\ call' = call /\ pc = "send" /\ hops = ttl /\ seq' = seq
                 /\ UNCHANGED <<ttl, hop, trace>>
                 /\ \/ s = "udp" /\ clean' = clean
                    \/ s = icmp /\ clean' = (icmp # "raw")
           /\ UNCHANGED <<icmp, sample>>
<1>0. /\ Distance \in Nat /\ icmp \in Kinds /\ seq \in Nat /\ ttl \in Nat /\ echoSeq \in Nat
      /\ (seq + 1) % SeqMod \in Nat /\ (echoSeq + 1) % SeqMod \in Nat
  <2>1. seq \in Nat /\ echoSeq \in Nat /\ SeqMod \in Nat /\ 0 < SeqMod
    BY Constants DEF TypeOK
  <2>2. (seq + 1) % SeqMod \in Nat /\ (echoSeq + 1) % SeqMod \in Nat
    BY <2>1, ModTyped
  <2>3. icmp \in Kinds /\ ttl \in Nat /\ Distance \in Nat
    BY Constants DEF TypeOK, Kinds
  <2> QED
    BY <2>1, <2>2, <2>3
<1>1. CASE Ping
  <2>1. Request("icmp", icmp, Distance, seq') /\ seq' = (seq + 1) % SeqMod
    BY <1>1 DEF Ping
  <2> QED
    BY <1>0, <1>1, <2>1 DEF Ping, Begin
<1>2. CASE Arping
  <2>1. Request("arp", "packet", Distance, 0)
    BY <1>2 DEF Arping
  <2> QED
    BY <1>0, <1>2, <2>1 DEF Arping, Begin, Kinds
<1>3. CASE TraceUdp
  <2>1. Request("udp", "udp", ttl, 0)
    BY <1>3 DEF TraceUdp
  <2>2. call' = call /\ pc = "send" /\ seq' = seq /\ UNCHANGED <<ttl, hop, trace, clean, icmp, sample>>
    BY <1>3 DEF TraceUdp, traceVars
  <2> QED
    BY <1>0, <1>3, <2>1, <2>2 DEF Kinds
<1>4. CASE TraceIcmp
  <2>1. Request("icmp", icmp, ttl, echoSeq') /\ echoSeq' \in Nat
    BY <1>0, <1>4 DEF TraceIcmp
  <2>2. /\ call' = call /\ pc = "send" /\ seq' = seq /\ clean' = (icmp # "raw")
        /\ UNCHANGED <<ttl, hop, trace, icmp, sample>>
    BY <1>4 DEF TraceIcmp
  <2> QED
    BY <1>0, <1>4, <2>1, <2>2
<1> QED
  BY <1>1, <1>2, <1>3, <1>4

(* A ping or an arping ends with a sample. *)
LEMMA FinishEffect ==
  ASSUME NEW replied, NEW by, NEW spent, Finish(replied, by, spent)
  PROVE  /\ sample' = [call |-> call, via |-> sock, replied |-> replied, by |-> by, n |-> sent,
                       heard |-> heard, spent |-> spent]
         /\ call' = "none" /\ pc' = "idle" /\ sock' = "none" /\ rx' = << >>
         /\ UNCHANGED <<icmp, netVars, seq, traceVars>>
BY DEF Finish, SampleOf, Close

(* The outcome h of a probe of a trace: the hop goes on, or it is complete *)
(* and the trace goes on, or the trace ends.                               *)
Recorded(h) ==
  /\ h.sent = hop.sent + 1
  /\ trace' \in Reports
  /\ sock' = "none" /\ rx' = << >>
  /\ \/ /\ trace'.hops = trace.hops /\ hop' = h
        /\ ttl' = ttl /\ call' = call /\ pc' = "send"
     \/ /\ h.sent = PerHop /\ trace'.hops = Append(trace.hops, h) /\ hop' = NoHop
        /\ ttl' = ttl /\ call' = "none" /\ pc' = "idle"
     \/ /\ h.sent = PerHop /\ trace'.hops = Append(trace.hops, h) /\ hop' = NoHop
        /\ ~trace'.reached /\ ttl # MaxTtl
        /\ ttl' = ttl + 1 /\ call' = call /\ pc' = "send"
  /\ UNCHANGED <<icmp, netVars, seq, left, clean, sample>>

(* What a trace then says of the target, and the history of it. *)
Noted(m, dest) ==
  /\ trace'.reached <=> trace.reached \/ dest
  /\ trace'.answered = IF trace.answered = 0 /\ LastWord(m) THEN ttl ELSE trace.answered
  /\ trace'.refused <=> trace.refused \/ StandIn(m)

LEMMA RecordEffect ==
  ASSUME ProbeAssumption, TypeOK, NEW replied \in BOOLEAN, NEW m \in Messages, NEW dest,
         Record(replied, m, dest)
  PROVE  \E h \in Hops :
           /\ Recorded(h)
           /\ replied => h.from = m.from
           /\ ~replied => h.from = hop.from
           /\ Noted(m, dest)
<1> DEFINE h == HopRecord(replied, m.from)
           reached == trace.reached \/ dest
           answered == IF trace.answered = 0 /\ LastWord(m) THEN ttl ELSE trace.answered
           refused == trace.refused \/ StandIn(m)
           full == h.sent = PerHop
           over == full /\ (reached \/ ttl = MaxTtl)
           hops == IF full THEN Append(trace.hops, h) ELSE trace.hops
<1>1. /\ hop \in Hops /\ trace.hops \in Seq(Hops)
      /\ trace.answered \in 0..MaxTtl /\ ttl \in 0..MaxTtl /\ m.from \in Nat
  BY DEF TypeOK, Reports, Messages
<1>2. h \in Hops /\ h.sent = hop.sent + 1 /\ h.from = (IF replied THEN m.from ELSE hop.from)
  <2> DEFINE a == hop.sent + 1
             b == hop.replies + (IF replied THEN 1 ELSE 0)
             c == IF replied THEN m.from ELSE hop.from
  <2>1. a \in Nat /\ b \in Nat /\ c \in Nat
    <3>1. hop.sent \in Nat /\ hop.replies \in Nat /\ hop.from \in Nat
      BY <1>1 DEF Hops
    <3>2. (IF replied THEN 1 ELSE 0) \in Nat /\ c \in Nat
      BY <1>1, <3>1
    <3> QED
      BY <3>1, <3>2
  <2>2. h = [sent |-> a, replies |-> b, from |-> c]
    BY DEF HopRecord
  <2> HIDE DEF a, b, c, h
  <2>3. h \in Hops /\ h.sent = a /\ h.from = c
    BY <2>1, <2>2 DEF Hops
  <2> QED
    BY <2>3 DEF a, c
<1>3. /\ trace' = [hops |-> hops, reached |-> reached, answered |-> answered, refused |-> refused]
      /\ hop' = (IF full THEN NoHop ELSE h)
      /\ ttl' = (IF full /\ ~over THEN ttl + 1 ELSE ttl)
      /\ call' = (IF over THEN "none" ELSE call)
      /\ pc' = (IF over THEN "idle" ELSE "send")
  BY DEF Record, Report
<1>4. sock' = "none" /\ rx' = << >> /\ UNCHANGED <<icmp, netVars, seq, left, clean, sample>>
  BY DEF Record, Close
<1> HIDE DEF h
<1>5. hops \in Seq(Hops)
  BY <1>1, <1>2, AppendTo
<1>6. reached \in BOOLEAN /\ answered \in 0..MaxTtl /\ refused \in BOOLEAN
  BY <1>1
<1>7. /\ trace'.hops = hops /\ trace'.reached = reached
      /\ trace'.answered = answered /\ trace'.refused = refused
  <2> HIDE DEF hops, reached, answered, refused
  <2> QED
    BY <1>3
<1>8. trace' \in Reports
  <2> HIDE DEF hops, reached, answered, refused
  <2> QED
    BY <1>3, <1>5, <1>6 DEF Reports
<1>9. Noted(m, dest)
  BY <1>7, Zenon DEF Noted
<1>10. \/ /\ trace'.hops = trace.hops /\ hop' = h
          /\ ttl' = ttl /\ call' = call /\ pc' = "send"
       \/ /\ h.sent = PerHop /\ trace'.hops = Append(trace.hops, h) /\ hop' = NoHop
          /\ ttl' = ttl /\ call' = "none" /\ pc' = "idle"
       \/ /\ h.sent = PerHop /\ trace'.hops = Append(trace.hops, h) /\ hop' = NoHop
          /\ ~trace'.reached /\ ttl # MaxTtl
          /\ ttl' = ttl + 1 /\ call' = call /\ pc' = "send"
  <2>1. CASE ~full
    BY <1>3, <1>7, <2>1, Zenon
  <2>2. CASE full /\ (reached \/ ttl = MaxTtl)
    BY <1>3, <1>7, <2>2, Zenon
  <2>3. CASE full /\ ~reached /\ ttl # MaxTtl
    BY <1>3, <1>7, <2>3, Zenon
  <2> QED
    BY <2>1, <2>2, <2>3
<1>11. Recorded(h)
  BY <1>2, <1>4, <1>8, <1>10 DEF Recorded
<1>12. (replied => h.from = m.from) /\ (~replied => h.from = hop.from)
  BY <1>2
<1> QED
  BY <1>2, <1>9, <1>11, <1>12, Zenon

(* The three steps that record: a message was read, or none. *)
LEMMA OutcomeEffect ==
  ASSUME ProbeAssumption, TypeOK, TraceReads \/ TraceTimeout \/ TraceUnsent
  PROVE  \E h \in Hops :
           /\ Recorded(h)
           /\ \/ /\ pc = "wait" /\ call = "trace" /\ 1 \in 1..Len(rx) /\ h.from = rx[1].from
                 /\ Noted(rx[1], IsDest(rx[1]))
              \/ h.from = hop.from /\ Noted(NoMsg, FALSE)
<1>1. CASE TraceReads
  <2>1. /\ rx # << >> /\ rx \in Seq(Messages) /\ Record(TRUE, Head(rx), IsDest(Head(rx)))
        /\ pc = "wait" /\ call = "trace"
    BY <1>1 DEF TraceReads, TypeOK
  <2>2. Head(rx) = rx[1] /\ 1 \in 1..Len(rx) /\ rx[1] \in Messages
    <3>1. Len(rx) \in Nat /\ Len(rx) # 0
      BY <2>1, EmptySeq, LenProperties
    <3>2. 1 \in 1..Len(rx)
      BY <3>1
    <3> QED
      BY <2>1, <3>2, ElementOfSeq, HeadTailProperties
  <2>3. Record(TRUE, rx[1], IsDest(rx[1])) /\ TRUE \in BOOLEAN
    BY <2>1, <2>2, Zenon
  <2>4. PICK h \in Hops : Recorded(h) /\ h.from = rx[1].from /\ Noted(rx[1], IsDest(rx[1]))
    BY <2>2, <2>3, RecordEffect, Zenon
  <2> QED
    BY <2>1, <2>2, <2>4, Zenon
<1>2. CASE TraceTimeout \/ TraceUnsent
  <2>1. Record(FALSE, NoMsg, FALSE)
    BY <1>2 DEF TraceTimeout, TraceUnsent
  <2>2. FALSE \in BOOLEAN /\ NoMsg \in Messages
    BY DEF NoMsg, Messages
  <2> QED
    BY <2>1, <2>2, RecordEffect, Zenon
<1> QED
  BY <1>1, <1>2

(* The three steps that end a ping or an arping. *)
LEMMA EndEffect ==
  ASSUME ProbeAssumption, TypeOK, PingReads \/ ArpingReads \/ ProbeTimeout
  PROVE  \E replied \in BOOLEAN, by \in Messages, spent \in BOOLEAN :
           /\ Finish(replied, by, spent) /\ left' = left
           /\ pc = "wait" /\ call \in {"ping", "arping"}
           /\ \/ /\ call = "ping" /\ rx # << >> /\ 1 \in 1..Len(rx) /\ by = rx[1]
                 /\ (replied <=> IsReply(rx[1]))
              \/ call = "arping" /\ replied
              \/ ~replied /\ rx = << >>
              \/ call = "arping" /\ spent
<1>1. ASSUME rx # << >> PROVE Head(rx) = rx[1] /\ 1 \in 1..Len(rx) /\ rx[1] \in Messages
  <2>1. rx \in Seq(Messages)
    BY DEF TypeOK
  <2>2. Len(rx) \in Nat /\ Len(rx) # 0
    BY <1>1, <2>1, EmptySeq, LenProperties
  <2>3. 1 \in 1..Len(rx)
    BY <2>2
  <2> QED
    BY <2>1, <2>3, ElementOfSeq, HeadTailProperties
<1>2. CASE PingReads
  <2>1. /\ Finish(IsReply(Head(rx)), Head(rx), FALSE) /\ left' = left
        /\ pc = "wait" /\ call = "ping" /\ rx # << >>
    BY <1>2 DEF PingReads
  <2>2. Finish(IsReply(rx[1]), rx[1], FALSE) /\ 1 \in 1..Len(rx) /\ rx[1] \in Messages
    BY <1>1, <2>1
  <2>3. IsReply(rx[1]) \in BOOLEAN
    BY DEF IsReply
  <2> QED
    BY <2>1, <2>2, <2>3
<1>3. CASE ArpingReads
  <2>1. Finish(TRUE, Head(rx), FALSE) /\ left' = left /\ pc = "wait" /\ call = "arping" /\ rx # << >>
    BY <1>3 DEF ArpingReads
  <2>2. Finish(TRUE, rx[1], FALSE) /\ rx[1] \in Messages
    BY <1>1, <2>1
  <2> QED
    BY <2>1, <2>2
<1>4. CASE ProbeTimeout
  <2>1. /\ Finish(FALSE, NoMsg, call = "arping" /\ left = 0) /\ left' = left
        /\ pc = "wait" /\ call \in {"ping", "arping"}
        /\ rx = << >> \/ (call = "arping" /\ left = 0)
    BY <1>4 DEF ProbeTimeout
  <2>2. NoMsg \in Messages
    BY DEF NoMsg, Messages
  <2>3. (call = "arping" /\ left = 0) \in BOOLEAN
    OBVIOUS
  <2> QED
    BY <2>1, <2>2, <2>3
<1> QED
  BY <1>2, <1>3, <1>4

(* A frame that is skipped. *)
LEMMA SkipEffect ==
  ASSUME ProbeAssumption, TypeOK, ArpingSkips
  PROVE  /\ rx' \in Seq(Messages) /\ Len(rx') = Len(rx) - 1 /\ 1 \in 1..Len(rx)
         /\ \A k \in 1..Len(rx') : rx'[k] = rx[k + 1]
         /\ rx[1].what # "arp" /\ call = "arping" /\ pc = "wait" /\ left' \in 0..Patience
         /\ UNCHANGED <<icmp, call, pc, sock, netVars, seq, traceVars, sample>>
<1>1. rx \in Seq(Messages) /\ rx # << >> /\ rx' = Tail(rx) /\ Head(rx).what # "arp"
  BY DEF ArpingSkips, IsArpReplyFor, TypeOK
<1>2. Len(rx) \in Nat /\ Len(rx) # 0
  BY <1>1, EmptySeq, LenProperties
<1>3. 1 \in 1..Len(rx) /\ Head(rx) = rx[1]
  BY <1>1, <1>2
<1>4. left' \in 0..Patience
  BY Constants DEF ArpingSkips, TypeOK
<1>5. /\ call = "arping" /\ pc = "wait"
      /\ UNCHANGED <<icmp, call, pc, sock, netVars, seq, traceVars, sample>>
  BY DEF ArpingSkips
<1>6. Tail(rx) \in Seq(Messages) /\ Len(Tail(rx)) = Len(rx) - 1
      /\ \A k \in 1..Len(Tail(rx)) : Tail(rx)[k] = rx[k + 1]
  BY <1>1, HeadTailProperties
<1> QED
  BY <1>1, <1>3, <1>4, <1>5, <1>6

(***************************************************************************)
(* Types.                                                                  *)
(***************************************************************************)
LEMMA TypeInit ==
  ASSUME ProbeAssumption, Init
  PROVE  TypeOK
<1>1. << >> \in Seq(Messages) /\ Len(<< >>) = 0 /\ << >> \in Seq(Hops)
  OBVIOUS
<1>2. /\ 0 <= RxMax /\ 0 \in 0..(SeqMod - 1) /\ 0 \in 0..Patience /\ 0 \in 0..MaxTtl
      /\ UdpWorks \in BOOLEAN
  BY Constants
<1>3. NoHop \in Hops
  BY DEF NoHop, Hops
<1>4. NoReport \in Reports
  BY <1>1, <1>2 DEF NoReport, Report, Reports
<1> QED
  BY <1>1, <1>2, <1>3, <1>4 DEF Init, TypeOK, Calls, Kinds

(* Which socket is open, and for what. *)
Phase ==
  /\ pc = "idle" <=> call = "none"
  /\ pc = "send" => call = "trace"
  /\ pc # "wait" <=> sock = "none"
  /\ pc = "wait" /\ call = "ping" => sock = icmp
  /\ pc = "wait" /\ call = "arping" => sock = "packet"
  /\ pc = "wait" /\ call = "trace" => sock \in {"udp", icmp}

LEMMA TypeStep ==
  ASSUME ProbeAssumption, TypeOK, Phase, [Next]_vars
  PROVE  TypeOK'
<1>0. << >> \in Seq(Messages) /\ Len(<< >>) = 0 /\ 0 <= RxMax /\ SeqMod \in Nat /\ 0 < SeqMod
  BY Constants
<1>1. CASE Ping \/ Arping \/ TraceUdp \/ TraceIcmp
  <2>1. PICK via \in {"icmp", "udp", "arp"}, s \in Kinds, hops \in Nat, number \in Nat :
           /\ Request(via, s, hops, number)
           /\ call' \in Calls /\ UNCHANGED <<icmp, sample, ttl, hop, trace>>
    BY <1>1, SendEffect DEF traceVars, Calls, Phase
  <2>2. /\ sent' \in Nat /\ heard' \in BOOLEAN /\ sock' \in Kinds /\ pc' = "wait"
        /\ rx' \in Seq(Messages) /\ Len(rx') <= RxMax
    <3>1. sent' = sent + 1 /\ heard' = FALSE /\ sock' = s /\ rx' = << >> /\ pc' = "wait"
      BY <2>1, RequestEffect
    <3>2. sent \in Nat
      BY DEF TypeOK
    <3>3. heard' \in BOOLEAN
      BY <3>1, Zenon
    <3>4. sent' \in Nat /\ sock' \in Kinds
      BY <3>1, <3>2
    <3>5. rx' \in Seq(Messages) /\ Len(rx') <= RxMax
      BY <1>0, <3>1
    <3> QED
      BY <3>1, <3>3, <3>4, <3>5
  <2>3. flight' \subseteq Requests
    <3>1. sent + 1 \in Nat /\ flight \subseteq Requests
      BY DEF TypeOK
    <3>2. Sent(via, hops, number) \in Requests
      BY <2>1, <3>1 DEF Sent, Requests
    <3> QED
      BY <2>1, <3>1, <3>2, RequestEffect
  <2>4. /\ seq' \in 0..(SeqMod - 1) /\ echoSeq' \in 0..(SeqMod - 1) /\ left' \in 0..Patience
        /\ useUdp' \in BOOLEAN /\ clean' \in BOOLEAN
    <3>1. seq + 1 \in Nat /\ echoSeq + 1 \in Nat /\ Patience \in 0..Patience
      BY Constants DEF TypeOK
    <3>2. (seq + 1) % SeqMod \in 0..(SeqMod - 1) /\ (echoSeq + 1) % SeqMod \in 0..(SeqMod - 1)
      BY <1>0, <3>1, ModTyped
    <3> QED
      BY <1>1, <3>1, <3>2 DEF Ping, Arping, TraceUdp, TraceIcmp, traceVars, TypeOK
  <2> QED
    BY <2>1, <2>2, <2>3, <2>4 DEF TypeOK, Calls
<1>2. CASE PingReads \/ ArpingReads \/ ProbeTimeout
  <2>1. PICK replied \in BOOLEAN, by \in Messages, spent \in BOOLEAN :
           Finish(replied, by, spent) /\ left' = left /\ call \in {"ping", "arping"}
    BY <1>2, EndEffect
  <2>2. sample' \in [call : Calls, via : Kinds, replied : BOOLEAN, by : Messages, n : Nat,
                     heard : BOOLEAN, spent : BOOLEAN]
    BY <2>1, FinishEffect DEF TypeOK, Calls
  <2> QED
    BY <1>0, <2>1, <2>2, FinishEffect DEF TypeOK, Kinds, netVars, traceVars
<1>3. CASE TraceReads \/ TraceTimeout \/ TraceUnsent
  <2>1. PICK h \in Hops : Recorded(h)
    BY <1>3, OutcomeEffect
  <2>3. /\ trace' \in Reports
        /\ sock' = "none" /\ rx' = << >>
        /\ hop' \in {h, NoHop} /\ call' \in {call, "none"} /\ pc' \in {"idle", "send"}
        /\ ttl' = ttl \/ (ttl' = ttl + 1 /\ ttl # MaxTtl)
        /\ UNCHANGED <<icmp, sent, flight, heard, seq, left, clean, sample>>
    BY <2>1 DEF Recorded, netVars
  <2>4. ttl' \in 0..MaxTtl
    <3>1. ttl \in 0..MaxTtl /\ MaxTtl \in Nat
      BY Constants DEF TypeOK
    <3> QED
      BY <2>3, <3>1
  <2>5. hop' \in Hops
    BY <2>3 DEF NoHop, Hops
  <2>6. useUdp' \in BOOLEAN /\ echoSeq' \in 0..(SeqMod - 1)
    <3>1. echoSeq + 1 \in Nat
      BY DEF TypeOK
    <3>2. (echoSeq + 1) % SeqMod \in 0..(SeqMod - 1)
      BY <1>0, <3>1, ModTyped
    <3> QED
      BY <1>3, <3>2 DEF TraceReads, TraceTimeout, TraceUnsent, TypeOK
  <2>7. /\ rx' \in Seq(Messages) /\ Len(rx') <= RxMax /\ sock' \in Kinds
        /\ call' \in Calls \cup {"none"} /\ pc' \in {"idle", "send", "wait"}
    BY <1>0, <2>3 DEF TypeOK, Kinds
  <2> QED
    BY <2>3, <2>4, <2>5, <2>6, <2>7 DEF TypeOK
<1>4. CASE Answer \/ Foreign
  <2>1. PICK m \in Messages :
          /\ Len(rx) < RxMax /\ rx' = Append(rx, m)
          /\ flight' \subseteq flight /\ heard' \in BOOLEAN
          /\ UNCHANGED <<icmp, call, pc, sock, sent, seq, left, traceVars, sample>>
    <3>1. CASE Answer
      BY <3>1, AnswerEffect
    <3>2. CASE Foreign
      <4>1. heard \in BOOLEAN
        BY DEF TypeOK
      <4> QED
        BY <3>2, <4>1, ForeignEffect DEF netVars
    <3> QED
      BY <1>4, <3>1, <3>2
  <2>2. rx' \in Seq(Messages) /\ Len(rx') = Len(rx) + 1 /\ Len(rx) \in Nat
    BY <2>1, AppendTo, LenProperties DEF TypeOK
  <2>3. Len(rx') <= RxMax
    BY <2>1, <2>2, Constants
  <2> QED
    BY <2>1, <2>2, <2>3 DEF TypeOK, traceVars
<1>5. CASE ArpingSkips
  <2>1. Len(rx) \in Nat /\ RxMax \in Nat /\ Len(rx) <= RxMax
    BY Constants, LenProperties DEF TypeOK
  <2>2. Len(rx') <= RxMax
    BY <1>5, <2>1, SkipEffect
  <2> QED
    BY <1>5, <2>2, SkipEffect DEF TypeOK, netVars, traceVars
<1>6. CASE Trace
  <2>1. NoReport \in Reports
    <3>1. << >> \in Seq(Hops) /\ 0 \in 0..MaxTtl
      BY Constants
    <3> QED
      BY <3>1 DEF NoReport, Report, Reports
  <2>2. 0 \in 0..(SeqMod - 1) /\ 1 \in 0..MaxTtl /\ NoHop \in Hops /\ UdpWorks \in BOOLEAN
    BY Constants DEF NoHop, Hops
  <2> QED
    BY <1>6, <2>1, <2>2 DEF Trace, Begin, TypeOK, Calls, netVars
<1>7. CASE PingUnsent
  <2>1. seq + 1 \in Nat
    BY DEF TypeOK
  <2>2. (seq + 1) % SeqMod \in 0..(SeqMod - 1)
    BY <1>0, <2>1, ModTyped
  <2> QED
    BY <1>7, <2>2 DEF PingUnsent, TypeOK, callVars, netVars, traceVars
<1>8. CASE UNCHANGED vars
  BY <1>8 DEF vars, callVars, netVars, traceVars, TypeOK
<1> QED
  BY <1>1, <1>2, <1>3, <1>4, <1>5, <1>6, <1>7, <1>8 DEF Next, Start, Probe, Network

LEMMA PhaseStep ==
  ASSUME ProbeAssumption, TypeOK, Phase, [Next]_vars
  PROVE  Phase'
<1>1. CASE Ping \/ Arping \/ TraceUdp \/ TraceIcmp
  <2>1. PICK via \in {"icmp", "udp", "arp"}, s \in Kinds, hops \in Nat, number \in Nat :
           /\ Request(via, s, hops, number)
           /\ \/ call' = "ping" /\ s = icmp
              \/ call' = "arping" /\ s = "packet"
              \/ call' = "trace" /\ s \in {"udp", icmp}
           /\ icmp' = icmp
    BY <1>1, SendEffect DEF Phase
  <2>2. sock' = s /\ pc' = "wait"
    BY <2>1, RequestEffect
  <2>3. icmp \in {"dgram", "raw"}
    BY Constants DEF TypeOK
  <2> QED
    BY <2>1, <2>2, <2>3 DEF Phase
<1>2. CASE PingReads \/ ArpingReads \/ ProbeTimeout
  <2>1. call' = "none" /\ pc' = "idle" /\ sock' = "none"
    BY <1>2, EndEffect, FinishEffect
  <2> QED
    BY <2>1 DEF Phase
<1>3. CASE TraceReads \/ TraceTimeout \/ TraceUnsent
  <2>1. PICK h \in Hops : Recorded(h)
    BY <1>3, OutcomeEffect
  <2>3. /\ sock' = "none"
        /\ (call' = "none" /\ pc' = "idle") \/ (call' = call /\ pc' = "send")
    BY <2>1 DEF Recorded
  <2>4. call = "trace"
    BY <1>3 DEF TraceReads, TraceTimeout, TraceUnsent, Phase
  <2> QED
    BY <2>3, <2>4 DEF Phase
<1>4. CASE Answer \/ Foreign \/ ArpingSkips \/ PingUnsent \/ UNCHANGED vars
  <2>1. UNCHANGED <<icmp, call, pc, sock>>
    BY <1>4 DEF Answer, Foreign, ArpingSkips, PingUnsent, callVars, vars
  <2> QED
    BY <2>1 DEF Phase
<1>5. CASE Trace
  BY <1>5 DEF Trace, Begin, Phase
<1> QED
  BY <1>1, <1>2, <1>3, <1>4, <1>5 DEF Next, Start, Probe, Network

(***************************************************************************)
(* The requests in flight.                                                 *)
(***************************************************************************)
(* No request is later than the last one. *)
Numbered == \A r \in flight : r.n <= sent

(* While a call waits, the latest request is its own; a ping in flight has *)
(* the sequence number that is waited for only if it is that request.      *)
OwnRequest ==
  pc = "wait" => \A r \in flight :
    /\ call = "ping" /\ r.n = sent => r.seq = seq
    /\ call = "ping" /\ r.of = "ping" /\ r.seq = seq => r.n = sent
    /\ call = "trace" /\ r.n = sent => r.ttl = ttl

LEMMA FlightStep ==
  ASSUME ProbeAssumption, TypeOK, Phase, Numbered, OwnRequest, [Next]_vars
  PROVE  Numbered' /\ OwnRequest'
<1>0. /\ sent \in Nat
      /\ \A r \in flight : r.n \in Nat /\ r.n <= sent
  <2>1. sent \in Nat /\ \A r \in flight : r \in Requests
    BY DEF TypeOK
  <2> QED
    BY <2>1 DEF Numbered, Requests
<1>1. ASSUME NEW via, NEW s, NEW hops, NEW number, Request(via, s, hops, number),
             call' = "ping" => number = seq', call' = "trace" => hops = ttl /\ ttl' = ttl
      PROVE  Numbered' /\ OwnRequest'
  <2> DEFINE new == Sent(via, hops, number)
  <2>1. /\ sent' = sent + 1 /\ pc' = "wait"
        /\ \A r \in flight' :
             \/ r = new
             \/ r \in flight /\ (call' = "ping" /\ r.of = "ping" => r.seq # number)
    BY <1>1, RequestEffect
  <2>2. new.n = sent + 1 /\ new.of = call' /\ new.seq = number /\ new.ttl = hops
    BY DEF Sent
  <2> HIDE DEF new
  <2>3. ASSUME NEW r \in flight'
        PROVE  /\ r.n <= sent + 1
               /\ call' = "ping" /\ r.n = sent + 1 => r.seq = seq'
               /\ call' = "ping" /\ r.of = "ping" /\ r.seq = seq' => r.n = sent + 1
               /\ call' = "trace" /\ r.n = sent + 1 => r.ttl = ttl'
    <3>1. CASE r = new
      BY <1>0, <1>1, <2>2, <3>1
    <3>2. CASE r \in flight /\ (call' = "ping" /\ r.of = "ping" => r.seq # number)
      <4>1. r.n \in Nat /\ r.n <= sent
        BY <1>0, <3>2
      <4> QED
        BY <1>0, <1>1, <3>2, <4>1
    <3> QED
      BY <2>1, <3>1, <3>2
  <2>4. Numbered'
    BY <2>1, <2>3 DEF Numbered
  <2>5. OwnRequest'
    BY <2>1, <2>3 DEF OwnRequest
  <2> QED
    BY <2>4, <2>5
<1>2. CASE Ping \/ Arping \/ TraceUdp \/ TraceIcmp
  <2>1. PICK via \in {"icmp", "udp", "arp"}, s \in Kinds, hops \in Nat, number \in Nat :
           /\ Request(via, s, hops, number)
           /\ \/ call' = "ping" /\ number = seq'
              \/ call' = "arping"
              \/ call' = "trace" /\ hops = ttl /\ ttl' = ttl
    BY <1>2, SendEffect DEF Phase
  <2> QED
    BY <1>1, <2>1
<1>3. CASE PingReads \/ ArpingReads \/ ProbeTimeout
  <2>1. pc' = "idle" /\ UNCHANGED <<sent, flight, seq>>
    BY <1>3, EndEffect, FinishEffect DEF netVars
  <2> QED
    BY <2>1 DEF Numbered, OwnRequest
<1>4. CASE TraceReads \/ TraceTimeout \/ TraceUnsent
  <2>1. pc' # "wait" /\ UNCHANGED <<sent, flight, seq>>
    BY <1>4, OutcomeEffect DEF Recorded, netVars
  <2> QED
    BY <2>1 DEF Numbered, OwnRequest
<1>5. CASE Answer \/ Foreign \/ ArpingSkips \/ UNCHANGED vars
  <2>1. flight' \subseteq flight /\ UNCHANGED <<pc, call, sent, seq, ttl>>
    BY <1>5 DEF Answer, Foreign, ArpingSkips, vars, callVars, netVars, traceVars
  <2> QED
    BY <2>1 DEF Numbered, OwnRequest
<1>6. CASE Trace
  <2>1. pc' = "send" /\ UNCHANGED <<sent, flight, seq>>
    BY <1>6 DEF Trace, netVars
  <2> QED
    BY <2>1 DEF Numbered, OwnRequest
<1>7. CASE PingUnsent
  <2>1. pc' = "idle" /\ UNCHANGED <<sent, flight>>
    BY <1>7 DEF PingUnsent, callVars, netVars
  <2> QED
    BY <2>1 DEF Numbered, OwnRequest
<1> QED
  BY <1>2, <1>3, <1>4, <1>5, <1>6, <1>7 DEF Next, Start, Probe, Network

(***************************************************************************)
(* The messages that wait.                                                 *)
(***************************************************************************)
(* A message that a call is going to read is about its own request, except *)
(* on a raw socket, where at least no late answer to a ping has the        *)
(* sequence number that is waited for.                                     *)
Fitting(m) ==
  /\ call = "ping" /\ m.of = "ping" /\ m.seq = seq => m.n = sent
  /\ call = "ping" /\ sock = "dgram" => m.n = sent /\ m.what = "echo" /\ m.seq = seq
  /\ call = "trace" /\ sock # "raw" => m.from <= ttl /\ (IsDest(m) <=> LastWord(m) \/ StandIn(m))

WaitingFits == pc = "wait" => \A k \in 1..Len(rx) : Fitting(rx[k])

(* An answer that came is not overlooked: it is still waiting. *)
HeardWaits ==
  pc = "wait" /\ heard =>
    /\ call = "ping" /\ sock = "dgram" => rx # << >>
    /\ call = "arping" => \E k \in 1..Len(rx) : rx[k].what = "arp"

(* What arrives fits, because the socket lets through only answers to its  *)
(* own request or because the request was a different one.                 *)
LEMMA ArrivalFits ==
  ASSUME ProbeAssumption, TypeOK, Phase, OwnRequest, pc = "wait",
         NEW r \in flight, NEW m \in Answers(r), Receives(m)
  PROVE  Fitting(m)
<1>1. r \in Requests
  BY DEF TypeOK
<1>2. /\ m \in Messages /\ m.n = r.n /\ m.of = r.of /\ m.seq = r.seq
      /\ m.what # "arp" => m.from <= r.ttl
      /\ m.what = "echo" => m.from = Distance
  BY <1>1, AnswersTrue
<1>3. /\ call = "ping" /\ r.n = sent => r.seq = seq
      /\ call = "ping" /\ r.of = "ping" /\ r.seq = seq => r.n = sent
      /\ call = "trace" /\ r.n = sent => r.ttl = ttl
  BY DEF OwnRequest
<1>4. ASSUME call = "trace", sock # "raw"
      PROVE  m.from <= ttl /\ (IsDest(m) <=> LastWord(m) \/ StandIn(m))
  <2>1. icmp \in {"dgram", "raw"} /\ sock \in {"udp", icmp}
    BY <1>4, Constants DEF TypeOK, Phase
  <2>2. m.n = sent /\ r.ttl = ttl
    BY <1>2, <1>3, <1>4, <2>1, ReceivesWhat
  <2>3. Distance \in Nat /\ m.from \in Nat
    BY <1>2, Constants DEF Messages
  <2>4. CASE sock = "udp"
    <3>1. m.what \in {"port", "exceeded", "unreach"}
      BY <2>4, ReceivesWhat
    <3>2. m.from <= ttl /\ (m.what = "port" <=> LastWord(m) \/ StandIn(m))
      BY <1>2, <2>2, <2>3, <3>1 DEF LastWord, StandIn
    <3> QED
      BY <2>4, <3>2, Zenon DEF IsDest
  <2>5. CASE sock = "dgram"
    <3>1. m.what = "echo"
      BY <2>5, ReceivesWhat
    <3>2. m.from <= ttl /\ LastWord(m)
      BY <1>2, <2>2, <3>1 DEF LastWord
    <3>3. IsDest(m)
      BY <2>5, <3>1 DEF IsDest
    <3> QED
      BY <3>2, <3>3
  <2> QED
    BY <1>4, <2>1, <2>4, <2>5
<1>5. ASSUME call = "ping", sock = "dgram" PROVE m.n = sent /\ m.what = "echo" /\ m.seq = seq
  BY <1>2, <1>3, <1>5, ReceivesWhat
<1>6. call = "ping" /\ m.of = "ping" /\ m.seq = seq => m.n = sent
  BY <1>2, <1>3
<1> QED
  BY <1>4, <1>5, <1>6 DEF Fitting

LEMMA WaitingStep ==
  ASSUME ProbeAssumption, TypeOK, Phase, OwnRequest, WaitingFits, HeardWaits, [Next]_vars
  PROVE  WaitingFits' /\ HeardWaits'
<1>0. rx \in Seq(Messages) /\ Len(rx) \in Nat
  BY LenProperties DEF TypeOK
<1>1. CASE Ping \/ Arping \/ TraceUdp \/ TraceIcmp
  <2>1. rx' = << >> /\ heard' = FALSE
    BY <1>1, SendEffect, RequestEffect
  <2>2. Len(<< >>) = 0
    OBVIOUS
  <2> QED
    BY <2>1, <2>2 DEF WaitingFits, HeardWaits
<1>2. CASE PingReads \/ ArpingReads \/ ProbeTimeout
  <2>1. pc' = "idle"
    BY <1>2, EndEffect, FinishEffect
  <2> QED
    BY <2>1 DEF WaitingFits, HeardWaits
<1>3. CASE TraceReads \/ TraceTimeout \/ TraceUnsent
  <2>1. pc' # "wait"
    BY <1>3, OutcomeEffect DEF Recorded
  <2> QED
    BY <2>1 DEF WaitingFits, HeardWaits
<1>4. ASSUME NEW m \in Messages, rx' = Append(rx, m), Fitting(m), pc = "wait",
             UNCHANGED <<call, pc, sock, sent, seq, ttl>>,
             heard' => heard \/ sock = "dgram" \/ m.what = "arp" \/ call # "arping"
      PROVE  WaitingFits' /\ HeardWaits'
  <2>1. /\ Len(rx') = Len(rx) + 1
        /\ \A k \in 1..(Len(rx) + 1) : rx'[k] = IF k <= Len(rx) THEN rx[k] ELSE m
    BY <1>0, <1>4, AppendTo
  <2>2. \A x : Fitting(x)' <=> Fitting(x)
    BY <1>4 DEF Fitting, IsDest, LastWord, StandIn
  <2>3. \A k \in 1..Len(rx') : Fitting(rx'[k])
    <3>1. \A k \in 1..Len(rx) : Fitting(rx[k])
      BY <1>4 DEF WaitingFits
    <3>2. \A k \in 1..Len(rx') : rx'[k] = m \/ (k \in 1..Len(rx) /\ rx'[k] = rx[k])
      BY <1>0, <2>1
    <3> QED
      BY <1>4, <3>1, <3>2
  <2>4. WaitingFits'
    BY <2>2, <2>3 DEF WaitingFits, Fitting, IsDest, LastWord, StandIn
  <2>5. rx' # << >> /\ rx'[Len(rx')] = m /\ Len(rx') \in 1..Len(rx')
        /\ \A k \in 1..Len(rx) : k \in 1..Len(rx') /\ rx'[k] = rx[k]
    BY <1>0, <2>1
  <2>6. ASSUME heard', call' = "arping" PROVE \E k \in 1..Len(rx') : rx'[k].what = "arp"
    <3>1. call = "arping" /\ sock = "packet"
      BY <1>4, <2>6 DEF Phase
    <3>2. CASE m.what = "arp"
      BY <2>5, <3>2
    <3>3. CASE heard
      <4>1. PICK k \in 1..Len(rx) : rx[k].what = "arp"
        BY <1>4, <3>1, <3>3 DEF HeardWaits
      <4> QED
        BY <2>5, <4>1
    <3> QED
      BY <1>4, <2>6, <3>1, <3>2, <3>3
  <2>7. HeardWaits'
    BY <2>5, <2>6 DEF HeardWaits
  <2> QED
    BY <2>4, <2>7
<1>5. CASE Answer
  <2>1. PICK r \in flight, m \in Messages :
           /\ m \in Answers(r) /\ Receives(m) /\ rx' = Append(rx, m)
           /\ heard' = (heard \/ (m.n = sent /\ m.what \in {"echo", "arp"}))
           /\ UNCHANGED <<icmp, call, pc, sock, sent, seq, left, traceVars, sample>>
    BY <1>5, AnswerEffect
  <2>2. pc = "wait" /\ (call = "arping" => m.what = "arp")
    BY <2>1, ReceivesWhat DEF Phase
  <2>3. Fitting(m)
    BY <2>1, <2>2, ArrivalFits
  <2> QED
    BY <1>4, <2>1, <2>2, <2>3 DEF traceVars
<1>6. CASE Foreign
  <2>1. PICK m \in Messages :
           /\ sock \in {"raw", "packet"} /\ m.of = "foreign" /\ rx' = Append(rx, m)
           /\ UNCHANGED <<icmp, call, pc, sock, netVars, seq, left, traceVars, sample>>
    BY <1>6, ForeignEffect
  <2>2. pc = "wait" /\ (call = "trace" => sock = "raw")
    <3>1. icmp \in {"dgram", "raw"}
      BY Constants DEF TypeOK
    <3> QED
      BY <2>1, <3>1 DEF Phase
  <2>3. Fitting(m)
    BY <2>1, <2>2 DEF Fitting
  <2> QED
    BY <1>4, <2>1, <2>2, <2>3 DEF netVars, traceVars
<1>7. CASE ArpingSkips
  <2>1. /\ Len(rx') = Len(rx) - 1 /\ 1 \in 1..Len(rx)
        /\ \A k \in 1..Len(rx') : rx'[k] = rx[k + 1]
        /\ rx[1].what # "arp" /\ call = "arping" /\ pc = "wait"
        /\ UNCHANGED <<icmp, call, pc, sock, netVars, seq, traceVars, sample>>
    BY <1>7, SkipEffect
  <2>2. WaitingFits'
    BY <2>1 DEF WaitingFits, Fitting
  <2>3. ASSUME heard' PROVE \E k \in 1..Len(rx') : rx'[k].what = "arp"
    <3>1. PICK k \in 1..Len(rx) : rx[k].what = "arp"
      BY <2>1, <2>3 DEF HeardWaits, netVars
    <3>2. k # 1
      BY <2>1, <3>1
    <3>3. k - 1 \in 1..Len(rx') /\ (k - 1) + 1 = k
      BY <1>0, <2>1, <3>2
    <3>4. rx'[k - 1] = rx[k]
      BY <2>1, <3>3
    <3> QED
      BY <3>1, <3>3, <3>4
  <2> QED
    BY <2>1, <2>2, <2>3 DEF HeardWaits
<1>8. CASE Trace
  <2>1. pc' = "send"
    BY <1>8 DEF Trace
  <2> QED
    BY <2>1 DEF WaitingFits, HeardWaits
<1>9. CASE PingUnsent
  <2>1. pc' = "idle"
    BY <1>9 DEF PingUnsent, callVars
  <2> QED
    BY <2>1 DEF WaitingFits, HeardWaits
<1>10. CASE UNCHANGED vars
  <2>1. UNCHANGED <<call, pc, sock, rx, sent, seq, ttl, heard>>
    BY <1>10 DEF vars, callVars, netVars, traceVars
  <2> QED
    BY <2>1 DEF WaitingFits, HeardWaits, Fitting, IsDest, LastWord, StandIn
<1> QED
  BY <1>1, <1>2, <1>3, <1>5, <1>6, <1>7, <1>8, <1>9, <1>10 DEF Next, Start, Probe, Network

(***************************************************************************)
(* The samples.                                                            *)
(***************************************************************************)
LEMMA SampleStep ==
  ASSUME ProbeAssumption, TypeOK, Phase, WaitingFits, HeardWaits, SampleTrue, [Next]_vars
  PROVE  SampleTrue'
<1>1. CASE PingReads \/ ArpingReads \/ ProbeTimeout
  <2>1. PICK replied \in BOOLEAN, by \in Messages, spent \in BOOLEAN :
           /\ Finish(replied, by, spent)
           /\ pc = "wait" /\ call \in {"ping", "arping"}
           /\ \/ /\ call = "ping" /\ rx # << >> /\ 1 \in 1..Len(rx) /\ by = rx[1]
                 /\ (replied <=> IsReply(rx[1]))
              \/ call = "arping" /\ replied
              \/ ~replied /\ rx = << >>
              \/ call = "arping" /\ spent
    BY <1>1, EndEffect
  <2>2. /\ sample'.call = call /\ sample'.via = sock /\ sample'.replied = replied
        /\ sample'.by = by /\ sample'.n = sent /\ sample'.heard = heard /\ sample'.spent = spent
    BY <2>1, FinishEffect
  <2>3. CASE call = "ping" /\ 1 \in 1..Len(rx) /\ by = rx[1] /\ (replied <=> IsReply(rx[1]))
    <3>1. Fitting(by)
      BY <2>1, <2>3 DEF WaitingFits
    <3>2. replied <=> (by.what = "echo" /\ by.seq = seq)
      BY <2>3 DEF IsReply
    <3>3. replied /\ by.of = "ping" => by.n = sent
      BY <2>3, <3>1, <3>2 DEF Fitting
    <3>4. sock = "dgram" => by.n = sent /\ replied
      BY <2>3, <3>1, <3>2 DEF Fitting
    <3> QED
      BY <2>2, <2>3, <3>3, <3>4 DEF SampleTrue
  <2>4. CASE call = "arping" /\ (replied \/ spent)
    BY <2>2, <2>4 DEF SampleTrue
  <2>5. CASE ~replied /\ rx = << >>
    <3>1. Len(<< >>) = 0
      OBVIOUS
    <3>2. /\ call = "ping" /\ sock = "dgram" => ~heard
          /\ call = "arping" => ~heard
      BY <2>1, <2>5, <3>1 DEF HeardWaits
    <3> QED
      BY <2>2, <2>5, <3>2 DEF SampleTrue
  <2> QED
    BY <2>1, <2>3, <2>4, <2>5
<1>2. CASE Ping \/ Arping \/ TraceUdp \/ TraceIcmp
  <2>1. sample' = sample
    BY <1>2 DEF Ping, Arping, TraceUdp, TraceIcmp
  <2> QED
    BY <2>1 DEF SampleTrue
<1>3. CASE TraceReads \/ TraceTimeout \/ TraceUnsent
  <2>1. sample' = sample
    BY <1>3, OutcomeEffect DEF Recorded
  <2> QED
    BY <2>1 DEF SampleTrue
<1>4. CASE Answer \/ Foreign \/ ArpingSkips \/ Trace \/ PingUnsent \/ UNCHANGED vars
  <2>1. sample' = sample
    BY <1>4 DEF Answer, Foreign, ArpingSkips, Trace, PingUnsent, vars
  <2> QED
    BY <2>1 DEF SampleTrue
<1> QED
  BY <1>1, <1>2, <1>3, <1>4 DEF Next, Start, Probe, Network

(***************************************************************************)
(* The trace.                                                              *)
(***************************************************************************)
(* A host grants ICMP sockets of one kind: a trace that used a raw socket  *)
(* could not have used another.                                            *)
CleanHost ==
  /\ ~clean => icmp = "raw"
  /\ clean /\ pc = "wait" /\ call = "trace" => sock # "raw"

(* The hops recorded so far, and who ended the trace: once the target gave *)
(* its last word, the TTL does not move on.                                *)
HopsTrue ==
  clean =>
    /\ trace.reached => trace.answered # 0 \/ trace.refused
    /\ trace.answered # 0 => trace.reached /\ trace.answered = ttl
    /\ Len(trace.hops) = (IF call = "trace" THEN ttl - 1 ELSE ttl)
    /\ \A k \in 1..Len(trace.hops) :
         trace.hops[k].from <= k /\ trace.hops[k].sent = PerHop
    /\ call = "trace" => hop.from <= ttl

(* The hop that a probe leaves is no farther than its TTL, and what the    *)
(* trace says of the target rests on what was read.                        *)
Outcome(h) ==
  /\ Recorded(h) /\ h.from <= ttl
  /\ trace'.reached => trace'.answered # 0 \/ trace'.refused
  /\ trace'.answered # 0 => trace'.reached /\ trace'.answered = ttl

LEMMA OutcomeTrue ==
  ASSUME ProbeAssumption, TypeOK, Phase, WaitingFits, CleanHost, HopsTrue, clean, ttl # 0,
         TraceReads \/ TraceTimeout \/ TraceUnsent
  PROVE  \E h \in Hops : Outcome(h)
<1>1. PICK h \in Hops :
           /\ Recorded(h)
           /\ \/ /\ pc = "wait" /\ call = "trace" /\ 1 \in 1..Len(rx) /\ h.from = rx[1].from
                 /\ Noted(rx[1], IsDest(rx[1]))
              \/ h.from = hop.from /\ Noted(NoMsg, FALSE)
  BY OutcomeEffect
<1>2. call = "trace"
  BY DEF TraceReads, TraceTimeout, TraceUnsent, Phase
<1>3. /\ trace.reached => trace.answered # 0 \/ trace.refused
      /\ trace.answered # 0 => trace.reached /\ trace.answered = ttl
      /\ hop.from <= ttl
  BY <1>2 DEF HopsTrue
<1>4. CASE /\ pc = "wait" /\ call = "trace" /\ 1 \in 1..Len(rx) /\ h.from = rx[1].from
           /\ Noted(rx[1], IsDest(rx[1]))
  <2>1. Fitting(rx[1]) /\ sock # "raw"
    BY <1>4 DEF WaitingFits, CleanHost
  <2>2. rx[1].from <= ttl /\ (IsDest(rx[1]) <=> LastWord(rx[1]) \/ StandIn(rx[1]))
    BY <1>4, <2>1 DEF Fitting
  <2>3. /\ trace'.reached <=> trace.reached \/ IsDest(rx[1])
        /\ trace'.answered = IF trace.answered = 0 /\ LastWord(rx[1]) THEN ttl ELSE trace.answered
        /\ trace'.refused <=> trace.refused \/ StandIn(rx[1])
    BY <1>4 DEF Noted
  <2>4. trace'.reached => trace'.answered # 0 \/ trace'.refused
    BY <1>3, <2>2, <2>3, Zenon
  <2>5. trace'.answered # 0 => trace'.reached /\ trace'.answered = ttl
    BY <1>3, <2>2, <2>3, Zenon
  <2> QED
    BY <1>1, <1>4, <2>2, <2>4, <2>5 DEF Outcome
<1>5. CASE h.from = hop.from /\ Noted(NoMsg, FALSE)
  <2>1. ~LastWord(NoMsg) /\ ~StandIn(NoMsg)
    BY DEF NoMsg, LastWord, StandIn
  <2> QED
    BY <1>1, <1>3, <1>5, <2>1 DEF Noted, Outcome
<1> QED
  BY <1>1, <1>4, <1>5

LEMMA TraceStep ==
  ASSUME ProbeAssumption, TypeOK, Phase, WaitingFits, CleanHost, HopsTrue, [Next]_vars
  PROVE  CleanHost' /\ HopsTrue'
<1>0. /\ ttl \in Nat /\ Distance \in Nat /\ 0 < Distance /\ icmp \in {"dgram", "raw"}
      /\ trace.hops \in Seq(Hops) /\ Len(trace.hops) \in Nat
  <2>1. trace.hops \in Seq(Hops)
    BY DEF TypeOK, Reports
  <2>2. Len(trace.hops) \in Nat
    BY <2>1, LenProperties
  <2>3. ttl \in Nat /\ icmp \in {"dgram", "raw"}
    BY Constants DEF TypeOK
  <2> QED
    BY <2>1, <2>2, <2>3, Constants
<1>1. ASSUME UNCHANGED <<trace, ttl, hop, clean>>, call' = "trace" <=> call = "trace" PROVE HopsTrue'
  BY <1>1 DEF HopsTrue
<1>2. CASE Ping \/ Arping
  <2>1. /\ call' \in {"ping", "arping"} /\ pc = "idle"
        /\ UNCHANGED <<trace, ttl, hop, clean, icmp>>
    BY <1>2 DEF Ping, Arping, Begin, traceVars
  <2>2. call # "trace"
    BY <2>1 DEF Phase
  <2> QED
    BY <1>1, <2>1, <2>2 DEF CleanHost
<1>3. CASE TraceUdp
  <2>1. /\ call' = call /\ UNCHANGED <<trace, ttl, hop, clean, icmp>>
        /\ Request("udp", "udp", ttl, 0)
    BY <1>3 DEF TraceUdp, traceVars
  <2>2. sock' = "udp"
    BY <2>1, RequestEffect
  <2> QED
    BY <1>1, <2>1, <2>2 DEF CleanHost
<1>4. CASE TraceIcmp
  <2>1. /\ call' = call /\ UNCHANGED <<trace, ttl, hop, icmp>> /\ clean' = (icmp # "raw")
        /\ Request("icmp", icmp, ttl, echoSeq')
    BY <1>4 DEF TraceIcmp
  <2>2. sock' = icmp
    BY <2>1, RequestEffect
  <2>3. CleanHost'
    BY <2>1, <2>2 DEF CleanHost
  <2>4. clean' => clean
    BY <2>1 DEF CleanHost
  <2>5. HopsTrue'
    BY <2>1, <2>4 DEF HopsTrue
  <2> QED
    BY <2>3, <2>5
<1>5. CASE PingReads \/ ArpingReads \/ ProbeTimeout
  <2>1. /\ call' = "none" /\ pc' = "idle" /\ call # "trace"
        /\ UNCHANGED <<trace, ttl, hop, clean, icmp>>
    BY <1>5, EndEffect, FinishEffect DEF traceVars
  <2> QED
    BY <1>1, <2>1 DEF CleanHost
<1>6. CASE TraceReads \/ TraceTimeout \/ TraceUnsent
  <2>1. UNCHANGED <<clean, icmp>> /\ pc' # "wait"
    BY <1>6, OutcomeEffect DEF Recorded
  <2>2. CleanHost'
    BY <2>1 DEF CleanHost
  <2>3. CASE ~clean
    BY <2>1, <2>2, <2>3 DEF HopsTrue
  <2>4. CASE clean
    <3>2. call = "trace"
      BY <1>6 DEF TraceReads, TraceTimeout, TraceUnsent, Phase
    <3> DEFINE hops == trace.hops
    <3>3. /\ Len(hops) = ttl - 1
          /\ \A k \in 1..Len(hops) : hops[k].from <= k /\ hops[k].sent = PerHop
      BY <2>4, <3>2 DEF HopsTrue
    <3>4. ttl # 0
      BY <1>0, <3>3
    <3>1. PICK h \in Hops : Outcome(h)
      BY <1>6, <2>4, <3>4, OutcomeTrue
    <3>9. /\ Recorded(h) /\ h.from <= ttl
          /\ trace'.reached => trace'.answered # 0 \/ trace'.refused
          /\ trace'.answered # 0 => trace'.reached /\ trace'.answered = ttl
      BY <3>1 DEF Outcome
    <3>5. CASE /\ trace'.hops = trace.hops /\ hop' = h
               /\ ttl' = ttl /\ call' = call /\ pc' = "send"
      BY <2>2, <3>9, <3>2, <3>3, <3>5 DEF HopsTrue
    <3>6. ASSUME h.sent = PerHop, trace'.hops = Append(trace.hops, h)
          PROVE  /\ Len(trace'.hops) = ttl
                 /\ \A k \in 1..ttl : trace'.hops[k].from <= k /\ trace'.hops[k].sent = PerHop
      <4> DEFINE new == trace'.hops
      <4>1. /\ Len(new) = Len(hops) + 1
            /\ \A k \in 1..(Len(hops) + 1) : new[k] = IF k <= Len(hops) THEN hops[k] ELSE h
        BY <1>0, <3>6, AppendTo
      <4> HIDE DEF new, hops
      <4>2. Len(hops) + 1 = ttl
        BY <1>0, <3>3
      <4>3. \A k \in 1..ttl : (k \in 1..Len(hops) /\ new[k] = hops[k]) \/ (k = ttl /\ new[k] = h)
        BY <1>0, <3>3, <4>1, <4>2
      <4>4. /\ Len(new) = ttl
            /\ \A k \in 1..ttl : new[k].from <= k /\ new[k].sent = PerHop
        BY <3>9, <3>3, <3>6, <4>1, <4>2, <4>3
      <4> QED
        BY <4>4 DEF new
    <3>7. CASE /\ h.sent = PerHop /\ trace'.hops = Append(trace.hops, h) /\ hop' = NoHop
               /\ ttl' = ttl /\ call' = "none" /\ pc' = "idle"
      BY <2>2, <3>9, <3>6, <3>7 DEF HopsTrue
    <3>8. CASE /\ h.sent = PerHop /\ trace'.hops = Append(trace.hops, h) /\ hop' = NoHop
               /\ ~trace'.reached /\ ttl # MaxTtl
               /\ ttl' = ttl + 1 /\ call' = call /\ pc' = "send"
      <4>1. hop'.from = 0 /\ hop'.from <= ttl'
        BY <1>0, <3>8 DEF NoHop
      <4>2. Len(trace'.hops) = ttl' - 1
        BY <1>0, <3>6, <3>8
      <4>3. \A k \in 1..Len(trace'.hops) :
              trace'.hops[k].from <= k /\ trace'.hops[k].sent = PerHop
        BY <3>6, <3>8
      <4>4. ~trace'.reached /\ trace'.answered = 0
        BY <3>9, <3>8
      <4> QED
        BY <2>2, <3>2, <3>8, <4>1, <4>2, <4>3, <4>4 DEF HopsTrue
    <3> QED
      BY <3>9, <3>5, <3>7, <3>8 DEF Recorded
  <2> QED
    BY <2>2, <2>3, <2>4
<1>7. CASE Answer \/ Foreign \/ ArpingSkips \/ PingUnsent \/ UNCHANGED vars
  <2>1. UNCHANGED <<icmp, call, pc, sock, trace, ttl, hop, clean>>
    BY <1>7 DEF Answer, Foreign, ArpingSkips, PingUnsent, vars, callVars, traceVars
  <2> QED
    BY <1>1, <2>1 DEF CleanHost
<1>8. CASE Trace
  <2>1. /\ call' = "trace" /\ pc' = "send" /\ ttl' = 1 /\ hop' = NoHop /\ clean' = TRUE
        /\ trace' = NoReport /\ icmp' = icmp
    BY <1>8 DEF Trace, Begin
  <2>2. /\ trace'.hops = << >> /\ Len(trace'.hops) = 0 /\ ~trace'.reached /\ trace'.answered = 0
        /\ hop'.from = 0
    BY <2>1 DEF NoReport, Report, NoHop
  <2>3. CleanHost'
    BY <2>1 DEF CleanHost
  <2>4. Len(trace'.hops) = ttl' - 1 /\ hop'.from <= ttl'
    <3>1. ttl' = 1 /\ ttl' - 1 = 0 /\ 0 <= ttl'
      BY <2>1
    <3> QED
      BY <2>2, <3>1
  <2>5. \A k \in 1..Len(trace'.hops) : FALSE
    BY <2>2
  <2>6. call' = "trace"
    BY <2>1
  <2>7. HopsTrue'
    BY <2>2, <2>4, <2>5, <2>6 DEF HopsTrue
  <2> QED
    BY <2>3, <2>7
<1> QED
  BY <1>2, <1>3, <1>4, <1>5, <1>6, <1>7, <1>8 DEF Next, Start, Probe, Network

(***************************************************************************)
(* The inductive invariant and what follows from it.                       *)
(***************************************************************************)
ProbeInv ==
  /\ TypeOK /\ Phase
  /\ Numbered /\ OwnRequest
  /\ WaitingFits /\ HeardWaits /\ SampleTrue
  /\ CleanHost /\ HopsTrue

LEMMA ProbeInit ==
  ASSUME ProbeAssumption, Init
  PROVE  ProbeInv
<1>1. TypeOK
  BY TypeInit
<1>2. Phase
  BY DEF Init, Phase
<1>3. Numbered /\ OwnRequest
  BY Constants DEF Init, Numbered, OwnRequest
<1>4. WaitingFits /\ HeardWaits
  BY DEF Init, WaitingFits, HeardWaits
<1>5. SampleTrue
  BY DEF Init, SampleTrue
<1>6. CleanHost
  BY DEF Init, CleanHost
<1>7. HopsTrue
  <2>1. /\ trace.hops = << >> /\ Len(trace.hops) = 0 /\ ~trace.reached /\ trace.answered = 0
        /\ ttl = 0 /\ call = "none"
    BY DEF Init, NoReport, Report
  <2> QED
    BY <2>1 DEF HopsTrue
<1> QED
  BY <1>1, <1>2, <1>3, <1>4, <1>5, <1>6, <1>7 DEF ProbeInv

(* The probes: types, the phases of a call, and the facts about requests   *)
(* in flight and messages that wait, together with what samples and traces *)
(* say, are inductive.                                                     *)
THEOREM ProbeInvariant == Spec => []ProbeInv
<1>1. Init => ProbeInv
  BY ProbeAssumption, ProbeInit
<1>2. ProbeInv /\ [Next]_vars => ProbeInv'
  <2> SUFFICES ASSUME ProbeInv, [Next]_vars PROVE ProbeInv'
    OBVIOUS
  <2>1. /\ TypeOK /\ Phase /\ Numbered /\ OwnRequest
        /\ WaitingFits /\ HeardWaits /\ SampleTrue /\ CleanHost /\ HopsTrue
    BY DEF ProbeInv
  <2>2. TypeOK' /\ Phase'
    BY <2>1, ProbeAssumption, TypeStep, PhaseStep
  <2>3. Numbered' /\ OwnRequest'
    BY <2>1, ProbeAssumption, FlightStep
  <2>4. WaitingFits' /\ HeardWaits'
    BY <2>1, ProbeAssumption, WaitingStep
  <2>5. SampleTrue'
    BY <2>1, ProbeAssumption, SampleStep
  <2>6. CleanHost' /\ HopsTrue'
    BY <2>1, ProbeAssumption, TraceStep
  <2> QED
    BY <2>2, <2>3, <2>4, <2>5, <2>6 DEF ProbeInv
<1> QED
  BY <1>1, <1>2, PTL DEF Spec

(* cpe_agent_live_ping_tick and arping: a reply is credited to the request *)
(* it answers, a ping socket loses none that came in time, and arping      *)
(* overlooks one among other frames only if these used up its deadline.    *)
THEOREM SampleTrueHolds == Spec => []SampleTrue
<1>1. ProbeInv => SampleTrue
  BY DEF ProbeInv
<1> QED
  BY <1>1, ProbeInvariant, PTL

(* run_trace without a raw socket: the target's last word is never missed  *)
(* and ends the trace; without it the target is reported as reached only   *)
(* if another host said "port unreachable" in its place; the hops have no  *)
(* gap and each names a host that is no farther away.                      *)
THEOREM TraceTrueHolds == Spec => []TraceTrue
<1>1. ProbeInv => TraceTrue
  <2> SUFFICES ASSUME ProbeInv, clean
               PROVE  /\ trace.reached => trace.answered # 0 \/ trace.refused
                      /\ trace.answered # 0 => trace.reached /\ Len(trace.hops) <= trace.answered
                      /\ Len(trace.hops) = (IF pc = "idle" \/ call # "trace" THEN ttl ELSE ttl - 1)
                      /\ \A k \in 1..Len(trace.hops) :
                           trace.hops[k].from <= k /\ trace.hops[k].sent = PerHop
    BY DEF TraceTrue
  <2>1. (pc = "idle" <=> call = "none") /\ ttl \in Nat
    BY Constants, ProbeAssumption DEF ProbeInv, Phase, TypeOK
  <2>2. /\ trace.reached => trace.answered # 0 \/ trace.refused
        /\ trace.answered # 0 => trace.reached /\ trace.answered = ttl
        /\ Len(trace.hops) = (IF call = "trace" THEN ttl - 1 ELSE ttl)
        /\ \A k \in 1..Len(trace.hops) :
             trace.hops[k].from <= k /\ trace.hops[k].sent = PerHop
    BY DEF ProbeInv, HopsTrue
  <2>3. Len(trace.hops) <= ttl
    BY <2>1, <2>2
  <2>4. Len(trace.hops) = (IF pc = "idle" \/ call # "trace" THEN ttl ELSE ttl - 1)
    BY <2>1, <2>2
  <2> QED
    BY <2>2, <2>3, <2>4
<1> QED
  BY <1>1, ProbeInvariant, PTL
=============================================================================
