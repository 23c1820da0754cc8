-------------------------- MODULE Forensics_proofs --------------------------
(***************************************************************************)
(* forensicsd and flow_correlate.c: for every set of connections, every    *)
(* skew, clock and size of the sockets, a line is joined only with         *)
(* connections NAT allows, and a Wi-Fi dump prints its own stations.       *)
(***************************************************************************)
EXTENDS Forensics, SequenceTheorems, TLAPS

(* The bounds are numbers. *)
LEMMA Bounds ==
  ASSUME ForensicsAssumption
  PROVE  /\ MaxSkew \in Nat /\ MaxClock \in Nat
         /\ QueueLen \in Nat /\ 0 < QueueLen /\ MaxWifiQueue \in Nat /\ 0 < MaxWifiQueue
         /\ 0 \in 0..MaxClock
BY DEF ForensicsAssumption

(***************************************************************************)
(* Queues.                                                                 *)
(***************************************************************************)
(* What is left of a queue whose first element was read. *)
LEMMA Rest ==
  ASSUME NEW S, NEW q \in Seq(S), q # << >>
  PROVE  /\ Tail(q) \in Seq(S) /\ Len(Tail(q)) = Len(q) - 1 /\ Len(q) \in Nat /\ Len(q) > 0
         /\ Head(q) \in S /\ Head(q) = q[1] /\ 1 \in 1..Len(q)
         /\ \A i \in 1..Len(Tail(q)) : i + 1 \in 1..Len(q) /\ Tail(q)[i] = q[i + 1]
<1>1. /\ Len(q) \in Nat /\ Len(q) > 0 /\ Tail(q) \in Seq(S) /\ Len(Tail(q)) = Len(q) - 1
      /\ Head(q) = q[1] /\ 1 \in 1..Len(q)
  OBVIOUS
<1>2. \A i \in 1..Len(Tail(q)) : Tail(q)[i] = q[i + 1]
  BY HeadTailProperties
<1> QED
  BY <1>1, <1>2

(* An event goes to the end of the conntrack socket, or is lost. *)
LEMMA DeliverTyped ==
  ASSUME ForensicsAssumption, TypeOK, NEW e \in Events, Deliver(e)
  PROVE  /\ nq' \in Seq(Events) /\ Len(nq') <= QueueLen
         /\ \A i \in 1..Len(nq') : (i \in 1..Len(nq) /\ nq'[i] = nq[i]) \/ nq'[i] = e
<1>1. nq \in Seq(Events) /\ Len(nq) \in Nat /\ Len(nq) <= QueueLen /\ QueueLen \in Nat
  BY Bounds DEF TypeOK
<1>2. CASE nq' = nq
  BY <1>1, <1>2
<1>3. CASE Len(nq) < QueueLen /\ nq' = Append(nq, e)
  <2>1. /\ nq' \in Seq(Events) /\ Len(nq') = Len(nq) + 1 /\ nq'[Len(nq) + 1] = e
        /\ \A i \in 1..Len(nq) : nq'[i] = nq[i]
    BY <1>1, <1>3
  <2> QED
    BY <1>1, <1>3, <2>1
<1> QED
  BY <1>2, <1>3 DEF Deliver

(* A function on 1..k is a sequence of length k. *)
LEMMA SeqOf ==
  ASSUME NEW S, NEW k \in Nat, NEW f \in [1..k -> S]
  PROVE  f \in Seq(S) /\ Len(f) = k
OBVIOUS

(* The request marks what the socket holds as old and adds the answer. *)
Marked == [n \in DOMAIN wq |-> [wq[n] EXCEPT !.old = TRUE]]
Words == {"stations", "done", "stations+done", "error"}
Sorts == {<<"stations", "done">>, <<"stations+done">>, <<"error">>}
Answer(types) == [n \in DOMAIN types |-> [type |-> types[n], old |-> FALSE]]

(* The answer is one of three, and ends with the only datagram that can    *)
(* end a dump.                                                             *)
LEMMA AnswerTyped ==
  ASSUME NEW types \in Sorts
  PROVE  /\ types \in Seq(Words) /\ Answer(types) \in Seq(Answers)
         /\ Len(Answer(types)) = Len(types) /\ Len(types) \in Nat
         /\ \A i \in 1..Len(types) : ~Answer(types)[i].old
         /\ \A i \in 1..Len(types) :
              Answer(types)[i].type \in {"done", "stations+done"} => i = Len(types)
<1>1. CASE types = <<"stations", "done">>
  <2>0. types \in Seq(Words) /\ Len(types) = 2
    BY <1>1 DEF Words
  <2>1. types \in Seq(Words) /\ Len(types) = 2 /\ DOMAIN types = 1..2
        /\ types[1] = "stations" /\ types[2] = "done"
    BY <1>1, <2>0
  <2>2. Answer(types) = [n \in 1..2 |-> [type |-> types[n], old |-> FALSE]]
    BY <2>1 DEF Answer
  <2>3. \A n \in 1..2 : [type |-> types[n], old |-> FALSE] \in Answers
    BY <2>1 DEF Answers, Words
  <2>4. Answer(types) \in Seq(Answers) /\ Len(Answer(types)) = 2
    BY <2>2, <2>3
  <2>5. \A n \in 1..2 : ~Answer(types)[n].old /\ (Answer(types)[n].type \in {"done", "stations+done"} => n = 2)
    BY <2>1, <2>2
  <2> QED
    BY <2>1, <2>4, <2>5
<1>2. ASSUME NEW s \in {"stations+done", "error"}, types = <<s>>
      PROVE  /\ types \in Seq(Words) /\ Answer(types) \in Seq(Answers)
             /\ Len(Answer(types)) = Len(types) /\ Len(types) \in Nat
             /\ \A i \in 1..Len(types) : ~Answer(types)[i].old
             /\ \A i \in 1..Len(types) :
                  Answer(types)[i].type \in {"done", "stations+done"} => i = Len(types)
  <2>0. types \in Seq(Words) /\ Len(types) = 1
    BY <1>2 DEF Words
  <2>1. types \in Seq(Words) /\ Len(types) = 1 /\ DOMAIN types = 1..1 /\ types[1] = s
    BY <1>2, <2>0
  <2>2. Answer(types) = [n \in 1..1 |-> [type |-> types[n], old |-> FALSE]]
    BY <2>1 DEF Answer
  <2>3. \A n \in 1..1 : [type |-> types[n], old |-> FALSE] \in Answers
    BY <2>1 DEF Answers, Words
  <2>4. Answer(types) \in Seq(Answers) /\ Len(Answer(types)) = 1
    BY <2>2, <2>3
  <2>5. \A n \in 1..1 : ~Answer(types)[n].old /\ n = 1
    BY <2>2
  <2> QED
    BY <2>1, <2>4, <2>5
<1> QED
  BY <1>1, <1>2 DEF Sorts

(* The socket after the request: the old datagrams, then the answer. *)
LEMMA DumpTyped ==
  ASSUME ForensicsAssumption, TypeOK, DumpStations
  PROVE  \E types \in Sorts :
           LET k == Len(wq)
           IN  /\ wq' \in Seq(Answers) /\ Len(wq') = k + Len(types) /\ Len(wq') <= MaxWifiQueue
               /\ \A i \in 1..k : wq'[i].old /\ wq'[i].type = wq[i].type
               /\ \A i \in 1..Len(wq') : i > k =>
                    i - k \in 1..Len(types) /\ wq'[i] = Answer(types)[i - k]
<1>1. PICK types \in Sorts : Len(wq \o types) <= MaxWifiQueue /\ wq' = Marked \o Answer(types)
  BY DEF DumpStations, Sorts, Marked, Answer
<1> DEFINE k == Len(wq)
           m == Marked
           a == Answer(types)
<1>2. /\ types \in Seq(Words) /\ a \in Seq(Answers) /\ Len(a) = Len(types) /\ Len(types) \in Nat
  BY AnswerTyped
<1>3. wq \in Seq(Answers) /\ k \in Nat /\ DOMAIN wq = 1..k /\ \A i \in 1..k : wq[i] \in Answers
  BY DEF TypeOK
<1>4. /\ m \in Seq(Answers) /\ Len(m) = k /\ \A i \in 1..k : m[i].old /\ m[i].type = wq[i].type
  <2>1. \A i \in 1..k : /\ [wq[i] EXCEPT !.old = TRUE] \in Answers
                        /\ [wq[i] EXCEPT !.old = TRUE].old
                        /\ [wq[i] EXCEPT !.old = TRUE].type = wq[i].type
    BY <1>3 DEF Answers
  <2>2. m = [i \in 1..k |-> [wq[i] EXCEPT !.old = TRUE]]
    BY <1>3 DEF Marked
  <2>3. m \in [1..k -> Answers] /\ \A i \in 1..k : m[i].old /\ m[i].type = wq[i].type
    BY <2>1, <2>2
  <2> HIDE DEF m
  <2> QED
    BY <1>3, <2>3, SeqOf
<1>5. Len(wq \o types) = k + Len(types)
  <2>1. wq \in Seq(Answers \cup Words) /\ types \in Seq(Answers \cup Words)
    <3>1. \A i \in 1..Len(types) : types[i] \in Words
      BY <1>2
    <3> QED
      BY <1>2, <1>3, <3>1
  <2> QED
    BY <2>1, ConcatProperties
<1> HIDE DEF m, a
<1>6. /\ m \o a \in Seq(Answers) /\ Len(m \o a) = Len(m) + Len(a)
      /\ \A i \in 1..(Len(m) + Len(a)) : (m \o a)[i] = IF i <= Len(m) THEN m[i] ELSE a[i - Len(m)]
  BY <1>2, <1>4, ConcatProperties
<1>7. wq' = m \o a
  BY <1>1 DEF m, a
<1>8. Len(wq') = k + Len(types) /\ Len(wq') <= MaxWifiQueue /\ wq' \in Seq(Answers)
  BY <1>1, <1>2, <1>4, <1>5, <1>6, <1>7
<1>9. ASSUME NEW i \in 1..k PROVE wq'[i].old /\ wq'[i].type = wq[i].type
  <2>1. i \in 1..(Len(m) + Len(a)) /\ i <= Len(m)
    BY <1>2, <1>3, <1>4
  <2> QED
    BY <1>4, <1>6, <1>7, <2>1
<1>10. ASSUME NEW i \in 1..Len(wq'), i > k PROVE i - k \in 1..Len(types) /\ wq'[i] = a[i - k]
  <2>1. i \in 1..(Len(m) + Len(a)) /\ ~(i <= Len(m)) /\ i - k \in 1..Len(types)
    BY <1>2, <1>3, <1>4, <1>8, <1>10
  <2> QED
    BY <1>4, <1>6, <1>7, <2>1
<1> QED
  BY <1>8, <1>9, <1>10 DEF a

(***************************************************************************)
(* Types.                                                                  *)
(***************************************************************************)
LineOK ==
  \/ line = [kind |-> "none"]
  \/ \E e \in Events, t \in 0..MaxClock, kind \in {"id", "nat", "raw"} :
       line = [of |-> e, kind |-> kind, obs |-> ObsFromNfct(e, t)]

(* A new line is about the event that was read. *)
LEMMA LineTyped ==
  ASSUME TypeOK, NEW e \in Events, EmitEvents(e)
  PROVE  LineOK' /\ (line' = line \/ (line'.kind # "none" /\ line'.of = e))
<1> DEFINE o == ObsFromNfct(e, clock)
           kind == IF o.ok THEN Format(o) ELSE "raw"
<1>1. line' = line \/ line' = [of |-> e, kind |-> kind, obs |-> o]
  BY DEF EmitEvents
<1>2. kind \in {"id", "nat", "raw"}
  BY DEF Format
<1>3. clock \in 0..MaxClock
  BY DEF TypeOK
<1> HIDE DEF kind
<1>4. CASE line' = line
  BY <1>4 DEF TypeOK, LineOK
<1>5. CASE line' = [of |-> e, kind |-> kind, obs |-> o]
  <2>1. \E t \in 0..MaxClock : line' = [of |-> e, kind |-> kind, obs |-> ObsFromNfct(e, t)]
    BY <1>3, <1>5
  <2>2. LineOK'
    BY <1>2, <2>1 DEF LineOK
  <2> HIDE DEF o
  <2>3. line'.kind = kind /\ line'.of = e
    BY <1>5
  <2> QED
    BY <1>2, <2>2, <2>3
<1> QED
  BY <1>1, <1>4, <1>5

(* Every event of the kernel has its type. *)
LEMMA EventTyped ==
  ASSUME NEW c \in Conns, NEW event \in {"NEW", "UPDATE", "DESTROY"}, NEW tuples \in Decoded(event)
  PROVE  Event(c, event, tuples) \in Events /\ Event(c, event, tuples).conn = c
<1>1. tuples \in Decoded("DESTROY")
  BY DEF Decoded
<1> QED
  BY <1>1 DEF Event, Events

(* After the dump the daemon goes back, drains or closes. *)
LEMMA AfterTyped ==
  ASSUME TypeOK, AfterWifi
  PROVE  pc' \in {"loop", "close", "drain"} /\ revents' = "none"
BY DEF AfterWifi, TypeOK

(* The daemon's steps keep the types. *)
LEMMA StepsTyped ==
  ASSUME ForensicsAssumption, TypeOK, Steps \/ Faults
  PROVE  TypeOK'
<1>1. CASE OpenNfct \/ Loop \/ PollReady \/ PollWifiReady \/ PollTimeout \/ RecvEmpty
           \/ OpenFails \/ PollHangup \/ PollFails
  BY <1>1 DEF OpenNfct, Loop, PollReady, PollWifiReady, PollTimeout, Polled, RecvEmpty, OpenFails,
              PollHangup, PollFails, kernelVars, wifiVars, TypeOK
<1>2. CASE OpenWifi
  <2>1. wifi' \in BOOLEAN /\ pc' = "loop" /\ UNCHANGED <<kernelVars, gStop, nq, failed, revents, line>>
    BY <1>2 DEF OpenWifi
  <2>2. wq' \in Seq(Answers) /\ Len(wq') <= MaxWifiQueue
    <3>1. [type |-> "ack", old |-> TRUE] \in Answers
      BY DEF Answers
    <3>2. Resolved \in Seq(Answers) /\ Len(Resolved) = 1
      BY <3>1 DEF Resolved
    <3>3. CASE wq' = Resolved
      <4>1. 1 <= MaxWifiQueue
        BY Bounds
      <4>2. wq' \in Seq(Answers) /\ Len(wq') = 1
        BY <3>2, <3>3
      <4> QED
        BY <4>1, <4>2
    <3>4. CASE wq' = << >>
      BY <3>4, Bounds
    <3>5. wq' = Resolved \/ wq' = << >>
      BY <1>2, Zenon DEF OpenWifi
    <3> QED
      BY <3>3, <3>4, <3>5
  <2> QED
    BY <2>1, <2>2 DEF TypeOK, kernelVars
<1>3. CASE SkipDump \/ DumpEmpty \/ DumpRecvFails
  <2>1. pc' \in {"loop", "close", "drain"} /\ revents' = "none"
    BY <1>3, AfterTyped DEF SkipDump, DumpEmpty, DumpRecvFails
  <2> QED
    BY <1>3, <2>1 DEF SkipDump, DumpEmpty, DumpRecvFails, kernelVars, wifiVars, TypeOK
<1>4. CASE DumpStations
  <2>1. wq' \in Seq(Answers) /\ Len(wq') <= MaxWifiQueue
    BY <1>4, DumpTyped
  <2> QED
    BY <1>4, <2>1 DEF DumpStations, kernelVars, TypeOK
<1>5. CASE DumpRecv
  <2>1. /\ pc' \in {"loop", "close", "drain", "dump"} /\ revents' \in {"none", "wifi", "nfct", "error"}
        /\ wq # << >> /\ wq' = Tail(wq) /\ UNCHANGED <<kernelVars, gStop, nq, wifi, failed, line>>
    BY <1>5, AfterTyped DEF DumpRecv, TypeOK
  <2>2. wq' \in Seq(Answers) /\ Len(wq') = Len(wq) - 1 /\ Len(wq) \in Nat /\ Len(wq) <= MaxWifiQueue
    BY <2>1, Rest DEF TypeOK
  <2>3. Len(wq') <= MaxWifiQueue
    BY <2>2, Bounds
  <2> QED
    BY <2>1, <2>2, <2>3 DEF kernelVars, TypeOK
<1>6. CASE Recv
  <2>1. nq # << >> /\ nq' = Tail(nq) /\ EmitEvents(Head(nq)) /\ UNCHANGED <<kernelVars, pc, gStop, wifiVars, revents>>
    BY <1>6 DEF Recv
  <2>2. /\ nq' \in Seq(Events) /\ Len(nq') = Len(nq) - 1 /\ Len(nq) \in Nat /\ Len(nq) <= QueueLen
        /\ Head(nq) \in Events
    BY <2>1, Rest DEF TypeOK
  <2>3. Len(nq') <= QueueLen
    BY <2>2, Bounds
  <2>4. LineOK'
    BY <2>1, <2>2, LineTyped
  <2> QED
    BY <2>1, <2>2, <2>3, <2>4 DEF kernelVars, wifiVars, TypeOK, LineOK
<1>7. CASE RecvFails
  BY <1>7 DEF RecvFails, kernelVars, wifiVars, TypeOK
<1>8. CASE Close
  <2>1. /\ nq' \in Seq(Events) /\ Len(nq') <= QueueLen
        /\ wq' \in Seq(Answers) /\ Len(wq') <= MaxWifiQueue
    BY <1>8, Bounds DEF Close
  <2> QED
    BY <1>8, <2>1 DEF Close, kernelVars, TypeOK
<1> QED
  BY <1>1, <1>2, <1>3, <1>4, <1>5, <1>6, <1>7, <1>8 DEF Steps, Faults

(* So do the kernel's. *)
LEMMA KernelTyped ==
  ASSUME ForensicsAssumption, TypeOK, Kernel
  PROVE  TypeOK'
<1>1. ASSUME NEW c \in Conns, OpenConn(c) PROVE TypeOK'
  <2>1. PICK tuples \in Decoded("NEW") : Deliver(Event(c, "NEW", tuples))
    BY <1>1 DEF OpenConn
  <2>2. Event(c, "NEW", tuples) \in Events
    BY EventTyped
  <2>3. nq' \in Seq(Events) /\ Len(nq') <= QueueLen
    BY <2>1, <2>2, DeliverTyped
  <2>4. conn' \in [Conns -> {"none", "open", "closed"}] /\ opened' \in [Conns -> 0..MaxClock]
    BY <1>1, Bounds DEF OpenConn, TypeOK
  <2> QED
    BY <1>1, <2>3, <2>4 DEF OpenConn, wifiVars, TypeOK
<1>2. ASSUME NEW c \in Conns, UpdateConn(c) PROVE TypeOK'
  <2>1. Event(c, "UPDATE", "both") \in Events
    BY EventTyped DEF Decoded
  <2>2. nq' \in Seq(Events) /\ Len(nq') <= QueueLen
    BY <1>2, <2>1, DeliverTyped DEF UpdateConn
  <2> QED
    BY <1>2, <2>2 DEF UpdateConn, wifiVars, TypeOK
<1>3. ASSUME NEW c \in Conns, CloseConn(c) PROVE TypeOK'
  <2>1. PICK tuples \in Decoded("DESTROY") : Deliver(Event(c, "DESTROY", tuples))
    BY <1>3 DEF CloseConn
  <2>2. Event(c, "DESTROY", tuples) \in Events
    BY EventTyped
  <2>3. nq' \in Seq(Events) /\ Len(nq') <= QueueLen
    BY <2>1, <2>2, DeliverTyped
  <2>4. conn' \in [Conns -> {"none", "open", "closed"}]
    BY <1>3 DEF CloseConn, TypeOK
  <2> QED
    BY <1>3, <2>3, <2>4 DEF CloseConn, wifiVars, TypeOK
<1>4. CASE Tick
  <2>1. clock' \in 0..MaxClock
    BY <1>4, Bounds DEF Tick, TypeOK
  <2> QED
    BY <1>4, <2>1 DEF Tick, wifiVars, TypeOK
<1>5. CASE Signal
  BY <1>5 DEF Signal, kernelVars, wifiVars, TypeOK
<1> QED
  BY <1>1, <1>2, <1>3, <1>4, <1>5 DEF Kernel

(***************************************************************************)
(* The Wi-Fi socket.  Unless a receive failed, a datagram that ends a dump *)
(* is the last in the socket, and nothing but acknowledgements and errors  *)
(* outlives the dump it belongs to.                                        *)
(***************************************************************************)
Ends == {"done", "stations+done"}
EndIsLast == ~failed => \A i \in 1..Len(wq) : wq[i].type \in Ends => i = Len(wq)
OldIsMute ==
  ~failed => \A i \in 1..Len(wq) : wq[i].old \/ pc # "dump" => wq[i].type \in {"ack", "error"}
WifiInv == EndIsLast /\ OldIsMute

(* An empty socket holds nothing that could be wrong. *)
LEMMA WifiEmpty ==
  ASSUME wq' = << >>
  PROVE  WifiInv'
<1>1. Len(wq') = 0
  OBVIOUS
<1> QED
  BY <1>1 DEF WifiInv, EndIsLast, OldIsMute

(* Steps that leave the socket alone and do not end a dump. *)
LEMMA WifiKept ==
  ASSUME WifiInv, UNCHANGED <<wq, failed>>, pc = "dump" => pc' = "dump"
  PROVE  WifiInv'
BY DEF WifiInv, EndIsLast, OldIsMute

(* A dump is requested: only what is mute is made old. *)
LEMMA WifiDump ==
  ASSUME ForensicsAssumption, TypeOK, WifiInv, DumpStations
  PROVE  WifiInv'
<1>1. pc = "wifi" /\ pc' = "dump" /\ failed' = failed
  BY DEF DumpStations
<1>2. SUFFICES ASSUME ~failed PROVE WifiInv'
  BY <1>1 DEF WifiInv, EndIsLast, OldIsMute
<1> DEFINE k == Len(wq)
<1>3. PICK types \in Sorts :
        /\ Len(wq') = k + Len(types)
        /\ \A i \in 1..k : wq'[i].old /\ wq'[i].type = wq[i].type
        /\ \A i \in 1..Len(wq') : i > k => i - k \in 1..Len(types) /\ wq'[i] = Answer(types)[i - k]
  BY DumpTyped
<1>4. /\ Len(types) \in Nat /\ k \in Nat
      /\ \A i \in 1..Len(types) : ~Answer(types)[i].old
      /\ \A i \in 1..Len(types) : Answer(types)[i].type \in Ends => i = Len(types)
  BY AnswerTyped DEF TypeOK, Ends
<1>5. \A i \in 1..k : wq'[i].type \in {"ack", "error"}
  BY <1>1, <1>2, <1>3 DEF WifiInv, OldIsMute
<1>6. ASSUME NEW i \in 1..Len(wq')
      PROVE  /\ wq'[i].type \in Ends => i = Len(wq')
             /\ wq'[i].old => wq'[i].type \in {"ack", "error"}
  <2>1. CASE i <= k
    <3>1. i \in 1..k
      BY <1>3, <1>4, <2>1
    <3> QED
      BY <1>5, <3>1 DEF Ends
  <2>2. CASE i > k
    <3> DEFINE n == i - k
    <3>1. n \in 1..Len(types) /\ wq'[i] = Answer(types)[n]
      BY <1>3, <2>2
    <3>2. n = Len(types) => i = Len(wq')
      BY <1>3, <1>4
    <3> HIDE DEF n
    <3> QED
      BY <1>4, <3>1, <3>2
  <2> QED
    BY <1>4, <2>1, <2>2
<1> QED
  BY <1>1, <1>6 DEF WifiInv, EndIsLast, OldIsMute

(* A datagram is read; the one that ends the dump was the last. *)
LEMMA WifiRecv ==
  ASSUME ForensicsAssumption, TypeOK, WifiInv, DumpRecv
  PROVE  WifiInv'
<1>1. pc = "dump" /\ wq # << >> /\ wq' = Tail(wq) /\ failed' = failed
  BY DEF DumpRecv
<1>2. SUFFICES ASSUME ~failed PROVE WifiInv'
  BY <1>1 DEF WifiInv, EndIsLast, OldIsMute
<1>3. /\ Len(wq') = Len(wq) - 1 /\ Len(wq) \in Nat /\ Head(wq) = wq[1] /\ 1 \in 1..Len(wq)
      /\ \A i \in 1..Len(wq') : i + 1 \in 1..Len(wq) /\ wq'[i] = wq[i + 1]
      /\ wq' \in Seq(Answers)
  BY <1>1, Rest DEF TypeOK
<1>4. CASE wq[1].type \in Ends
  <2>1. Len(wq) = 1
    BY <1>2, <1>3, <1>4 DEF WifiInv, EndIsLast
  <2>2. wq' = << >>
    BY <1>3, <2>1
  <2> QED
    BY <2>2, WifiEmpty
<1>5. CASE wq[1].type \notin Ends
  <2>1. pc' = "dump"
    BY <1>1, <1>3, <1>5 DEF DumpRecv, Ends
  <2>2. \A i \in 1..Len(wq') : i + 1 = Len(wq) => i = Len(wq')
    BY <1>3
  <2>3. EndIsLast'
    BY <1>2, <1>3, <2>2 DEF WifiInv, EndIsLast
  <2>4. OldIsMute'
    BY <1>1, <1>2, <1>3, <2>1 DEF WifiInv, OldIsMute
  <2> QED
    BY <2>3, <2>4 DEF WifiInv
<1> QED
  BY <1>4, <1>5

(* Every step keeps the order of the Wi-Fi socket. *)
LEMMA WifiStep ==
  ASSUME ForensicsAssumption, TypeOK, WifiInv, [Next]_vars
  PROVE  WifiInv'
<1>1. CASE OpenNfct \/ Loop \/ PollReady \/ PollWifiReady \/ PollTimeout \/ RecvEmpty \/ Recv
           \/ OpenFails \/ PollHangup \/ PollFails \/ RecvFails \/ SkipDump
  <2>1. UNCHANGED <<wq, failed>> /\ pc # "dump"
    BY <1>1 DEF OpenNfct, Loop, PollReady, PollWifiReady, PollTimeout, Polled, RecvEmpty, Recv,
                OpenFails, PollHangup, PollFails, RecvFails, SkipDump, wifiVars
  <2> QED
    BY <2>1, WifiKept
<1>2. CASE OpenWifi
  <2>1. wq' = Resolved \/ wq' = << >>
    BY <1>2, Zenon DEF OpenWifi
  <2>2. CASE wq' = Resolved
    <3>1. Len(wq') = 1 /\ \A i \in 1..Len(wq') : wq'[i].type = "ack"
      BY <2>2 DEF Resolved
    <3> QED
      BY <3>1 DEF WifiInv, EndIsLast, OldIsMute, Ends
  <2> QED
    BY <2>1, <2>2, WifiEmpty
<1>3. CASE DumpStations
  BY <1>3, WifiDump
<1>4. CASE DumpRecv
  BY <1>4, WifiRecv
<1>5. CASE DumpEmpty
  BY <1>5, WifiEmpty DEF DumpEmpty
<1>6. CASE DumpRecvFails
  BY <1>6 DEF DumpRecvFails, WifiInv, EndIsLast, OldIsMute
<1>7. CASE Close
  BY <1>7, WifiEmpty DEF Close
<1>8. CASE Kernel
  <2>1. UNCHANGED <<wq, failed>> /\ (pc = "dump" => pc' = "dump")
    BY <1>8 DEF Kernel, OpenConn, UpdateConn, CloseConn, Tick, Signal, wifiVars
  <2> QED
    BY <2>1, WifiKept
<1>9. CASE UNCHANGED vars
  BY <1>9, WifiKept DEF vars
<1> QED
  BY <1>1, <1>2, <1>3, <1>4, <1>5, <1>6, <1>7, <1>8, <1>9 DEF Next, Steps, Faults

(***************************************************************************)
(* The connections behind events and lines.                                *)
(***************************************************************************)
(* An event, and a line, is about a connection that was opened. *)
QueueBegun == \A i \in 1..Len(nq) : conn[nq[i].conn] # "none"
LineBegun == line.kind # "none" => conn[line.of.conn] # "none"

(* The kernel's NAT keeps open connections apart. *)
NatUnique ==
  \A c, d \in Conns : c # d /\ conn[c] = "open" /\ conn[d] = "open" => ReplyTuple(c) # ReplyTuple(d)
NatInv == QueueBegun /\ LineBegun /\ NatUnique

(* The connection a line is about. *)
LEMMA LineConn ==
  ASSUME TypeOK, line.kind # "none"
  PROVE  /\ line.of \in Events /\ line.of.conn \in Conns
         /\ \E t \in 0..MaxClock : line.obs = ObsFromNfct(line.of, t)
<1>1. PICK e \in Events, t \in 0..MaxClock, kind \in {"id", "nat", "raw"} :
        line = [of |-> e, kind |-> kind, obs |-> ObsFromNfct(e, t)]
  BY DEF TypeOK
<1>2. line.of = e /\ line.obs = ObsFromNfct(e, t)
  BY <1>1
<1>3. e.conn \in Conns
  BY DEF Events
<1> QED
  BY <1>2, <1>3

(* Steps that open and close no connection and add no event. *)
LEMMA NatKept ==
  ASSUME NatInv, conn' = conn, line' = line, nq' = nq \/ nq' = << >>
  PROVE  NatInv'
<1>1. \A i \in 1..Len(nq') : i \in 1..Len(nq) /\ nq'[i] = nq[i]
  <2>1. CASE nq' = << >>
    <3>1. Len(nq') = 0
      BY <2>1
    <3> QED
      BY <3>1
  <2> QED
    BY <2>1
<1>2. QueueBegun'
  BY <1>1 DEF NatInv, QueueBegun
<1>3. LineBegun'
  BY DEF NatInv, LineBegun
<1>4. NatUnique'
  BY DEF NatInv, NatUnique, ReplyTuple
<1> QED
  BY <1>2, <1>3, <1>4 DEF NatInv

(* An event of a connection that is not new any more. *)
LEMMA NatDeliver ==
  ASSUME ForensicsAssumption, TypeOK, NatInv, NEW e \in Events, Deliver(e),
         \A c \in Conns : conn[c] # "none" => conn'[c] # "none",
         conn'[e.conn] # "none", line' = line
  PROVE  QueueBegun' /\ LineBegun'
<1>1. \A i \in 1..Len(nq') : (i \in 1..Len(nq) /\ nq'[i] = nq[i]) \/ nq'[i] = e
  BY DeliverTyped
<1>2. \A i \in 1..Len(nq) : nq[i].conn \in Conns
  <2>1. \A i \in 1..Len(nq) : nq[i] \in Events
    BY DEF TypeOK
  <2> QED
    BY <2>1 DEF Events
<1>3. QueueBegun'
  BY <1>1, <1>2 DEF NatInv, QueueBegun
<1>4. line.kind # "none" => line.of.conn \in Conns
  BY LineConn
<1>5. LineBegun'
  BY <1>4 DEF NatInv, LineBegun
<1> QED
  BY <1>3, <1>5

(* Every step keeps lines, events and connections together. *)
LEMMA NatStep ==
  ASSUME ForensicsAssumption, TypeOK, NatInv, [Next]_vars
  PROVE  NatInv'
<1>1. CASE Faults \/ UNCHANGED vars
  BY <1>1, NatKept DEF Faults, OpenFails, PollHangup, Polled, PollFails, DumpRecvFails, RecvFails,
                       vars, kernelVars
<1>2. CASE OpenNfct \/ OpenWifi \/ Loop \/ PollReady \/ PollWifiReady \/ PollTimeout
           \/ SkipDump \/ DumpStations \/ DumpRecv \/ DumpEmpty \/ RecvEmpty \/ Close
  BY <1>2, NatKept DEF OpenNfct, OpenWifi, Loop, PollReady, PollWifiReady, PollTimeout, Polled,
       SkipDump, DumpStations, DumpRecv, DumpEmpty, RecvEmpty, Close, kernelVars
<1>3. CASE Recv
  <2>1. nq # << >> /\ nq' = Tail(nq) /\ EmitEvents(Head(nq)) /\ conn' = conn
    BY <1>3 DEF Recv, kernelVars
  <2>2. /\ Head(nq) \in Events /\ Head(nq) = nq[1] /\ 1 \in 1..Len(nq)
        /\ \A i \in 1..Len(nq') : i + 1 \in 1..Len(nq) /\ nq'[i] = nq[i + 1]
    BY <2>1, Rest DEF TypeOK
  <2>3. QueueBegun'
    BY <2>1, <2>2 DEF NatInv, QueueBegun
  <2>4. line' = line \/ line'.of = nq[1]
    BY <2>1, <2>2, LineTyped
  <2>5. LineBegun'
    BY <2>1, <2>2, <2>4 DEF NatInv, QueueBegun, LineBegun
  <2>6. NatUnique'
    BY <2>1 DEF NatInv, NatUnique, ReplyTuple
  <2> QED
    BY <2>3, <2>5, <2>6 DEF NatInv
<1>4. ASSUME NEW c \in Conns, OpenConn(c) PROVE NatInv'
  <2>1. PICK tuples \in Decoded("NEW") : Deliver(Event(c, "NEW", tuples))
    BY <1>4 DEF OpenConn
  <2>2. Event(c, "NEW", tuples) \in Events /\ Event(c, "NEW", tuples).conn = c
    BY EventTyped
  <2>3. conn'[c] = "open" /\ \A d \in Conns : d # c => conn'[d] = conn[d]
    BY <1>4 DEF OpenConn, TypeOK
  <2>4. QueueBegun' /\ LineBegun'
    <3>1. line' = line /\ \A d \in Conns : conn[d] # "none" => conn'[d] # "none"
      BY <1>4, <2>3 DEF OpenConn
    <3> QED
      BY <2>1, <2>2, <2>3, <3>1, NatDeliver
  <2>5. NatUnique'
    <3>1. \A d \in Conns : conn[d] = "open" => ReplyTuple(d) # ReplyTuple(c)
      BY <1>4 DEF OpenConn
    <3>2. \A a, b \in Conns : a # b /\ conn'[a] = "open" /\ conn'[b] = "open" => ReplyTuple(a) # ReplyTuple(b)
      BY <2>3, <3>1 DEF NatInv, NatUnique
    <3> QED
      BY <3>2 DEF NatUnique, ReplyTuple
  <2> QED
    BY <2>4, <2>5 DEF NatInv
<1>5. ASSUME NEW c \in Conns, UpdateConn(c) PROVE NatInv'
  <2>1. Event(c, "UPDATE", "both") \in Events /\ Event(c, "UPDATE", "both").conn = c
    BY EventTyped DEF Decoded
  <2>2. Deliver(Event(c, "UPDATE", "both")) /\ conn' = conn /\ line' = line /\ conn[c] = "open"
    BY <1>5 DEF UpdateConn
  <2>3. QueueBegun' /\ LineBegun'
    BY <2>1, <2>2, NatDeliver
  <2>4. NatUnique'
    BY <2>2 DEF NatInv, NatUnique, ReplyTuple
  <2> QED
    BY <2>3, <2>4 DEF NatInv
<1>6. ASSUME NEW c \in Conns, CloseConn(c) PROVE NatInv'
  <2>1. PICK tuples \in Decoded("DESTROY") : Deliver(Event(c, "DESTROY", tuples))
    BY <1>6 DEF CloseConn
  <2>2. Event(c, "DESTROY", tuples) \in Events /\ Event(c, "DESTROY", tuples).conn = c
    BY EventTyped
  <2>3. conn'[c] = "closed" /\ \A d \in Conns : d # c => conn'[d] = conn[d]
    BY <1>6 DEF CloseConn, TypeOK
  <2>4. QueueBegun' /\ LineBegun'
    <3>1. line' = line /\ \A d \in Conns : conn[d] # "none" => conn'[d] # "none"
      BY <1>6, <2>3 DEF CloseConn
    <3> QED
      BY <2>1, <2>2, <2>3, <3>1, NatDeliver
  <2>5. NatUnique'
    <3>1. \A a, b \in Conns : a # b /\ conn'[a] = "open" /\ conn'[b] = "open" => ReplyTuple(a) # ReplyTuple(b)
      BY <2>3 DEF NatInv, NatUnique
    <3> QED
      BY <3>1 DEF NatUnique, ReplyTuple
  <2> QED
    BY <2>4, <2>5 DEF NatInv
<1>7. CASE Tick \/ Signal
  BY <1>7, NatKept DEF Tick, Signal, kernelVars
<1> QED
  BY <1>1, <1>2, <1>3, <1>4, <1>5, <1>6, <1>7 DEF Next, Steps, Kernel

(***************************************************************************)
(* The join.                                                               *)
(***************************************************************************)
(* What an observation of conntrack says: the addresses, or no protocol. *)
LEMMA NfctFields ==
  ASSUME NEW e \in Events, NEW t
  PROVE  LET o == ObsFromNfct(e, t)
             f == Flow[e.conn]
         IN  /\ e.tuples = "both" => /\ o.ok /\ o.ipv6 = f.ipv6 /\ o.proto = f.proto
                                     /\ o.wan = f.wan /\ o.wanPort = f.wanPort /\ o.dst = f.dst
             /\ e.tuples # "both" => ~o.ok \/ o.proto = 0
<1>1. CASE e.tuples = "both"
  BY <1>1 DEF ObsFromNfct, Unset
<1>2. CASE e.tuples = "none" /\ e.event = "DESTROY"
  BY <1>2 DEF ObsFromNfct, Unset
<1>3. CASE e.tuples # "both" /\ ~(e.tuples = "none" /\ e.event = "DESTROY")
  BY <1>3 DEF ObsFromNfct, NoObs
<1> QED
  BY <1>1, <1>2, <1>3

(* What the core's record says. *)
LEMMA IpfixFields ==
  ASSUME NEW c \in Conns, NEW t
  PROVE  LET o == ObsFromIpfix(c, t)
             f == Flow[c]
         IN  /\ o.ipv6 = FALSE /\ o.proto = f.proto /\ o.src = f.wan
             /\ o.srcPort = f.wanPort /\ o.dst = f.dst
BY DEF ObsFromIpfix, Unset

(* The connections that nf_flows_correlate does not tell apart. *)
Alike(d, c) ==
  ~Flow[d].ipv6 /\ \A f \in {"proto", "wan", "wanPort", "dst"} : Flow[d][f] = Flow[c][f]

(* The join of one line and one record. *)
LEMMA JoinSound ==
  ASSUME ForensicsAssumption, TypeOK, NatInv,
         NEW c \in Conns, conn[c] # "none", ~Flow[c].ipv6
  PROVE  LET d == line.of.conn
         IN  /\ Offered(c) =>
                  /\ Alike(d, c)
                  /\ d # c => Flow[d].dstPort # Flow[c].dstPort \/ "closed" \in {conn[c], conn[d]}
             /\ line.kind # "none" /\ Alike(d, c) /\ line.of.tuples = "both"
                  /\ Near(line.obs.ts, ObsFromIpfix(c, clock).ts) => Offered(c)
<1> DEFINE o == line.obs
           r == ObsFromIpfix(c, clock)
           d == line.of.conn
<1>0. Flow[c] \in FlowType
  BY DEF ForensicsAssumption
<1>1. /\ r.ipv6 = FALSE /\ r.proto = Flow[c].proto /\ r.src = Flow[c].wan
      /\ r.srcPort = Flow[c].wanPort /\ r.dst = Flow[c].dst
  BY IpfixFields
<1>2. Flow[c].ipv6 = FALSE /\ Flow[c].proto # 0 /\ Flow[c].dst # ""
  BY <1>0 DEF FlowType
<1>3. ASSUME line.kind # "none"
      PROVE  /\ d \in Conns
             /\ line.of.tuples = "both" =>
                  /\ o.ok /\ o.ipv6 = Flow[d].ipv6 /\ o.proto = Flow[d].proto
                  /\ o.wan = Flow[d].wan /\ o.wanPort = Flow[d].wanPort /\ o.dst = Flow[d].dst
             /\ line.of.tuples # "both" => ~o.ok \/ o.proto = 0
  <2>1. PICK t \in 0..MaxClock : line.of \in Events /\ d \in Conns /\ o = ObsFromNfct(line.of, t)
    BY <1>3, LineConn
  <2> QED
    BY <2>1, NfctFields
<1>4. ASSUME line.kind # "none" PROVE Flow[d] \in FlowType
  BY <1>3, <1>4 DEF ForensicsAssumption
<1> HIDE DEF o, r, d
<1>5. ASSUME line.kind # "none", Alike(d, c), line.of.tuples = "both", Near(o.ts, r.ts)
      PROVE  o.ok /\ Correlate(o, r)
  <2>1. /\ Flow[d].ipv6 = FALSE /\ Flow[d].proto = Flow[c].proto /\ Flow[d].wan = Flow[c].wan
        /\ Flow[d].wanPort = Flow[c].wanPort /\ Flow[d].dst = Flow[c].dst
    BY <1>4, <1>5 DEF Alike, FlowType
  <2>2. /\ o.ok /\ o.ipv6 = r.ipv6 /\ o.proto = r.proto /\ o.wan = r.src
        /\ o.wanPort = r.srcPort /\ o.dst = r.dst
    BY <1>1, <1>2, <1>3, <1>5, <2>1
  <2> QED
    BY <1>5, <2>2 DEF Correlate
<1>6. ASSUME line.kind # "none", o.ok, Correlate(o, r)
      PROVE  /\ Alike(d, c)
             /\ d # c => Flow[d].dstPort # Flow[c].dstPort \/ "closed" \in {conn[c], conn[d]}
  <2>1. /\ o.ipv6 = r.ipv6 /\ o.proto = r.proto /\ o.wan = r.src /\ o.wanPort = r.srcPort
        /\ (o.dst # "" /\ (r.dst # "" \/ o.ipv6) => o.dst = r.dst)
    BY <1>6 DEF Correlate
  <2>2. line.of.tuples = "both"
    BY <1>1, <1>2, <1>3, <1>6, <2>1
  <2>3. d \in Conns /\ Flow[d].dst # ""
    BY <1>3, <1>4, <1>6 DEF FlowType
  <2>4. /\ Flow[d].ipv6 = FALSE /\ Flow[d].proto = Flow[c].proto /\ Flow[d].wan = Flow[c].wan
        /\ Flow[d].wanPort = Flow[c].wanPort /\ Flow[d].dst = Flow[c].dst
    BY <1>1, <1>2, <1>3, <1>6, <2>1, <2>2, <2>3
  <2>5. ASSUME d # c, Flow[d].dstPort = Flow[c].dstPort PROVE "closed" \in {conn[c], conn[d]}
    <3>1. ReplyTuple(d) = ReplyTuple(c)
      BY <1>2, <2>4, <2>5 DEF ReplyTuple
    <3>2. conn[d] # "none"
      BY <1>6 DEF NatInv, LineBegun, d
    <3>3. ~(conn[c] = "open" /\ conn[d] = "open")
      BY <2>3, <2>5, <3>1 DEF NatInv, NatUnique
    <3>4. conn[c] \in {"none", "open", "closed"} /\ conn[d] \in {"none", "open", "closed"}
      BY <2>3 DEF TypeOK
    <3> QED
      BY <3>2, <3>3, <3>4
  <2>6. Alike(d, c)
    BY <2>4 DEF Alike
  <2> QED
    BY <2>5, <2>6
<1> QED
  BY <1>5, <1>6 DEF o, r, d, Offered

(***************************************************************************)
(* The inductive invariant and the theorems.                               *)
(***************************************************************************)
ForensicsInv == TypeOK /\ WifiInv /\ NatInv

(* Before the sockets are open there is nothing. *)
LEMMA ForensicsInit ==
  ASSUME ForensicsAssumption, Init
  PROVE  ForensicsInv
<1>1. TypeOK
  <2>1. /\ nq \in Seq(Events) /\ Len(nq) <= QueueLen
        /\ wq \in Seq(Answers) /\ Len(wq) <= MaxWifiQueue
    BY Bounds DEF Init
  <2>2. conn \in [Conns -> {"none", "open", "closed"}] /\ opened \in [Conns -> 0..MaxClock]
        /\ clock \in 0..MaxClock
    BY Bounds DEF Init
  <2>3. {gStop, wifi, failed} \subseteq BOOLEAN
    BY DEF Init
  <2> QED
    BY <2>1, <2>2, <2>3 DEF TypeOK, Init
<1>2. Len(nq) = 0 /\ Len(wq) = 0
  BY DEF Init
<1>3. WifiInv
  BY <1>2 DEF WifiInv, EndIsLast, OldIsMute
<1>4. NatInv
  <2>1. line.kind = "none" /\ \A c \in Conns : conn[c] = "open" => c \in Lasting
    BY DEF Init
  <2>2. \A c, d \in Lasting : c # d => ReplyTuple(c) # ReplyTuple(d)
    BY DEF ForensicsAssumption
  <2> QED
    BY <1>2, <2>1, <2>2 DEF NatInv, QueueBegun, LineBegun, NatUnique
<1> QED
  BY <1>1, <1>3, <1>4 DEF ForensicsInv

(* The inductive invariant holds in every reachable state of forensicsd    *)
(* and the kernel around it.                                               *)
THEOREM ForensicsInvariant == Spec => []ForensicsInv
<1>1. Init => ForensicsInv
  BY ForensicsInit, ForensicsAssumption
<1>2. ForensicsInv /\ [Next]_vars => ForensicsInv'
  <2>1. SUFFICES ASSUME ForensicsInv, [Next]_vars PROVE ForensicsInv'
    OBVIOUS
  <2>2. TypeOK /\ WifiInv /\ NatInv
    BY <2>1 DEF ForensicsInv
  <2>3. TypeOK'
    <3>1. CASE UNCHANGED vars
      BY <2>2, <3>1 DEF vars, TypeOK
    <3> QED
      BY <2>1, <2>2, <3>1, StepsTyped, KernelTyped, ForensicsAssumption DEF Next
  <2>4. WifiInv' /\ NatInv'
    BY <2>1, <2>2, WifiStep, NatStep, ForensicsAssumption
  <2> QED
    BY <2>3, <2>4 DEF ForensicsInv
<1> QED
  BY <1>1, <1>2, PTL DEF Spec

(* A record of the core is joined within the skew with exactly the lines   *)
(* whose connection has the same family, protocol, WAN source and          *)
(* destination host: those of its own connection, of one that went to      *)
(* another port, and of one that was not open together with it; for every  *)
(* table of addresses, every skew and every loss of events.                *)
THEOREM AttributionHolds == Spec => []Attribution
<1>1. ForensicsInv => Attribution
  BY JoinSound, ForensicsAssumption DEF ForensicsInv, Attribution, Alike
<1> QED
  BY <1>1, ForensicsInvariant, PTL

(* wifi_dump_once prints no stations of an earlier dump unless a receive   *)
(* failed before.                                                          *)
THEOREM WifiFreshHolds == Spec => []WifiFresh
<1>1. ForensicsInv => WifiFresh
  <2>1. SUFFICES ASSUME ForensicsInv, wq # << >>, Head(wq).old,
                        Head(wq).type \in {"stations", "stations+done"}, ~failed
                 PROVE  FALSE
    BY DEF WifiFresh
  <2>2. Head(wq) = wq[1] /\ 1 \in 1..Len(wq)
    BY <2>1, Rest DEF ForensicsInv, TypeOK
  <2> QED
    BY <2>1, <2>2 DEF ForensicsInv, WifiInv, OldIsMute
<1> QED
  BY <1>1, ForensicsInvariant, PTL
=============================================================================
