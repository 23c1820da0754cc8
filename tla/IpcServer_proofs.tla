-------------------------- MODULE IpcServer_proofs --------------------------
(***************************************************************************)
(* ipc_server.c and ipc_client.c: for every number of clients, slots,      *)
(* buffer units and replies, the stream of each client reaches the server  *)
(* intact, each line is answered once and in order, recv is never called   *)
(* without room, and cpe_ctl is turned away only when no agent runs or all *)
(* slots are taken.                                                        *)
(***************************************************************************)
EXTENDS IpcPosts, SequenceTheorems, FiniteSetTheorems, WellFoundedInduction, TLAPS

(* A set of numbers that is not empty has a least element. *)
LEMMA LeastExists ==
  ASSUME NEW S \in SUBSET Nat, S # {}
  PROVE  LET k == CHOOSE k \in S : \A j \in S : k <= j IN k \in S /\ \A j \in S : k <= j
<1>1. PICK i \in S : \A j \in S : <<j, i>> \notin OpToRel(<, Nat)
  BY NatLessThanWellFounded, WFMin
<1>2. \A j \in S : i <= j
  <2>1. ASSUME NEW j \in S, j < i PROVE <<j, i>> \in OpToRel(<, Nat)
    BY <2>1 DEF OpToRel
  <2>2. \A j \in S : ~(j < i)
    BY <1>1, <2>1
  <2> QED
    BY <2>2
<1> QED
  BY <1>2

(* What lies before and behind a place of a sequence. *)
LEMMA Split ==
  ASSUME NEW S, NEW s \in Seq(S), NEW k \in 0..Len(s)
  PROVE  /\ SubSeq(s, 1, k) \in Seq(S) /\ SubSeq(s, k + 1, Len(s)) \in Seq(S)
         /\ Len(SubSeq(s, 1, k)) = k /\ Len(SubSeq(s, k + 1, Len(s))) = Len(s) - k
         /\ \A i \in 1..k : SubSeq(s, 1, k)[i] = s[i]
         /\ SubSeq(s, 1, k) \o SubSeq(s, k + 1, Len(s)) = s
<1>0. Len(s) \in Nat /\ k \in Nat /\ k <= Len(s)
  OBVIOUS
<1>1. \A i \in 1..Len(s) : s[i] \in S
  OBVIOUS
<1>2. /\ SubSeq(s, 1, k) \in Seq(S) /\ Len(SubSeq(s, 1, k)) = IF 1 <= k THEN k - 1 + 1 ELSE 0
      /\ \A i \in 1..(k - 1 + 1) : SubSeq(s, 1, k)[i] = s[1 + i - 1]
  <2>1. 1 \in Int /\ k \in Int /\ \A i \in 1..k : s[i] \in S
    BY <1>0, <1>1
  <2> QED
    BY <2>1, SubSeqProperties
<1>3. /\ SubSeq(s, k + 1, Len(s)) \in Seq(S)
      /\ Len(SubSeq(s, k + 1, Len(s))) = IF k + 1 <= Len(s) THEN Len(s) - (k + 1) + 1 ELSE 0
  <2>1. k + 1 \in Int /\ Len(s) \in Int /\ \A i \in (k + 1)..Len(s) : s[i] \in S
    BY <1>0, <1>1
  <2> QED
    BY <2>1, SubSeqProperties
<1>4. \A i \in 1..k : SubSeq(s, 1, k)[i] = s[i]
  <2>1. \A i \in 1..k : i \in 1..(k - 1 + 1) /\ 1 + i - 1 = i
    BY <1>0
  <2> QED
    BY <1>2, <2>1
<1>5. SubSeq(s, 1, k) \o SubSeq(s, k + 1, Len(s)) = SubSeq(s, 1, Len(s))
  <2>1. 1 \in 1..(Len(s) + 1) /\ k \in (1 - 1)..Len(s) /\ Len(s) \in k..Len(s)
    BY <1>0
  <2> QED
    BY <2>1, ConcatAdjacentSubSeq
<1>6. SubSeq(s, 1, Len(s)) = s
  BY SubSeqFull
<1>7. Len(SubSeq(s, 1, k)) = k /\ Len(SubSeq(s, k + 1, Len(s))) = Len(s) - k
  BY <1>0, <1>2, <1>3
<1> QED
  BY <1>2, <1>3, <1>4, <1>5, <1>6, <1>7

(* The buffers and the constants that bound them. *)
LEMMA Bounds ==
  ASSUME IpcAssumption
  PROVE  /\ 0 \in Slots /\ Slots \subseteq Nat
         /\ BufMax \in Nat /\ 2 <= BufMax /\ ReplyRoom \in Nat /\ 0 < ReplyRoom
         /\ Backlog \in Nat /\ 0 < Backlog
BY DEF IpcAssumption, Slots

(* The next slot is a slot. *)
LEMMA NextSlotTyped ==
  ASSUME IpcAssumption, TypeOK, NextSlot
  PROVE  pc' \in {"idle", "recv"} /\ cur' \in Slots
<1>1. SlotsMax \in Nat \ {0} /\ cur \in 0..(SlotsMax - 1)
  BY DEF IpcAssumption, TypeOK, Slots
<1>2. \/ cur + 1 < SlotsMax /\ pc' = "recv" /\ cur' = cur + 1
      \/ pc' = "idle" /\ cur' = 0
  BY DEF NextSlot
<1>3. cur' \in 0..(SlotsMax - 1)
  BY <1>1, <1>2
<1> QED
  BY <1>2, <1>3 DEF Slots

(* A connection is given up: only its own state changes. *)
LEMMA HangTyped ==
  ASSUME TypeOK, NEW c \in Clients, NEW cause \in {"left", "full", "long", "jam"}, Hang(c, cause)
  PROVE  /\ conn' \in [Clients -> {"new", "open", "shut", "left"}]
         /\ why' \in [Clients -> {"none", "left", "full", "down", "long", "jam"}]
         /\ wire' \in [Clients -> Seq(Units)]
         /\ \A d \in Clients : d # c => conn'[d] = conn[d] /\ why'[d] = why[d] /\ wire'[d] = wire[d]
         /\ conn'[c] # "open" /\ (conn'[c] = "new" <=> conn[c] = "new")
         /\ why'[c] = cause /\ wire'[c] = << >>
<1>1. /\ why' \in [Clients -> {"none", "left", "full", "down", "long", "jam"}]
      /\ why'[c] = cause /\ \A d \in Clients : d # c => why'[d] = why[d]
  BY DEF Hang, TypeOK
<1>2. wire' \in [Clients -> Seq(Units)] /\ wire'[c] = << >> /\ \A d \in Clients : d # c => wire'[d] = wire[d]
  BY DEF Hang, TypeOK
<1>3. /\ conn' \in [Clients -> {"new", "open", "shut", "left"}]
      /\ conn'[c] # "open" /\ (conn'[c] = "new" <=> conn[c] = "new")
      /\ \A d \in Clients : d # c => conn'[d] = conn[d]
  BY DEF Hang, TypeOK
<1> QED
  BY <1>1, <1>2, <1>3

(* So is a slot. *)
LEMMA CloseTyped ==
  ASSUME IpcAssumption, TypeOK, slot[cur] # NoClient,
         NEW cause \in {"left", "full", "long", "jam"}, CloseClient(cause)
  PROVE  /\ slot[cur] \in Clients /\ Hang(slot[cur], cause)
         /\ slot' \in [Slots -> Clients \cup {NoClient}] /\ slot'[cur] = NoClient
         /\ \A i \in Slots : i # cur => slot'[i] = slot[i] /\ rbuf'[i] = rbuf[i]
         /\ rbuf' \in [Slots -> Seq(Units)] /\ rbuf'[cur] = << >> /\ Len(rbuf'[cur]) = 0
         /\ \A i \in Slots : Len(rbuf'[i]) <= BufMax
<1>1. cur \in Slots /\ slot[cur] \in Clients /\ BufMax \in Nat
  BY Bounds DEF TypeOK
<1>2. /\ slot' \in [Slots -> Clients \cup {NoClient}] /\ slot'[cur] = NoClient
      /\ \A i \in Slots : i # cur => slot'[i] = slot[i]
  BY <1>1 DEF CloseClient, TypeOK
<1>3. /\ rbuf' \in [Slots -> Seq(Units)] /\ rbuf'[cur] = << >>
      /\ \A i \in Slots : i # cur => rbuf'[i] = rbuf[i]
  BY <1>1 DEF CloseClient, TypeOK
<1>4. Len(rbuf'[cur]) = 0
  BY <1>3
<1>5. ASSUME NEW i \in Slots PROVE Len(rbuf'[i]) <= BufMax
  <2>1. CASE i = cur
    BY <1>1, <1>4, <2>1
  <2>2. CASE i # cur
    BY <1>3, <2>2 DEF TypeOK
  <2> QED
    BY <2>1, <2>2
<1> QED
  BY <1>1, <1>2, <1>3, <1>4, <1>5 DEF CloseClient

(* What recv takes: as much as there is and as fits.                       *)
LEMMA RecvTakes ==
  ASSUME IpcAssumption, TypeOK, RecvUnits
  PROVE  LET c == slot[cur]
         IN  /\ c \in Clients
             /\ rbuf' \in [Slots -> Seq(Units)] /\ wire' \in [Clients -> Seq(Units)]
             /\ \A i \in Slots : i # cur => rbuf'[i] = rbuf[i]
             /\ \A d \in Clients : d # c => wire'[d] = wire[d]
             /\ rbuf'[cur] \o wire'[c] = rbuf[cur] \o wire[c]
             /\ \A i \in Slots : Len(rbuf'[i]) <= BufMax
<1> DEFINE c == slot[cur]
           k == IF Len(wire[c]) <= Room THEN Len(wire[c]) ELSE Room
           head == SubSeq(wire[c], 1, k)
           tail == SubSeq(wire[c], k + 1, Len(wire[c]))
<1>1. /\ cur \in Slots /\ c \in Clients /\ wire[c] \in Seq(Units) /\ rbuf[cur] \in Seq(Units)
      /\ Len(rbuf[cur]) <= BufMax
  BY DEF RecvUnits, TypeOK
<1>2. /\ rbuf' = [rbuf EXCEPT ![cur] = @ \o head] /\ wire' = [wire EXCEPT ![c] = tail]
  BY DEF RecvUnits
<1>3. BufMax \in Nat /\ Len(rbuf[cur]) \in Nat /\ Len(wire[c]) \in Nat
  BY <1>1, Bounds
<1>4. k \in 0..Len(wire[c]) /\ Len(rbuf[cur]) + k <= BufMax
  <2>1. Room \in Nat /\ Len(rbuf[cur]) + Room = BufMax
    BY <1>1, <1>3 DEF Room
  <2>2. (k = Len(wire[c]) /\ Len(wire[c]) <= Room) \/ (k = Room /\ ~(Len(wire[c]) <= Room))
    OBVIOUS
  <2> HIDE DEF c, k
  <2> QED
    BY <1>3, <2>1, <2>2
<1> HIDE DEF k
<1>5. head \in Seq(Units) /\ tail \in Seq(Units) /\ Len(head) = k /\ head \o tail = wire[c]
  BY <1>1, <1>4, Split
<1> HIDE DEF head, tail, c
<1>6. rbuf[cur] \o head \in Seq(Units) /\ Len(rbuf[cur] \o head) = Len(rbuf[cur]) + k
  BY <1>1, <1>5, ConcatProperties
<1>7. /\ rbuf' \in [Slots -> Seq(Units)] /\ rbuf'[cur] = rbuf[cur] \o head
      /\ \A i \in Slots : i # cur => rbuf'[i] = rbuf[i]
  BY <1>1, <1>2, <1>6 DEF TypeOK
<1>8. /\ wire' \in [Clients -> Seq(Units)] /\ wire'[c] = tail
      /\ \A d \in Clients : d # c => wire'[d] = wire[d]
  BY <1>1, <1>2, <1>5 DEF TypeOK
<1>9. (rbuf[cur] \o head) \o tail = rbuf[cur] \o (head \o tail)
  <2> DEFINE held == rbuf[cur]
  <2>1. held \in Seq(Units) /\ head \in Seq(Units) /\ tail \in Seq(Units)
    BY <1>1, <1>5
  <2> HIDE DEF held
  <2>2. (held \o head) \o tail = held \o (head \o tail)
    BY <2>1, ConcatAssociative
  <2> QED
    BY <2>2 DEF held
<1>10. rbuf'[cur] \o wire'[c] = rbuf[cur] \o wire[c]
  BY <1>5, <1>7, <1>8, <1>9
<1>11. \A i \in Slots : Len(rbuf'[i]) <= BufMax
  BY <1>4, <1>6, <1>7 DEF TypeOK
<1> QED
  BY <1>1, <1>7, <1>8, <1>10, <1>11 DEF c

(* The first newline of the buffer, and the line it ends.                  *)
LEMMA LineTaken ==
  ASSUME IpcAssumption, TypeOK, Newlines # {}
  PROVE  /\ LineEnd \in 1..Len(rbuf[cur]) /\ rbuf[cur][LineEnd].op # "text"
         /\ \A k \in 1..Len(rbuf[cur]) : k < LineEnd => rbuf[cur][k].op = "text"
         /\ rbuf[cur] \in Seq(Units) /\ cur \in Slots /\ rbuf[cur][LineEnd] \in Units
         /\ SubSeq(rbuf[cur], 1, LineEnd) \in Seq(Units) /\ Len(SubSeq(rbuf[cur], 1, LineEnd)) = LineEnd
         /\ \A k \in 1..LineEnd : SubSeq(rbuf[cur], 1, LineEnd)[k] = rbuf[cur][k]
         /\ Rest \in Seq(Units) /\ Len(Rest) <= BufMax
         /\ SubSeq(rbuf[cur], 1, LineEnd) \o Rest = rbuf[cur]
<1>1. cur \in Slots /\ rbuf[cur] \in Seq(Units) /\ Len(rbuf[cur]) \in Nat /\ Len(rbuf[cur]) <= BufMax
      /\ BufMax \in Nat
  BY Bounds DEF TypeOK
<1>2. Newlines \in SUBSET Nat /\ Newlines # {}
  BY <1>1 DEF Newlines
<1>3. LineEnd \in Newlines /\ \A j \in Newlines : LineEnd <= j
  BY <1>2, LeastExists DEF LineEnd
<1>4. LineEnd \in 1..Len(rbuf[cur]) /\ rbuf[cur][LineEnd].op # "text"
  BY <1>3 DEF Newlines
<1>5. \A k \in 1..Len(rbuf[cur]) : k < LineEnd => rbuf[cur][k].op = "text"
  BY <1>1, <1>3, <1>4 DEF Newlines
<1>6. LineEnd \in 0..Len(rbuf[cur])
  BY <1>1, <1>4
<1> HIDE DEF LineEnd
<1>7. /\ SubSeq(rbuf[cur], 1, LineEnd) \in Seq(Units) /\ Len(SubSeq(rbuf[cur], 1, LineEnd)) = LineEnd
      /\ \A k \in 1..LineEnd : SubSeq(rbuf[cur], 1, LineEnd)[k] = rbuf[cur][k]
      /\ Rest \in Seq(Units) /\ Len(Rest) = Len(rbuf[cur]) - LineEnd
      /\ SubSeq(rbuf[cur], 1, LineEnd) \o Rest = rbuf[cur]
  <2> DEFINE held == rbuf[cur]
  <2>1. held \in Seq(Units) /\ LineEnd \in 0..Len(held)
    BY <1>1, <1>6
  <2> HIDE DEF held
  <2>2. /\ SubSeq(held, 1, LineEnd) \in Seq(Units) /\ SubSeq(held, LineEnd + 1, Len(held)) \in Seq(Units)
        /\ Len(SubSeq(held, 1, LineEnd)) = LineEnd
        /\ Len(SubSeq(held, LineEnd + 1, Len(held))) = Len(held) - LineEnd
        /\ \A k \in 1..LineEnd : SubSeq(held, 1, LineEnd)[k] = held[k]
        /\ SubSeq(held, 1, LineEnd) \o SubSeq(held, LineEnd + 1, Len(held)) = held
    BY <2>1, Split
  <2> QED
    BY <2>2 DEF held, Rest
<1>8. Len(Rest) <= BufMax
  BY <1>1, <1>6, <1>7
<1>9. rbuf[cur][LineEnd] \in Units
  BY <1>1, <1>4
<1> QED
  BY <1>1, <1>4, <1>5, <1>7, <1>8, <1>9

(* What a client sends is appended to its stream and to nothing else.      *)
LEMMA SendTyped ==
  ASSUME IpcAssumption, TypeOK, NEW c \in Clients, NEW units \in Seq(Units), Send(c, units)
  PROVE  /\ wire' \in [Clients -> Seq(Units)] /\ sent' \in [Clients -> Seq(Units)]
         /\ wire'[c] = wire[c] \o units /\ sent'[c] = sent[c] \o units
         /\ \A d \in Clients : d # c => wire'[d] = wire[d] /\ sent'[d] = sent[d]
<1>1. wire[c] \o units \in Seq(Units) /\ sent[c] \o units \in Seq(Units)
  BY ConcatProperties DEF TypeOK
<1> QED
  BY <1>1 DEF Send, TypeOK

(* The units of a send. *)
LEMMA UnitsTyped ==
  ASSUME TypeOK, NEW c \in Clients, NEW op \in Ops \cup {"text"}
  PROVE  /\ <<Unit(c, op)>> \in Seq(Units) /\ Len(<<Unit(c, op)>>) = 1
         /\ <<Unit(c, "text"), [Unit(c, op) EXCEPT !.n = 2]>> \in Seq(Units)
         /\ Len(<<Unit(c, "text"), [Unit(c, op) EXCEPT !.n = 2]>>) = 2
         /\ <<Unit(c, "text"), [Unit(c, op) EXCEPT !.n = 2]>>[2].op = op
<1>1. Len(sent[c]) + 1 \in Nat
  BY DEF TypeOK
<1>2. Unit(c, op) \in Units /\ Unit(c, "text") \in Units
  BY <1>1 DEF Unit, Units
<1>3. [Unit(c, op) EXCEPT !.n = 2] \in Units /\ [Unit(c, op) EXCEPT !.n = 2].op = op
  BY <1>1 DEF Unit, Units
<1>4. \A u, v \in Units : /\ <<u>> \in Seq(Units) /\ Len(<<u>>) = 1
                          /\ <<u, v>> \in Seq(Units) /\ Len(<<u, v>>) = 2 /\ <<u, v>>[2] = v
  OBVIOUS
<1> QED
  BY <1>2, <1>3, <1>4

(* The steps of the clients keep the types. *)
LEMMA ClientTyped ==
  ASSUME IpcAssumption, TypeOK, NEW c \in Clients, ClientStep(c)
  PROVE  TypeOK'
<1>1. CASE Connect(c)
  <2>1. queue' \in Seq(Clients) /\ Len(queue') <= Backlog
    <3>1. CASE queue' = queue
      BY <3>1 DEF TypeOK
    <3>2. CASE Len(queue) < Backlog /\ queue' = Append(queue, c)
      BY <3>2, Bounds DEF TypeOK
    <3> QED
      BY <1>1, <3>1, <3>2 DEF Connect
  <2>2. /\ conn' \in [Clients -> {"new", "open", "shut", "left"}]
        /\ why' \in [Clients -> {"none", "left", "full", "down", "long", "jam"}]
    BY <1>1 DEF Connect, TypeOK
  <2> QED
    BY <1>1, <2>1, <2>2 DEF Connect, TypeOK, agentVars, pollVars
<1>2. ASSUME NEW units \in Seq(Units), Send(c, units) PROVE TypeOK'
  BY <1>2, SendTyped DEF Send, TypeOK, agentVars, pollVars
<1>3. CASE SendPiece(c)
  BY <1>2, <1>3, UnitsTyped DEF SendPiece
<1>4. CASE SendRequest(c)
  BY <1>2, <1>4, UnitsTyped DEF SendRequest
<1>5. CASE ReadReply(c)
  <2>1. reply[c] \in Seq(Replies) /\ got[c] \in Seq(Replies) /\ reply[c] # << >>
        /\ Len(reply[c]) <= ReplyRoom /\ ReplyRoom \in Nat
    BY <1>5, Bounds DEF ReadReply, TypeOK
  <2>2. /\ Append(got[c], Head(reply[c])) \in Seq(Replies)
        /\ Tail(reply[c]) \in Seq(Replies) /\ Len(Tail(reply[c])) <= ReplyRoom
    BY <2>1
  <2>3. got' \in [Clients -> Seq(Replies)]
    BY <1>5, <2>2 DEF ReadReply, TypeOK
  <2>4. reply' \in [Clients -> Seq(Replies)] /\ \A d \in Clients : Len(reply'[d]) <= ReplyRoom
    BY <1>5, <2>2 DEF ReadReply, TypeOK
  <2>5. conn' \in [Clients -> {"new", "open", "shut", "left"}]
    BY <1>5 DEF ReadReply, TypeOK
  <2> QED
    BY <1>5, <2>3, <2>4, <2>5 DEF ReadReply, TypeOK, agentVars, pollVars
<1>6. CASE ReadEnd(c)
  BY <1>6 DEF ReadEnd, TypeOK, agentVars, pollVars
<1>7. CASE Leave(c)
  <2>1. /\ reply' \in [Clients -> Seq(Replies)] /\ reply'[c] = << >>
        /\ \A d \in Clients : d # c => reply'[d] = reply[d]
    BY <1>7 DEF Leave, TypeOK
  <2>2. Len(reply'[c]) = 0 /\ ReplyRoom \in Nat
    BY <2>1, Bounds
  <2>3. ASSUME NEW d \in Clients PROVE Len(reply'[d]) <= ReplyRoom
    <3>1. CASE d = c
      BY <2>2, <3>1
    <3>2. CASE d # c
      BY <2>1, <3>2 DEF TypeOK
    <3> QED
      BY <3>1, <3>2
  <2>4. conn' \in [Clients -> {"new", "open", "shut", "left"}]
    BY <1>7 DEF Leave, TypeOK
  <2> QED
    BY <1>7, <2>1, <2>3, <2>4 DEF Leave, TypeOK, agentVars, pollVars
<1> QED
  BY <1>1, <1>3, <1>4, <1>5, <1>6, <1>7 DEF ClientStep

(* The agent's start and end keep them. *)
LEMMA AgentTyped ==
  ASSUME IpcAssumption, TypeOK, Start \/ Stop \/ Crash
  PROVE  TypeOK'
<1>1. CASE Start
  <2>1. /\ slot' \in [Slots -> Clients \cup {NoClient}] /\ cur' \in Slots
        /\ starts' \in 0..MaxStarts
    BY <1>1, Bounds DEF Start, TypeOK, IpcAssumption
  <2>2. rbuf' \in [Slots -> Seq(Units)] /\ \A i \in Slots : rbuf'[i] = << >>
    BY <1>1 DEF Start
  <2>3. \A i \in Slots : Len(rbuf'[i]) <= BufMax
    BY <2>2, Bounds
  <2> QED
    BY <1>1, <2>1, <2>2, <2>3 DEF Start, Bind, TypeOK, clientVars
<1>2. CASE Stop \/ Crash
  <2>0. Down
    BY <1>2 DEF Stop, Crash
  <2>1. queue' \in Seq(Clients) /\ Len(queue') <= Backlog
    <3>1. queue' = << >>
      BY <2>0 DEF Down
    <3> QED
      BY <3>1, Bounds
  <2>2. /\ conn' \in [Clients -> {"new", "open", "shut", "left"}]
        /\ why' \in [Clients -> {"none", "left", "full", "down", "long", "jam"}]
        /\ wire' \in [Clients -> Seq(Units)]
    <3>1. conn' \in [Clients -> {"new", "open", "shut", "left"}]
      BY <2>0 DEF Down, TypeOK
    <3>2. why' \in [Clients -> {"none", "left", "full", "down", "long", "jam"}]
      BY <2>0 DEF Down, TypeOK
    <3>3. wire' \in [Clients -> Seq(Units)]
      BY <2>0 DEF Down
    <3> QED
      BY <3>1, <3>2, <3>3
  <2>3. path' \in {"absent", "stale", "live"}
    BY <1>2 DEF Stop, Crash
  <2> QED
    BY <2>0, <2>1, <2>2, <2>3 DEF Down, TypeOK
<1> QED
  BY <1>1, <1>2

(* While lines are read from a buffer, its slot is taken. *)
AtLine == up /\ pc = "lines" => slot[cur] # NoClient

(* The steps of the poll keep them. *)
LEMMA PollTyped ==
  ASSUME IpcAssumption, TypeOK, AtLine, Poll
  PROVE  TypeOK'
<1>1. CASE PollStart \/ RecvNothing \/ AcceptDone
  <2>1. pc' \in {"idle", "accept", "recv", "lines"} /\ cur' \in Slots
    BY <1>1, NextSlotTyped, Bounds DEF PollStart, RecvNothing, AcceptDone, TypeOK
  <2>2. UNCHANGED <<agentVars, queue, slot, rbuf, clientVars, eaten>>
    BY <1>1 DEF PollStart, RecvNothing, AcceptDone
  <2> QED
    BY <2>1, <2>2 DEF TypeOK, agentVars, clientVars
<1>2. CASE AcceptOne
  <2> DEFINE c == Head(queue)
             i == CHOOSE i \in FreeSlot : \A j \in FreeSlot : i <= j
  <2>1. c \in Clients /\ Tail(queue) \in Seq(Clients) /\ Len(Tail(queue)) <= Backlog
    <3>1. queue \in Seq(Clients) /\ queue # << >> /\ Len(queue) <= Backlog /\ Backlog \in Nat
      BY <1>2, Bounds DEF AcceptOne, TypeOK
    <3> QED
      BY <3>1
  <2>2. CASE FreeSlot # {}
    <3>1. FreeSlot \in SUBSET Nat /\ FreeSlot \subseteq Slots
      BY Bounds DEF FreeSlot
    <3>2. i \in Slots
      BY <2>2, <3>1, LeastExists
    <3>3. slot' = [slot EXCEPT ![i] = c] /\ rbuf' = [rbuf EXCEPT ![i] = << >>]
          /\ UNCHANGED <<conn, why, wire>>
      BY <1>2, <2>2 DEF AcceptOne
    <3> HIDE DEF i, c
    <3>4. slot' \in [Slots -> Clients \cup {NoClient}]
      BY <2>1, <3>2, <3>3 DEF TypeOK
    <3>5. /\ rbuf' \in [Slots -> Seq(Units)] /\ rbuf'[i] = << >>
          /\ \A j \in Slots : j # i => rbuf'[j] = rbuf[j]
      BY <3>2, <3>3 DEF TypeOK
    <3>6. Len(rbuf'[i]) <= BufMax
      BY <3>5, Bounds
    <3>7. ASSUME NEW j \in Slots PROVE Len(rbuf'[j]) <= BufMax
      BY <3>5, <3>6 DEF TypeOK
    <3> QED
      BY <1>2, <2>1, <3>3, <3>4, <3>5, <3>7 DEF AcceptOne, TypeOK, agentVars, pollVars
  <2>3. CASE FreeSlot = {}
    <3>1. Hang(c, "full") /\ UNCHANGED <<slot, rbuf>>
      BY <1>2, <2>3 DEF AcceptOne
    <3> HIDE DEF c
    <3> QED
      BY <1>2, <2>1, <3>1, HangTyped DEF AcceptOne, TypeOK, agentVars, pollVars
  <2> QED
    BY <2>2, <2>3
<1>3. CASE RecvEnd
  <2>1. CloseClient("left") /\ slot[cur] # NoClient /\ NextSlot
    BY <1>3 DEF RecvEnd
  <2> QED
    BY <1>3, <2>1, CloseTyped, HangTyped, NextSlotTyped DEF RecvEnd, TypeOK, agentVars
<1>4. CASE RecvUnits
  <2>1. /\ rbuf' \in [Slots -> Seq(Units)] /\ wire' \in [Clients -> Seq(Units)]
        /\ \A i \in Slots : Len(rbuf'[i]) <= BufMax
    BY <1>4, RecvTakes
  <2> QED
    BY <1>4, <2>1 DEF RecvUnits, TypeOK, agentVars
<1>5. CASE AnswerLine
  <2> DEFINE c == slot[cur]
             taken == SubSeq(rbuf[cur], 1, LineEnd)
             line == rbuf[cur][LineEnd]
  <2>0. c \in Clients /\ cur \in Slots /\ slot[cur] # NoClient
    BY <1>5 DEF AnswerLine, AtLine, TypeOK
  <2>1. taken \in Seq(Units) /\ line \in Units /\ Rest \in Seq(Units) /\ Len(Rest) <= BufMax
    BY <1>5, LineTaken DEF AnswerLine
  <2>2. eaten' = [eaten EXCEPT ![c] = @ \o taken]
    BY <1>5 DEF AnswerLine
  <2>3. eaten' \in [Clients -> Seq(Units)]
    <3> HIDE DEF c, taken
    <3>1. eaten[c] \o taken \in Seq(Units)
      BY <2>0, <2>1, ConcatProperties DEF TypeOK, c
    <3> QED
      BY <2>0, <2>2, <3>1 DEF TypeOK
  <2>4. CASE /\ conn[c] = "open" /\ Len(reply[c]) < ReplyRoom
             /\ reply' = [reply EXCEPT ![c] = Append(@, Reply(line))]
             /\ rbuf' = [rbuf EXCEPT ![cur] = Rest]
             /\ UNCHANGED <<slot, conn, why, wire, pc, cur>>
    <3> HIDE DEF c, line
    <3>1. Reply(line) \in Replies
      BY <2>1 DEF Reply, Replies
    <3>2. reply[c] \in Seq(Replies) /\ Append(reply[c], Reply(line)) \in Seq(Replies)
          /\ Len(Append(reply[c], Reply(line))) <= ReplyRoom
      <4>1. reply[c] \in Seq(Replies) /\ Len(reply[c]) < ReplyRoom /\ ReplyRoom \in Nat
        BY <2>0, <2>4, Bounds DEF TypeOK
      <4> QED
        BY <3>1, <4>1
    <3>3. reply' \in [Clients -> Seq(Replies)] /\ \A d \in Clients : Len(reply'[d]) <= ReplyRoom
      BY <2>0, <2>4, <3>2 DEF TypeOK
    <3>4. rbuf' \in [Slots -> Seq(Units)] /\ \A i \in Slots : Len(rbuf'[i]) <= BufMax
      BY <2>0, <2>1, <2>4 DEF TypeOK
    <3> QED
      BY <1>5, <2>3, <2>4, <3>3, <3>4 DEF AnswerLine, TypeOK, agentVars
  <2>5. CASE CloseClient(IF conn[c] # "open" THEN "left" ELSE "jam") /\ NextSlot /\ UNCHANGED reply
    <3>1. PICK cause \in {"left", "full", "long", "jam"} : CloseClient(cause)
      BY <2>5
    <3> QED
      BY <1>5, <2>0, <2>3, <2>5, <3>1, CloseTyped, HangTyped, NextSlotTyped
         DEF AnswerLine, TypeOK, agentVars
  <2> QED
    BY <1>5, <2>4, <2>5 DEF AnswerLine
<1>6. CASE LinesDone
  <2>1. slot[cur] # NoClient /\ NextSlot
    BY <1>6 DEF LinesDone, AtLine
  <2>2. CASE CloseClient("long")
    BY <1>6, <2>1, <2>2, CloseTyped, HangTyped, NextSlotTyped DEF LinesDone, TypeOK, agentVars
  <2>3. CASE UNCHANGED <<slot, rbuf, conn, why, wire>>
    BY <1>6, <2>1, <2>3, NextSlotTyped DEF LinesDone, TypeOK, agentVars
  <2> QED
    BY <1>6, <2>2, <2>3 DEF LinesDone
<1> QED
  BY <1>1, <1>2, <1>3, <1>4, <1>5, <1>6 DEF Poll

(* The first element of a queue, and what is left behind it. *)
LEMMA Popped ==
  ASSUME NEW S, NEW q \in Seq(S), q # << >>
  PROVE  /\ 1 \in 1..Len(q) /\ Head(q) = q[1]
         /\ \A p \in 1..Len(Tail(q)) : p + 1 \in 1..Len(q) /\ Tail(q)[p] = q[p + 1] /\ p + 1 # 1
<1>1. Len(q) \in Nat /\ Len(q) > 0 /\ Len(Tail(q)) = Len(q) - 1 /\ Head(q) = q[1]
  OBVIOUS
<1>2. \A p \in 1..Len(Tail(q)) : Tail(q)[p] = q[p + 1]
  BY HeadTailProperties
<1> QED
  BY <1>1, <1>2

(* accept_clients gives the oldest connection of the backlog a free slot,  *)
(* or closes it when there is none.                                        *)
LEMMA AcceptEffect ==
  ASSUME IpcAssumption, TypeOK, AcceptOne
  PROVE  /\ queue[1] \in Clients /\ 1 \in 1..Len(queue)
         /\ \A p \in 1..Len(queue') : p + 1 \in 1..Len(queue) /\ queue'[p] = queue[p + 1] /\ p + 1 # 1
         /\ \/ /\ UNCHANGED <<conn, why, wire>>
               /\ \E i \in Slots : /\ slot[i] = NoClient /\ slot'[i] = queue[1] /\ rbuf'[i] = << >>
                                   /\ \A j \in Slots : j # i => slot'[j] = slot[j] /\ rbuf'[j] = rbuf[j]
            \/ /\ Hang(queue[1], "full") /\ UNCHANGED <<slot, rbuf>>
               /\ \A i \in Slots : slot[i] # NoClient
<1> DEFINE i == CHOOSE i \in FreeSlot : \A j \in FreeSlot : i <= j
<1>1. queue \in Seq(Clients) /\ queue # << >> /\ queue' = Tail(queue)
  BY DEF AcceptOne, TypeOK
<1>2. /\ 1 \in 1..Len(queue) /\ Head(queue) = queue[1]
      /\ \A p \in 1..Len(queue') : p + 1 \in 1..Len(queue) /\ queue'[p] = queue[p + 1] /\ p + 1 # 1
  BY <1>1, Popped
<1>3. queue[1] \in Clients
  BY <1>1, <1>2
<1>4. CASE FreeSlot # {}
  <2>1. FreeSlot \in SUBSET Nat /\ FreeSlot \subseteq Slots
    BY Bounds DEF FreeSlot
  <2>2. i \in FreeSlot
    BY <1>4, <2>1, LeastExists
  <2>3. slot' = [slot EXCEPT ![i] = queue[1]] /\ rbuf' = [rbuf EXCEPT ![i] = << >>]
        /\ UNCHANGED <<conn, why, wire>>
    BY <1>2, <1>4 DEF AcceptOne
  <2> HIDE DEF i
  <2>4. i \in Slots /\ slot[i] = NoClient
    BY <2>2 DEF FreeSlot
  <2>5. /\ slot'[i] = queue[1] /\ rbuf'[i] = << >>
        /\ \A j \in Slots : j # i => slot'[j] = slot[j] /\ rbuf'[j] = rbuf[j]
    BY <2>3, <2>4 DEF TypeOK
  <2> QED
    BY <1>2, <1>3, <2>3, <2>4, <2>5
<1>5. CASE FreeSlot = {}
  <2>1. Hang(queue[1], "full") /\ UNCHANGED <<slot, rbuf>>
    BY <1>2, <1>5 DEF AcceptOne
  <2>2. \A j \in Slots : slot[j] # NoClient
    BY <1>5 DEF FreeSlot
  <2> QED
    BY <1>2, <1>3, <2>1, <2>2
<1> QED
  BY <1>4, <1>5

(***************************************************************************)
(* Every connection is in one place: new, in the backlog, or in one slot.  *)
(***************************************************************************)
OneSlot == \A i, j \in Slots : i # j /\ slot[i] = slot[j] => slot[i] = NoClient
OneTurn == \A p, q \in 1..Len(queue) : p # q => queue[p] # queue[q]
NotBoth == \A p \in 1..Len(queue) : \A i \in Slots : queue[p] # slot[i]
QueueKnown == \A p \in 1..Len(queue) : conn[queue[p]] # "new"
SlotKnown == \A i \in Slots : slot[i] # NoClient => conn[slot[i]] # "new"
Owners == OneSlot /\ OneTurn /\ NotBoth /\ QueueKnown /\ SlotKnown

(* Giving up slots, or the backlog, keeps it so. *)
LEMMA OwnersKept ==
  ASSUME IpcAssumption, TypeOK, Owners,
         \A i \in Slots : slot'[i] \in {slot[i], NoClient},
         queue' = queue \/ queue' = << >>,
         \A c \in Clients : conn'[c] = "new" => conn[c] = "new"
  PROVE  Owners'
<1>1. \A p \in 1..Len(queue) : queue[p] \in Clients /\ queue[p] # NoClient
  <2>1. \A p \in 1..Len(queue) : queue[p] \in Clients
    BY DEF TypeOK
  <2> QED
    BY <2>1 DEF IpcAssumption
<1>2. \A i \in Slots : slot[i] # NoClient => slot[i] \in Clients
  BY DEF TypeOK
<1>3. \A p \in 1..Len(queue') : p \in 1..Len(queue) /\ queue'[p] = queue[p]
  <2>1. CASE queue' = queue
    BY <2>1
  <2>2. CASE queue' = << >>
    <3>1. Len(queue') = 0
      BY <2>2
    <3> QED
      BY <3>1
  <2> QED
    BY <2>1, <2>2
<1> QED
  BY <1>1, <1>2, <1>3 DEF Owners, OneSlot, OneTurn, NotBoth, QueueKnown, SlotKnown

(* Every step keeps it. *)
LEMMA OwnersStep ==
  ASSUME IpcAssumption, TypeOK, AtLine, Owners, [Next]_vars
  PROVE  Owners'
<1>0. NoClient \notin Clients
  BY DEF IpcAssumption
<1>1. \A p \in 1..Len(queue) : queue[p] \in Clients
  BY DEF TypeOK
<1>2. CASE Start
  BY <1>2, OwnersKept DEF Start, clientVars
<1>3. CASE Stop \/ Crash
  <2>1. Down
    BY <1>3 DEF Stop, Crash
  <2>2. \A c \in Clients : conn'[c] = "new" => conn[c] = "new"
    BY <2>1 DEF Down
  <2> QED
    BY <2>1, <2>2, OwnersKept DEF Down
<1>4. ASSUME NEW c \in Clients, ClientStep(c) PROVE Owners'
  <2>1. CASE Connect(c)
    <3>1. CASE queue' = Append(queue, c) /\ conn' = [conn EXCEPT ![c] = "open"]
      <4>1. conn[c] = "new" /\ slot' = slot
        BY <2>1 DEF Connect
      <4>2. (\A p \in 1..Len(queue) : queue[p] # c) /\ (\A i \in Slots : slot[i] # c)
        BY <1>0, <4>1 DEF Owners, OneSlot, OneTurn, NotBoth, QueueKnown, SlotKnown
      <4>3. /\ Len(queue) \in Nat /\ Len(queue') = Len(queue) + 1
            /\ \A p \in 1..Len(queue) : queue'[p] = queue[p]
            /\ queue'[Len(queue) + 1] = c
        BY <3>1 DEF TypeOK
      <4>4. \A p \in 1..Len(queue') : \/ p \in 1..Len(queue) /\ queue'[p] = queue[p]
                                      \/ p = Len(queue) + 1 /\ queue'[p] = c
        BY <4>3
      <4>5. conn'[c] = "open" /\ \A d \in Clients : d # c => conn'[d] = conn[d]
        BY <3>1 DEF TypeOK
      <4>6. \A i \in Slots : slot[i] # NoClient => slot[i] \in Clients
        BY DEF TypeOK
      <4>7. OneSlot'
        BY <4>1 DEF Owners, OneSlot
      <4>8. OneTurn'
        BY <4>2, <4>4 DEF Owners, OneTurn
      <4>9. NotBoth'
        BY <4>1, <4>2, <4>4 DEF Owners, NotBoth
      <4>10. QueueKnown'
        BY <1>1, <4>4, <4>5 DEF Owners, QueueKnown
      <4>11. SlotKnown'
        BY <4>1, <4>2, <4>5, <4>6 DEF Owners, SlotKnown
      <4> QED
        BY <4>7, <4>8, <4>9, <4>10, <4>11 DEF Owners
    <3>2. CASE queue' = queue /\ conn' = [conn EXCEPT ![c] = "left"]
      <4>1. (\A d \in Clients : conn'[d] = "new" => conn[d] = "new") /\ slot' = slot
        BY <2>1, <3>2 DEF TypeOK, Connect
      <4> QED
        BY <3>2, <4>1, OwnersKept
    <3> QED
      BY <2>1, <3>1, <3>2 DEF Connect
  <2>2. CASE SendPiece(c) \/ SendRequest(c)
    <3>1. UNCHANGED <<queue, slot, conn>>
      BY <2>2 DEF SendPiece, SendRequest, Send
    <3> QED
      BY <3>1, OwnersKept
  <2>3. CASE ReadReply(c) \/ ReadEnd(c) \/ Leave(c)
    <3>1. UNCHANGED <<queue, slot>> /\ \A d \in Clients : conn'[d] = "new" => conn[d] = "new"
      BY <2>3 DEF ReadReply, ReadEnd, Leave, TypeOK
    <3> QED
      BY <3>1, OwnersKept
  <2> QED
    BY <1>4, <2>1, <2>2, <2>3 DEF ClientStep
<1>5. CASE PollStart \/ AcceptDone \/ RecvNothing \/ RecvUnits \/ UNCHANGED vars
  <2>1. UNCHANGED <<queue, slot, conn>>
    BY <1>5 DEF PollStart, AcceptDone, RecvNothing, RecvUnits, vars, clientVars
  <2> QED
    BY <2>1, OwnersKept
<1>6. CASE AcceptOne
  <2>1. /\ queue[1] \in Clients /\ 1 \in 1..Len(queue)
        /\ \A p \in 1..Len(queue') : p + 1 \in 1..Len(queue) /\ queue'[p] = queue[p + 1] /\ p + 1 # 1
    BY <1>6, AcceptEffect
  <2>2. \A p \in 1..Len(queue') : queue'[p] # queue[1]
    BY <2>1 DEF Owners, OneSlot, OneTurn, NotBoth, QueueKnown, SlotKnown
  <2>3. \A p, q \in 1..Len(queue') : p # q => p + 1 # q + 1
    OBVIOUS
  <2>4. \A p, q \in 1..Len(queue') : p # q => queue'[p] # queue'[q]
    BY <2>1, <2>3 DEF Owners, OneSlot, OneTurn, NotBoth, QueueKnown, SlotKnown
  <2>5. CASE /\ UNCHANGED <<conn, why, wire>>
             /\ \E i \in Slots : /\ slot[i] = NoClient /\ slot'[i] = queue[1] /\ rbuf'[i] = << >>
                                 /\ \A j \in Slots : j # i => slot'[j] = slot[j] /\ rbuf'[j] = rbuf[j]
    <3>1. PICK i \in Slots : slot'[i] = queue[1] /\ \A j \in Slots : j # i => slot'[j] = slot[j]
      BY <2>5
    <3>2. \A j \in Slots : slot[j] # queue[1]
      BY <2>1 DEF Owners, OneSlot, OneTurn, NotBoth, QueueKnown, SlotKnown
    <3>3. OneSlot'
      BY <3>1, <3>2 DEF Owners, OneSlot
    <3>4. OneTurn'
      BY <2>4 DEF OneTurn
    <3>5. NotBoth'
      BY <2>1, <2>2, <3>1 DEF Owners, NotBoth
    <3>6. QueueKnown'
      BY <2>1, <2>5 DEF Owners, QueueKnown
    <3>7. SlotKnown'
      BY <2>1, <2>5, <3>1 DEF Owners, SlotKnown, QueueKnown
    <3> QED
      BY <3>3, <3>4, <3>5, <3>6, <3>7 DEF Owners
  <2>6. CASE Hang(queue[1], "full") /\ UNCHANGED <<slot, rbuf>>
    <3>1. \A d \in Clients : conn'[d] = "new" <=> conn[d] = "new"
      <4>1. PICK c \in Clients : c = queue[1] /\ Hang(c, "full")
        BY <2>1, <2>6
      <4>2. /\ \A d \in Clients : d # c => conn'[d] = conn[d]
            /\ conn'[c] = "new" <=> conn[c] = "new"
        BY <4>1, HangTyped
      <4> QED
        BY <4>2
    <3>2. \A i \in Slots : slot[i] # NoClient => slot[i] \in Clients
      BY DEF TypeOK
    <3>3. OneSlot'
      BY <2>6 DEF Owners, OneSlot
    <3>4. OneTurn'
      BY <2>4 DEF OneTurn
    <3>5. NotBoth'
      BY <2>1, <2>6 DEF Owners, NotBoth
    <3>6. QueueKnown'
      BY <1>1, <2>1, <3>1 DEF Owners, QueueKnown
    <3>7. SlotKnown'
      BY <2>6, <3>1, <3>2 DEF Owners, SlotKnown
    <3> QED
      BY <3>3, <3>4, <3>5, <3>6, <3>7 DEF Owners
  <2> QED
    BY <1>6, <2>5, <2>6, AcceptEffect
<1>7. ASSUME NEW cause \in {"left", "full", "long", "jam"}, CloseClient(cause), queue' = queue,
             slot[cur] # NoClient
      PROVE  Owners'
  <2>1. /\ slot[cur] \in Clients /\ Hang(slot[cur], cause) /\ slot'[cur] = NoClient
        /\ \A i \in Slots : i # cur => slot'[i] = slot[i]
    BY <1>7, CloseTyped
  <2>2. \A d \in Clients : conn'[d] = "new" => conn[d] = "new"
    BY <2>1, HangTyped
  <2> QED
    BY <1>7, <2>1, <2>2, OwnersKept
<1>8. CASE RecvEnd
  BY <1>7, <1>8 DEF RecvEnd
<1>9. CASE AnswerLine
  <2>1. slot[cur] # NoClient /\ queue' = queue
    BY <1>9 DEF AnswerLine, AtLine
  <2>2. CASE UNCHANGED <<slot, conn, why, wire, pc, cur>>
    BY <2>1, <2>2, OwnersKept
  <2>3. CASE CloseClient(IF conn[slot[cur]] # "open" THEN "left" ELSE "jam")
    BY <1>7, <2>1, <2>3
  <2> QED
    BY <1>9, <2>2, <2>3 DEF AnswerLine
<1>10. CASE LinesDone
  <2>1. slot[cur] # NoClient /\ queue' = queue
    BY <1>10 DEF LinesDone, AtLine
  <2>2. CASE UNCHANGED <<slot, rbuf, conn, why, wire>>
    BY <2>1, <2>2, OwnersKept
  <2>3. CASE CloseClient("long")
    BY <1>7, <2>1, <2>3
  <2> QED
    BY <1>10, <2>2, <2>3 DEF LinesDone
<1> QED
  BY <1>2, <1>3, <1>4, <1>5, <1>6, <1>8, <1>9, <1>10 DEF Next, Poll

(***************************************************************************)
(* The path of the units: what a client sent is what was consumed, what is *)
(* in its slot's buffer and what is under way, in that order.              *)
(***************************************************************************)
SlotStream ==
  up => \A i \in Slots : slot[i] # NoClient =>
          sent[slot[i]] = (eaten[slot[i]] \o rbuf[i]) \o wire[slot[i]]
QueueStream == \A p \in 1..Len(queue) : eaten[queue[p]] = << >> /\ sent[queue[p]] = wire[queue[p]]
EatenFirst ==
  \A c \in Clients : /\ Len(eaten[c]) <= Len(sent[c])
                     /\ \A k \in 1..Len(eaten[c]) : eaten[c][k] = sent[c][k]
Streams == SlotStream /\ QueueStream /\ EatenFirst

(* A connection not yet made has no history. *)
NewBlank ==
  \A c \in Clients : conn[c] = "new" =>
    /\ sent[c] = << >> /\ wire[c] = << >> /\ eaten[c] = << >>
    /\ got[c] = << >> /\ reply[c] = << >>

(* The socket file is live while the agent runs, and only then. *)
PathLive == (path = "live" <=> up) /\ (up \/ queue = << >>)

(* Sequences of units. *)
LEMMA Assoc == \A s, t, u \in Seq(Units) : (s \o t) \o u = s \o (t \o u)
BY ConcatAssociative

(* Concatenation under a name of its own: the solver's theory of \o is    *)
(* left out of what only needs that it is associative.                     *)
Cat(s, t) == s \o t

(* What is regrouped behind a prefix stays the same. *)
LEMMA Regroup ==
  ASSUME NEW e \in Seq(Units), NEW r \in Seq(Units), NEW w \in Seq(Units)
  PROVE  /\ \A q, v \in Seq(Units) : Cat(r, w) = Cat(q, v) => Cat(Cat(e, r), w) = Cat(Cat(e, q), v)
         /\ \A q \in Seq(Units) : Cat(r, w) = q => Cat(Cat(e, r), w) = Cat(e, q)
<1>1. \A s, t, u \in Seq(Units) : Cat(Cat(s, t), u) = Cat(s, Cat(t, u))
  BY Assoc DEF Cat
<1> QED
  BY <1>1

(* The front of a concatenation. *)
LEMMA Front ==
  ASSUME NEW s \in Seq(Units), NEW t \in Seq(Units)
  PROVE  /\ s \o t \in Seq(Units) /\ Len(s) <= Len(s \o t) /\ Len(s) \in Nat
         /\ \A k \in 1..Len(s) : (s \o t)[k] = s[k]
<1>1. /\ s \o t \in Seq(Units) /\ Len(s \o t) = Len(s) + Len(t)
      /\ \A i \in 1..(Len(s) + Len(t)) : (s \o t)[i] = IF i <= Len(s) THEN s[i] ELSE t[i - Len(s)]
  BY ConcatProperties
<1>2. Len(s) \in Nat /\ Len(t) \in Nat
  OBVIOUS
<1>3. \A k \in 1..Len(s) : k \in 1..(Len(s) + Len(t)) /\ k <= Len(s)
  BY <1>2
<1> QED
  BY <1>1, <1>2, <1>3

(* The streams of the slots and of the backlog are those of clients. *)
LEMMA Occupants ==
  ASSUME IpcAssumption, TypeOK
  PROVE  /\ \A i \in Slots : slot[i] # NoClient => slot[i] \in Clients
         /\ \A p \in 1..Len(queue) : queue[p] \in Clients
         /\ \A c \in Clients : wire[c] \in Seq(Units) /\ sent[c] \in Seq(Units) /\ eaten[c] \in Seq(Units)
         /\ \A i \in Slots : rbuf[i] \in Seq(Units)
         /\ cur \in Slots
BY DEF TypeOK

(* Steps that leave the streams alone, or give up slots and the backlog. *)
LEMMA StreamsKept ==
  ASSUME IpcAssumption, TypeOK, Owners, Streams, up' => up,
         UNCHANGED <<sent, eaten>>,
         \A i \in Slots : slot'[i] = NoClient \/ (slot'[i] = slot[i] /\ rbuf'[i] = rbuf[i]),
         queue' = queue \/ queue' = << >>,
         \A i \in Slots : up' /\ slot'[i] # NoClient => wire'[slot[i]] = wire[slot[i]],
         \A p \in 1..Len(queue') : wire'[queue[p]] = wire[queue[p]]
  PROVE  Streams'
<1>1. \A p \in 1..Len(queue') : p \in 1..Len(queue) /\ queue'[p] = queue[p]
  <2>1. CASE queue' = queue
    BY <2>1
  <2>2. CASE queue' = << >>
    <3>1. Len(queue') = 0
      BY <2>2
    <3> QED
      BY <3>1
  <2> QED
    BY <2>1, <2>2
<1>2. SlotStream'
  BY DEF Streams, SlotStream
<1>3. QueueStream'
  BY <1>1 DEF Streams, QueueStream
<1>4. EatenFirst'
  BY DEF Streams, EatenFirst
<1> QED
  BY <1>2, <1>3, <1>4 DEF Streams

(* Sending: the same units at the end of the wire and of the history. *)
LEMMA StreamsSend ==
  ASSUME IpcAssumption, TypeOK, Owners, Streams, NEW c \in Clients, NEW units \in Seq(Units),
         Send(c, units)
  PROVE  Streams'
<1>1. /\ wire'[c] = wire[c] \o units /\ sent'[c] = sent[c] \o units
      /\ \A d \in Clients : d # c => wire'[d] = wire[d] /\ sent'[d] = sent[d]
  BY SendTyped
<1>2. UNCHANGED <<up, queue, slot, rbuf, eaten>>
  BY DEF Send, agentVars
<1>3. SlotStream'
  <2>1. SUFFICES ASSUME up, NEW i \in Slots, slot[i] # NoClient
                 PROVE  sent'[slot[i]] = (eaten[slot[i]] \o rbuf[i]) \o wire'[slot[i]]
    BY <1>2 DEF SlotStream
  <2>2. /\ slot[i] \in Clients /\ sent[slot[i]] = (eaten[slot[i]] \o rbuf[i]) \o wire[slot[i]]
        /\ eaten[slot[i]] \in Seq(Units) /\ rbuf[i] \in Seq(Units) /\ wire[slot[i]] \in Seq(Units)
    BY <2>1, Occupants DEF Streams, SlotStream
  <2>3. CASE slot[i] # c
    BY <1>1, <2>2, <2>3
  <2>4. CASE slot[i] = c
    <3> DEFINE s == eaten[c] \o rbuf[i]
    <3>1. s \in Seq(Units)
      BY <2>2, <2>4, Front
    <3>2. sent[c] = s \o wire[c] /\ wire[c] \in Seq(Units)
      BY <2>2, <2>4
    <3> HIDE DEF s
    <3>3. (s \o wire[c]) \o units = s \o (wire[c] \o units)
      BY <3>1, <3>2, Assoc
    <3> QED
      BY <1>1, <2>4, <3>2, <3>3 DEF s
  <2> QED
    BY <2>3, <2>4
<1>4. QueueStream'
  <2>1. ASSUME NEW p \in 1..Len(queue)
        PROVE  eaten[queue[p]] = << >> /\ sent'[queue[p]] = wire'[queue[p]]
    <3>1. queue[p] \in Clients /\ eaten[queue[p]] = << >> /\ sent[queue[p]] = wire[queue[p]]
      BY Occupants DEF Streams, QueueStream
    <3>2. CASE queue[p] = c
      BY <1>1, <3>1, <3>2
    <3>3. CASE queue[p] # c
      BY <1>1, <3>1, <3>3
    <3> QED
      BY <3>2, <3>3
  <2> QED
    BY <1>2, <2>1 DEF QueueStream
<1>5. EatenFirst'
  <2>1. ASSUME NEW d \in Clients
        PROVE  /\ Len(eaten[d]) <= Len(sent'[d])
               /\ \A k \in 1..Len(eaten[d]) : eaten[d][k] = sent'[d][k]
    <3>1. /\ Len(eaten[d]) <= Len(sent[d]) /\ sent[d] \in Seq(Units) /\ eaten[d] \in Seq(Units)
          /\ \A k \in 1..Len(eaten[d]) : eaten[d][k] = sent[d][k]
      BY Occupants DEF Streams, EatenFirst
    <3>2. CASE d = c
      <4>1. /\ Len(sent[c]) <= Len(sent'[c]) /\ Len(sent[c]) \in Nat /\ sent'[c] \in Seq(Units)
            /\ \A k \in 1..Len(sent[c]) : sent'[c][k] = sent[c][k]
        BY <1>1, <3>1, <3>2, Front
      <4>2. Len(eaten[c]) \in Nat /\ Len(sent'[c]) \in Nat
        BY <3>1, <3>2, <4>1
      <4>3. \A k \in 1..Len(eaten[c]) : k \in 1..Len(sent[c])
        BY <3>1, <3>2, <4>1, <4>2
      <4>4. Len(eaten[c]) <= Len(sent'[c])
        BY <3>1, <3>2, <4>1, <4>2
      <4> QED
        BY <3>1, <3>2, <4>1, <4>3, <4>4
    <3>3. CASE d # c
      BY <1>1, <3>1, <3>3
    <3> QED
      BY <3>2, <3>3
  <2> QED
    BY <1>2, <2>1 DEF EatenFirst
<1> QED
  BY <1>3, <1>4, <1>5 DEF Streams

(* A connection begins, or moves from the backlog to a slot, with nothing  *)
(* consumed and an empty buffer.                                           *)
LEMMA StreamsConnect ==
  ASSUME IpcAssumption, TypeOK, Owners, NewBlank, Streams, NEW c \in Clients, Connect(c)
  PROVE  Streams'
<1>1. UNCHANGED <<up, slot, rbuf, eaten, sent, wire>> /\ conn[c] = "new"
  BY DEF Connect, agentVars
<1>2. CASE queue' = Append(queue, c)
  <2>1. \A p \in 1..Len(queue') : (p \in 1..Len(queue) /\ queue'[p] = queue[p]) \/ queue'[p] = c
    <3>1. /\ Len(queue) \in Nat /\ Len(queue') = Len(queue) + 1
          /\ \A p \in 1..Len(queue) : queue'[p] = queue[p]
          /\ queue'[Len(queue) + 1] = c
      BY <1>2 DEF TypeOK
    <3> QED
      BY <3>1
  <2>2. eaten[c] = << >> /\ sent[c] = wire[c]
    BY <1>1 DEF NewBlank
  <2>3. QueueStream'
    BY <1>1, <2>1, <2>2 DEF Streams, QueueStream
  <2>4. SlotStream' /\ EatenFirst'
    BY <1>1 DEF Streams, SlotStream, EatenFirst
  <2> QED
    BY <2>3, <2>4 DEF Streams
<1>3. CASE queue' = queue
  BY <1>1, <1>3 DEF Streams, SlotStream, EatenFirst, QueueStream
<1> QED
  BY <1>2, <1>3 DEF Connect

(* accept_clients clears the buffer of the slot it gives. *)
LEMMA StreamsAccept ==
  ASSUME IpcAssumption, TypeOK, Owners, Streams, AcceptOne
  PROVE  Streams'
<1>1. /\ queue[1] \in Clients /\ 1 \in 1..Len(queue)
      /\ \A p \in 1..Len(queue') : p + 1 \in 1..Len(queue) /\ queue'[p] = queue[p + 1] /\ p + 1 # 1
  BY AcceptEffect
<1>2. up' = up /\ UNCHANGED <<sent, eaten>> /\ EatenFirst'
  BY DEF AcceptOne, agentVars, Streams, EatenFirst
<1>3. \A p \in 1..Len(queue') : queue'[p] # queue[1] /\ queue'[p] \in Clients
                                /\ eaten[queue'[p]] = << >> /\ sent[queue'[p]] = wire[queue'[p]]
  BY <1>1, Occupants DEF Owners, OneTurn, Streams, QueueStream
<1>4. CASE /\ UNCHANGED <<conn, why, wire>>
           /\ \E i \in Slots : /\ slot[i] = NoClient /\ slot'[i] = queue[1] /\ rbuf'[i] = << >>
                               /\ \A j \in Slots : j # i => slot'[j] = slot[j] /\ rbuf'[j] = rbuf[j]
  <2>1. PICK i \in Slots : /\ slot'[i] = queue[1] /\ rbuf'[i] = << >>
                           /\ \A j \in Slots : j # i => slot'[j] = slot[j] /\ rbuf'[j] = rbuf[j]
    BY <1>4
  <2>2. eaten[queue[1]] = << >> /\ sent[queue[1]] = wire[queue[1]] /\ wire[queue[1]] \in Seq(Units)
    BY <1>1, Occupants DEF Streams, QueueStream
  <2>3. wire[queue[1]] = (<< >> \o << >>) \o wire[queue[1]]
    <3>1. << >> \in Seq(Units) /\ << >> \o << >> = << >>
      BY ConcatEmptySeq, EmptySeq
    <3> QED
      BY <2>2, <3>1, ConcatEmptySeq
  <2>4. SlotStream'
    <3>1. SUFFICES ASSUME up, NEW j \in Slots, slot'[j] # NoClient
                   PROVE  sent[slot'[j]] = (eaten[slot'[j]] \o rbuf'[j]) \o wire[slot'[j]]
      BY <1>2, <1>4 DEF SlotStream
    <3>2. CASE j = i
      BY <2>1, <2>2, <2>3, <3>2
    <3>3. CASE j # i
      BY <2>1, <3>1, <3>3 DEF Streams, SlotStream
    <3> QED
      BY <3>2, <3>3
  <2>5. QueueStream'
    BY <1>2, <1>3, <1>4 DEF QueueStream
  <2> QED
    BY <1>2, <2>4, <2>5 DEF Streams
<1>5. CASE Hang(queue[1], "full") /\ UNCHANGED <<slot, rbuf>>
  <2>1. \A d \in Clients : d # queue[1] => wire'[d] = wire[d]
    BY <1>1, <1>5, HangTyped
  <2>2. \A i \in Slots : slot[i] # queue[1]
    BY <1>1 DEF Owners, NotBoth
  <2>3. SlotStream'
    BY <1>2, <1>5, <2>1, <2>2, Occupants DEF Streams, SlotStream
  <2>4. QueueStream'
    BY <1>2, <1>3, <2>1 DEF QueueStream
  <2> QED
    BY <1>2, <2>3, <2>4 DEF Streams
<1> QED
  BY <1>4, <1>5, AcceptEffect

(* recv moves units from the wire to the end of the buffer. *)
LEMMA StreamsRecv ==
  ASSUME IpcAssumption, TypeOK, Owners, Streams, RecvUnits
  PROVE  Streams'
<1> DEFINE c == slot[cur]
<1>1. /\ c \in Clients /\ cur \in Slots
      /\ rbuf' \in [Slots -> Seq(Units)] /\ wire' \in [Clients -> Seq(Units)]
      /\ \A i \in Slots : i # cur => rbuf'[i] = rbuf[i]
      /\ \A d \in Clients : d # c => wire'[d] = wire[d]
      /\ rbuf'[cur] \o wire'[c] = rbuf[cur] \o wire[c]
  BY RecvTakes, Occupants
<1>2. UNCHANGED <<up, queue, slot, sent, eaten>> /\ EatenFirst' /\ c # NoClient
  BY DEF RecvUnits, agentVars, Streams, EatenFirst
<1>3. QueueStream'
  <2>1. \A p \in 1..Len(queue) : queue[p] # c /\ queue[p] \in Clients
    BY <1>1, Occupants DEF Owners, NotBoth
  <2> QED
    BY <1>1, <1>2, <2>1 DEF Streams, QueueStream
<1>4. SlotStream'
  <2>1. SUFFICES ASSUME up, NEW i \in Slots, slot[i] # NoClient
                 PROVE  sent[slot[i]] = (eaten[slot[i]] \o rbuf'[i]) \o wire'[slot[i]]
    BY <1>2 DEF SlotStream
  <2>2. /\ slot[i] \in Clients /\ sent[slot[i]] = (eaten[slot[i]] \o rbuf[i]) \o wire[slot[i]]
        /\ eaten[slot[i]] \in Seq(Units) /\ rbuf[i] \in Seq(Units) /\ wire[slot[i]] \in Seq(Units)
    BY <2>1, Occupants DEF Streams, SlotStream
  <2>3. CASE i = cur
    <3> DEFINE r == rbuf'[cur]  w == wire'[c]
    <3>1. r \in Seq(Units) /\ w \in Seq(Units) /\ r \o w = rbuf[cur] \o wire[c]
      BY <1>1
    <3>0. eaten[c] \in Seq(Units) /\ rbuf[cur] \in Seq(Units) /\ wire[c] \in Seq(Units)
      BY <2>2, <2>3
    <3> DEFINE e == eaten[c]  b == rbuf[cur]  x == wire[c]
    <3>2. e \in Seq(Units) /\ b \in Seq(Units) /\ x \in Seq(Units) /\ r \o w = b \o x
      BY <3>0, <3>1
    <3>3. r \in Seq(Units) /\ w \in Seq(Units)
      BY <3>1
    <3> HIDE DEF r, w, e, b, x, c
    <3>4. Cat(r, w) = Cat(b, x)
      BY <3>2 DEF Cat
    <3>5. Cat(Cat(e, r), w) = Cat(Cat(e, b), x)
      BY <3>2, <3>3, <3>4, Regroup
    <3>6. (e \o r) \o w = (e \o b) \o x
      BY <3>5 DEF Cat
    <3> QED
      BY <2>2, <2>3, <3>6 DEF r, w, e, b, x, c
  <2>4. CASE i # cur
    <3>1. slot[i] # c
      BY <1>1, <1>2, <2>1, <2>4 DEF Owners, OneSlot
    <3> QED
      BY <1>1, <2>2, <2>4, <3>1
  <2> QED
    BY <2>3, <2>4
<1> QED
  BY <1>2, <1>3, <1>4 DEF Streams

(* Closing a slot takes nothing from the streams of the others. *)
LEMMA StreamsClose ==
  ASSUME IpcAssumption, TypeOK, Owners, slot[cur] # NoClient,
         NEW cause \in {"left", "full", "long", "jam"}, CloseClient(cause),
         up' = up, queue' = queue, sent' = sent,
         \A d \in Clients : d # slot[cur] => eaten'[d] = eaten[d],
         Streams, EatenFirst'
  PROVE  Streams'
<1>1. /\ slot[cur] \in Clients /\ cur \in Slots /\ slot'[cur] = NoClient
      /\ \A i \in Slots : i # cur => slot'[i] = slot[i] /\ rbuf'[i] = rbuf[i]
      /\ \A d \in Clients : d # slot[cur] => wire'[d] = wire[d]
  BY CloseTyped, HangTyped, Occupants
<1>2. SlotStream'
  <2>1. SUFFICES ASSUME up, NEW i \in Slots, slot'[i] # NoClient
                 PROVE  sent[slot'[i]] = (eaten'[slot'[i]] \o rbuf'[i]) \o wire'[slot'[i]]
    BY DEF SlotStream
  <2>2. i # cur /\ slot'[i] = slot[i] /\ rbuf'[i] = rbuf[i] /\ slot[i] \in Clients
    BY <1>1, <2>1, Occupants
  <2>3. slot[i] # slot[cur]
    BY <1>1, <2>1, <2>2 DEF Owners, OneSlot
  <2>4. eaten'[slot[i]] = eaten[slot[i]] /\ wire'[slot[i]] = wire[slot[i]]
    BY <1>1, <2>2, <2>3
  <2> QED
    BY <2>1, <2>2, <2>4 DEF Streams, SlotStream
<1>3. QueueStream'
  <2>1. \A p \in 1..Len(queue) : queue[p] # slot[cur] /\ queue[p] \in Clients
    BY <1>1, Occupants DEF Owners, NotBoth
  <2> QED
    BY <1>1, <2>1 DEF Streams, QueueStream
<1> QED
  BY <1>2, <1>3 DEF Streams

(* A line is handled: it moves from the front of the buffer to the end of  *)
(* what was consumed.                                                      *)
LEMMA AnswerEffect ==
  ASSUME IpcAssumption, TypeOK, AtLine, AnswerLine
  PROVE  LET c == slot[cur]
             taken == SubSeq(rbuf[cur], 1, LineEnd)
         IN  /\ c \in Clients /\ c # NoClient /\ cur \in Slots
             /\ eaten'[c] = eaten[c] \o taken /\ \A d \in Clients : d # c => eaten'[d] = eaten[d]
             /\ taken \in Seq(Units) /\ Rest \in Seq(Units) /\ taken \o Rest = rbuf[cur]
             /\ UNCHANGED <<starts, up, path, queue, sent, got>>
             /\ \/ /\ conn[c] = "open" /\ Len(reply[c]) < ReplyRoom
                   /\ reply'[c] = Append(reply[c], Reply(rbuf[cur][LineEnd]))
                   /\ \A d \in Clients : d # c => reply'[d] = reply[d]
                   /\ rbuf'[cur] = Rest /\ \A i \in Slots : i # cur => rbuf'[i] = rbuf[i]
                   /\ UNCHANGED <<slot, conn, why, wire, pc, cur>>
                \/ /\ CloseClient("left") \/ (Len(reply[c]) = ReplyRoom /\ conn[c] = "open" /\ CloseClient("jam"))
                   /\ NextSlot /\ UNCHANGED reply
<1> DEFINE c == slot[cur]
           taken == SubSeq(rbuf[cur], 1, LineEnd)
           line == rbuf[cur][LineEnd]
<1>1. c \in Clients /\ c # NoClient /\ cur \in Slots
  BY DEF AnswerLine, AtLine, TypeOK
<1>2. taken \in Seq(Units) /\ Rest \in Seq(Units) /\ taken \o Rest = rbuf[cur]
  BY LineTaken DEF AnswerLine
<1>3. eaten' = [eaten EXCEPT ![c] = @ \o taken] /\ UNCHANGED <<starts, up, path, queue, sent, got>>
  BY DEF AnswerLine, agentVars
<1>4. \/ /\ conn[c] = "open" /\ Len(reply[c]) < ReplyRoom
         /\ reply' = [reply EXCEPT ![c] = Append(@, Reply(line))]
         /\ rbuf' = [rbuf EXCEPT ![cur] = Rest]
         /\ UNCHANGED <<slot, conn, why, wire, pc, cur>>
      \/ /\ CloseClient("left") \/ (Len(reply[c]) = ReplyRoom /\ conn[c] = "open" /\ CloseClient("jam"))
         /\ NextSlot /\ UNCHANGED reply
  BY DEF AnswerLine
<1> HIDE DEF c, taken, line
<1>5. eaten'[c] = eaten[c] \o taken /\ \A d \in Clients : d # c => eaten'[d] = eaten[d]
  BY <1>1, <1>3 DEF TypeOK
<1>6. CASE /\ conn[c] = "open" /\ Len(reply[c]) < ReplyRoom
           /\ reply' = [reply EXCEPT ![c] = Append(@, Reply(line))]
           /\ rbuf' = [rbuf EXCEPT ![cur] = Rest]
           /\ UNCHANGED <<slot, conn, why, wire, pc, cur>>
  <2>1. /\ reply'[c] = Append(reply[c], Reply(line))
        /\ \A d \in Clients : d # c => reply'[d] = reply[d]
    BY <1>1, <1>6 DEF TypeOK
  <2>2. rbuf'[cur] = Rest /\ \A i \in Slots : i # cur => rbuf'[i] = rbuf[i]
    BY <1>1, <1>6 DEF TypeOK
  <2> QED
    BY <1>1, <1>2, <1>3, <1>5, <1>6, <2>1, <2>2 DEF c, taken, line
<1>7. CASE /\ CloseClient("left") \/ (Len(reply[c]) = ReplyRoom /\ conn[c] = "open" /\ CloseClient("jam"))
           /\ NextSlot /\ UNCHANGED reply
  BY <1>1, <1>2, <1>3, <1>5, <1>7 DEF c, taken
<1> QED
  BY <1>4, <1>6, <1>7

(* Handling a line keeps the streams. *)
LEMMA StreamsAnswer ==
  ASSUME IpcAssumption, TypeOK, AtLine, Owners, Streams, AnswerLine
  PROVE  Streams'
<1> DEFINE c == slot[cur]
           taken == SubSeq(rbuf[cur], 1, LineEnd)
<1>1. /\ c \in Clients /\ c # NoClient /\ cur \in Slots /\ up
      /\ eaten'[c] = eaten[c] \o taken /\ \A d \in Clients : d # c => eaten'[d] = eaten[d]
      /\ taken \in Seq(Units) /\ Rest \in Seq(Units) /\ taken \o Rest = rbuf[cur]
      /\ UNCHANGED <<up, queue, sent>>
  BY AnswerEffect DEF AnswerLine
<1>2. /\ eaten[c] \in Seq(Units) /\ rbuf[cur] \in Seq(Units) /\ wire[c] \in Seq(Units)
      /\ sent[c] = (eaten[c] \o rbuf[cur]) \o wire[c] /\ sent[c] \in Seq(Units)
  BY <1>1, Occupants DEF Streams, SlotStream
<1> HIDE DEF c, taken
<1>3. (eaten[c] \o taken) \o Rest = eaten[c] \o rbuf[cur] /\ eaten[c] \o taken \in Seq(Units)
  <2>1. (eaten[c] \o taken) \o Rest = eaten[c] \o rbuf[cur]
    <3> DEFINE e == eaten[c]  b == rbuf[cur]
    <3>1. e \in Seq(Units) /\ b \in Seq(Units) /\ taken \o Rest = b
      BY <1>1, <1>2
    <3>2. taken \in Seq(Units) /\ Rest \in Seq(Units)
      BY <1>1
    <3> HIDE DEF e, b
    <3>3. Cat(taken, Rest) = b
      BY <3>1 DEF Cat
    <3>4. Cat(Cat(e, taken), Rest) = Cat(e, b)
      BY <3>1, <3>2, <3>3, Regroup
    <3> QED
      BY <3>4 DEF e, b, Cat
  <2>2. eaten[c] \o taken \in Seq(Units)
    BY <1>1, <1>2, Front
  <2> QED
    BY <1>1, <2>1, <2>2
<1>4. EatenFirst'
  <2> DEFINE e == eaten[c] \o taken
  <2>1. sent[c] = (e \o Rest) \o wire[c] /\ e \in Seq(Units)
    BY <1>2, <1>3
  <2> HIDE DEF e
  <2>2. (e \o Rest) \o wire[c] = e \o (Rest \o wire[c])
    BY <1>1, <1>2, <2>1, Assoc
  <2>3. Rest \o wire[c] \in Seq(Units)
    BY <1>1, <1>2, Front
  <2>4. Len(e) <= Len(sent[c]) /\ \A k \in 1..Len(e) : e[k] = sent[c][k]
    BY <2>1, <2>2, <2>3, Front
  <2>5. eaten'[c] = e
    BY <1>1 DEF e
  <2>6. ASSUME NEW d \in Clients
        PROVE  Len(eaten'[d]) <= Len(sent[d]) /\ \A k \in 1..Len(eaten'[d]) : eaten'[d][k] = sent[d][k]
    <3>1. CASE d = c
      BY <2>4, <2>5, <3>1
    <3>2. CASE d # c
      BY <1>1, <3>2 DEF Streams, EatenFirst
    <3> QED
      BY <3>1, <3>2
  <2> QED
    BY <1>1, <2>6 DEF EatenFirst
<1>5. CASE /\ rbuf'[cur] = Rest /\ \A i \in Slots : i # cur => rbuf'[i] = rbuf[i]
           /\ UNCHANGED <<slot, conn, why, wire, pc, cur>>
  <2>1. SlotStream'
    <3>1. SUFFICES ASSUME NEW i \in Slots, slot[i] # NoClient
                   PROVE  sent[slot[i]] = (eaten'[slot[i]] \o rbuf'[i]) \o wire[slot[i]]
      BY <1>1, <1>5 DEF SlotStream
    <3>2. CASE i = cur
      <4>1. slot[i] = c
        BY <3>2 DEF c
      <4> QED
        BY <1>1, <1>2, <1>3, <1>5, <3>2, <4>1
    <3>3. CASE i # cur
      <4>1. slot[i] # c /\ slot[i] \in Clients
        BY <1>1, <3>1, <3>3, Occupants DEF Owners, OneSlot, c
      <4> QED
        BY <1>1, <1>5, <3>1, <3>3, <4>1 DEF Streams, SlotStream
    <3> QED
      BY <3>2, <3>3
  <2>2. QueueStream'
    <3>1. \A p \in 1..Len(queue) : queue[p] # c /\ queue[p] \in Clients
      BY <1>1, Occupants DEF Owners, NotBoth, c
    <3> QED
      BY <1>1, <1>5, <3>1 DEF Streams, QueueStream
  <2> QED
    BY <1>4, <2>1, <2>2 DEF Streams
<1>6. ASSUME NEW cause \in {"left", "full", "long", "jam"}, CloseClient(cause) PROVE Streams'
  <2>1. slot[cur] # NoClient /\ \A d \in Clients : d # slot[cur] => eaten'[d] = eaten[d]
    BY <1>1 DEF c
  <2> QED
    BY <1>1, <1>4, <1>6, <2>1, StreamsClose
<1> QED
  BY <1>5, <1>6, AnswerEffect

(* Every step keeps the streams. *)
LEMMA StreamsStep ==
  ASSUME IpcAssumption, TypeOK, AtLine, Owners, NewBlank, PathLive, Streams, [Next]_vars
  PROVE  Streams'
<1>1. CASE Start
  <2>1. UNCHANGED <<queue, sent, eaten, wire>> /\ \A i \in Slots : slot'[i] = NoClient
    BY <1>1 DEF Start, clientVars
  <2> QED
    BY <2>1 DEF Streams, SlotStream, QueueStream, EatenFirst
<1>2. CASE Stop \/ Crash
  <2>1. ~up' /\ queue' = << >> /\ UNCHANGED <<slot, rbuf, sent, eaten>>
    BY <1>2 DEF Stop, Crash, Down
  <2>2. Len(queue') = 0
    BY <2>1
  <2> QED
    BY <2>1, <2>2, StreamsKept
<1>3. ASSUME NEW c \in Clients, ClientStep(c) PROVE Streams'
  <2>1. CASE Connect(c)
    BY <2>1, StreamsConnect
  <2>2. CASE SendPiece(c)
    BY <2>2, StreamsSend, UnitsTyped DEF SendPiece
  <2>3. CASE SendRequest(c)
    BY <2>3, StreamsSend, UnitsTyped DEF SendRequest
  <2>4. CASE ReadReply(c) \/ ReadEnd(c) \/ Leave(c)
    <3>1. UNCHANGED <<up, queue, slot, rbuf, wire, sent, eaten>>
      BY <2>4 DEF ReadReply, ReadEnd, Leave, agentVars
    <3> QED
      BY <3>1, StreamsKept
  <2> QED
    BY <1>3, <2>1, <2>2, <2>3, <2>4 DEF ClientStep
<1>4. CASE PollStart \/ AcceptDone \/ RecvNothing \/ UNCHANGED vars
  <2>1. UNCHANGED <<up, queue, slot, rbuf, wire, sent, eaten>>
    BY <1>4 DEF PollStart, AcceptDone, RecvNothing, vars, agentVars, clientVars
  <2> QED
    BY <2>1, StreamsKept
<1>5. CASE AcceptOne
  BY <1>5, StreamsAccept
<1>6. CASE RecvUnits
  BY <1>6, StreamsRecv
<1>7. CASE AnswerLine
  BY <1>7, StreamsAnswer
<1>8. CASE RecvEnd
  <2>1. CloseClient("left") /\ slot[cur] # NoClient /\ UNCHANGED <<up, queue, sent, eaten>>
    BY <1>8 DEF RecvEnd, agentVars
  <2>2. EatenFirst'
    BY <2>1 DEF Streams, EatenFirst
  <2> QED
    BY <2>1, <2>2, StreamsClose
<1>9. CASE LinesDone
  <2>1. slot[cur] # NoClient /\ UNCHANGED <<up, queue, sent, eaten>>
    BY <1>9 DEF LinesDone, AtLine, agentVars
  <2>2. EatenFirst'
    BY <2>1 DEF Streams, EatenFirst
  <2>3. CASE CloseClient("long")
    BY <2>1, <2>2, <2>3, StreamsClose
  <2>4. CASE UNCHANGED <<slot, rbuf, conn, why, wire>>
    BY <2>1, <2>4, StreamsKept
  <2> QED
    BY <1>9, <2>3, <2>4 DEF LinesDone
<1> QED
  BY <1>1, <1>2, <1>3, <1>4, <1>5, <1>6, <1>7, <1>8, <1>9 DEF Next, Poll

(***************************************************************************)
(* Where the poll is, and what the socket file says.                       *)
(***************************************************************************)

(* Only the buffer whose lines are being handled can be full. *)
BufRoom == \A i \in Slots : (pc = "lines" /\ i = cur) \/ Len(rbuf[i]) < BufMax

(* While lines are handled the slot has a client. *)
LEMMA AtLineStep ==
  ASSUME IpcAssumption, TypeOK, AtLine, [Next]_vars
  PROVE  AtLine'
<1>1. CASE Start \/ Stop \/ Crash
  BY <1>1 DEF Start, Stop, Crash, Down, AtLine
<1>2. ASSUME NEW c \in Clients, ClientStep(c) PROVE AtLine'
  <2>1. UNCHANGED <<up, pc, cur, slot>>
    BY <1>2 DEF ClientStep, Connect, SendPiece, SendRequest, Send, ReadReply, ReadEnd, Leave,
                agentVars, pollVars
  <2> QED
    BY <2>1 DEF AtLine
<1>3. CASE PollStart \/ AcceptOne \/ AcceptDone
  <2>1. pc' \in {"accept", "recv"}
    BY <1>3 DEF PollStart, AcceptOne, AcceptDone, pollVars
  <2> QED
    BY <2>1 DEF AtLine
<1>4. CASE NextSlot
  <2>1. pc' \in {"idle", "recv"}
    BY <1>4, NextSlotTyped
  <2> QED
    BY <2>1 DEF AtLine
<1>5. CASE RecvNothing \/ RecvEnd \/ LinesDone
  BY <1>4, <1>5 DEF RecvNothing, RecvEnd, LinesDone
<1>6. CASE RecvUnits
  BY <1>6 DEF RecvUnits, AtLine
<1>7. CASE AnswerLine
  <2>1. CASE UNCHANGED <<slot, conn, why, wire, pc, cur>>
    BY <1>7, <2>1 DEF AnswerLine, AtLine, agentVars
  <2> QED
    BY <1>4, <1>7, <2>1 DEF AnswerLine
<1>8. CASE UNCHANGED vars
  BY <1>8 DEF vars, agentVars, pollVars, AtLine
<1> QED
  BY <1>1, <1>2, <1>3, <1>5, <1>6, <1>7, <1>8 DEF Next, Poll

(* server_create binds the path anew, server_destroy removes it. *)
LEMMA PathLiveStep ==
  ASSUME PathLive, [Next]_vars
  PROVE  PathLive'
<1>1. CASE Start \/ Stop \/ Crash
  BY <1>1 DEF Start, Bind, Stop, Crash, Down, PathLive
<1>2. ASSUME NEW c \in Clients, ClientStep(c) PROVE PathLive'
  <2>1. CASE Connect(c)
    BY <2>1 DEF Connect, PathLive, agentVars
  <2>2. CASE SendPiece(c) \/ SendRequest(c) \/ ReadReply(c) \/ ReadEnd(c) \/ Leave(c)
    <3>1. UNCHANGED <<up, path, queue>>
      BY <2>2 DEF SendPiece, SendRequest, Send, ReadReply, ReadEnd, Leave, agentVars
    <3> QED
      BY <3>1 DEF PathLive
  <2> QED
    BY <1>2, <2>1, <2>2 DEF ClientStep
<1>3. CASE Poll
  <2>1. up /\ UNCHANGED agentVars
    BY <1>3 DEF Poll, PollStart, AcceptOne, AcceptDone, RecvNothing, RecvEnd, RecvUnits,
                AnswerLine, LinesDone
  <2>2. path' = "live" /\ up'
    BY <2>1 DEF agentVars, PathLive
  <2> QED
    BY <2>2 DEF PathLive
<1>4. CASE UNCHANGED vars
  BY <1>4 DEF vars, agentVars, PathLive
<1> QED
  BY <1>1, <1>2, <1>3, <1>4 DEF Next

(* A buffer that is full when its lines are done loses its slot. *)
LEMMA BufRoomStep ==
  ASSUME IpcAssumption, TypeOK, AtLine, BufRoom, [Next]_vars
  PROVE  BufRoom'
<1>0. BufMax \in Nat /\ 2 <= BufMax /\ cur \in Slots /\ Len(<< >>) = 0
  BY Bounds DEF TypeOK
<1>1. CASE Start
  <2>1. \A i \in Slots : rbuf'[i] = << >>
    BY <1>1 DEF Start
  <2> QED
    BY <1>0, <2>1 DEF BufRoom
<1>2. CASE UNCHANGED <<rbuf, pc, cur>>
  BY <1>2 DEF BufRoom
<1>3. ASSUME NEW c \in Clients, ClientStep(c) PROVE BufRoom'
  BY <1>2, <1>3 DEF ClientStep, Connect, SendPiece, SendRequest, Send, ReadReply, ReadEnd, Leave, pollVars
<1>4. CASE PollStart \/ AcceptDone \/ RecvNothing
  <2>1. pc # "lines" /\ rbuf' = rbuf
    BY <1>4 DEF PollStart, AcceptDone, RecvNothing
  <2> QED
    BY <2>1 DEF BufRoom
<1>5. CASE AcceptOne
  <2>1. pc # "lines" /\ UNCHANGED <<pc, cur>>
    BY <1>5 DEF AcceptOne, pollVars
  <2>2. \A i \in Slots : rbuf'[i] = rbuf[i] \/ rbuf'[i] = << >>
    BY <1>5, AcceptEffect
  <2> QED
    BY <1>0, <2>1, <2>2 DEF BufRoom
<1>6. CASE RecvUnits
  <2>1. pc' = "lines" /\ cur' = cur /\ pc = "recv" /\ \A i \in Slots : i # cur => rbuf'[i] = rbuf[i]
    BY <1>6, RecvTakes DEF RecvUnits
  <2> QED
    BY <2>1 DEF BufRoom
<1>7. ASSUME NEW cause \in {"left", "full", "long", "jam"}, CloseClient(cause), slot[cur] # NoClient
      PROVE  BufRoom'
  <2>1. Len(rbuf'[cur]) = 0 /\ \A i \in Slots : i # cur => rbuf'[i] = rbuf[i]
    BY <1>7, CloseTyped
  <2> QED
    BY <1>0, <2>1 DEF BufRoom
<1>8. CASE RecvEnd
  BY <1>7, <1>8 DEF RecvEnd
<1>9. CASE AnswerLine
  <2>1. slot[cur] # NoClient /\ pc = "lines"
    BY <1>9 DEF AnswerLine, AtLine
  <2>2. CASE /\ \A i \in Slots : i # cur => rbuf'[i] = rbuf[i]
             /\ UNCHANGED <<slot, conn, why, wire, pc, cur>>
    BY <2>1, <2>2 DEF BufRoom
  <2> QED
    BY <1>7, <1>9, <2>1, <2>2, AnswerEffect
<1>10. CASE LinesDone
  <2>1. slot[cur] # NoClient /\ pc = "lines"
    BY <1>10 DEF LinesDone, AtLine
  <2>2. CASE CloseClient("long")
    BY <1>7, <2>1, <2>2
  <2>3. CASE ~(Len(rbuf[cur]) >= BufMax) /\ rbuf' = rbuf
    <3>1. Len(rbuf[cur]) \in Nat
      BY <1>0 DEF TypeOK
    <3>2. Len(rbuf[cur]) < BufMax
      BY <1>0, <2>3, <3>1
    <3> QED
      BY <2>3, <3>2 DEF BufRoom
  <2> QED
    BY <1>10, <2>2, <2>3 DEF LinesDone
<1>11. CASE Stop \/ Crash \/ UNCHANGED vars
  BY <1>2, <1>11 DEF Stop, Crash, Down, vars, pollVars
<1> QED
  BY <1>1, <1>3, <1>4, <1>5, <1>6, <1>8, <1>9, <1>10, <1>11 DEF Next, Poll

(* Only what is connected has a history. *)
LEMMA NewBlankKept ==
  ASSUME NewBlank,
         \A c \in Clients : conn'[c] = "new" =>
           /\ conn[c] = "new" /\ (wire'[c] = wire[c] \/ wire'[c] = << >>)
           /\ sent'[c] = sent[c] /\ eaten'[c] = eaten[c] /\ got'[c] = got[c] /\ reply'[c] = reply[c]
  PROVE  NewBlank'
BY DEF NewBlank

(* No step gives a history to a connection that is not made. *)
LEMMA NewBlankStep ==
  ASSUME IpcAssumption, TypeOK, AtLine, Owners, NewBlank, [Next]_vars
  PROVE  NewBlank'
<1>0. \A i \in Slots : slot[i] # NoClient => slot[i] \in Clients /\ conn[slot[i]] # "new"
  BY Occupants DEF Owners, SlotKnown
<1>1. CASE UNCHANGED <<conn, wire, sent, eaten, got, reply>>
  BY <1>1, NewBlankKept
<1>2. CASE Start \/ PollStart \/ AcceptDone \/ RecvNothing \/ UNCHANGED vars
  BY <1>1, <1>2 DEF Start, PollStart, AcceptDone, RecvNothing, clientVars, vars
<1>3. CASE Stop \/ Crash
  <2>1. \A c \in Clients : (conn'[c] = "new" => conn[c] = "new") /\ wire'[c] = << >>
    BY <1>3 DEF Stop, Crash, Down
  <2> QED
    BY <1>3, <2>1, NewBlankKept DEF Stop, Crash, Down
<1>4. ASSUME NEW c \in Clients, ClientStep(c) PROVE NewBlank'
  <2>1. CASE Connect(c) \/ ReadEnd(c)
    BY <2>1, NewBlankKept DEF Connect, ReadEnd, TypeOK
  <2>2. ASSUME NEW units \in Seq(Units), Send(c, units) PROVE NewBlank'
    <3>1. conn[c] = "open" /\ UNCHANGED <<conn, eaten, got, reply>>
          /\ \A d \in Clients : d # c => wire'[d] = wire[d] /\ sent'[d] = sent[d]
      BY <2>2, SendTyped DEF Send
    <3> QED
      BY <3>1, NewBlankKept
  <2>3. CASE SendPiece(c)
    BY <2>2, <2>3, UnitsTyped DEF SendPiece
  <2>4. CASE SendRequest(c)
    BY <2>2, <2>4, UnitsTyped DEF SendRequest
  <2>5. CASE ReadReply(c) \/ Leave(c)
    <3>1. conn[c] # "new" /\ conn'[c] # "new" /\ UNCHANGED <<wire, sent, eaten>>
          /\ \A d \in Clients : d # c => conn'[d] = conn[d] /\ got'[d] = got[d] /\ reply'[d] = reply[d]
      BY <2>5 DEF ReadReply, Leave, TypeOK
    <3> QED
      BY <3>1, NewBlankKept
  <2> QED
    BY <1>4, <2>1, <2>3, <2>4, <2>5 DEF ClientStep
<1>5. CASE AcceptOne
  <2>1. UNCHANGED <<sent, eaten, got, reply>>
    BY <1>5 DEF AcceptOne
  <2>2. CASE UNCHANGED <<conn, why, wire>>
    BY <1>1, <2>1, <2>2
  <2>3. CASE Hang(queue[1], "full")
    <3>1. queue[1] \in Clients
      BY <1>5, AcceptEffect
    <3>2. \A d \in Clients : (conn'[d] = "new" => conn[d] = "new")
                             /\ (wire'[d] = wire[d] \/ wire'[d] = << >>)
      BY <2>3, <3>1, HangTyped
    <3> QED
      BY <2>1, <3>2, NewBlankKept
  <2> QED
    BY <1>5, <2>2, <2>3, AcceptEffect
<1>6. CASE RecvUnits
  <2>1. slot[cur] \in Clients /\ slot[cur] # NoClient /\ cur \in Slots
        /\ \A d \in Clients : d # slot[cur] => wire'[d] = wire[d]
    BY <1>6, RecvTakes, Occupants DEF RecvUnits
  <2>2. UNCHANGED <<conn, sent, eaten, got, reply>>
    BY <1>6 DEF RecvUnits
  <2> QED
    BY <1>0, <2>1, <2>2, NewBlankKept
<1>7. ASSUME NEW cause \in {"left", "full", "long", "jam"}, CloseClient(cause), slot[cur] # NoClient,
             UNCHANGED <<sent, got, reply>>, \A d \in Clients : d # slot[cur] => eaten'[d] = eaten[d]
      PROVE  NewBlank'
  <2>1. slot[cur] \in Clients /\ conn[slot[cur]] # "new"
    BY <1>0, <1>7, Occupants
  <2>2. /\ conn'[slot[cur]] # "new"
        /\ \A d \in Clients : d # slot[cur] => conn'[d] = conn[d] /\ wire'[d] = wire[d]
    BY <1>7, <2>1, CloseTyped, HangTyped
  <2> QED
    BY <1>7, <2>1, <2>2, NewBlankKept
<1>8. CASE RecvEnd
  BY <1>7, <1>8 DEF RecvEnd
<1>9. CASE AnswerLine
  <2>1. /\ slot[cur] \in Clients /\ slot[cur] # NoClient /\ UNCHANGED <<sent, got>> /\ cur \in Slots
        /\ \A d \in Clients : d # slot[cur] => eaten'[d] = eaten[d]
    BY <1>9, AnswerEffect
  <2>2. CASE /\ \A d \in Clients : d # slot[cur] => reply'[d] = reply[d]
             /\ UNCHANGED <<slot, conn, why, wire, pc, cur>>
    BY <1>0, <2>1, <2>2, NewBlankKept
  <2> QED
    BY <1>7, <1>9, <2>1, <2>2, AnswerEffect
<1>10. CASE LinesDone
  <2>1. slot[cur] # NoClient /\ UNCHANGED <<sent, got, reply, eaten>>
    BY <1>10 DEF LinesDone, AtLine
  <2> QED
    BY <1>1, <1>7, <1>10, <2>1 DEF LinesDone
<1> QED
  BY <1>2, <1>3, <1>4, <1>5, <1>6, <1>8, <1>9, <1>10 DEF Next, Poll

(***************************************************************************)
(* The replies.  Marks(e) are the ends of the lines in e; Matches(e, b, o) *)
(* says that the replies b go to the first lines of e, to all of them when *)
(* o holds.                                                                *)
(***************************************************************************)
Marks(e) == {n \in 1..Len(e) : e[n].op # "text"}
UpTo(e, n) == {m \in Marks(e) : m <= n}
Matches(e, b, o) ==
  /\ Len(b) <= Cardinality(Marks(e))
  /\ \A k \in 1..Len(b) : \E n \in Marks(e) : b[k].to = e[n] /\ Cardinality(UpTo(e, n)) = k
  /\ o => Len(b) = Cardinality(Marks(e))

(* What the model states of a client is this of its histories. *)
LEMMA RepliesMatch ==
  ASSUME NEW c \in Clients
  PROVE  /\ RepliesFor(c) <=> Matches(eaten[c], got[c] \o reply[c], conn[c] = "open")
         /\ RepliesFor(c)' <=> Matches(eaten'[c], got'[c] \o reply'[c], conn'[c] = "open")
BY DEF RepliesFor, Asked, Matches, Marks, UpTo

(* The marks are finitely many. *)
LEMMA MarksFinite ==
  ASSUME NEW e \in Seq(Units)
  PROVE  /\ Marks(e) \subseteq 1..Len(e) /\ IsFiniteSet(Marks(e))
         /\ Cardinality(Marks(e)) \in Nat /\ Len(e) \in Nat
<1>1. Len(e) \in Nat
  OBVIOUS
<1>2. IsFiniteSet(1..Len(e))
  BY <1>1, FS_Interval
<1>3. Marks(e) \subseteq 1..Len(e)
  BY DEF Marks
<1> QED
  BY <1>1, <1>2, <1>3, FS_Subset, FS_CardinalityType

(* Nothing sent, nothing answered. *)
LEMMA MatchNone == Matches(<< >>, << >>, TRUE)
<1>1. Len(<< >>) = 0
  OBVIOUS
<1>2. Marks(<< >>) = {}
  BY <1>1 DEF Marks
<1>3. Cardinality(Marks(<< >>)) = 0
  BY <1>2, FS_EmptySet
<1> QED
  BY <1>1, <1>3 DEF Matches

(* A front of the replies still goes to the first lines. *)
LEMMA MatchFront ==
  ASSUME NEW e \in Seq(Units), NEW b \in Seq(Replies), NEW f \in Seq(Replies), NEW o, NEW p,
         Len(f) <= Len(b), \A k \in 1..Len(f) : f[k] = b[k], Matches(e, b, o),
         p => o /\ Len(f) = Len(b)
  PROVE  Matches(e, f, p)
<1>1. Len(f) \in Nat /\ Len(b) \in Nat /\ Cardinality(Marks(e)) \in Nat
  BY MarksFinite
<1>2. \A k \in 1..Len(f) : k \in 1..Len(b)
  BY <1>1
<1>3. Len(f) <= Cardinality(Marks(e))
  BY <1>1 DEF Matches
<1>4. ASSUME NEW k \in 1..Len(f)
      PROVE  \E n \in Marks(e) : f[k].to = e[n] /\ Cardinality(UpTo(e, n)) = k
  BY <1>2 DEF Matches
<1>5. p => Len(f) = Cardinality(Marks(e))
  BY DEF Matches
<1> QED
  BY <1>3, <1>4, <1>5 DEF Matches

(* One more line is consumed: its end is the only new mark, and the last. *)
LEMMA MarksGrow ==
  ASSUME NEW e \in Seq(Units), NEW t \in Seq(Units), t # << >>,
         t[Len(t)].op # "text", \A k \in 1..Len(t) : k < Len(t) => t[k].op = "text"
  PROVE  LET g == e \o t
             z == Len(e) + Len(t)
         IN  /\ g \in Seq(Units) /\ Marks(g) = Marks(e) \cup {z} /\ g[z] = t[Len(t)]
             /\ Cardinality(Marks(g)) = Cardinality(Marks(e)) + 1
             /\ UpTo(g, z) = Marks(g)
             /\ \A n \in Marks(e) : UpTo(g, n) = UpTo(e, n) /\ g[n] = e[n]
<1> DEFINE g == e \o t
           z == Len(e) + Len(t)
<1>1. Len(e) \in Nat /\ Len(t) \in Nat /\ Len(t) > 0
  OBVIOUS
<1>2. /\ g \in Seq(Units) /\ Len(g) = z
      /\ \A i \in 1..z : g[i] = IF i <= Len(e) THEN e[i] ELSE t[i - Len(e)]
  BY ConcatProperties
<1> HIDE DEF g
<1>3. z \in Nat /\ z > Len(e) /\ z - Len(e) = Len(t) /\ z \in 1..z
  BY <1>1
<1>4. g[z] = t[Len(t)]
  BY <1>1, <1>2, <1>3
<1>5. \A n \in 1..Len(e) : n \in 1..z /\ g[n] = e[n]
  BY <1>1, <1>2
<1>6. ASSUME NEW n \in 1..z, n \notin 1..Len(e), n # z PROVE g[n].op = "text"
  <2>1. n - Len(e) \in 1..Len(t) /\ n - Len(e) < Len(t) /\ ~(n <= Len(e))
    BY <1>1, <1>6
  <2> QED
    BY <1>2, <2>1
<1>7. Marks(g) = Marks(e) \cup {z}
  <2>1. ASSUME NEW n \in Marks(g) PROVE n \in Marks(e) \cup {z}
    <3>1. n \in 1..z /\ g[n].op # "text"
      BY <1>2 DEF Marks
    <3>2. n = z \/ n \in 1..Len(e)
      BY <1>6, <3>1
    <3> QED
      BY <1>5, <3>1, <3>2 DEF Marks
  <2>2. ASSUME NEW n \in Marks(e) \cup {z} PROVE n \in Marks(g)
    <3>1. CASE n = z
      BY <1>2, <1>3, <1>4, <3>1 DEF Marks
    <3>2. CASE n \in Marks(e)
      BY <1>2, <1>5, <3>2 DEF Marks
    <3> QED
      BY <2>2, <3>1, <3>2
  <2> QED
    BY <2>1, <2>2
<1>8. z \notin Marks(e) /\ \A n \in Marks(e) : n \in Nat /\ n < z /\ n \in 1..Len(e)
  BY <1>1, <1>3 DEF Marks
<1>9. Cardinality(Marks(g)) = Cardinality(Marks(e)) + 1
  <2>1. IsFiniteSet(Marks(e))
    BY MarksFinite
  <2> QED
    BY <1>7, <1>8, <2>1, FS_AddElement
<1>10. UpTo(g, z) = Marks(g)
  BY <1>3, <1>7, <1>8 DEF UpTo
<1>11. \A n \in Marks(e) : UpTo(g, n) = UpTo(e, n) /\ g[n] = e[n]
  <2>1. ASSUME NEW n \in Marks(e) PROVE UpTo(g, n) = UpTo(e, n)
    <3>1. n \in Nat /\ ~(z <= n)
      BY <1>3, <1>8
    <3> QED
      BY <1>7, <3>1 DEF UpTo
  <2> QED
    BY <1>5, <1>8, <2>1
<1> QED
  BY <1>2, <1>4, <1>7, <1>9, <1>10, <1>11 DEF g

(* The line is answered, or is the last one that is not. *)
LEMMA MatchGrow ==
  ASSUME NEW e \in Seq(Units), NEW t \in Seq(Units), t # << >>,
         t[Len(t)].op # "text", \A k \in 1..Len(t) : k < Len(t) => t[k].op = "text",
         NEW b \in Seq(Replies), NEW o, Matches(e, b, o)
  PROVE  /\ Matches(e \o t, b, FALSE)
         /\ \A a \in Seq(Replies) :
              o /\ Len(a) = Len(b) + 1 /\ (\A k \in 1..Len(b) : a[k] = b[k])
              /\ a[Len(a)].to = t[Len(t)] => Matches(e \o t, a, TRUE)
<1> DEFINE g == e \o t
           z == Len(e) + Len(t)
<1>1. /\ Marks(g) = Marks(e) \cup {z} /\ g[z] = t[Len(t)]
      /\ Cardinality(Marks(g)) = Cardinality(Marks(e)) + 1
      /\ UpTo(g, z) = Marks(g)
      /\ \A n \in Marks(e) : UpTo(g, n) = UpTo(e, n) /\ g[n] = e[n]
  BY MarksGrow
<1>2. Len(b) \in Nat /\ Cardinality(Marks(e)) \in Nat
  BY MarksFinite
<1> HIDE DEF g, z
<1>3. \A k \in 1..Len(b) : \E n \in Marks(g) : b[k].to = g[n] /\ Cardinality(UpTo(g, n)) = k
  <2>1. SUFFICES ASSUME NEW k \in 1..Len(b)
                 PROVE  \E n \in Marks(g) : b[k].to = g[n] /\ Cardinality(UpTo(g, n)) = k
    OBVIOUS
  <2>2. PICK n \in Marks(e) : b[k].to = e[n] /\ Cardinality(UpTo(e, n)) = k
    BY DEF Matches
  <2>3. n \in Marks(g) /\ g[n] = e[n] /\ UpTo(g, n) = UpTo(e, n)
    BY <1>1
  <2> QED
    BY <2>2, <2>3
<1>4. Matches(g, b, FALSE)
  <2>1. Len(b) <= Cardinality(Marks(e))
    BY DEF Matches
  <2>2. Len(b) <= Cardinality(Marks(g))
    BY <1>1, <1>2, <2>1
  <2> QED
    BY <1>3, <2>2 DEF Matches
<1>5. ASSUME NEW a \in Seq(Replies), o, Len(a) = Len(b) + 1, \A k \in 1..Len(b) : a[k] = b[k],
             a[Len(a)].to = t[Len(t)]
      PROVE  Matches(g, a, TRUE)
  <2>1. Len(b) = Cardinality(Marks(e))
    BY <1>5 DEF Matches
  <2>2. Len(a) = Cardinality(Marks(g))
    BY <1>1, <1>5, <2>1
  <2>3. ASSUME NEW k \in 1..Len(a)
        PROVE  \E n \in Marks(g) : a[k].to = g[n] /\ Cardinality(UpTo(g, n)) = k
    <3>1. CASE k \in 1..Len(b)
      BY <1>3, <1>5, <3>1
    <3>2. CASE k \notin 1..Len(b)
      <4>1. k = Len(a)
        BY <1>2, <1>5, <3>2
      <4>2. z \in Marks(g) /\ a[k].to = g[z] /\ Cardinality(UpTo(g, z)) = k
        BY <1>1, <1>5, <2>2, <4>1
      <4> QED
        BY <4>2
    <3> QED
      BY <3>1, <3>2
  <2>4. Len(a) <= Cardinality(Marks(g))
    BY <1>1, <1>2, <2>2
  <2> QED
    BY <2>2, <2>3, <2>4 DEF Matches
<1> QED
  BY <1>4, <1>5 DEF g

(* Clients whose lines, replies and connection a step leaves alone, or     *)
(* whose connection it closes, keep their replies.                         *)
LEMMA RepliesKept ==
  ASSUME TypeOK, NEW c \in Clients, RepliesFor(c),
         eaten'[c] = eaten[c], got'[c] = got[c], reply'[c] = reply[c],
         conn'[c] = "open" => conn[c] = "open"
  PROVE  RepliesFor(c)'
<1> DEFINE e == eaten[c]
           b == got[c] \o reply[c]
           o == conn[c] = "open"
           p == conn'[c] = "open"
<1>1. e \in Seq(Units) /\ b \in Seq(Replies) /\ Matches(e, b, o) /\ (p => o)
  BY ConcatProperties, RepliesMatch DEF TypeOK
<1> HIDE DEF e, b, o, p
<1>2. Len(b) <= Len(b) /\ Len(b) = Len(b) /\ \A k \in 1..Len(b) : b[k] = b[k]
  BY <1>1
<1>3. Matches(e, b, p)
  BY <1>1, <1>2, MatchFront
<1> QED
  BY <1>3, RepliesMatch DEF e, b, p

(* What a client reads moves from the socket to what it got. *)
LEMMA ReadJoin ==
  ASSUME NEW g \in Seq(Replies), NEW r \in Seq(Replies), r # << >>
  PROVE  LET b == g \o r
             f == Append(g, Head(r)) \o Tail(r)
         IN  b \in Seq(Replies) /\ f \in Seq(Replies) /\ Len(f) = Len(b) /\ \A k \in 1..Len(f) : f[k] = b[k]
<1> DEFINE h == Append(g, Head(r))
           b == g \o r
           f == h \o Tail(r)
<1>1. /\ Len(g) \in Nat /\ Len(r) \in Nat /\ Len(r) > 0 /\ Head(r) = r[1] /\ Head(r) \in Replies
      /\ Tail(r) \in Seq(Replies) /\ Len(Tail(r)) = Len(r) - 1
  OBVIOUS
<1>2. \A i \in 1..Len(Tail(r)) : Tail(r)[i] = r[i + 1]
  BY HeadTailProperties
<1>3. /\ h \in Seq(Replies) /\ Len(h) = Len(g) + 1
      /\ \A i \in 1..Len(g) : h[i] = g[i]
      /\ h[Len(g) + 1] = r[1]
  BY <1>1
<1>4. /\ b \in Seq(Replies) /\ Len(b) = Len(g) + Len(r)
      /\ \A i \in 1..(Len(g) + Len(r)) : b[i] = IF i <= Len(g) THEN g[i] ELSE r[i - Len(g)]
  BY ConcatProperties
<1> HIDE DEF h
<1>5. /\ f \in Seq(Replies) /\ Len(f) = Len(h) + Len(Tail(r))
      /\ \A i \in 1..(Len(h) + Len(Tail(r))) : f[i] = IF i <= Len(h) THEN h[i] ELSE Tail(r)[i - Len(h)]
  BY <1>1, <1>3, ConcatProperties
<1> HIDE DEF b, f
<1>6. Len(f) = Len(b) /\ Len(f) = Len(g) + Len(r) /\ Len(h) + Len(Tail(r)) = Len(g) + Len(r)
  BY <1>1, <1>3, <1>4, <1>5
<1>7. ASSUME NEW k \in 1..Len(f) PROVE f[k] = b[k]
  <2>1. k \in 1..(Len(g) + Len(r)) /\ k \in 1..(Len(h) + Len(Tail(r)))
    BY <1>6
  <2>2. CASE k <= Len(g)
    <3>1. k \in 1..Len(g) /\ k <= Len(h)
      BY <1>1, <1>3, <2>1, <2>2
    <3> QED
      BY <1>3, <1>4, <1>5, <2>1, <2>2, <3>1
  <2>3. CASE k = Len(g) + 1
    <3>1. k <= Len(h) /\ ~(k <= Len(g)) /\ k - Len(g) = 1
      BY <1>1, <1>3, <2>3
    <3> QED
      BY <1>3, <1>4, <1>5, <2>1, <2>3, <3>1
  <2>4. CASE k > Len(g) + 1
    <3>1. ~(k <= Len(h)) /\ ~(k <= Len(g)) /\ k - Len(h) \in 1..Len(Tail(r))
          /\ (k - Len(h)) + 1 = k - Len(g)
      BY <1>1, <1>3, <2>1, <2>4
    <3> QED
      BY <1>2, <1>4, <1>5, <2>1, <3>1
  <2> QED
    BY <1>1, <2>1, <2>2, <2>3, <2>4
<1> QED
  BY <1>4, <1>5, <1>6, <1>7 DEF b, f, h

(* A reply is added behind those a client has or will read. *)
LEMMA AnswerJoin ==
  ASSUME NEW g \in Seq(Replies), NEW r \in Seq(Replies), NEW x \in Replies
  PROVE  LET b == g \o r
             a == g \o Append(r, x)
         IN  /\ b \in Seq(Replies) /\ a \in Seq(Replies) /\ Len(a) = Len(b) + 1
             /\ (\A k \in 1..Len(b) : a[k] = b[k]) /\ a[Len(a)] = x
<1> DEFINE s == Append(r, x)
           b == g \o r
           a == g \o s
<1>1. /\ Len(g) \in Nat /\ Len(r) \in Nat /\ s \in Seq(Replies) /\ Len(s) = Len(r) + 1
      /\ (\A i \in 1..Len(r) : s[i] = r[i]) /\ s[Len(r) + 1] = x
  OBVIOUS
<1> HIDE DEF s
<1>2. /\ b \in Seq(Replies) /\ Len(b) = Len(g) + Len(r)
      /\ \A i \in 1..(Len(g) + Len(r)) : b[i] = IF i <= Len(g) THEN g[i] ELSE r[i - Len(g)]
  BY ConcatProperties
<1>3. /\ a \in Seq(Replies) /\ Len(a) = Len(g) + Len(s)
      /\ \A i \in 1..(Len(g) + Len(s)) : a[i] = IF i <= Len(g) THEN g[i] ELSE s[i - Len(g)]
  BY <1>1, ConcatProperties
<1> HIDE DEF a, b
<1>4. Len(a) = Len(b) + 1
  BY <1>1, <1>2, <1>3
<1>5. a[Len(a)] = x
  <2>1. Len(a) \in 1..(Len(g) + Len(s)) /\ ~(Len(a) <= Len(g)) /\ Len(a) - Len(g) = Len(r) + 1
    BY <1>1, <1>3
  <2> QED
    BY <1>1, <1>3, <2>1
<1>6. ASSUME NEW k \in 1..Len(b) PROVE a[k] = b[k]
  <2>1. k \in 1..(Len(g) + Len(r)) /\ k \in 1..(Len(g) + Len(s))
    BY <1>1, <1>2
  <2>2. CASE k <= Len(g)
    BY <1>2, <1>3, <2>1, <2>2
  <2>3. CASE ~(k <= Len(g))
    <3>1. k - Len(g) \in 1..Len(r)
      BY <1>1, <2>1, <2>3
    <3> QED
      BY <1>1, <1>2, <1>3, <2>1, <2>3, <3>1
  <2> QED
    BY <2>2, <2>3
<1> QED
  BY <1>2, <1>3, <1>4, <1>5, <1>6 DEF a, b, s

(* The line that is handled ends with the only newline in it. *)
LEMMA TakenLine ==
  ASSUME IpcAssumption, TypeOK, Newlines # {}
  PROVE  LET taken == SubSeq(rbuf[cur], 1, LineEnd)
         IN  /\ taken \in Seq(Units) /\ taken # << >> /\ taken[Len(taken)] = rbuf[cur][LineEnd]
             /\ taken[Len(taken)].op # "text" /\ rbuf[cur][LineEnd] \in Units
             /\ \A k \in 1..Len(taken) : k < Len(taken) => taken[k].op = "text"
<1> DEFINE taken == SubSeq(rbuf[cur], 1, LineEnd)
           line == LineEnd
           b == rbuf[cur]
<1>1. /\ line \in 1..Len(b) /\ b[line].op # "text" /\ b[line] \in Units
      /\ \A k \in 1..Len(b) : k < line => b[k].op = "text"
      /\ taken \in Seq(Units) /\ Len(taken) = line /\ b \in Seq(Units)
      /\ \A k \in 1..line : taken[k] = b[k]
  BY LineTaken
<1> HIDE DEF taken, line, b
<1>2. line \in 1..line /\ taken # << >> /\ \A k \in 1..line : k \in 1..Len(b)
  <2>1. Len(b) \in Nat /\ line \in Nat /\ line >= 1 /\ Len(<< >>) = 0
    BY <1>1
  <2> QED
    BY <1>1, <2>1
<1>3. taken[Len(taken)] = b[line] /\ \A k \in 1..Len(taken) : k < Len(taken) => taken[k].op = "text"
  BY <1>1, <1>2
<1> QED
  BY <1>1, <1>2, <1>3 DEF taken, line, b

(* A client reads, or goes: it has what it read, and no more. *)
LEMMA RepliesRead ==
  ASSUME IpcAssumption, TypeOK, RepliesInOrder, NEW c \in Clients, ReadReply(c) \/ Leave(c)
  PROVE  RepliesInOrder'
<1> DEFINE e == eaten[c]
           b == got[c] \o reply[c]
           f == got'[c] \o reply'[c]
           o == conn[c] = "open"
           p == conn'[c] = "open"
<1>1. /\ eaten' = eaten /\ \A d \in Clients : d # c => conn'[d] = conn[d] /\ got'[d] = got[d] /\ reply'[d] = reply[d]
  BY DEF ReadReply, Leave, TypeOK
<1>2. e \in Seq(Units) /\ b \in Seq(Replies) /\ Matches(e, b, o) /\ got[c] \in Seq(Replies) /\ reply[c] \in Seq(Replies)
  BY ConcatProperties, RepliesMatch DEF TypeOK, RepliesInOrder
<1>3. /\ f \in Seq(Replies) /\ Len(f) <= Len(b) /\ (\A k \in 1..Len(f) : f[k] = b[k])
      /\ (p => o /\ Len(f) = Len(b))
  <2>1. CASE ReadReply(c)
    <3>1. got'[c] = Append(got[c], Head(reply[c])) /\ reply'[c] = Tail(reply[c]) /\ reply[c] # << >>
          /\ (p => o)
      BY <2>1 DEF ReadReply, TypeOK
    <3>2. f \in Seq(Replies) /\ Len(f) = Len(b) /\ \A k \in 1..Len(f) : f[k] = b[k]
      <4> DEFINE g == got[c]  r == reply[c]
      <4>1. g \in Seq(Replies) /\ r \in Seq(Replies) /\ r # << >>
        BY <1>2, <3>1
      <4>2. f = Append(g, Head(r)) \o Tail(r) /\ b = g \o r
        BY <3>1
      <4> HIDE DEF g, r, f, b
      <4> QED
        BY <4>1, <4>2, ReadJoin
    <3>3. Len(f) <= Len(b)
      BY <1>2, <3>2
    <3> QED
      BY <3>1, <3>2, <3>3
  <2>2. CASE Leave(c)
    <3>1. got'[c] = got[c] /\ reply'[c] = << >> /\ ~p
      BY <2>2 DEF Leave, TypeOK
    <3>2. f = got[c]
      BY <1>2, <3>1, ConcatEmptySeq
    <3> DEFINE g == got[c]  r == reply[c]
    <3>3. g \in Seq(Replies) /\ r \in Seq(Replies) /\ f = g /\ b = g \o r
      BY <1>2, <3>2
    <3> HIDE DEF g, r, f, b
    <3>4. /\ Len(g \o r) = Len(g) + Len(r)
          /\ \A i \in 1..(Len(g) + Len(r)) : (g \o r)[i] = IF i <= Len(g) THEN g[i] ELSE r[i - Len(g)]
      BY <3>3, ConcatProperties
    <3>5. Len(f) <= Len(b)
      BY <3>3, <3>4
    <3>6. ASSUME NEW k \in 1..Len(f) PROVE f[k] = b[k]
      <4>1. k \in 1..(Len(g) + Len(r)) /\ k <= Len(g)
        BY <3>3
      <4> QED
        BY <3>3, <3>4, <4>1
    <3> QED
      BY <1>2, <3>1, <3>2, <3>5, <3>6
  <2> QED
    BY <2>1, <2>2
<1> HIDE DEF e, b, f, o, p
<1>4. Matches(e, f, p)
  BY <1>2, <1>3, MatchFront
<1>5. RepliesFor(c)'
  BY <1>1, <1>4, RepliesMatch DEF e, f, p
<1>6. ASSUME NEW d \in Clients, d # c PROVE RepliesFor(d)'
  BY <1>1, <1>6, RepliesKept DEF RepliesInOrder
<1> QED
  BY <1>5, <1>6 DEF RepliesInOrder

(* A line is handled: answered, or the connection ends. *)
LEMMA RepliesAnswer ==
  ASSUME IpcAssumption, TypeOK, AtLine, RepliesInOrder, AnswerLine
  PROVE  RepliesInOrder'
<1>0. PICK c \in Clients : c = slot[cur]
  BY AnswerEffect
<1> DEFINE line == rbuf[cur][LineEnd]
           t == SubSeq(rbuf[cur], 1, LineEnd)
           e == eaten[c]
           b == got[c] \o reply[c]
           o == conn[c] = "open"
<1>1. /\ c \in Clients /\ eaten'[c] = e \o t /\ (\A d \in Clients : d # c => eaten'[d] = eaten[d])
      /\ got' = got
  BY <1>0, AnswerEffect
<1>2. /\ t \in Seq(Units) /\ t # << >> /\ t[Len(t)].op # "text" /\ t[Len(t)] = line /\ line \in Units
      /\ \A k \in 1..Len(t) : k < Len(t) => t[k].op = "text"
  BY TakenLine DEF AnswerLine
<1>3. /\ e \in Seq(Units) /\ b \in Seq(Replies) /\ Matches(e, b, o)
      /\ got[c] \in Seq(Replies) /\ reply[c] \in Seq(Replies)
  BY <1>1, ConcatProperties, RepliesMatch DEF TypeOK, RepliesInOrder
<1>4. \/ /\ o /\ reply'[c] = Append(reply[c], Reply(line))
         /\ \A d \in Clients : d # c => reply'[d] = reply[d]
         /\ conn' = conn
      \/ \E cause \in {"left", "jam"} : CloseClient(cause) /\ reply' = reply
  BY <1>0, AnswerEffect
<1>5. slot[cur] # NoClient
  BY DEF AnswerLine, AtLine
<1>6. CASE /\ o /\ reply'[c] = Append(reply[c], Reply(line))
           /\ \A d \in Clients : d # c => reply'[d] = reply[d]
           /\ conn' = conn
  <2> DEFINE a == got[c] \o Append(reply[c], Reply(line))
  <2>1. Reply(line) \in Replies /\ Reply(line).to = line
    BY <1>2 DEF Reply, Replies
  <2>2. a \in Seq(Replies) /\ Len(a) = Len(b) + 1 /\ (\A k \in 1..Len(b) : a[k] = b[k]) /\ a[Len(a)] = Reply(line)
    <3> DEFINE g == got[c]  r == reply[c]  x == Reply(line)
    <3>1. g \in Seq(Replies) /\ r \in Seq(Replies) /\ x \in Replies /\ b = g \o r /\ a = g \o Append(r, x)
      BY <1>3, <2>1
    <3> HIDE DEF g, r, x, a, b
    <3>2. Len(a) = Len(b) + 1 /\ (\A k \in 1..Len(b) : a[k] = b[k]) /\ a[Len(a)] = x /\ a \in Seq(Replies)
      BY <3>1, AnswerJoin
    <3> QED
      BY <3>2 DEF x
  <2>3. o /\ a[Len(a)].to = t[Len(t)]
    BY <1>2, <1>6, <2>1, <2>2
  <2>4. got'[c] \o reply'[c] = a /\ conn'[c] = "open"
    BY <1>1, <1>6
  <2> HIDE DEF a, b, e, t, o, line
  <2>5. Matches(e \o t, a, TRUE)
    BY <1>2, <1>3, <2>2, <2>3, MatchGrow
  <2>6. Matches(eaten'[c], got'[c] \o reply'[c], conn'[c] = "open")
    <3>1. (conn'[c] = "open") = TRUE
      BY <2>4
    <3> QED
      BY <1>1, <2>4, <2>5, <3>1
  <2>7. RepliesFor(c)'
    BY <1>1, <2>6, RepliesMatch
  <2>8. ASSUME NEW d \in Clients, d # c PROVE RepliesFor(d)'
    BY <1>1, <1>6, <2>8, RepliesKept DEF RepliesInOrder
  <2> QED
    BY <2>7, <2>8 DEF RepliesInOrder
<1>7. CASE \E cause \in {"left", "jam"} : CloseClient(cause) /\ reply' = reply
  <2>1. PICK cause \in {"left", "jam"} : CloseClient(cause) /\ reply' = reply
    BY <1>7
  <2>2. conn'[c] # "open" /\ \A d \in Clients : d # c => conn'[d] = conn[d]
    BY <1>0, <1>5, <2>1, CloseTyped, HangTyped
  <2>3. got'[c] \o reply'[c] = b
    BY <1>1, <2>1
  <2> HIDE DEF b, e, t, o, line
  <2>4. Matches(e \o t, b, FALSE)
    BY <1>2, <1>3, MatchGrow
  <2>5. Matches(eaten'[c], got'[c] \o reply'[c], conn'[c] = "open")
    <3>1. (conn'[c] = "open") = FALSE
      BY <2>2
    <3> QED
      BY <1>1, <2>3, <2>4, <3>1
  <2>6. RepliesFor(c)'
    BY <1>1, <2>5, RepliesMatch
  <2>7. ASSUME NEW d \in Clients, d # c PROVE RepliesFor(d)'
    BY <1>1, <2>1, <2>2, <2>7, RepliesKept DEF RepliesInOrder
  <2> QED
    BY <2>6, <2>7 DEF RepliesInOrder
<1> QED
  BY <1>4, <1>6, <1>7

(* Every step keeps the replies in order. *)
LEMMA RepliesStep ==
  ASSUME IpcAssumption, TypeOK, AtLine, NewBlank, RepliesInOrder, [Next]_vars
  PROVE  RepliesInOrder'
<1>1. ASSUME UNCHANGED <<eaten, got, reply>>, \A d \in Clients : conn'[d] = "open" => conn[d] = "open"
      PROVE  RepliesInOrder'
  BY <1>1, RepliesKept DEF RepliesInOrder
<1>2. CASE Start \/ PollStart \/ AcceptDone \/ RecvNothing \/ RecvUnits \/ UNCHANGED vars
  BY <1>1, <1>2 DEF Start, PollStart, AcceptDone, RecvNothing, RecvUnits, clientVars, vars
<1>3. CASE Stop \/ Crash
  <2>1. \A d \in Clients : conn'[d] = "open" => conn[d] = "open"
    BY <1>3 DEF Stop, Crash, Down
  <2> QED
    BY <1>1, <1>3, <2>1 DEF Stop, Crash, Down
<1>4. ASSUME NEW c \in Clients, ClientStep(c) PROVE RepliesInOrder'
  <2>1. CASE Connect(c)
    <3>1. UNCHANGED <<eaten, got, reply>> /\ \A d \in Clients : d # c => conn'[d] = conn[d]
      BY <2>1 DEF Connect, TypeOK
    <3>2. eaten'[c] = << >> /\ got'[c] = << >> /\ reply'[c] = << >>
      BY <2>1, <3>1 DEF Connect, NewBlank
    <3>3. RepliesFor(c)'
      <4>1. << >> \o << >> = << >>
        BY ConcatEmptySeq, EmptySeq
      <4>2. Matches(<< >>, << >>, conn'[c] = "open")
        BY MatchNone DEF Matches
      <4> QED
        BY <3>2, <4>1, <4>2, RepliesMatch
    <3>4. ASSUME NEW d \in Clients, d # c PROVE RepliesFor(d)'
      BY <3>1, <3>4, RepliesKept DEF RepliesInOrder
    <3> QED
      BY <3>3, <3>4 DEF RepliesInOrder
  <2>2. CASE SendPiece(c) \/ SendRequest(c) \/ ReadEnd(c)
    BY <1>1, <2>2 DEF SendPiece, SendRequest, Send, ReadEnd, TypeOK
  <2>3. CASE ReadReply(c) \/ Leave(c)
    BY <2>3, RepliesRead
  <2> QED
    BY <1>4, <2>1, <2>2, <2>3 DEF ClientStep
<1>5. CASE AcceptOne
  <2>1. UNCHANGED <<eaten, got, reply>>
    BY <1>5 DEF AcceptOne
  <2>2. CASE conn' = conn
    BY <1>1, <2>1, <2>2
  <2>3. CASE Hang(queue[1], "full")
    <3>1. queue[1] \in Clients
      BY <1>5, AcceptEffect
    <3>2. \A d \in Clients : conn'[d] = "open" => conn[d] = "open"
      BY <2>3, <3>1, HangTyped
    <3> QED
      BY <1>1, <2>1, <3>2
  <2> QED
    BY <1>5, <2>2, <2>3, AcceptEffect
<1>6. ASSUME NEW cause \in {"left", "full", "long", "jam"}, CloseClient(cause), slot[cur] # NoClient,
             UNCHANGED <<eaten, got, reply>>
      PROVE  RepliesInOrder'
  <2>1. slot[cur] \in Clients /\ Hang(slot[cur], cause)
    BY <1>6, CloseTyped
  <2>2. \A d \in Clients : conn'[d] = "open" => conn[d] = "open"
    BY <2>1, HangTyped
  <2> QED
    BY <1>1, <1>6, <2>2
<1>7. CASE RecvEnd
  BY <1>6, <1>7 DEF RecvEnd
<1>8. CASE AnswerLine
  BY <1>8, RepliesAnswer
<1>9. CASE LinesDone
  <2>1. slot[cur] # NoClient /\ UNCHANGED <<eaten, got, reply>>
    BY <1>9 DEF LinesDone, AtLine
  <2> QED
    BY <1>1, <1>6, <1>9, <2>1 DEF LinesDone
<1> QED
  BY <1>2, <1>3, <1>4, <1>5, <1>7, <1>8, <1>9 DEF Next, Poll

(***************************************************************************)
(* cpe_ctl: one line, its text and its newline, sent with one call.        *)
(***************************************************************************)
CtlLine ==
  \A c \in Ctl : \/ sent[c] = << >>
                 \/ Len(sent[c]) = 2 /\ sent[c][1].op = "text" /\ sent[c][2].op # "text"

(* No other step gives cpe_ctl's connection more to send. *)
LEMMA CtlLineStep ==
  ASSUME IpcAssumption, TypeOK, CtlLine, [Next]_vars
  PROVE  CtlLine'
<1>1. CASE sent' = sent
  BY <1>1 DEF CtlLine
<1>2. ASSUME NEW c \in Clients, ClientStep(c) PROVE CtlLine'
  <2>1. CASE SendPiece(c)
    <3>1. PICK op \in Ops \cup {"text"} : Send(c, <<Unit(c, op)>>)
      BY <2>1 DEF SendPiece
    <3> DEFINE u == <<Unit(c, op)>>
    <3>2. u \in Seq(Units) /\ Send(c, u) /\ c \notin Ctl
      BY <2>1, <3>1, UnitsTyped DEF SendPiece
    <3> HIDE DEF u
    <3>3. c \notin Ctl /\ \A d \in Clients : d # c => sent'[d] = sent[d]
      BY <3>2, SendTyped
    <3> QED
      BY <3>3 DEF CtlLine, IpcAssumption
  <2>2. CASE SendRequest(c)
    <3>1. PICK op \in Ops : Send(c, <<Unit(c, "text"), [Unit(c, op) EXCEPT !.n = 2]>>)
      BY <2>2 DEF SendRequest
    <3> DEFINE u == <<Unit(c, "text"), [Unit(c, op) EXCEPT !.n = 2]>>
    <3>2. u \in Seq(Units) /\ Len(u) = 2 /\ u[2].op = op
      BY <3>1, UnitsTyped
    <3>3. u[1].op = "text" /\ op # "text"
      BY <3>1 DEF Unit, IpcAssumption
    <3>4. Send(c, u)
      BY <3>1
    <3> HIDE DEF u
    <3>5. sent'[c] = sent[c] \o u /\ \A d \in Clients : d # c => sent'[d] = sent[d]
      <4>1. u \in Seq(Units) /\ Send(c, u)
        BY <3>2, <3>4
      <4>2. /\ sent'[c] = sent[c] \o u
            /\ \A d \in Clients : d # c => wire'[d] = wire[d] /\ sent'[d] = sent[d]
        BY <4>1, SendTyped
      <4> QED
        BY <4>2
    <3>6. sent'[c] = u
      BY <2>2, <3>2, <3>5, ConcatEmptySeq DEF SendRequest
    <3> QED
      BY <3>2, <3>3, <3>5, <3>6 DEF CtlLine, IpcAssumption
  <2>3. CASE Connect(c) \/ ReadReply(c) \/ ReadEnd(c) \/ Leave(c)
    BY <1>1, <2>3 DEF Connect, ReadReply, ReadEnd, Leave
  <2> QED
    BY <1>2, <2>1, <2>2, <2>3 DEF ClientStep
<1>3. CASE Start \/ Stop \/ Crash \/ Poll \/ UNCHANGED vars
  BY <1>1, <1>3 DEF Start, Stop, Crash, Down, Poll, PollStart, AcceptOne, AcceptDone, RecvNothing,
                    RecvEnd, RecvUnits, AnswerLine, LinesDone, clientVars, vars
<1> QED
  BY <1>1, <1>2, <1>3 DEF Next

(* Where the units of a slot's buffer are in what its client sent. *)
LEMMA BufferPlace ==
  ASSUME IpcAssumption, TypeOK, Streams, up, slot[cur] # NoClient
  PROVE  LET c == slot[cur]
         IN  /\ c \in Clients /\ Len(eaten[c]) \in Nat /\ Len(rbuf[cur]) \in Nat
             /\ Len(eaten[c]) + Len(rbuf[cur]) <= Len(sent[c]) /\ Len(sent[c]) \in Nat
             /\ \A k \in 1..Len(rbuf[cur]) : rbuf[cur][k] = sent[c][Len(eaten[c]) + k]
             /\ \A k \in 1..Len(eaten[c]) : eaten[c][k] = sent[c][k]
<1> DEFINE c == slot[cur]
           e == eaten[c]
           b == rbuf[cur]
           w == wire[c]
           s == sent[c]
<1>1. /\ c \in Clients /\ e \in Seq(Units) /\ b \in Seq(Units) /\ w \in Seq(Units) /\ s \in Seq(Units)
      /\ s = (e \o b) \o w /\ \A k \in 1..Len(e) : e[k] = s[k]
  BY Occupants DEF Streams, SlotStream, EatenFirst
<1> HIDE DEF e, b, w, s, c
<1>2. /\ e \o b \in Seq(Units) /\ Len(e \o b) = Len(e) + Len(b)
      /\ \A i \in 1..(Len(e) + Len(b)) : (e \o b)[i] = IF i <= Len(e) THEN e[i] ELSE b[i - Len(e)]
  BY <1>1, ConcatProperties
<1> DEFINE h == e \o b
<1>3. h \in Seq(Units) /\ Len(h) = Len(e) + Len(b) /\ s = h \o w
  BY <1>1, <1>2
<1>4. Len(e) \in Nat /\ Len(b) \in Nat /\ Len(s) \in Nat
  BY <1>1
<1>5. \A k \in 1..Len(b) : h[Len(e) + k] = b[k] /\ Len(e) + k \in 1..Len(h)
  <2>1. ASSUME NEW k \in 1..Len(b) PROVE h[Len(e) + k] = b[k] /\ Len(e) + k \in 1..Len(h)
    <3>1. Len(e) + k \in 1..(Len(e) + Len(b)) /\ ~(Len(e) + k <= Len(e)) /\ (Len(e) + k) - Len(e) = k
      BY <1>4
    <3> QED
      BY <1>2, <3>1
  <2> QED
    BY <2>1
<1> HIDE DEF h
<1>6. Len(h) <= Len(s) /\ \A k \in 1..Len(h) : s[k] = h[k]
  <2>1. Len(h) <= Len(h \o w) /\ \A k \in 1..Len(h) : (h \o w)[k] = h[k]
    BY <1>1, <1>3, Front
  <2> QED
    BY <1>3, <2>1
<1>7. Len(e) + Len(b) <= Len(s) /\ \A k \in 1..Len(b) : b[k] = s[Len(e) + k]
  BY <1>3, <1>5, <1>6
<1> QED
  BY <1>1, <1>4, <1>7 DEF c, e, b, s

(* The line of cpe_ctl fits: a full buffer has its newline. *)
LEMMA CtlNotLong ==
  ASSUME IpcAssumption, TypeOK, AtLine, Streams, CtlLine, LinesDone, Len(rbuf[cur]) >= BufMax
  PROVE  slot[cur] \notin Ctl
<1> DEFINE c == slot[cur]
<1>1. SUFFICES ASSUME c \in Ctl PROVE FALSE
  OBVIOUS
<1>2. up /\ slot[cur] # NoClient /\ Newlines = {}
  BY DEF LinesDone, AtLine
<1>3. /\ Len(eaten[c]) \in Nat /\ Len(rbuf[cur]) \in Nat /\ Len(sent[c]) \in Nat
      /\ Len(eaten[c]) + Len(rbuf[cur]) <= Len(sent[c])
      /\ \A k \in 1..Len(rbuf[cur]) : rbuf[cur][k] = sent[c][Len(eaten[c]) + k]
  BY <1>2, BufferPlace
<1>4. BufMax \in Nat /\ 2 <= BufMax /\ Len(<< >>) = 0
  BY Bounds
<1> DEFINE E == Len(eaten[c])  B == Len(rbuf[cur])  S == Len(sent[c])
<1>5. E \in Nat /\ B \in Nat /\ S \in Nat /\ E + B <= S /\ 2 <= B
  <2> HIDE DEF E, S
  <2>1. E \in Nat /\ S \in Nat /\ E + B <= S
    BY <1>3 DEF E, S
  <2> QED
    BY <1>3, <1>4, <2>1
<1>6. sent[c] # << >>
  <2>1. S > 0
    <3> HIDE DEF E, B, S
    <3> QED
      BY <1>5
  <2> QED
    BY <1>4, <2>1
<1>7. Len(sent[c]) = 2 /\ sent[c][2].op # "text"
  BY <1>1, <1>6 DEF CtlLine
<1>8. Len(eaten[c]) = 0 /\ Len(rbuf[cur]) = 2 /\ 2 \in 1..Len(rbuf[cur]) /\ Len(eaten[c]) + 2 = 2
  <2>1. S = 2
    BY <1>7
  <2> HIDE DEF E, B, S
  <2>2. E = 0 /\ B = 2 /\ 2 \in 1..B /\ E + 2 = 2
    BY <1>5, <2>1
  <2> QED
    BY <2>2 DEF E, B
<1>9. rbuf[cur][2].op # "text"
  BY <1>3, <1>7, <1>8
<1> QED
  BY <1>2, <1>8, <1>9 DEF Newlines

(* Nor is its socket full of replies: there is none before its only line.  *)
LEMMA CtlNotJam ==
  ASSUME IpcAssumption, TypeOK, AtLine, Streams, CtlLine, RepliesInOrder, AnswerLine,
         Len(reply[slot[cur]]) = ReplyRoom
  PROVE  slot[cur] \notin Ctl
<1> DEFINE c == slot[cur]
<1>1. SUFFICES ASSUME c \in Ctl PROVE FALSE
  OBVIOUS
<1>2. up /\ slot[cur] # NoClient /\ Newlines # {}
  BY DEF AnswerLine, AtLine
<1>3. /\ c \in Clients /\ Len(eaten[c]) \in Nat /\ Len(rbuf[cur]) \in Nat /\ Len(sent[c]) \in Nat
      /\ Len(eaten[c]) + Len(rbuf[cur]) <= Len(sent[c])
      /\ \A k \in 1..Len(rbuf[cur]) : rbuf[cur][k] = sent[c][Len(eaten[c]) + k]
      /\ \A k \in 1..Len(eaten[c]) : eaten[c][k] = sent[c][k]
  BY <1>2, BufferPlace
<1>4. PICK n \in 1..Len(eaten[c]) : eaten[c][n].op # "text"
  <2>1. ReplyRoom \in Nat /\ 0 < ReplyRoom
    BY Bounds
  <2> DEFINE g == got[c]  r == reply[c]
  <2>2. g \in Seq(Replies) /\ r \in Seq(Replies) /\ Len(r) > 0
    BY <1>3, <2>1 DEF TypeOK
  <2>3. RepliesFor(c)
    BY <1>3 DEF RepliesInOrder
  <2>4. Len(g \o r) <= Cardinality(Asked(c))
    BY <2>3 DEF RepliesFor
  <2> HIDE DEF g, r
  <2>5. Len(g \o r) = Len(g) + Len(r) /\ Len(g) \in Nat /\ Len(r) \in Nat
    BY <2>2, ConcatProperties
  <2>6. Asked(c) # {}
    <3>1. SUFFICES ASSUME Asked(c) = {} PROVE FALSE
      OBVIOUS
    <3>2. Cardinality(Asked(c)) = 0
      BY <3>1, FS_EmptySet
    <3> QED
      BY <2>2, <2>4, <2>5, <3>2
  <2> QED
    BY <2>6 DEF Asked
<1>5. PICK k \in 1..Len(rbuf[cur]) : rbuf[cur][k].op # "text"
  BY <1>2 DEF Newlines
<1>6. sent[c][n].op # "text" /\ sent[c][Len(eaten[c]) + k].op # "text"
  BY <1>3, <1>4, <1>5
<1> DEFINE E == Len(eaten[c])  B == Len(rbuf[cur])  S == Len(sent[c])
<1>7. E \in Nat /\ B \in Nat /\ S \in Nat /\ E + B <= S /\ n \in 1..E /\ k \in 1..B
  BY <1>3, <1>4, <1>5
<1>8. sent[c] # << >>
  <2>1. Len(<< >>) = 0
    OBVIOUS
  <2>2. S > 0
    <3> HIDE DEF E, B, S
    <3> QED
      BY <1>7
  <2> QED
    BY <2>1, <2>2
<1>9. Len(sent[c]) = 2 /\ sent[c][1].op = "text"
  BY <1>1, <1>8 DEF CtlLine
<1>10. n = 1
  <2>1. S = 2
    BY <1>9
  <2> HIDE DEF E, B, S
  <2> QED
    BY <1>7, <2>1
<1> QED
  BY <1>6, <1>9, <1>10

(* A step that changes why a connection ended, and what it may then say. *)
LEMMA CtlServedStep ==
  ASSUME IpcAssumption, TypeOK, AtLine, PathLive, Streams, CtlLine, RepliesInOrder, [Next]_vars,
         NEW c \in Ctl, why'[c] # why[c]
  PROVE  \/ why'[c] = "left"
         \/ why'[c] = "down" /\ ~(up /\ up')
         \/ why'[c] = "full" /\ NoClient \notin {slot[i] : i \in Slots}
<1>0. c \in Clients
  BY DEF IpcAssumption
<1>1. ~(why' = why)
  OBVIOUS
<1>2. CASE Stop \/ Crash
  BY <1>0, <1>2 DEF Stop, Crash, Down
<1>3. ASSUME NEW d \in Clients, ClientStep(d)
      PROVE  why'[c] = "down" /\ ~(up /\ up')
  <2>1. Connect(d)
    BY <1>1, <1>3 DEF ClientStep, SendPiece, SendRequest, Send, ReadReply, ReadEnd, Leave
  <2>2. path # "live" /\ why' = [why EXCEPT ![d] = "down"]
    BY <1>1, <2>1 DEF Connect
  <2>3. d = c /\ why'[c] = "down"
    BY <1>0, <2>2 DEF TypeOK
  <2> QED
    BY <2>2, <2>3 DEF PathLive
<1>4. CASE AcceptOne
  <2>1. queue[1] \in Clients /\ Hang(queue[1], "full") /\ \A i \in Slots : slot[i] # NoClient
    BY <1>1, <1>4, AcceptEffect
  <2>2. why'[c] = "full"
    BY <1>0, <2>1, HangTyped
  <2> QED
    BY <2>1, <2>2
<1>5. ASSUME NEW cause \in {"left", "full", "long", "jam"}, CloseClient(cause), slot[cur] # NoClient
      PROVE  slot[cur] = c /\ why'[c] = cause
  <2>1. slot[cur] \in Clients /\ Hang(slot[cur], cause)
    BY <1>5, CloseTyped
  <2> QED
    BY <1>0, <2>1, HangTyped
<1>6. CASE RecvEnd
  BY <1>5, <1>6 DEF RecvEnd
<1>7. CASE AnswerLine
  <2>1. slot[cur] # NoClient
    BY <1>7 DEF AnswerLine, AtLine
  <2>2. CASE CloseClient("left")
    BY <1>5, <2>1, <2>2
  <2>3. CASE Len(reply[slot[cur]]) = ReplyRoom /\ CloseClient("jam")
    BY <1>5, <1>7, <2>1, <2>3, CtlNotJam
  <2> QED
    BY <1>1, <1>7, <2>2, <2>3, AnswerEffect
<1>8. CASE LinesDone
  <2>1. slot[cur] # NoClient
    BY <1>8 DEF LinesDone, AtLine
  <2>2. Len(rbuf[cur]) >= BufMax /\ CloseClient("long")
    BY <1>1, <1>8 DEF LinesDone
  <2> QED
    BY <1>5, <1>8, <2>1, <2>2, CtlNotLong
<1>9. ~(Start \/ PollStart \/ AcceptDone \/ RecvNothing \/ RecvUnits \/ UNCHANGED vars)
  BY <1>1 DEF Start, PollStart, AcceptDone, RecvNothing, RecvUnits, clientVars, vars
<1> QED
  BY <1>2, <1>3, <1>4, <1>6, <1>7, <1>8, <1>9 DEF Next, Poll

(***************************************************************************)
(* The inductive invariant.                                                *)
(***************************************************************************)
IpcInv ==
  /\ TypeOK /\ AtLine /\ Owners /\ Streams /\ NewBlank /\ PathLive /\ BufRoom
  /\ RepliesInOrder /\ CtlLine

(* Before the first start there is nothing. *)
LEMMA IpcInit ==
  ASSUME IpcAssumption, Init
  PROVE  IpcInv
<1>0. Len(<< >>) = 0 /\ << >> \o << >> = << >>
  BY ConcatEmptySeq, EmptySeq
<1>1. /\ queue = << >> /\ \A i \in Slots : slot[i] = NoClient /\ rbuf[i] = << >>
      /\ \A c \in Clients : /\ conn[c] = "new" /\ sent[c] = << >> /\ wire[c] = << >> /\ eaten[c] = << >>
                            /\ got[c] = << >> /\ reply[c] = << >>
  BY DEF Init
<1>2. TypeOK
  <2>1. /\ rbuf \in [Slots -> Seq(Units)] /\ wire \in [Clients -> Seq(Units)] /\ sent \in [Clients -> Seq(Units)]
        /\ eaten \in [Clients -> Seq(Units)] /\ reply \in [Clients -> Seq(Replies)]
        /\ got \in [Clients -> Seq(Replies)] /\ queue \in Seq(Clients)
    BY DEF Init
  <2>2. /\ starts \in 0..MaxStarts /\ cur \in Slots /\ slot \in [Slots -> Clients \cup {NoClient}]
        /\ conn \in [Clients -> {"new", "open", "shut", "left"}]
        /\ why \in [Clients -> {"none", "left", "full", "down", "long", "jam"}]
    BY Bounds DEF Init, IpcAssumption
  <2>3. up \in BOOLEAN /\ path \in {"absent", "stale", "live"} /\ pc \in {"idle", "accept", "recv", "lines"}
    BY DEF Init
  <2>4. Len(queue) <= Backlog /\ (\A i \in Slots : Len(rbuf[i]) <= BufMax)
        /\ \A c \in Clients : Len(reply[c]) <= ReplyRoom
    BY <1>0, <1>1, Bounds
  <2> QED
    BY <2>1, <2>2, <2>3, <2>4 DEF TypeOK
<1>3. AtLine /\ PathLive
  BY DEF Init, AtLine, PathLive
<1>4. Owners
  BY <1>0, <1>1 DEF Owners, OneSlot, OneTurn, NotBoth, QueueKnown, SlotKnown
<1>5. Streams
  <2>1. SlotStream
    BY <1>1 DEF SlotStream
  <2>2. QueueStream
    BY <1>0, <1>1 DEF QueueStream
  <2>3. EatenFirst
    BY <1>0, <1>1 DEF EatenFirst
  <2> QED
    BY <2>1, <2>2, <2>3 DEF Streams
<1>6. NewBlank /\ CtlLine
  BY <1>1 DEF NewBlank, CtlLine, IpcAssumption
<1>7. BufRoom
  BY <1>0, <1>1, Bounds DEF BufRoom
<1>8. RepliesInOrder
  <2>1. ASSUME NEW c \in Clients PROVE RepliesFor(c)
    <3>1. Matches(<< >>, << >>, conn[c] = "open")
      BY MatchNone DEF Matches
    <3>2. eaten[c] = << >> /\ got[c] \o reply[c] = << >>
      BY <1>0, <1>1
    <3> QED
      BY <3>1, <3>2, RepliesMatch
  <2> QED
    BY <2>1 DEF RepliesInOrder
<1> QED
  BY <1>2, <1>3, <1>4, <1>5, <1>6, <1>7, <1>8 DEF IpcInv

(* Every step keeps it. *)
LEMMA IpcStep ==
  ASSUME IpcAssumption, IpcInv, [Next]_vars
  PROVE  IpcInv'
<1>1. /\ TypeOK /\ AtLine /\ Owners /\ Streams /\ NewBlank /\ PathLive /\ BufRoom
      /\ RepliesInOrder /\ CtlLine
  BY DEF IpcInv
<1>2. TypeOK'
  <2>1. CASE UNCHANGED vars
    BY <1>1, <2>1 DEF TypeOK, vars, agentVars, pollVars
  <2> QED
    BY <1>1, <2>1, AgentTyped, ClientTyped, PollTyped DEF Next
<1>3. AtLine' /\ PathLive' /\ BufRoom'
  BY <1>1, AtLineStep, PathLiveStep, BufRoomStep
<1>4. Owners' /\ NewBlank' /\ CtlLine'
  BY <1>1, OwnersStep, NewBlankStep, CtlLineStep
<1>5. Streams' /\ RepliesInOrder'
  BY <1>1, StreamsStep, RepliesStep
<1> QED
  BY <1>2, <1>3, <1>4, <1>5 DEF IpcInv

(* An agent that posts takes the steps of IpcServer: what is proved of the *)
(* control socket holds with POSTs, of any length, in between.             *)
THEOREM PostingServerRuns == PostsSpec => Spec
<1>1. [PostsNext]_postingVars => [Next]_vars
  BY DEF PostsNext, postingVars, PollStep, PostEnds, Lifetime, ClientsGoOn, Next
<1> QED
  BY <1>1, PTL DEF PostsSpec, PostsInit, Spec

(* Every reachable state of the control socket satisfies the inductive     *)
(* invariant: one place for each connection, streams that add up, a socket *)
(* file that is live exactly while the agent runs.                         *)
THEOREM IpcInvariant == Spec => []IpcInv
<1>1. Init => IpcInv
  BY IpcInit, IpcAssumption
<1>2. IpcInv /\ [Next]_vars => IpcInv'
  BY IpcStep, IpcAssumption
<1> QED
  BY <1>1, <1>2, PTL DEF Spec

(* service_client loses, repeats, reorders or mixes up no unit of any      *)
(* client, for every number of slots, size of rbuf and pieces it arrives   *)
(* in.                                                                     *)
THEOREM StreamIntactHolds == Spec => []StreamIntact
<1>1. IpcInv => StreamIntact
  BY DEF IpcInv, Streams, SlotStream, EatenFirst, StreamIntact
<1> QED
  BY <1>1, IpcInvariant, PTL

(* Each line is answered at most once, in order, to the client that sent   *)
(* it, and while the connection is open exactly once.                      *)
THEOREM RepliesInOrderHolds == Spec => []RepliesInOrder
<1>1. IpcInv => RepliesInOrder
  BY DEF IpcInv
<1> QED
  BY <1>1, IpcInvariant, PTL

(* service_client never calls recv with a full buffer, so a result of 0    *)
(* always means that the client closed.                                    *)
THEOREM RecvHasRoomHolds == Spec => []RecvHasRoom
<1>1. IpcInv => RecvHasRoom
  <2>1. SUFFICES ASSUME IpcInv, pc = "recv" PROVE Room > 0
    BY DEF RecvHasRoom
  <2>2. Len(rbuf[cur]) < BufMax /\ Len(rbuf[cur]) \in Nat /\ BufMax \in Nat
    BY <2>1, IpcAssumption, Bounds, Occupants DEF IpcInv, BufRoom
  <2> QED
    BY <2>2 DEF Room
<1> QED
  BY <1>1, IpcInvariant, PTL

(* cpe_ctl is refused only by an agent that is not running or whose slots  *)
(* are all taken.                                                          *)
THEOREM CtlServedHolds == Spec => CtlServed
<1>1. ASSUME IpcInv, [Next]_vars
      PROVE  [\A c \in Ctl : why'[c] # why[c] =>
                \/ why'[c] = "left"
                \/ why'[c] = "down" /\ ~(up /\ up')
                \/ why'[c] = "full" /\ NoClient \notin {slot[i] : i \in Slots}]_vars
  BY <1>1, IpcAssumption, CtlServedStep DEF IpcInv
<1> QED
  BY <1>1, IpcInvariant, PTL DEF Spec, CtlServed

-----------------------------------------------------------------------------
(***************************************************************************)
(* No client is left waiting.  An open connection has a place with a       *)
(* running agent, and the buffers hold no complete line except the one     *)
(* that is being looked at.                                                *)
(***************************************************************************)
InPlace(c) == (\E p \in 1..Len(queue) : queue[p] = c) \/ (\E i \in Slots : slot[i] = c)
OpenInPlace == \A c \in Clients : conn[c] = "open" => up /\ InPlace(c)
NoLine(b) == \A k \in 1..Len(b) : b[k].op = "text"
LinesHandled == up => \A i \in Slots : (pc = "lines" /\ cur = i) \/ NoLine(rbuf[i])

(* An empty buffer holds no line. *)
LEMMA NoLineEmpty == NoLine(<< >>)
<1>1. Len(<< >>) = 0
  BY EmptySeq
<1> QED
  BY <1>1 DEF NoLine

(* Buffers that are the same, emptied or looked at keep LinesHandled. *)
LEMMA LinesKept ==
  ASSUME LinesHandled,
         up' => /\ up
                /\ \A i \in Slots : \/ pc' = "lines" /\ cur' = i
                                    \/ rbuf'[i] = << >>
                                    \/ NoLine(rbuf[i]) /\ rbuf'[i] = rbuf[i]
  PROVE  LinesHandled'
<1>1. ASSUME up', NEW i \in Slots PROVE (pc' = "lines" /\ cur' = i) \/ NoLine(rbuf'[i])
  BY <1>1, NoLineEmpty
<1>2. \A i \in Slots : NoLine(rbuf[i])' <=> NoLine(rbuf'[i])
  BY DEF NoLine
<1> QED
  BY <1>1, <1>2 DEF LinesHandled

(* Every step keeps LinesHandled. *)
LEMMA LinesHandledStep ==
  ASSUME IpcAssumption, TypeOK, AtLine, LinesHandled, [Next]_vars
  PROVE  LinesHandled'
<1>0. up \in BOOLEAN /\ cur \in Slots
  BY DEF TypeOK
<1>1. CASE Start
  <2>1. \A i \in Slots : rbuf'[i] = << >>
    BY <1>1 DEF Start
  <2>2. \A i \in Slots : NoLine(rbuf'[i])
    BY <2>1, NoLineEmpty
  <2> QED
    BY <2>2 DEF LinesHandled, NoLine
<1>2. CASE Stop \/ Crash
  BY <1>2 DEF Stop, Crash, Down, LinesHandled
<1>3. CASE (\E c \in Clients : ClientStep(c)) \/ UNCHANGED vars
  <2>1. UNCHANGED <<up, pc, cur, rbuf>>
    BY <1>3 DEF ClientStep, Connect, SendPiece, SendRequest, Send, ReadReply, ReadEnd, Leave,
                agentVars, pollVars, vars
  <2> QED
    BY <2>1 DEF LinesHandled, NoLine
<1>4. CASE PollStart \/ AcceptDone \/ RecvNothing
  <2>1. up /\ pc # "lines" /\ rbuf' = rbuf
    BY <1>4 DEF PollStart, AcceptDone, RecvNothing, agentVars
  <2>2. \A i \in Slots : NoLine(rbuf[i]) /\ rbuf'[i] = rbuf[i]
    BY <2>1 DEF LinesHandled
  <2> QED
    BY <2>1, <2>2, LinesKept
<1>5. CASE AcceptOne
  <2>1. up /\ pc # "lines"
    BY <1>5 DEF AcceptOne
  <2>2. \A i \in Slots : rbuf'[i] = << >> \/ rbuf'[i] = rbuf[i]
    BY <1>5, AcceptEffect
  <2>3. \A i \in Slots : NoLine(rbuf[i])
    BY <2>1 DEF LinesHandled
  <2> QED
    BY <2>1, <2>2, <2>3, LinesKept
<1>6. CASE RecvUnits
  <2>1. up /\ pc = "recv" /\ pc' = "lines" /\ cur' = cur
    BY <1>6 DEF RecvUnits
  <2>2. \A i \in Slots : i # cur => rbuf'[i] = rbuf[i]
    BY <1>0, <1>6 DEF RecvUnits, TypeOK
  <2>3. \A i \in Slots : NoLine(rbuf[i])
    BY <2>1 DEF LinesHandled
  <2> QED
    BY <2>1, <2>2, <2>3, LinesKept
<1>7. ASSUME NEW cause \in {"left", "full", "long", "jam"}, CloseClient(cause), up, slot[cur] # NoClient
      PROVE  LinesHandled'
  <2>1. rbuf'[cur] = << >> /\ \A i \in Slots : i # cur => rbuf'[i] = rbuf[i]
    BY <1>7, CloseTyped
  <2>2. \A i \in Slots : i # cur => NoLine(rbuf[i])
    BY <1>7 DEF LinesHandled
  <2> QED
    BY <1>7, <2>1, <2>2, LinesKept
<1>8. CASE RecvEnd
  BY <1>7, <1>8 DEF RecvEnd
<1>9. CASE AnswerLine
  <2>1. up /\ pc = "lines" /\ slot[cur] # NoClient
    BY <1>9 DEF AnswerLine, AtLine
  <2>2. CASE UNCHANGED <<slot, conn, why, wire, pc, cur>> /\ rbuf' = [rbuf EXCEPT ![cur] = Rest]
    <3>1. \A i \in Slots : i # cur => rbuf'[i] = rbuf[i] /\ NoLine(rbuf[i])
      BY <1>0, <2>1, <2>2 DEF TypeOK, LinesHandled
    <3> QED
      BY <2>1, <2>2, <3>1, LinesKept
  <2>3. CASE CloseClient(IF conn[slot[cur]] # "open" THEN "left" ELSE "jam")
    BY <1>7, <2>1, <2>3
  <2> QED
    BY <1>9, <2>2, <2>3 DEF AnswerLine
<1>10. CASE LinesDone
  <2>1. up /\ pc = "lines" /\ slot[cur] # NoClient /\ Newlines = {}
    BY <1>10 DEF LinesDone, AtLine
  <2>2. CASE UNCHANGED <<slot, rbuf, conn, why, wire>>
    <3>1. NoLine(rbuf[cur])
      BY <2>1 DEF Newlines, NoLine
    <3>2. \A i \in Slots : NoLine(rbuf[i])
      BY <2>1, <3>1 DEF LinesHandled
    <3> QED
      BY <2>1, <2>2, <3>2, LinesKept
  <2>3. CASE CloseClient("long")
    BY <1>7, <2>1, <2>3
  <2> QED
    BY <1>10, <2>2, <2>3 DEF LinesDone
<1> QED
  BY <1>1, <1>2, <1>3, <1>4, <1>5, <1>6, <1>8, <1>9, <1>10 DEF Next, Poll

(* Connections that close, and places that stay, keep OpenInPlace. *)
LEMMA PlaceKept ==
  ASSUME OpenInPlace,
         up => up',
         \A c \in Clients : conn'[c] = "open" => conn[c] = "open",
         \A c \in Clients : conn'[c] = "open" /\ InPlace(c) => InPlace(c)'
  PROVE  OpenInPlace'
BY DEF OpenInPlace

(* Every step keeps OpenInPlace. *)
LEMMA OpenInPlaceStep ==
  ASSUME IpcAssumption, TypeOK, AtLine, PathLive, OpenInPlace, [Next]_vars
  PROVE  OpenInPlace'
<1>0. NoClient \notin Clients /\ cur \in Slots /\ conn \in [Clients -> {"new", "open", "shut", "left"}]
  BY DEF IpcAssumption, TypeOK
<1>1. CASE Start
  <2>1. ~up /\ conn' = conn
    BY <1>1 DEF Start, clientVars
  <2> QED
    BY <2>1 DEF OpenInPlace
<1>2. CASE Stop \/ Crash
  <2>1. \A c \in Clients : conn'[c] # "open"
    BY <1>2 DEF Stop, Crash, Down
  <2> QED
    BY <2>1 DEF OpenInPlace
<1>3. ASSUME NEW c \in Clients, ClientStep(c) PROVE OpenInPlace'
  <2>1. CASE Connect(c)
    <3>1. CASE path = "live" /\ queue' = Append(queue, c) /\ conn' = [conn EXCEPT ![c] = "open"]
      <4>1. up' /\ slot' = slot
        BY <2>1, <3>1 DEF Connect, PathLive, agentVars
      <4>2. /\ Len(queue) \in Nat /\ Len(queue') = Len(queue) + 1
            /\ \A p \in 1..Len(queue) : queue'[p] = queue[p]
            /\ queue'[Len(queue) + 1] = c
        BY <3>1 DEF TypeOK
      <4>3. /\ \A p \in 1..Len(queue) : p \in 1..Len(queue')
            /\ Len(queue) + 1 \in 1..Len(queue')
        BY <4>2
      <4>4. \A d \in Clients : d # c => conn'[d] = conn[d]
        BY <1>0, <3>1
      <4>5. \A d \in Clients : conn'[d] = "open" => InPlace(d)'
        BY <4>1, <4>2, <4>3, <4>4 DEF OpenInPlace, InPlace
      <4> QED
        BY <4>1, <4>5 DEF OpenInPlace
    <3>2. CASE queue' = queue /\ conn' = [conn EXCEPT ![c] = "left"]
      <4>1. UNCHANGED <<up, slot, queue>> /\ \A d \in Clients : conn'[d] = "open" => conn[d] = "open"
        BY <1>0, <2>1, <3>2 DEF Connect, agentVars
      <4> QED
        BY <4>1, PlaceKept DEF InPlace
    <3> QED
      BY <2>1, <3>1, <3>2 DEF Connect
  <2>2. CASE SendPiece(c) \/ SendRequest(c)
    <3>1. UNCHANGED <<up, queue, slot, conn>>
      BY <2>2 DEF SendPiece, SendRequest, Send, agentVars
    <3> QED
      BY <3>1, PlaceKept DEF InPlace
  <2>3. CASE ReadReply(c) \/ ReadEnd(c) \/ Leave(c)
    <3>1. /\ UNCHANGED <<up, queue, slot>>
          /\ \A d \in Clients : conn'[d] = "open" => conn[d] = "open"
      BY <1>0, <2>3 DEF ReadReply, ReadEnd, Leave, agentVars
    <3> QED
      BY <3>1, PlaceKept DEF InPlace
  <2> QED
    BY <1>3, <2>1, <2>2, <2>3 DEF ClientStep
<1>4. CASE PollStart \/ AcceptDone \/ RecvNothing \/ RecvUnits \/ UNCHANGED vars
  <2>1. UNCHANGED <<up, queue, slot, conn>>
    BY <1>4 DEF PollStart, AcceptDone, RecvNothing, RecvUnits, vars, clientVars, agentVars
  <2> QED
    BY <2>1, PlaceKept DEF InPlace
<1>5. CASE AcceptOne
  <2>1. up /\ up' /\ queue \in Seq(Clients) /\ queue # << >> /\ queue' = Tail(queue)
    BY <1>5 DEF AcceptOne, TypeOK, agentVars
  <2>2. queue[1] \in Clients
    BY <1>5, AcceptEffect
  <2>3. \A p \in 1..Len(queue) : p # 1 => p - 1 \in 1..Len(queue') /\ queue'[p - 1] = queue[p]
    <3>1. Len(queue) \in Nat /\ Len(queue) > 0 /\ Len(queue') = Len(queue) - 1
      BY <2>1
    <3>2. \A p \in 1..Len(queue') : queue'[p] = queue[p + 1]
      BY <2>1, HeadTailProperties
    <3>3. \A p \in 1..Len(queue) : p # 1 => p - 1 \in 1..Len(queue') /\ (p - 1) + 1 = p
      BY <3>1
    <3> QED
      BY <3>2, <3>3
  <2>4. \A d \in Clients : d # queue[1] /\ (\E p \in 1..Len(queue) : queue[p] = d) => InPlace(d)'
    BY <2>3 DEF InPlace
  <2>5. CASE /\ UNCHANGED <<conn, why, wire>>
             /\ \E i \in Slots : /\ slot[i] = NoClient /\ slot'[i] = queue[1] /\ rbuf'[i] = << >>
                                 /\ \A j \in Slots : j # i => slot'[j] = slot[j] /\ rbuf'[j] = rbuf[j]
    <3>1. PICK i \in Slots : /\ slot[i] = NoClient /\ slot'[i] = queue[1]
                             /\ \A j \in Slots : j # i => slot'[j] = slot[j]
      BY <2>5
    <3>2. \A d \in Clients : d = queue[1] \/ (\E j \in Slots : slot[j] = d) => InPlace(d)'
      BY <1>0, <3>1 DEF InPlace
    <3>3. \A d \in Clients : InPlace(d) => InPlace(d)'
      BY <2>4, <3>2 DEF InPlace
    <3> QED
      BY <2>1, <2>5, <3>3, PlaceKept
  <2>6. CASE Hang(queue[1], "full") /\ UNCHANGED <<slot, rbuf>>
    <3>1. PICK c \in Clients : c = queue[1] /\ Hang(c, "full")
      BY <2>2, <2>6
    <3>2. conn'[c] # "open" /\ \A d \in Clients : d # c => conn'[d] = conn[d]
      BY <3>1, HangTyped
    <3>3. \A d \in Clients : d # c /\ InPlace(d) => InPlace(d)'
      BY <2>4, <2>6, <3>1 DEF InPlace
    <3> QED
      BY <2>1, <3>2, <3>3, PlaceKept
  <2> QED
    BY <1>5, <2>5, <2>6, AcceptEffect
<1>6. ASSUME NEW cause \in {"left", "full", "long", "jam"}, CloseClient(cause), queue' = queue,
             up' = up, slot[cur] # NoClient
      PROVE  OpenInPlace'
  <2>1. /\ slot[cur] \in Clients /\ Hang(slot[cur], cause)
        /\ \A i \in Slots : i # cur => slot'[i] = slot[i]
    BY <1>6, CloseTyped
  <2>2. PICK c \in Clients : c = slot[cur] /\ Hang(c, cause)
    BY <2>1
  <2>3. conn'[c] # "open" /\ \A d \in Clients : d # c => conn'[d] = conn[d]
    BY <2>2, HangTyped
  <2>4. \A d \in Clients : d # c /\ InPlace(d) => InPlace(d)'
    BY <1>6, <2>1, <2>2 DEF InPlace
  <2> QED
    BY <1>6, <2>3, <2>4, PlaceKept
<1>7. CASE RecvEnd
  BY <1>6, <1>7 DEF RecvEnd, agentVars
<1>8. CASE AnswerLine
  <2>1. slot[cur] # NoClient /\ queue' = queue /\ up' = up
    BY <1>8 DEF AnswerLine, AtLine, agentVars
  <2>2. CASE UNCHANGED <<slot, conn, why, wire, pc, cur>>
    BY <2>1, <2>2, PlaceKept DEF InPlace
  <2>3. CASE CloseClient(IF conn[slot[cur]] # "open" THEN "left" ELSE "jam")
    BY <1>6, <2>1, <2>3
  <2> QED
    BY <1>8, <2>2, <2>3 DEF AnswerLine
<1>9. CASE LinesDone
  <2>1. slot[cur] # NoClient /\ queue' = queue /\ up' = up
    BY <1>9 DEF LinesDone, AtLine, agentVars
  <2>2. CASE UNCHANGED <<slot, rbuf, conn, why, wire>>
    BY <2>1, <2>2, PlaceKept DEF InPlace
  <2>3. CASE CloseClient("long")
    BY <1>6, <2>1, <2>3
  <2> QED
    BY <1>9, <2>2, <2>3 DEF LinesDone
<1> QED
  BY <1>1, <1>2, <1>3, <1>4, <1>5, <1>7, <1>8, <1>9 DEF Next, Poll

(* No client is left waiting without a line on its way: an open connection *)
(* is in the backlog or in a slot, and service_client leaves no complete   *)
(* line in a buffer, for any number of clients, slots and pieces.          *)
THEOREM NoneStrandedHolds == Spec => []NoneStranded
<1>1. Init => OpenInPlace /\ LinesHandled
  BY DEF Init, OpenInPlace, LinesHandled
<1>2. IpcInv /\ OpenInPlace /\ LinesHandled /\ [Next]_vars => OpenInPlace' /\ LinesHandled'
  BY IpcAssumption, OpenInPlaceStep, LinesHandledStep DEF IpcInv
<1>3. OpenInPlace /\ LinesHandled => NoneStranded
  BY DEF OpenInPlace, LinesHandled, NoneStranded, InPlace, NoLine
<1> QED
  BY <1>1, <1>2, <1>3, IpcInvariant, PTL DEF Spec
=============================================================================
