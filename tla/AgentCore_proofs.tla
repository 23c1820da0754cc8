-------------------------- MODULE AgentCore_proofs --------------------------
(***************************************************************************)
(* For every capacity, batch size and event-queue length: the ring of      *)
(* agent_core.c holds the newest lines in order, it implements the bounded *)
(* drop-oldest queue of LineQueue, no line is lost or repeated without a   *)
(* recorded cause, and the host hears of every drop its queue has room     *)
(* for.                                                                    *)
(***************************************************************************)
EXTENDS SpoolFlush, SequenceTheorems, FiniteSetTheorems, TLAPS

(* An index one lap further at most wraps exactly once. *)
LEMMA ModWrap ==
  ASSUME NEW c \in Nat \ {0}, NEW h \in 0..(c - 1), NEW k \in 0..c
  PROVE  (h + k) % c = IF h + k < c THEN h + k ELSE h + k - c
  OBVIOUS

(* A full lap comes back to the same slot. *)
LEMMA ModLap ==
  ASSUME NEW c \in Nat \ {0}, NEW h \in 0..(c - 1)
  PROVE  (h + c) % c = h
<1>1. c \in 0..c
  OBVIOUS
<1> QED
  BY <1>1, ModWrap

(* Moving the head by n and then reading at distance j is reading at       *)
(* distance n + j from the old head, as long as it stays within one lap.   *)
LEMMA ModShift ==
  ASSUME NEW c \in Nat \ {0}, NEW h \in 0..(c - 1), NEW n \in Nat, NEW j \in Nat,
         n + j <= c
  PROVE  (((h + n) % c) + j) % c = (h + n + j) % c
<1> DEFINE m == (h + n) % c
<1>0. n \in 0..c /\ j \in 0..c /\ n + j \in 0..c
  OBVIOUS
<1>1. m = IF h + n < c THEN h + n ELSE h + n - c
  BY <1>0, ModWrap
<1>2. m \in 0..(c - 1)
  BY <1>1
<1>3. (m + j) % c = IF m + j < c THEN m + j ELSE m + j - c
  BY <1>0, <1>2, ModWrap
<1>4. (h + (n + j)) % c = IF h + (n + j) < c THEN h + (n + j) ELSE h + (n + j) - c
  BY <1>0, ModWrap
<1> QED
  BY <1>0, <1>1, <1>3, <1>4

(* Two distances within one lap read the same slot only if they are equal. *)
LEMMA ModInjective ==
  ASSUME NEW c \in Nat \ {0}, NEW h \in 0..(c - 1),
         NEW i \in 0..(c - 1), NEW j \in 0..(c - 1), (h + i) % c = (h + j) % c
  PROVE  i = j
<1>0. i \in 0..c /\ j \in 0..c
  OBVIOUS
<1>1. (h + i) % c = IF h + i < c THEN h + i ELSE h + i - c
  BY <1>0, ModWrap
<1>2. (h + j) % c = IF h + j < c THEN h + j ELSE h + j - c
  BY <1>0, ModWrap
<1> QED
  BY <1>1, <1>2

(* The event lists the handlers report are sequences. *)
LEMMA SmallSeq ==
  ASSUME NEW S, NEW x \in S, NEW y \in S
  PROVE  <<x>> \in Seq(S) /\ <<x, y>> \in Seq(S)
  OBVIOUS

(* Whatever a handler reports, the event queue stays a bounded queue.      *)
LEMMA NotifyType ==
  ASSUME TypeOK, CoreAssumption, NEW events \in Seq(Events), Notify(events)
  PROVE  /\ eq' \in Seq(Events) /\ Len(eq') <= EventQ
         /\ overrun' \in BOOLEAN /\ told' \in Nat
<1> DEFINE room == EventQ - Len(eq)
           kept == IF Len(events) <= room THEN Len(events) ELSE room
<1>1. /\ eq \in Seq(Events) /\ Len(eq) <= EventQ /\ Len(eq) \in Nat
      /\ Len(events) \in Nat /\ EventQ \in Nat
  BY LenProperties DEF TypeOK, CoreAssumption
<1>2. kept \in 0..Len(events) /\ kept <= room
  BY <1>1
<1> HIDE DEF kept
<1>3. \A i \in 1..kept : events[i] \in Events
  BY <1>1, <1>2, ElementOfSeq
<1>4. SubSeq(events, 1, kept) \in Seq(Events) /\ Len(SubSeq(events, 1, kept)) = kept
  BY <1>1, <1>2, <1>3, SubSeqProperties
<1>5. eq' = eq \o SubSeq(events, 1, kept)
  BY DEF Notify, kept
<1>6. eq' \in Seq(Events) /\ Len(eq') = Len(eq) + kept
  BY <1>1, <1>4, <1>5, ConcatProperties
<1>7. overrun' \in BOOLEAN /\ told' \in Nat
  BY DEF Notify, TypeOK
<1> QED
  BY <1>1, <1>2, <1>6, <1>7

(* The lines held form a sequence of line numbers as long as spool_cnt.    *)
LEMMA HeldType ==
  ASSUME TypeOK, RingShape, NEW k \in 0..cnt
  PROVE  /\ \A i \in 1..cnt : LineAt(i) \in Nat
         /\ Held \in Seq(Nat) /\ Len(Held) = cnt
         /\ Taken(k) \in Seq(Nat) /\ Len(Taken(k)) = k
         /\ \A i \in 1..k : Taken(k)[i] = LineAt(i)
<1>1. ASSUME NEW i \in 1..cnt PROVE LineAt(i) \in Nat
  <2>1. cap \in Nat \ {0} /\ head \in 0..(cap - 1) /\ i - 1 \in 0..cap
    BY DEF TypeOK, RingShape
  <2>2. (head + (i - 1)) % cap \in 0..(cap - 1)
    BY <2>1
  <2> QED
    BY <2>1, <2>2 DEF TypeOK, LineAt
<1>2. cnt \in Nat
  BY DEF TypeOK
<1>3. Held \in Seq(Nat)
  BY <1>1, <1>2, IsASeq DEF Held
<1>4. Len(Held) = cnt /\ \A i \in 1..cnt : Held[i] = LineAt(i)
  BY <1>2, <1>3 DEF Held
<1>5. \A i \in 1..k : Held[i] \in Nat
  BY <1>1, <1>4, <1>2
<1>6. /\ Taken(k) \in Seq(Nat)
      /\ Len(Taken(k)) = IF 1 <= k THEN k - 1 + 1 ELSE 0
      /\ \A i \in 1..(k - 1 + 1) : Taken(k)[i] = Held[1 + i - 1]
  <2>1. 1 \in Int /\ k \in Int
    BY <1>2
  <2> QED
    BY <2>1, <1>5, SubSeqProperties DEF Taken
<1> QED
  BY <1>1, <1>2, <1>3, <1>4, <1>6

(***************************************************************************)
(* The inductive invariant.  Window alone is not inductive: that a push    *)
(* lands behind the newest line needs tail = (head + cnt) % cap, and that  *)
(* it overwrites nothing still held needs cnt <= cap.                      *)
(***************************************************************************)
IndInv == TypeOK /\ RingShape /\ Window

(* What cpe_agent_create sets up satisfies the invariant. *)
LEMMA InitIndInv ==
  ASSUME CoreAssumption, Init
  PROVE  IndInv
<1> USE DEF CoreAssumption, Init
<1>1. TypeOK
  <2>1. cap \in 0..HardLines /\ ring \in [0..(cap - 1) -> Nat]
    BY DEF EmptyRing
  <2>2. cfg \in [lines : 1..HardLines, mode : Modes, gen : Nat]
    BY DEF Modes
  <2>3. sink \in Seq(Nat) /\ eq \in Seq(Events) /\ Len(eq) = 0
    BY EmptySeq
  <2>4. hasLast \in BOOLEAN /\ overrun \in BOOLEAN
    OBVIOUS
  <2>5. cnt \in Nat /\ head \in Nat /\ tail \in Nat /\ drops \in Nat /\ pushed \in Nat
    OBVIOUS
  <2>6. /\ failed \in Seq([body : Seq(Nat), stored : BOOLEAN])
        /\ told \in Nat /\ 0 <= EventQ
    BY EmptySeq
  <2>7. dropped \subseteq Nat /\ wiped \subseteq Nat /\ unwritten \subseteq Nat
    OBVIOUS
  <2> HIDE DEF Init, CoreAssumption
  <2> QED
    BY <2>1, <2>2, <2>3, <2>4, <2>5, <2>6, <2>7 DEF TypeOK
<1>2. RingShape
  BY DEF RingShape
<1>3. Window
  BY DEF Window
<1> QED
  BY <1>1, <1>2, <1>3 DEF IndInv

(* spool_push_line keeps the shape of the ring. *)
LEMMA StoreShape ==
  ASSUME CoreAssumption, IndInv, NEW events, Store(events)
  PROVE  /\ RingShape' /\ cap' = cap /\ cap \in Nat \ {0}
         /\ head \in 0..(cap - 1) /\ tail \in 0..(cap - 1)
         /\ head' \in Nat /\ tail' \in Nat /\ cnt' \in Nat /\ cnt' > 0
<1>1. /\ cap \in Nat \ {0} /\ cap' = cap /\ head \in 0..(cap - 1) /\ cnt \in 0..cap
      /\ tail = (head + cnt) % cap
  BY DEF IndInv, TypeOK, RingShape, Store
<1>2. tail = IF head + cnt < cap THEN head + cnt ELSE head + cnt - cap
  BY <1>1, ModWrap
<1>3. tail \in 0..(cap - 1) /\ 1 \in 0..cap
  BY <1>1, <1>2
<1>4. tail' = IF tail + 1 < cap THEN tail + 1 ELSE tail + 1 - cap
  BY <1>1, <1>3, ModWrap DEF Store
<1>5. (head + 1) % cap = IF head + 1 < cap THEN head + 1 ELSE head + 1 - cap
  BY <1>1, <1>3, ModWrap
<1>6. CASE Full
  <2>1. cnt = cap /\ cnt' = cap /\ head' = (head + 1) % cap
    BY <1>1, <1>6 DEF Full, Store
  <2>2. head' \in 0..(cap - 1)
    BY <1>1, <1>5, <2>1
  <2>3. (head' + cap) % cap = head'
    BY <1>1, <2>2, ModLap
  <2>4. tail' = head'
    BY <1>1, <1>2, <1>4, <1>5, <2>1
  <2> QED
    BY <1>1, <1>3, <2>1, <2>2, <2>3, <2>4 DEF RingShape
<1>7. CASE ~Full
  <2>1. cnt < cap /\ cnt' = cnt + 1 /\ head' = head
    BY <1>1, <1>7 DEF Full, Store
  <2>2. (head + (cnt + 1)) % cap
          = IF head + (cnt + 1) < cap THEN head + (cnt + 1) ELSE head + (cnt + 1) - cap
    <3>1. cnt + 1 \in 0..cap
      BY <1>1, <2>1
    <3> QED
      BY <1>1, <3>1, ModWrap
  <2>3. tail' = (head' + cnt') % cap
    BY <1>1, <1>2, <1>4, <2>1, <2>2
  <2> QED
    BY <1>1, <1>3, <1>4, <2>1, <2>3 DEF RingShape
<1> QED
  BY <1>6, <1>7

(* spool_push_line appends the new line behind the ones still held. *)
LEMMA StoreWindow ==
  ASSUME CoreAssumption, IndInv, NEW events, Store(events)
  PROVE  Window'
<1>1. /\ cap \in Nat \ {0} /\ cap' = cap /\ head \in 0..(cap - 1)
      /\ tail \in 0..(cap - 1) /\ cnt \in 0..cap /\ tail = (head + cnt) % cap
      /\ pushed \in Nat /\ pushed' = pushed + 1 /\ cnt <= pushed
      /\ DOMAIN ring = 0..(cap - 1) /\ ring' = [ring EXCEPT ![tail] = pushed + 1]
  BY StoreShape DEF IndInv, TypeOK, RingShape, Window, Store
<1>2. \A i \in 1..cnt : ring[(head + i - 1) % cap] = pushed - cnt + i
  BY DEF IndInv, Window, LineAt
<1>3. CASE Full
  <2>1. cnt = cap /\ cnt' = cap /\ head' = (head + 1) % cap
    BY <1>1, <1>3 DEF Full, Store
  <2>2. tail = head /\ (head + cap) % cap = head
    BY <1>1, <2>1, ModLap
  <2>3. ASSUME NEW i \in 1..cap
        PROVE  LineAt(i)' = pushed' - cnt' + i
    <3>0. 1 \in Nat /\ i - 1 \in Nat /\ 1 + (i - 1) <= cap /\ head + 1 + (i - 1) = head + i
      BY <1>1
    <3>1. (((head + 1) % cap) + (i - 1)) % cap = (head + 1 + (i - 1)) % cap
      BY <1>1, <3>0, ModShift
    <3>2. LineAt(i)' = ring'[(head + i) % cap]
      <4>1. (head + 1) % cap \in Nat
        BY <1>1
      <4>2. ((head + 1) % cap) + i - 1 = ((head + 1) % cap) + (i - 1)
        BY <4>1, <1>1
      <4> QED
        BY <1>1, <2>1, <3>0, <3>1, <4>2 DEF LineAt
    <3>3. CASE i = cap
      <4>1. (head + i) % cap = tail
        BY <2>2, <3>3
      <4> QED
        BY <1>1, <2>1, <3>2, <3>3, <4>1
    <3>4. CASE i # cap
      <4>1. i \in 0..(cap - 1) /\ 0 \in 0..(cap - 1) /\ i # 0 /\ (head + 0) % cap = head
        BY <1>1, <3>4
      <4>2. (head + i) % cap # tail
        BY <1>1, <2>2, <4>1, ModInjective
      <4>3. (head + i) % cap \in 0..(cap - 1)
        BY <1>1
      <4>4. LineAt(i)' = ring[(head + i) % cap]
        BY <1>1, <3>2, <4>2, <4>3
      <4>5. i + 1 \in 1..cnt /\ head + (i + 1) - 1 = head + i
        BY <1>1, <2>1, <3>4
      <4>6. ring[(head + i) % cap] = pushed - cnt + (i + 1)
        BY <1>2, <4>5
      <4> QED
        BY <1>1, <2>1, <4>4, <4>6
    <3> QED
      BY <3>3, <3>4
  <2>4. cnt' <= pushed'
    BY <1>1, <2>1
  <2> QED
    BY <2>1, <2>3, <2>4 DEF Window
<1>4. CASE ~Full
  <2>1. cnt < cap /\ cnt' = cnt + 1 /\ head' = head
    BY <1>1, <1>4 DEF Full, Store
  <2>2. ASSUME NEW i \in 1..(cnt + 1)
        PROVE  LineAt(i)' = pushed' - cnt' + i
    <3>1. LineAt(i)' = ring'[(head + (i - 1)) % cap]
      BY <1>1, <2>1 DEF LineAt
    <3>2. (head + (i - 1)) % cap \in 0..(cap - 1)
      BY <1>1
    <3>3. CASE i = cnt + 1
      BY <1>1, <2>1, <3>1, <3>3
    <3>4. CASE i # cnt + 1
      <4>1. i - 1 \in 0..(cap - 1) /\ cnt \in 0..(cap - 1) /\ i - 1 # cnt /\ i \in 1..cnt
        BY <1>1, <2>1, <3>4
      <4>2. (head + (i - 1)) % cap # tail
        BY <1>1, <4>1, ModInjective
      <4>3. LineAt(i)' = ring[(head + (i - 1)) % cap]
        BY <1>1, <3>1, <3>2, <4>2
      <4>4. ring[(head + (i - 1)) % cap] = pushed - cnt + i
        BY <1>1, <1>2, <4>1
      <4> QED
        BY <1>1, <2>1, <4>3, <4>4
    <3> QED
      BY <3>3, <3>4
  <2>3. cnt' <= pushed'
    BY <1>1, <2>1
  <2> QED
    BY <2>1, <2>2, <2>3 DEF Window
<1> QED
  BY <1>3, <1>4

(* Taking n lines off the front, as both flushes do, moves the window. *)
LEMMA AdvanceInv ==
  ASSUME IndInv, cap > 0, NEW n \in 0..cnt, Advance(n), pushed' = pushed
  PROVE  /\ RingShape' /\ Window'
         /\ cap' \in 0..HardLines /\ ring' \in [0..(cap' - 1) -> Nat]
         /\ head' \in Nat /\ tail' \in Nat /\ cnt' \in Nat
<1>1. /\ cap \in Nat \ {0} /\ cap' = cap /\ head \in 0..(cap - 1) /\ cnt \in 0..cap
      /\ tail = (head + cnt) % cap /\ tail' = tail /\ ring' = ring
      /\ head' = (head + n) % cap /\ cnt' = cnt - n /\ n \in Nat
      /\ pushed \in Nat /\ cnt <= pushed
      /\ cap \in 0..HardLines /\ ring \in [0..(cap - 1) -> Nat] /\ tail \in Nat
  BY DEF IndInv, TypeOK, RingShape, Window, Advance
<1>2. \A i \in 1..cnt : ring[(head + i - 1) % cap] = pushed - cnt + i
  BY DEF IndInv, Window, LineAt
<1>3. head' \in 0..(cap - 1) /\ cnt' \in 0..cap
  BY <1>1
<1>4. tail' = (head' + cnt') % cap
  <2> DEFINE j == cnt - n
  <2>1. n \in Nat /\ j \in Nat /\ n + j <= cap /\ head + n + j = head + cnt /\ cnt' = j
    BY <1>1
  <2> HIDE DEF j
  <2>2. (((head + n) % cap) + j) % cap = (head + n + j) % cap
    BY <1>1, <2>1, ModShift
  <2> QED
    BY <1>1, <2>1, <2>2
<1>5. ASSUME NEW i \in 1..(cnt - n)
      PROVE  LineAt(i)' = pushed' - cnt' + i
  <2> DEFINE j == i - 1
  <2>1. /\ j \in Nat /\ n + j <= cap /\ i + n \in 1..cnt
        /\ head + n + j = head + (i + n) - 1
        /\ head' + i - 1 = ((head + n) % cap) + j
    BY <1>1, <1>3
  <2> HIDE DEF j
  <2>2. (((head + n) % cap) + j) % cap = (head + n + j) % cap
    BY <1>1, <2>1, ModShift
  <2>4. LineAt(i)' = ring[(head + (i + n) - 1) % cap]
    BY <1>1, <2>1, <2>2 DEF LineAt
  <2>5. ring[(head + (i + n) - 1) % cap] = pushed - cnt + (i + n)
    BY <1>2, <2>1
  <2> QED
    BY <1>1, <2>4, <2>5
<1>6. Window'
  BY <1>1, <1>5 DEF Window
<1>7. RingShape'
  BY <1>1, <1>3, <1>4 DEF RingShape
<1> QED
  BY <1>1, <1>3, <1>6, <1>7

(* free_spool followed by a new ring, or by none, starts an empty window. *)
LEMMA ReleaseInv ==
  ASSUME CoreAssumption, IndInv, NEW c \in 0..HardLines, Release(c), pushed' = pushed
  PROVE  /\ RingShape' /\ Window'
         /\ cap' \in 0..HardLines /\ ring' \in [0..(cap' - 1) -> Nat]
         /\ head' \in Nat /\ tail' \in Nat /\ cnt' \in Nat /\ wiped' \subseteq Nat
<1>1. /\ cap' = c /\ c \in Nat /\ head' = 0 /\ tail' = 0 /\ cnt' = 0
      /\ pushed \in Nat
  BY DEF Release, IndInv, TypeOK, CoreAssumption
<1>2. RingShape'
  BY <1>1 DEF RingShape
<1>3. Window'
  BY <1>1 DEF Window
<1>4. ring' \in [0..(cap' - 1) -> Nat]
  BY <1>1 DEF Release, EmptyRing
<1>5. wiped' \subseteq Nat
  <2>1. cnt \in 0..cnt
    BY DEF IndInv, TypeOK
  <2>2. Held \in Seq(Nat)
    BY <2>1, HeldType DEF IndInv
  <2>3. LinesOf(Held) \subseteq Nat
    BY <2>2, ElementOfSeq DEF LinesOf
  <2> QED
    BY <2>3 DEF Release, IndInv, TypeOK
<1> QED
  BY <1>1, <1>2, <1>3, <1>4, <1>5

(* Two events reported one by one are reported in that order. *)
LEMMA PairConcat ==
  ASSUME NEW S, NEW x \in S, NEW y \in S
  PROVE  <<x>> \o <<y>> = <<x, y>>
<1> DEFINE a == <<x>>
           b == <<y>>
           c == <<x, y>>
<1>1. a \in Seq(S) /\ b \in Seq(S) /\ c \in Seq(S) /\ Len(a) = 1 /\ Len(b) = 1 /\ Len(c) = 2
  BY SmallSeq
<1>2. a[1] = x /\ b[1] = y /\ c[1] = x /\ c[2] = y
  OBVIOUS
<1> HIDE DEF a, b, c
<1>3. /\ a \o b \in Seq(S) /\ Len(a \o b) = 2
      /\ \A i \in 1..2 : (a \o b)[i] = IF i <= 1 THEN a[i] ELSE b[i - 1]
  BY <1>1, ConcatProperties
<1>4. (a \o b)[1] = x /\ (a \o b)[2] = y
  BY <1>2, <1>3
<1>5. \A i \in 1..2 : (a \o b)[i] = c[i]
  <2>1. \A i \in 1..2 : i = 1 \/ i = 2
    OBVIOUS
  <2> QED
    BY <1>2, <1>4, <2>1
<1>6. a \o b = c
  BY <1>1, <1>3, <1>5, SeqEqual
<1> QED
  BY <1>6 DEF a, b, c

(* What a push and its caller report, in the order of each kind of caller. *)
Reports == {DropEvent, DropEvent \o <<"SAMPLE">>, <<"SAMPLE">> \o DropEvent}

(* Exactly when the ring is full, one of the events reported is a drop. *)
LEMMA ReportShape ==
  ASSUME NEW events \in Reports
  PROVE  /\ events \in Seq(Events) /\ Len(events) \in Nat
         /\ \E p \in Nat \ {0} :
              /\ \A i \in 1..Len(events) : i # p => events[i] # "DROP"
              /\ (p <= Len(events) /\ events[p] = "DROP") <=> Full
<1>0. "SAMPLE" \in Events /\ "DROP" \in Events /\ "SAMPLE" # "DROP"
  BY DEF Events
<1>1. <<"SAMPLE">> \in Seq(Events) /\ <<"DROP">> \in Seq(Events) /\ <<>> \in Seq(Events)
  BY <1>0, SmallSeq, EmptySeq
<1>2. CASE Full
  <2>1. events \in {<<"DROP">>, <<"DROP", "SAMPLE">>, <<"SAMPLE", "DROP">>}
    <3>1. DropEvent = <<"DROP">>
      BY <1>2 DEF DropEvent
    <3>2. /\ <<"DROP">> \o <<"SAMPLE">> = <<"DROP", "SAMPLE">>
          /\ <<"SAMPLE">> \o <<"DROP">> = <<"SAMPLE", "DROP">>
      BY <1>0, PairConcat
    <3> QED
      BY <3>1, <3>2 DEF Reports
  <2>2. CASE events = <<"DROP">>
    <3>1. Len(events) = 1 /\ events[1] = "DROP" /\ 1 \in Nat \ {0}
      BY <2>2
    <3> QED
      BY <1>1, <1>2, <2>2, <3>1
  <2>3. CASE events = <<"DROP", "SAMPLE">>
    <3>1. Len(events) = 2 /\ events[1] = "DROP" /\ events[2] = "SAMPLE" /\ 1 \in Nat \ {0}
      BY <2>3
    <3>2. events \in Seq(Events)
      BY <1>0, <2>3, SmallSeq
    <3>3. \A i \in 1..Len(events) : i # 1 => events[i] # "DROP"
      BY <1>0, <3>1
    <3> QED
      BY <1>2, <3>1, <3>2, <3>3
  <2>4. CASE events = <<"SAMPLE", "DROP">>
    <3>1. Len(events) = 2 /\ events[1] = "SAMPLE" /\ events[2] = "DROP" /\ 2 \in Nat \ {0}
      BY <2>4
    <3>2. events \in Seq(Events)
      BY <1>0, <2>4, SmallSeq
    <3>3. \A i \in 1..Len(events) : i # 2 => events[i] # "DROP"
      BY <1>0, <3>1
    <3> QED
      BY <1>2, <3>1, <3>2, <3>3
  <2> QED
    BY <2>1, <2>2, <2>3, <2>4
<1>3. CASE ~Full
  <2>1. events \in {<<>>, <<"SAMPLE">>}
    <3>1. DropEvent = <<>>
      BY <1>3 DEF DropEvent
    <3>2. <<>> \o <<"SAMPLE">> = <<"SAMPLE">> /\ <<"SAMPLE">> \o <<>> = <<"SAMPLE">>
      BY <1>1, ConcatEmptySeq
    <3> QED
      BY <3>1, <3>2 DEF Reports
  <2>2. CASE events = <<>>
    <3>1. Len(events) = 0 /\ 1 \in Nat \ {0}
      BY <2>2
    <3> QED
      BY <1>1, <1>3, <2>2, <3>1
  <2>3. CASE events = <<"SAMPLE">>
    <3>1. Len(events) = 1 /\ events[1] = "SAMPLE" /\ 1 \in Nat \ {0}
      BY <2>3
    <3> QED
      BY <1>0, <1>1, <1>3, <2>3, <3>1
  <2> QED
    BY <2>1, <2>2, <2>3
<1> QED
  BY <1>2, <1>3

(* A push keeps every variable in its type. *)
LEMMA StoreType ==
  ASSUME CoreAssumption, IndInv, NEW events \in Reports,
         Store(events), hasLast' \in BOOLEAN
  PROVE  TypeOK'
<1>1. /\ cap' = cap /\ cap \in Nat \ {0} /\ head \in 0..(cap - 1)
      /\ tail \in 0..(cap - 1) /\ head' \in Nat /\ tail' \in Nat /\ cnt' \in Nat
  BY StoreShape
<1>2. TypeOK
  BY DEF IndInv
<1>3. cap' \in 0..HardLines /\ ring' \in [0..(cap' - 1) -> Nat]
  BY <1>1, <1>2 DEF TypeOK, Store
<1>4. drops' \in Nat /\ pushed' \in Nat /\ dropped' \subseteq Nat
  <2>1. ring[head] \in Nat
    BY <1>1, <1>2 DEF TypeOK
  <2>2. drops' \in Nat /\ pushed' \in Nat
    BY <1>2 DEF TypeOK, Store
  <2>3. dropped' \subseteq Nat
    BY <1>2, <2>1 DEF TypeOK, Store
  <2> QED
    BY <2>2, <2>3
<1>5. events \in Seq(Events)
  BY ReportShape
<1>6. /\ eq' \in Seq(Events) /\ Len(eq') <= EventQ
      /\ overrun' \in BOOLEAN /\ told' \in Nat
  BY <1>2, <1>5, NotifyType DEF Store
<1>7. /\ cfg' = cfg /\ sink' = sink /\ wiped' = wiped /\ unwritten' = unwritten
      /\ failed' = failed
  BY DEF Store
<1> QED
  BY <1>1, <1>2, <1>3, <1>4, <1>6, <1>7 DEF TypeOK

(* The lines a flush hands to the sink extend it by line numbers. *)
LEMMA SinkType ==
  ASSUME TypeOK, RingShape, NEW n \in 0..cnt, NEW k \in 0..n
  PROVE  sink \o Taken(k) \in Seq(Nat) /\ LinesOf(Taken(n)) \subseteq Nat
<1>1. k \in 0..cnt
  BY DEF TypeOK
<1>2. Taken(k) \in Seq(Nat) /\ Taken(n) \in Seq(Nat)
  BY <1>1, HeldType
<1>3. sink \o Taken(k) \in Seq(Nat)
  BY <1>2, ConcatProperties DEF TypeOK
<1> QED
  BY <1>2, <1>3, ElementOfSeq DEF LinesOf

(* A line of a sensor keeps the invariant. *)
LEMMA PushLineInv ==
  ASSUME CoreAssumption, IndInv, PushLine
  PROVE  IndInv'
<1>1. Store(DropEvent) /\ DropEvent \in Reports /\ hasLast' \in BOOLEAN
  BY DEF PushLine, IndInv, TypeOK, Reports
<1> QED
  BY <1>1, StoreType, StoreShape, StoreWindow DEF IndInv

(* A refused push leaves the ring as it was. *)
LEMMA RefusedInv ==
  ASSUME IndInv, UNCHANGED <<spoolVars, drops, cfg, pushed, fateVars>>,
         hasLast' \in BOOLEAN,
         eq' \in Seq(Events), Len(eq') <= EventQ, overrun' \in BOOLEAN, told' \in Nat
  PROVE  IndInv'
<1>1. TypeOK'
  BY DEF IndInv, TypeOK, spoolVars, fateVars
<1>2. RingShape'
  BY DEF IndInv, RingShape, spoolVars
<1>3. Window'
  BY DEF IndInv, Window, LineAt, spoolVars
<1> QED
  BY <1>1, <1>2, <1>3 DEF IndInv

(* A demo sample keeps the invariant, with or without a ring. *)
LEMMA SampleTickInv ==
  ASSUME CoreAssumption, IndInv, SampleTick
  PROVE  IndInv'
<1>1. hasLast' \in BOOLEAN /\ DropEvent \o <<"SAMPLE">> \in Reports
  BY DEF SampleTick, Reports
<1>2. CASE Store(DropEvent \o <<"SAMPLE">>)
  BY <1>1, <1>2, StoreType, StoreShape, StoreWindow DEF IndInv
<1>3. CASE UNCHANGED <<spoolVars, drops, cfg, pushed, fateVars, eventVars>>
  <2>1. eq' \in Seq(Events) /\ Len(eq') <= EventQ /\ overrun' \in BOOLEAN /\ told' \in Nat
    BY <1>3 DEF IndInv, TypeOK, eventVars
  <2> QED
    BY <1>1, <1>3, <2>1, RefusedInv
<1> QED
  BY <1>2, <1>3 DEF SampleTick

(* A live sample keeps the invariant, with or without a ring. *)
LEMMA LiveSampleTickInv ==
  ASSUME CoreAssumption, IndInv, LiveSampleTick
  PROVE  IndInv'
<1>1. hasLast' \in BOOLEAN /\ <<"SAMPLE">> \o DropEvent \in Reports
  BY DEF LiveSampleTick, Reports
<1>2. CASE Store(<<"SAMPLE">> \o DropEvent)
  BY <1>1, <1>2, StoreType, StoreShape, StoreWindow DEF IndInv
<1>3. CASE Notify(<<"SAMPLE">>) /\ UNCHANGED <<spoolVars, drops, cfg, pushed, fateVars>>
  <2>1. TypeOK /\ <<"SAMPLE">> \in Seq(Events)
    BY SmallSeq DEF IndInv, Events
  <2>2. eq' \in Seq(Events) /\ Len(eq') <= EventQ /\ overrun' \in BOOLEAN /\ told' \in Nat
    BY <1>3, <2>1, NotifyType
  <2> QED
    BY <1>1, <1>3, <2>2, RefusedInv
<1> QED
  BY <1>2, <1>3 DEF LiveSampleTick

(* A flush through stdio keeps the invariant, complete or not. *)
LEMMA FlushStdioInv ==
  ASSUME CoreAssumption, IndInv, NEW n \in 0..cnt, NEW k \in 0..n, FlushStdio(n, k)
  PROVE  IndInv'
<1>1. cap > 0 /\ Advance(n) /\ pushed' = pushed
  BY DEF FlushStdio
<1>2. /\ RingShape' /\ Window'
      /\ cap' \in 0..HardLines /\ ring' \in [0..(cap' - 1) -> Nat]
      /\ head' \in Nat /\ tail' \in Nat /\ cnt' \in Nat
  BY <1>1, AdvanceInv
<1>3. sink' \in Seq(Nat) /\ unwritten' \subseteq Nat
  BY SinkType DEF FlushStdio, IndInv, TypeOK
<1>4. TypeOK'
  BY <1>2, <1>3 DEF FlushStdio, IndInv, TypeOK, eventVars
<1> QED
  BY <1>2, <1>4 DEF IndInv

(* A confirmed POST keeps the invariant. *)
LEMMA PostOkInv ==
  ASSUME CoreAssumption, IndInv, NEW n \in Batches, PostOk(n)
  PROVE  IndInv'
<1>0. n \in 0..cnt /\ n \in 0..n
  BY DEF Batches, IndInv, TypeOK
<1>1. cap > 0 /\ Advance(n) /\ pushed' = pushed
  BY DEF PostOk
<1>2. /\ RingShape' /\ Window'
      /\ cap' \in 0..HardLines /\ ring' \in [0..(cap' - 1) -> Nat]
      /\ head' \in Nat /\ tail' \in Nat /\ cnt' \in Nat
  BY <1>0, <1>1, AdvanceInv
<1>3. sink' \in Seq(Nat)
  BY <1>0, SinkType DEF PostOk, IndInv
<1>4. TypeOK'
  BY <1>2, <1>3 DEF PostOk, IndInv, TypeOK, eventVars
<1> QED
  BY <1>2, <1>4 DEF IndInv

(* A failed POST is only recorded: the ring keeps its lines. *)
LEMMA PostFailsInv ==
  ASSUME CoreAssumption, IndInv, NEW n \in Batches, PostFails(n)
  PROVE  IndInv'
<1> DEFINE Post == [body : Seq(Nat), stored : BOOLEAN]
<1>0. n \in 0..cnt
  BY DEF Batches, IndInv, TypeOK
<1>1. Taken(n) \in Seq(Nat)
  BY <1>0, HeldType DEF IndInv
<1>2. failed' \in Seq(Post)
  <2>1. [body |-> Taken(n), stored |-> FALSE] \in Post
    BY <1>1
  <2>2. failed \in Seq(Post)
    BY DEF IndInv, TypeOK
  <2> HIDE DEF Post
  <2> QED
    BY <2>1, <2>2, AppendProperties DEF PostFails
<1>3. TypeOK'
  BY <1>2 DEF PostFails, IndInv, TypeOK, spoolVars, eventVars
<1>4. RingShape' /\ Window'
  BY DEF PostFails, IndInv, RingShape, Window, LineAt, spoolVars
<1> QED
  BY <1>3, <1>4 DEF IndInv

(* A body stored late touches the sink and nothing of the agent. *)
LEMMA CollectorStoresInv ==
  ASSUME CoreAssumption, IndInv, NEW i \in 1..Len(failed), CollectorStores(i)
  PROVE  IndInv'
<1> DEFINE Post == [body : Seq(Nat), stored : BOOLEAN]
<1>1. failed \in Seq(Post)
  BY DEF IndInv, TypeOK
<1>2. failed[i] \in Post
  BY <1>1, ElementOfSeq
<1>3. failed[i].body \in Seq(Nat) /\ [body |-> failed[i].body, stored |-> TRUE] \in Post
  BY <1>2
<1>4. failed' \in Seq(Post)
  <2> HIDE DEF Post
  <2> QED
    BY <1>1, <1>3, ExceptSeq DEF CollectorStores
<1>5. sink' \in Seq(Nat)
  BY <1>3, ConcatProperties DEF CollectorStores, IndInv, TypeOK
<1>6. TypeOK'
  BY <1>4, <1>5 DEF CollectorStores, IndInv, TypeOK, spoolVars, eventVars
<1>7. RingShape' /\ Window'
  BY DEF CollectorStores, IndInv, RingShape, Window, LineAt, spoolVars
<1> QED
  BY <1>6, <1>7 DEF IndInv

(* apply_config keeps the invariant on each of its four paths. *)
LEMMA ApplyConfigInv ==
  ASSUME CoreAssumption, IndInv, ApplyConfig
  PROVE  IndInv'
<1>0. /\ "REJECTED" \in Events /\ "APPLIED" \in Events /\ "NEED_ALLOC" \in Events
  BY DEF Events
<1>1. /\ <<"REJECTED">> \in Seq(Events) /\ <<"APPLIED">> \in Seq(Events)
      /\ <<"NEED_ALLOC", "REJECTED">> \in Seq(Events)
  BY <1>0, SmallSeq
<1>2. PICK req \in Requests :
        \/ ConfigInvalid(req)
        \/ ConfigNoMemory(req)
        \/ \E mode \in Modes : ConfigSameSize(req, mode) \/ ConfigResize(req, mode)
  BY DEF ApplyConfig
<1>3. CASE ConfigInvalid(req)
  <2>1. Notify(<<"REJECTED">>) /\ UNCHANGED <<spoolVars, drops, cfg, hasLast, pushed, fateVars>>
    BY <1>3 DEF ConfigInvalid
  <2>2. /\ eq' \in Seq(Events) /\ Len(eq') <= EventQ
        /\ overrun' \in BOOLEAN /\ told' \in Nat
    BY <1>1, <2>1, NotifyType DEF IndInv
  <2>3. TypeOK'
    BY <2>1, <2>2 DEF IndInv, TypeOK, spoolVars, fateVars
  <2>4. RingShape' /\ Window'
    BY <2>1 DEF IndInv, RingShape, Window, LineAt, spoolVars
  <2> QED
    BY <2>3, <2>4 DEF IndInv
<1>4. CASE ConfigNoMemory(req)
  <2>1. /\ Release(0) /\ Notify(<<"NEED_ALLOC", "REJECTED">>) /\ pushed' = pushed
        /\ UNCHANGED <<drops, cfg, hasLast, pushed, sink, dropped, unwritten, failed>>
    BY <1>4 DEF ConfigNoMemory
  <2>2. /\ eq' \in Seq(Events) /\ Len(eq') <= EventQ
        /\ overrun' \in BOOLEAN /\ told' \in Nat
    BY <1>1, <2>1, NotifyType DEF IndInv
  <2>3. 0 \in 0..HardLines
    BY DEF CoreAssumption
  <2>4. /\ RingShape' /\ Window'
        /\ cap' \in 0..HardLines /\ ring' \in [0..(cap' - 1) -> Nat]
        /\ head' \in Nat /\ tail' \in Nat /\ cnt' \in Nat /\ wiped' \subseteq Nat
    BY <2>1, <2>3, ReleaseInv
  <2>5. TypeOK'
    BY <2>1, <2>2, <2>4 DEF IndInv, TypeOK
  <2> QED
    BY <2>4, <2>5 DEF IndInv
<1>5. ASSUME NEW mode \in Modes, ConfigSameSize(req, mode) \/ ConfigResize(req, mode)
      PROVE  IndInv'
  <2>1. Valid(Wanted(req)) /\ Accepted(req, mode)
    BY <1>5 DEF ConfigSameSize, ConfigResize
  <2>2. Wanted(req) \in 1..HardLines /\ Wanted(req) \in 0..HardLines /\ cfg.gen \in Nat
    BY <2>1 DEF Valid, IndInv, TypeOK, CoreAssumption
  <2>3. cfg' \in [lines : 1..HardLines, mode : Modes, gen : Nat]
    BY <2>1, <2>2 DEF Accepted
  <2>4. /\ eq' \in Seq(Events) /\ Len(eq') <= EventQ
        /\ overrun' \in BOOLEAN /\ told' \in Nat
    BY <1>1, <2>1, NotifyType DEF IndInv, Accepted
  <2>5. CASE ConfigSameSize(req, mode)
    <3>1. UNCHANGED <<spoolVars, drops, hasLast, pushed, fateVars>>
      BY <2>5 DEF ConfigSameSize
    <3>2. TypeOK'
      BY <2>3, <2>4, <3>1 DEF IndInv, TypeOK, spoolVars, fateVars
    <3>3. RingShape' /\ Window'
      BY <3>1 DEF IndInv, RingShape, Window, LineAt, spoolVars
    <3> QED
      BY <3>2, <3>3 DEF IndInv
  <2>6. CASE ConfigResize(req, mode)
    <3>1. /\ Release(Wanted(req)) /\ pushed' = pushed
          /\ UNCHANGED <<drops, hasLast, pushed, sink, dropped, unwritten, failed>>
      BY <2>6 DEF ConfigResize
    <3>2. /\ RingShape' /\ Window'
          /\ cap' \in 0..HardLines /\ ring' \in [0..(cap' - 1) -> Nat]
          /\ head' \in Nat /\ tail' \in Nat /\ cnt' \in Nat /\ wiped' \subseteq Nat
      BY <2>2, <3>1, ReleaseInv
    <3>3. TypeOK'
      BY <2>3, <2>4, <3>1, <3>2 DEF IndInv, TypeOK
    <3> QED
      BY <3>2, <3>3 DEF IndInv
  <2> QED
    BY <1>5, <2>5, <2>6
<1> QED
  BY <1>2, <1>3, <1>4, <1>5

(* Handing out an event keeps the invariant. *)
LEMMA NextEventInv ==
  ASSUME CoreAssumption, IndInv, NextEvent
  PROVE  IndInv'
<1>1. eq \in Seq(Events) /\ eq # <<>> /\ eq' = Tail(eq)
  BY DEF IndInv, TypeOK, NextEvent
<1>2. Tail(eq) \in Seq(Events) /\ Len(Tail(eq)) = Len(eq) - 1 /\ Len(eq) \in Nat
  BY <1>1, HeadTailProperties, LenProperties
<1>3. told' \in Nat
  BY DEF IndInv, TypeOK, NextEvent
<1>4. TypeOK'
  <2>1. eq' \in Seq(Events)
    BY <1>1, <1>2
  <2>2. Len(eq') <= EventQ
    BY <1>1, <1>2 DEF IndInv, TypeOK, CoreAssumption
  <2> QED
    BY <2>1, <2>2, <1>3 DEF IndInv, TypeOK, NextEvent, spoolVars, fateVars
<1>5. RingShape' /\ Window'
  BY DEF IndInv, RingShape, Window, LineAt, NextEvent, spoolVars
<1> QED
  BY <1>4, <1>5 DEF IndInv

(* Every step of the agent core keeps the invariant. *)
LEMMA NextIndInv ==
  ASSUME CoreAssumption, IndInv, [Next]_vars
  PROVE  IndInv'
<1>1. CASE PushLine
  BY <1>1, PushLineInv
<1>2. CASE SampleTick
  BY <1>2, SampleTickInv
<1>2a. CASE LiveSampleTick
  BY <1>2a, LiveSampleTickInv
<1>3. CASE FlushStdioOk
  <2>1. cnt \in 0..cnt
    BY DEF IndInv, TypeOK
  <2> QED
    BY <1>3, <2>1, FlushStdioInv DEF FlushStdioOk
<1>4. CASE FlushStdioFails
  BY <1>4, FlushStdioInv DEF FlushStdioFails
<1>5. CASE FlushHttpOk
  BY <1>5, PostOkInv DEF FlushHttpOk
<1>6. CASE FlushHttpFails
  BY <1>6, PostFailsInv DEF FlushHttpFails
<1>10. CASE \E i \in 1..Len(failed) : CollectorStores(i)
  BY <1>10, CollectorStoresInv
<1>7. CASE ApplyConfig
  BY <1>7, ApplyConfigInv
<1>8. CASE NextEvent
  BY <1>8, NextEventInv
<1>9. CASE UNCHANGED vars
  <2>1. TypeOK'
    BY <1>9 DEF IndInv, TypeOK, vars, spoolVars, fateVars, eventVars
  <2>2. RingShape' /\ Window'
    BY <1>9 DEF IndInv, RingShape, Window, LineAt, vars, spoolVars
  <2> QED
    BY <2>1, <2>2 DEF IndInv
<1> QED
  BY <1>1, <1>2, <1>2a, <1>3, <1>4, <1>5, <1>6, <1>7, <1>8, <1>9, <1>10 DEF Next

(* The inductive invariant holds in every reachable state of the agent     *)
(* core: induction over the handlers of agent_core.c.                      *)
THEOREM CoreInvariant == Spec => []IndInv
<1>1. Init => IndInv
  BY CoreAssumption, InitIndInv
<1>2. IndInv /\ [Next]_vars => IndInv'
  BY CoreAssumption, NextIndInv
<1> QED
  BY <1>1, <1>2, PTL DEF Spec

(* The loop, which flushes only where a callback says so, runs the agent   *)
(* core: what is proved of the core below holds of it too.                 *)
THEOREM LoopRunsCore == FlushSpec => Spec
<1>1. FlushInit => Init
  BY DEF FlushInit
<1>2. [FlushNext]_flushVars => [Next]_vars
  BY DEF FlushNext, flushVars, Tick, PushOnly, FlushOk, FlushFails, FlushNothing,
         OtherWork, Collector, Next
<1> QED
  BY <1>1, <1>2, PTL DEF FlushSpec, Spec

(* The variables of agent_core.c keep their types, the event queue its     *)
(* bound and the ring its allocated size, whatever is configured.          *)
THEOREM TypeCorrect == Spec => []TypeOK
<1>1. IndInv => TypeOK
  BY DEF IndInv
<1> QED
  BY <1>1, CoreInvariant, PTL

(* spool_head, spool_tail and spool_cnt always describe one window.        *)
THEOREM RingShapeHolds == Spec => []RingShape
<1>1. IndInv => RingShape
  BY DEF IndInv
<1> QED
  BY <1>1, CoreInvariant, PTL

(* The ring holds the newest lines in push order, for every capacity.      *)
THEOREM WindowHolds == Spec => []Window
<1>1. IndInv => Window
  BY DEF IndInv
<1> QED
  BY <1>1, CoreInvariant, PTL

-----------------------------------------------------------------------------
(***************************************************************************)
(* The refinement.  Window says which lines the ring holds, so the queue   *)
(* before and after a step is a run of consecutive lines, and each handler *)
(* maps to one operation of LineQueue on such runs.                        *)
(***************************************************************************)
(* How many lines have left the ring; the oldest line held is the next one. *)
Base == pushed - cnt

(* n consecutive lines, the first of them a + 1. *)
Span(a, n) == [i \in 1..n |-> a + i]

(* What is held is the run of the newest lines, and what a flush takes is  *)
(* the front of it.                                                        *)
LEMMA HeldIsSpan ==
  ASSUME IndInv
  PROVE  /\ cnt \in Nat /\ pushed \in Nat /\ cnt <= pushed /\ Base \in Nat
         /\ Held = Span(Base, cnt)
         /\ \A i \in 1..cnt : LineAt(i) = Base + i
<1>1. cnt \in Nat /\ pushed \in Nat /\ cnt <= pushed
  BY DEF IndInv, TypeOK, Window
<1>2. \A i \in 1..cnt : LineAt(i) = Base + i
  BY <1>1 DEF IndInv, Window, Base
<1> QED
  BY <1>1, <1>2 DEF Held, Span, Base

(* A run of lines is a sequence of line numbers. *)
LEMMA SpanType ==
  ASSUME NEW a \in Nat, NEW n \in Nat
  PROVE  /\ Span(a, n) \in Seq(Nat) /\ Len(Span(a, n)) = n
         /\ \A i \in 1..n : Span(a, n)[i] = a + i
<1>1. \A i \in 1..n : a + i \in Nat
  OBVIOUS
<1>2. Span(a, n) \in Seq(Nat)
  BY <1>1, IsASeq DEF Span
<1> QED
  BY <1>2 DEF Span

(* Its parts are runs, and the next line makes it a longer one. *)
LEMMA SpanSeq ==
  ASSUME NEW a \in Nat, NEW n \in Nat
  PROVE  /\ LinesOf(Span(a, n)) = (a + 1)..(a + n)
         /\ \A k \in 0..n : SubSeq(Span(a, n), 1, k) = Span(a, k)
         /\ \A k \in 0..n : SubSeq(Span(a, n), k + 1, n) = Span(a + k, n - k)
         /\ Append(Span(a, n), a + n + 1) = Span(a, n + 1)
<1>1. /\ Span(a, n) \in Seq(Nat) /\ Len(Span(a, n)) = n
      /\ \A i \in 1..n : Span(a, n)[i] = a + i
  BY SpanType
<1>2. LinesOf(Span(a, n)) = (a + 1)..(a + n)
  <2>1. LinesOf(Span(a, n)) = {a + i : i \in 1..n}
    BY <1>1 DEF LinesOf
  <2>2. ASSUME NEW x \in (a + 1)..(a + n) PROVE x - a \in 1..n /\ x = a + (x - a)
    OBVIOUS
  <2> QED
    BY <2>1, <2>2
<1>3. ASSUME NEW k \in 0..n PROVE SubSeq(Span(a, n), 1, k) = Span(a, k)
  <2>1. \A i \in 1..k : Span(a, n)[i] \in Nat
    BY <1>1
  <2>2. /\ SubSeq(Span(a, n), 1, k) \in Seq(Nat)
        /\ Len(SubSeq(Span(a, n), 1, k)) = k
        /\ \A i \in 1..k : SubSeq(Span(a, n), 1, k)[i] = Span(a, n)[1 + i - 1]
    <3>1. 1 \in Int /\ k \in Int /\ k - 1 + 1 = k
      OBVIOUS
    <3> HIDE DEF Span
    <3> QED
      BY <2>1, <3>1, SubSeqProperties
  <2>3. Span(a, k) \in Seq(Nat) /\ Len(Span(a, k)) = k /\ \A i \in 1..k : Span(a, k)[i] = a + i
    BY SpanType
  <2>4. \A i \in 1..k : SubSeq(Span(a, n), 1, k)[i] = a + i
    BY <1>1, <2>2
  <2> QED
    BY <2>2, <2>3, <2>4, SeqEqual
<1>4. ASSUME NEW k \in 0..n PROVE SubSeq(Span(a, n), k + 1, n) = Span(a + k, n - k)
  <2> DEFINE s == SubSeq(Span(a, n), k + 1, n)
             t == Span(a + k, n - k)
  <2>1. \A i \in (k + 1)..n : Span(a, n)[i] \in Nat
    BY <1>1
  <2>2. /\ s \in Seq(Nat) /\ Len(s) = n - k
        /\ \A i \in 1..(n - k) : s[i] = Span(a, n)[k + i]
    <3>1. k + 1 \in Int /\ n \in Int
      OBVIOUS
    <3>2. /\ s \in Seq(Nat) /\ Len(s) = IF k + 1 <= n THEN n - (k + 1) + 1 ELSE 0
          /\ \A i \in 1..(n - (k + 1) + 1) : s[i] = Span(a, n)[k + 1 + i - 1]
      BY <2>1, <3>1, SubSeqProperties
    <3> HIDE DEF s
    <3>3. n - (k + 1) + 1 = n - k /\ Len(s) = n - k
      BY <3>2
    <3>4. ASSUME NEW i \in 1..(n - k) PROVE s[i] = Span(a, n)[k + i]
      <4>1. k + 1 + i - 1 = k + i
        OBVIOUS
      <4> QED
        BY <3>2, <3>3, <4>1
    <3> QED
      BY <3>2, <3>3, <3>4
  <2>3. t \in Seq(Nat) /\ Len(t) = n - k /\ \A i \in 1..(n - k) : t[i] = a + k + i
    <3>1. a + k \in Nat /\ n - k \in Nat
      OBVIOUS
    <3> QED
      BY SpanType, <3>1
  <2> HIDE DEF s, t
  <2>4. ASSUME NEW i \in 1..(n - k) PROVE s[i] = t[i]
    <3>1. k + i \in 1..n
      OBVIOUS
    <3>2. s[i] = a + (k + i)
      BY <1>1, <2>2, <3>1
    <3> QED
      BY <2>3, <3>2
  <2>5. s = t
    BY <2>2, <2>3, <2>4, SeqEqual
  <2> QED
    BY <2>5 DEF s, t
<1>5. Append(Span(a, n), a + n + 1) = Span(a, n + 1)
  <2> DEFINE s == Append(Span(a, n), a + n + 1)
             t == Span(a, n + 1)
  <2>1. /\ s \in Seq(Nat) /\ Len(s) = n + 1
        /\ \A i \in 1..n : s[i] = Span(a, n)[i]
        /\ s[n + 1] = a + n + 1
    <3>1. a + n + 1 \in Nat
      OBVIOUS
    <3> QED
      BY <1>1, <3>1, AppendProperties
  <2>2. t \in Seq(Nat) /\ Len(t) = n + 1 /\ \A i \in 1..(n + 1) : t[i] = a + i
    BY SpanType
  <2> HIDE DEF s, t
  <2>3. ASSUME NEW i \in 1..(n + 1) PROVE s[i] = t[i]
    <3>1. CASE i = n + 1
      BY <2>1, <2>2, <3>1
    <3>2. CASE i \in 1..n
      BY <1>1, <2>1, <2>2, <3>2
    <3> QED
      BY <3>1, <3>2
  <2>4. s = t
    BY <2>1, <2>2, <2>3, SeqEqual
  <2> QED
    BY <2>4 DEF s, t
<1> QED
  BY SpanType, <1>2, <1>3, <1>4, <1>5

(* The ring after a step, read off the invariant in the new state. *)
LEMMA HeldPrime ==
  ASSUME IndInv'
  PROVE  /\ cnt' \in Nat /\ pushed' \in Nat /\ cnt' <= pushed' /\ Base' \in Nat
         /\ Held' = Span(Base', cnt')
<1>1. cnt' \in Nat /\ pushed' \in Nat /\ cnt' <= pushed'
  BY DEF IndInv, TypeOK, Window
<1>2. \A i \in 1..cnt' : LineAt(i)' = Base' + i
  BY <1>1 DEF IndInv, Window, Base
<1>3. Base' \in Nat
  <2>1. \A p, c \in Nat : c <= p => p - c \in Nat
    OBVIOUS
  <2> QED
    BY <1>1, <2>1 DEF Base
<1>4. Held' = [i \in 1..cnt' |-> LineAt(i)']
  BY DEF Held
<1>5. Held' = [i \in 1..cnt' |-> Base' + i]
  BY <1>2, <1>4
<1> QED
  BY <1>1, <1>3, <1>5 DEF Span

(* A push into a ring with room accepts a line; into a full one it puts it *)
(* in the place of the oldest.                                             *)
LEMMA StoreRefines ==
  ASSUME CoreAssumption, IndInv, IndInv', NEW events, Store(events)
  PROVE  Spool!Accept \/ Spool!Displace
<1>1. /\ cnt \in Nat /\ pushed \in Nat /\ Base \in Nat /\ cnt <= pushed
      /\ Held = Span(Base, cnt) /\ Held' = Span(Base', cnt')
  BY HeldIsSpan, HeldPrime
<1>2. Len(Held) = cnt
  BY <1>1, SpanType
<1>3. cnt <= cap /\ cap \in Nat /\ cap > 0 /\ pushed' = pushed + 1
  BY DEF IndInv, TypeOK, RingShape, Store
<1>4. CASE Full
  <2>1. cnt = cap /\ cnt' = cap /\ drops' = drops + 1
    BY <1>1, <1>3, <1>4 DEF Full, Store
  <2>2. Base' = Base + 1
    BY <1>1, <1>3, <2>1 DEF Base
  <2>3. SubSeq(Held, 1 + 1, Len(Held)) = Span(Base + 1, cnt - 1)
    <3>1. 1 \in 0..cnt
      BY <1>3, <2>1
    <3>2. PICK k \in 0..cnt : k = 1
      BY <3>1
    <3>3. \A j \in 0..cnt : SubSeq(Span(Base, cnt), j + 1, cnt) = Span(Base + j, cnt - j)
      BY <1>1, SpanSeq
    <3> QED
      BY <1>1, <1>2, <3>2, <3>3
  <2>4. Append(Span(Base + 1, cnt - 1), (Base + 1) + (cnt - 1) + 1) = Span(Base + 1, (cnt - 1) + 1)
    <3>1. Base + 1 \in Nat /\ cnt - 1 \in Nat
      BY <1>1, <1>3, <2>1
    <3> QED
      BY <3>1, SpanSeq
  <2>5. (Base + 1) + (cnt - 1) + 1 = pushed + 1 /\ (cnt - 1) + 1 = cnt'
    BY <1>1, <1>3, <2>1 DEF Base
  <2>6. Held' = Append(SubSeq(Held, 1 + 1, Len(Held)), pushed + 1)
    BY <1>1, <2>2, <2>3, <2>4, <2>5
  <2>7. Spool!Displace
    BY <1>2, <1>3, <2>1, <2>6 DEF Spool!Displace, Spool!Rest, Store
  <2> QED
    BY <2>7
<1>5. CASE ~Full
  <2>1. cnt < cap /\ cnt' = cnt + 1 /\ drops' = drops
    BY <1>1, <1>3, <1>5 DEF Full, Store
  <2>2. Base' = Base /\ Base + cnt + 1 = pushed + 1
    BY <1>1, <1>3, <2>1 DEF Base
  <2>3. Append(Span(Base, cnt), Base + cnt + 1) = Span(Base, cnt + 1)
    BY <1>1, SpanSeq
  <2>4. Held' = Append(Held, pushed + 1)
    BY <1>1, <2>1, <2>2, <2>3
  <2>5. Spool!Accept
    BY <1>2, <1>3, <2>1, <2>4 DEF Spool!Accept, Store
  <2> QED
    BY <2>5
<1> QED
  BY <1>4, <1>5

(* A flush takes lines off the front of the queue. *)
LEMMA AdvanceRefines ==
  ASSUME IndInv, IndInv', NEW n \in 0..cnt, NEW k \in 0..n, Advance(n),
         sink' = sink \o Taken(k), UNCHANGED <<pushed, drops, failed>>
  PROVE  \E m \in 0..Len(Held) : \E l \in 0..m : Spool!Release(m, l)
<1>1. /\ cnt \in Nat /\ pushed \in Nat /\ Base \in Nat /\ cnt <= pushed
      /\ Held = Span(Base, cnt) /\ Held' = Span(Base', cnt')
  BY HeldIsSpan, HeldPrime
<1>2. Len(Held) = cnt
  BY <1>1, SpanType
<1>3. cnt' = cnt - n /\ Base' = Base + n /\ cap' = cap
  BY <1>1 DEF Advance, Base
<1>4. SubSeq(Held, n + 1, Len(Held)) = Span(Base + n, cnt - n)
  <2>1. SubSeq(Span(Base, cnt), n + 1, cnt) = Span(Base + n, cnt - n)
    BY <1>1, SpanSeq
  <2> QED
    BY <1>1, <1>2, <2>1
<1>5. Held' = SubSeq(Held, n + 1, Len(Held))
  BY <1>1, <1>3, <1>4
<1>6. Spool!Release(n, k)
  BY <1>2, <1>3, <1>5 DEF Spool!Release, Spool!Rest, Spool!Front, Taken
<1> QED
  BY <1>2, <1>6

(* The abstract queue stands still while its variables do. *)
LEMMA QueueStutters ==
  ASSUME UNCHANGED <<spoolVars, pushed, drops, sink, failed>>
  PROVE  UNCHANGED Spool!lqVars
  BY DEF Spool!lqVars, Held, LineAt, spoolVars

(* A failed POST leaves the queue alone and the body in doubt. *)
LEMMA PostFailsRefines ==
  ASSUME IndInv, NEW n \in Batches, PostFails(n)
  PROVE  \E m \in 0..Len(Held) : Spool!Doubt(m)
<1>1. cnt \in Nat /\ Base \in Nat /\ Held = Span(Base, cnt)
  BY HeldIsSpan
<1>2. Len(Held) = cnt /\ n \in 0..cnt
  BY <1>1, SpanType DEF Batches
<1>3. Held' = Held
  BY DEF PostFails, Held, LineAt, spoolVars
<1>4. Spool!Doubt(n)
  BY <1>2, <1>3 DEF PostFails, Spool!Doubt, Spool!Front, Taken, spoolVars
<1> QED
  BY <1>2, <1>4

(* A body stored late arrives. *)
LEMMA CollectorStoresRefines ==
  ASSUME IndInv, NEW i \in 1..Len(failed), CollectorStores(i)
  PROVE  Spool!Arrive(i)
<1>1. Held' = Held
  BY DEF CollectorStores, Held, LineAt, spoolVars
<1> QED
  BY <1>1 DEF CollectorStores, Spool!Arrive, spoolVars

(* Releasing the ring replaces the queue by an empty one. *)
LEMMA ReleaseRefines ==
  ASSUME IndInv, IndInv', NEW c \in 0..HardLines, Release(c), CoreAssumption,
         UNCHANGED <<pushed, drops, sink, failed>>
  PROVE  \E l \in (1..HardLines) \cup {0} : Spool!Replace(l)
<1>1. c \in (1..HardLines) \cup {0} /\ cap' = c /\ cnt' = 0
  BY DEF Release, CoreAssumption
<1>2. Held' = <<>>
  <2>1. Held' = Span(Base', 0) /\ Base' \in Nat
    BY <1>1, HeldPrime
  <2>2. Len(Span(Base', 0)) = 0 /\ Span(Base', 0) \in Seq(Nat)
    BY <2>1, SpanType
  <2> QED
    BY <2>1, <2>2, EmptySeq
<1>3. Spool!Replace(c)
  BY <1>1, <1>2 DEF Spool!Replace
<1> QED
  BY <1>1, <1>3

(* Every handler of the agent core is a step of the bounded queue, or      *)
(* invisible to it.                                                        *)
LEMMA NextRefines ==
  ASSUME CoreAssumption, IndInv, IndInv', [Next]_vars
  PROVE  [Spool!LQNext]_(Spool!lqVars)
<1> USE DEF Spool!LQNext
<1>1. CASE PushLine
  BY <1>1, StoreRefines DEF PushLine
<1>2. CASE SampleTick
  <2>1. CASE Store(DropEvent \o <<"SAMPLE">>)
    BY <2>1, StoreRefines
  <2>2. CASE UNCHANGED <<spoolVars, drops, cfg, pushed, fateVars, eventVars>>
    BY <2>2, QueueStutters DEF fateVars
  <2> QED
    BY <1>2, <2>1, <2>2 DEF SampleTick
<1>2a. CASE LiveSampleTick
  <2>1. CASE Store(<<"SAMPLE">> \o DropEvent)
    BY <2>1, StoreRefines
  <2>2. CASE UNCHANGED <<spoolVars, drops, cfg, pushed, fateVars>>
    BY <2>2, QueueStutters DEF fateVars
  <2> QED
    BY <1>2a, <2>1, <2>2 DEF LiveSampleTick
<1>3. ASSUME NEW n \in 0..cnt, NEW k \in 0..n, FlushStdio(n, k)
      PROVE  Spool!LQNext
  BY <1>3, AdvanceRefines DEF FlushStdio
<1>4. CASE FlushStdioOk
  <2>1. cnt \in 0..cnt
    BY DEF IndInv, TypeOK
  <2> QED
    BY <1>3, <1>4, <2>1 DEF FlushStdioOk
<1>5. CASE FlushStdioFails
  BY <1>3, <1>5 DEF FlushStdioFails
<1>6. CASE FlushHttpOk
  <2>1. PICK n \in Batches : PostOk(n)
    BY <1>6 DEF FlushHttpOk
  <2>2. n \in 0..cnt /\ n \in 0..n
    BY DEF Batches, IndInv, TypeOK
  <2> QED
    BY <2>1, <2>2, AdvanceRefines DEF PostOk
<1>7. CASE FlushHttpFails
  BY <1>7, PostFailsRefines DEF FlushHttpFails
<1>8. CASE \E i \in 1..Len(failed) : CollectorStores(i)
  BY <1>8, CollectorStoresRefines
<1>9. CASE ApplyConfig
  <2>1. PICK req \in Requests :
          \/ ConfigInvalid(req)
          \/ ConfigNoMemory(req)
          \/ \E mode \in Modes : ConfigSameSize(req, mode) \/ ConfigResize(req, mode)
    BY <1>9 DEF ApplyConfig
  <2>2. CASE ConfigInvalid(req)
    BY <2>2, QueueStutters DEF ConfigInvalid, fateVars
  <2>3. CASE ConfigNoMemory(req)
    <3>1. 0 \in 0..HardLines
      BY DEF CoreAssumption
    <3> QED
      BY <2>3, <3>1, ReleaseRefines DEF ConfigNoMemory
  <2>4. ASSUME NEW mode \in Modes, ConfigSameSize(req, mode)
        PROVE  UNCHANGED Spool!lqVars
    BY <2>4, QueueStutters DEF ConfigSameSize, fateVars
  <2>5. ASSUME NEW mode \in Modes, ConfigResize(req, mode)
        PROVE  Spool!LQNext
    <3>1. Wanted(req) \in 0..HardLines
      BY <2>5 DEF ConfigResize, Valid, CoreAssumption
    <3> QED
      BY <2>5, <3>1, ReleaseRefines DEF ConfigResize
  <2> QED
    BY <2>1, <2>2, <2>3, <2>4, <2>5
<1>10. CASE NextEvent
  BY <1>10, QueueStutters DEF NextEvent, fateVars
<1>11. CASE UNCHANGED vars
  BY <1>11, QueueStutters DEF vars, fateVars
<1> QED
  BY <1>1, <1>2, <1>2a, <1>4, <1>5, <1>6, <1>7, <1>8, <1>9, <1>10, <1>11 DEF Next

(* The agent's ring, for every capacity, batch size and reload, implements *)
(* the bounded drop-oldest queue of LineQueue.                             *)
THEOREM SpoolRefines == Spec => SpoolSpec
<1>1. Init => Spool!LQInit
  <2>1. SUFFICES ASSUME Init PROVE Spool!LQInit
    OBVIOUS
  <2>2. IndInv /\ cnt = 0
    BY <2>1, CoreAssumption, InitIndInv DEF Init
  <2>3. Held = Span(Base, 0) /\ Base \in Nat
    BY <2>2, HeldIsSpan
  <2>4. Len(Span(Base, 0)) = 0 /\ Span(Base, 0) \in Seq(Nat)
    BY <2>3, SpanType
  <2>5. Held = <<>>
    BY <2>3, <2>4, EmptySeq
  <2> QED
    BY <2>1, <2>5 DEF Init, Spool!LQInit
<1>2. IndInv /\ IndInv' /\ [Next]_vars => [Spool!LQNext]_(Spool!lqVars)
  BY CoreAssumption, NextRefines
<1> QED
  BY <1>1, <1>2, CoreInvariant, PTL DEF Spec, SpoolSpec, Spool!LQSpec
-----------------------------------------------------------------------------
(***************************************************************************)
(* What becomes of a line.  LossAccounted and SinkInOrder are not          *)
(* inductive: a body in doubt may reach the sink at any time, so what such *)
(* bodies hold has to be known too.                                        *)
(***************************************************************************)
(* A line is in a body that was reported failed and stored all the same. *)
StoredIn(posts, x) ==
  \E k \in 1..Len(posts) : posts[k].stored /\ x \in LinesOf(posts[k].body)

(* A body in doubt holds accepted lines and, of those still in the ring,   *)
(* all up to its newest.                                                   *)
BodiesKnown ==
  \A k \in 1..Len(failed) : \A x \in LinesOf(failed[k].body) :
    x \in 1..pushed /\ \A y \in (Base + 1)..x : y \in LinesOf(failed[k].body)

(* A line in the sink has left the ring, or was in a body in doubt. *)
SinkKnown ==
  \A i \in 1..Len(sink) : sink[i] <= Base \/ StoredIn(failed, sink[i])

FateInv == LossAccounted /\ SinkInOrder /\ BodiesKnown /\ SinkKnown

(* The lines of a concatenation are the lines of its parts. *)
LEMMA LinesConcat ==
  ASSUME NEW s \in Seq(Nat), NEW t \in Seq(Nat)
  PROVE  LinesOf(s \o t) = LinesOf(s) \cup LinesOf(t)
<1>1. /\ Len(s) \in Nat /\ Len(t) \in Nat /\ Len(s \o t) = Len(s) + Len(t)
      /\ \A i \in 1..(Len(s) + Len(t)) :
           (s \o t)[i] = IF i <= Len(s) THEN s[i] ELSE t[i - Len(s)]
  BY ConcatProperties, LenProperties
<1>2. ASSUME NEW x \in LinesOf(s \o t) PROVE x \in LinesOf(s) \cup LinesOf(t)
  <2>1. PICK i \in 1..(Len(s) + Len(t)) : x = (s \o t)[i]
    BY <1>1 DEF LinesOf
  <2>2. CASE i <= Len(s)
    <3>1. i \in 1..Len(s) /\ x = s[i]
      BY <1>1, <2>1, <2>2
    <3> QED
      BY <3>1 DEF LinesOf
  <2>3. CASE i > Len(s)
    <3>1. i - Len(s) \in 1..Len(t) /\ x = t[i - Len(s)]
      BY <1>1, <2>1, <2>3
    <3> QED
      BY <3>1 DEF LinesOf
  <2> QED
    BY <1>1, <2>2, <2>3
<1>3. ASSUME NEW x \in LinesOf(s) PROVE x \in LinesOf(s \o t)
  <2>1. PICK i \in 1..Len(s) : x = s[i]
    BY DEF LinesOf
  <2>2. i \in 1..(Len(s) + Len(t)) /\ x = (s \o t)[i]
    BY <1>1, <2>1
  <2> QED
    BY <1>1, <2>2 DEF LinesOf
<1>4. ASSUME NEW x \in LinesOf(t) PROVE x \in LinesOf(s \o t)
  <2>1. PICK i \in 1..Len(t) : x = t[i]
    BY DEF LinesOf
  <2> DEFINE j == i + Len(s)
  <2>2. j \in 1..(Len(s) + Len(t)) /\ x = (s \o t)[j]
    BY <1>1, <2>1
  <2> HIDE DEF j
  <2> QED
    BY <1>1, <2>2 DEF LinesOf
<1> QED
  BY <1>2, <1>3, <1>4

(* The lines in the ring are the newest ones, the lines a flush takes are  *)
(* the oldest of these.                                                    *)
LEMMA HeldLines ==
  ASSUME IndInv, NEW k \in 0..cnt
  PROVE  /\ LinesOf(Held) = (Base + 1)..pushed
         /\ Taken(k) = Span(Base, k) /\ Taken(k) \in Seq(Nat) /\ Len(Taken(k)) = k
         /\ LinesOf(Taken(k)) = (Base + 1)..(Base + k)
<1>1. cnt \in Nat /\ pushed \in Nat /\ Base \in Nat /\ Held = Span(Base, cnt) /\ k \in Nat
  BY HeldIsSpan
<1>2. Base + cnt = pushed
  BY <1>1 DEF Base
<1>3. LinesOf(Span(Base, cnt)) = (Base + 1)..(Base + cnt)
  BY <1>1, SpanSeq
<1>4. SubSeq(Span(Base, cnt), 1, k) = Span(Base, k)
  BY <1>1, SpanSeq
<1>5. LinesOf(Span(Base, k)) = (Base + 1)..(Base + k)
  BY <1>1, SpanSeq
<1>6. Span(Base, k) \in Seq(Nat) /\ Len(Span(Base, k)) = k
  BY <1>1, SpanType
<1> QED
  BY <1>1, <1>2, <1>3, <1>4, <1>5, <1>6 DEF Taken

(* The same of the ring after a step. *)
LEMMA HeldLinesPrime ==
  ASSUME IndInv'
  PROVE  LinesOf(Held)' = (Base' + 1)..pushed'
<1>1. cnt' \in Nat /\ pushed' \in Nat /\ Base' \in Nat /\ Held' = Span(Base', cnt')
  BY HeldPrime
<1>2. Base' + cnt' = pushed'
  <2>1. \A p, c \in Nat : (p - c) + c = p
    OBVIOUS
  <2> QED
    BY <1>1, <2>1 DEF Base
<1>3. LinesOf(Span(Base', cnt')) = (Base' + 1)..(Base' + cnt')
  BY <1>1, SpanSeq
<1>4. LinesOf(Held)' = LinesOf(Held')
  BY DEF LinesOf
<1> QED
  BY <1>1, <1>2, <1>3, <1>4

(* A push accounts for the new line, and for the oldest one when the ring  *)
(* is full.                                                                *)
LEMMA StoreLoss ==
  ASSUME CoreAssumption, IndInv, IndInv', LossAccounted, NEW events, Store(events)
  PROVE  LossAccounted'
<1>1. /\ cnt \in Nat /\ pushed \in Nat /\ Base \in Nat /\ cnt <= pushed
      /\ \A i \in 1..cnt : LineAt(i) = Base + i
  BY HeldIsSpan
<1>2. LinesOf(Held) = (Base + 1)..pushed /\ LinesOf(Held)' = (Base' + 1)..pushed'
  <2>1. cnt \in 0..cnt
    BY <1>1
  <2> QED
    BY <2>1, HeldLines, HeldLinesPrime
<1>3. /\ pushed' = pushed + 1 /\ cap > 0 /\ cap \in Nat /\ cnt <= cap
      /\ sink' = sink /\ wiped' = wiped /\ unwritten' = unwritten
      /\ LinesOf(sink)' = LinesOf(sink) /\ head \in 0..(cap - 1)
  BY DEF IndInv, TypeOK, RingShape, Store, LinesOf
<1>4. /\ 1..pushed = ((Base + 1)..pushed) \cup LinesOf(sink) \cup dropped \cup wiped \cup unwritten
      /\ Cardinality(dropped) = drops
      /\ (dropped \cup wiped \cup unwritten) \cap ((Base + 1)..pushed) = {}
  BY <1>2 DEF LossAccounted
<1>5. IsFiniteSet(dropped)
  <2>1. dropped \in SUBSET (1..pushed) /\ 1 \in Int /\ pushed \in Int
    BY <1>1, <1>4
  <2>2. IsFiniteSet(1..pushed)
    BY <2>1, FS_Interval
  <2> QED
    BY <2>1, <2>2, FS_Subset
<1>6. CASE Full
  <2>1. /\ cnt = cap /\ cnt' = cap /\ drops' = drops + 1
        /\ dropped' = dropped \cup {ring[head]}
    BY <1>1, <1>3, <1>6 DEF Full, Store
  <2>2. ring[head] = Base + 1
    <3>1. LineAt(1) = ring[head]
      <4>1. (head + 1 - 1) % cap = head
        BY <1>3
      <4> QED
        BY <4>1 DEF LineAt
    <3> QED
      BY <1>1, <1>3, <2>1, <3>1
  <2>3. Base' = Base + 1 /\ Base + 1 \in (Base + 1)..pushed
    BY <1>1, <1>3, <2>1 DEF Base
  <2>4. Base + 1 \notin dropped
    BY <1>4, <2>3
  <2>5. Cardinality(dropped') = drops'
    BY <1>4, <1>5, <2>1, <2>2, <2>4, FS_AddElement
  <2>6. 1..(pushed + 1) = ((Base + 1 + 1)..(pushed + 1)) \cup LinesOf(sink) \cup (dropped \cup {Base + 1})
                             \cup wiped \cup unwritten
    <3>1. 1..(pushed + 1) = (1..pushed) \cup {pushed + 1}
      BY <1>1
    <3>2. ((Base + 1)..pushed) \cup {pushed + 1} = ((Base + 1 + 1)..(pushed + 1)) \cup {Base + 1}
      BY <1>1, <2>3
    <3> QED
      BY <1>4, <3>1, <3>2
  <2>7. ((dropped \cup {Base + 1}) \cup wiped \cup unwritten) \cap ((Base + 1 + 1)..(pushed + 1)) = {}
    <3>1. \A x \in dropped \cup wiped \cup unwritten : x \in 1..pushed /\ x \notin (Base + 1)..pushed
      BY <1>4
    <3>2. \A x \in 1..pushed : x \notin (Base + 1)..pushed => x \notin (Base + 1 + 1)..(pushed + 1)
      BY <1>1
    <3>3. Base + 1 \notin (Base + 1 + 1)..(pushed + 1)
      BY <1>1
    <3> QED
      BY <3>1, <3>2, <3>3
  <2> QED
    BY <1>2, <1>3, <2>1, <2>2, <2>3, <2>5, <2>6, <2>7 DEF LossAccounted
<1>7. CASE ~Full
  <2>1. cnt' = cnt + 1 /\ drops' = drops /\ dropped' = dropped
    BY <1>7 DEF Full, Store
  <2>2. Base' = Base
    BY <1>1, <1>3, <2>1 DEF Base
  <2>3. 1..(pushed + 1) = ((Base + 1)..(pushed + 1)) \cup LinesOf(sink) \cup dropped \cup wiped \cup unwritten
    <3>1. 1..(pushed + 1) = (1..pushed) \cup {pushed + 1}
      BY <1>1
    <3>2. (Base + 1)..(pushed + 1) = ((Base + 1)..pushed) \cup {pushed + 1}
      BY <1>1 DEF Base
    <3> QED
      BY <1>4, <3>1, <3>2
  <2>4. (dropped \cup wiped \cup unwritten) \cap ((Base + 1)..(pushed + 1)) = {}
    <3>1. \A x \in dropped \cup wiped \cup unwritten : x \in 1..pushed /\ x \notin (Base + 1)..pushed
      BY <1>4
    <3>2. \A x \in 1..pushed : x \notin (Base + 1)..pushed => x \notin (Base + 1)..(pushed + 1)
      BY <1>1
    <3> QED
      BY <3>1, <3>2
  <2> QED
    BY <1>2, <1>3, <1>4, <2>1, <2>2, <2>3, <2>4 DEF LossAccounted
<1> QED
  BY <1>6, <1>7

(* A flush moves the lines it takes to the sink, or to the unwritten ones. *)
LEMMA FlushLoss ==
  ASSUME IndInv, IndInv', LossAccounted, NEW n \in 0..cnt, NEW k \in 0..n,
         Advance(n), sink' = sink \o Taken(k),
         unwritten' = unwritten \cup (LinesOf(Taken(n)) \ LinesOf(Taken(k))),
         UNCHANGED <<pushed, drops, dropped, wiped>>
  PROVE  LossAccounted'
<1>1. /\ cnt \in Nat /\ pushed \in Nat /\ Base \in Nat /\ cnt <= pushed
      /\ n \in Nat /\ k \in Nat /\ k \in 0..cnt /\ Base + n <= pushed
  BY HeldIsSpan DEF Base
<1>2. /\ LinesOf(Held) = (Base + 1)..pushed /\ LinesOf(Held)' = (Base' + 1)..pushed'
      /\ LinesOf(Taken(n)) = (Base + 1)..(Base + n)
      /\ LinesOf(Taken(k)) = (Base + 1)..(Base + k) /\ Taken(k) \in Seq(Nat)
  BY <1>1, HeldLines, HeldLinesPrime
<1>3. Base' = Base + n
  BY <1>1 DEF Base, Advance
<1>4. LinesOf(sink)' = LinesOf(sink) \cup ((Base + 1)..(Base + k))
  <2>1. sink \in Seq(Nat)
    BY DEF IndInv, TypeOK
  <2>2. LinesOf(sink)' = LinesOf(sink \o Taken(k))
    BY DEF LinesOf
  <2> QED
    BY <1>2, <2>1, <2>2, LinesConcat
<1>5. /\ 1..pushed = ((Base + 1)..pushed) \cup LinesOf(sink) \cup dropped \cup wiped \cup unwritten
      /\ Cardinality(dropped) = drops
      /\ (dropped \cup wiped \cup unwritten) \cap ((Base + 1)..pushed) = {}
  BY <1>2 DEF LossAccounted
<1>6. /\ (Base + 1)..pushed = ((Base + n + 1)..pushed) \cup ((Base + 1)..(Base + n))
      /\ (Base + 1)..(Base + k) \subseteq (Base + 1)..(Base + n)
      /\ ((Base + 1)..(Base + n)) \cap ((Base + n + 1)..pushed) = {}
  BY <1>1
<1>7. /\ 1..pushed = ((Base + n + 1)..pushed) \cup LinesOf(sink)' \cup dropped \cup wiped \cup unwritten'
      /\ (dropped \cup wiped \cup unwritten') \cap ((Base + n + 1)..pushed) = {}
  BY <1>2, <1>4, <1>5, <1>6
<1> QED
  BY <1>2, <1>3, <1>5, <1>7 DEF LossAccounted

(* free_spool accounts for what it throws away. *)
LEMMA ReleaseLoss ==
  ASSUME IndInv, IndInv', LossAccounted, NEW c, Release(c),
         UNCHANGED <<pushed, drops, dropped, sink, unwritten>>
  PROVE  LossAccounted'
<1>1. pushed \in Nat /\ pushed' = pushed /\ cnt' = 0
  BY HeldIsSpan DEF Release
<1>2. Base' = pushed
  BY <1>1 DEF Base
<1>3. LinesOf(Held)' = {}
  <2>1. LinesOf(Held)' = (pushed + 1)..pushed
    BY <1>1, <1>2, HeldLinesPrime
  <2> QED
    BY <1>1, <2>1
<1>4. wiped' = wiped \cup LinesOf(Held) /\ LinesOf(sink)' = LinesOf(sink)
  BY DEF Release, LinesOf
<1> QED
  BY <1>3, <1>4 DEF LossAccounted

(* A body in doubt is a sequence of line numbers. *)
LEMMA BodyType ==
  ASSUME TypeOK, NEW i \in 1..Len(failed)
  PROVE  failed[i].body \in Seq(Nat)
<1> DEFINE Post == [body : Seq(Nat), stored : BOOLEAN]
<1>1. failed \in Seq(Post)
  BY DEF TypeOK
<1>2. failed[i] \in Post
  BY <1>1, ElementOfSeq
<1> QED
  BY <1>2

(* A body stored late brings accepted lines only. *)
LEMMA CollectorLoss ==
  ASSUME IndInv, LossAccounted, BodiesKnown, NEW i \in 1..Len(failed), CollectorStores(i)
  PROVE  LossAccounted'
<1>1. failed[i].body \in Seq(Nat) /\ sink \in Seq(Nat)
  BY BodyType DEF IndInv, TypeOK
<1>2. LinesOf(failed[i].body) \subseteq 1..pushed
  BY DEF BodiesKnown
<1>3. LinesOf(sink)' = LinesOf(sink) \cup LinesOf(failed[i].body)
  <2>1. LinesOf(sink)' = LinesOf(sink \o failed[i].body)
    BY DEF CollectorStores, LinesOf
  <2> QED
    BY <1>1, <2>1, LinesConcat
<1>4. LinesOf(Held)' = LinesOf(Held)
  BY DEF CollectorStores, LinesOf, Held, LineAt, spoolVars
<1>5. UNCHANGED <<pushed, drops, dropped, wiped, unwritten>>
  BY DEF CollectorStores
<1> QED
  BY <1>2, <1>3, <1>4, <1>5 DEF LossAccounted

(* What neither writes to the sink nor posts, and loses no line from the   *)
(* middle of the ring, keeps what is known of bodies and sink.             *)
LEMMA QuietOrder ==
  ASSUME FateInv, Base \in Int, Base' \in Int, pushed \in Int, pushed' \in Int,
         Base <= Base', pushed <= pushed', sink \in Seq(Nat), failed' = failed, sink' = sink
  PROVE  SinkInOrder' /\ BodiesKnown' /\ SinkKnown'
<1>1. SinkInOrder'
  BY DEF FateInv, SinkInOrder, LinesOf
<1>2. \A x : StoredIn(failed', x) <=> StoredIn(failed, x)
  BY DEF StoredIn, LinesOf
<1>3. SinkKnown'
  <2>1. ASSUME NEW i \in 1..Len(sink) PROVE sink[i] <= Base' \/ StoredIn(failed', sink[i])
    <3>1. sink[i] \in Nat
      BY ElementOfSeq
    <3> QED
      BY <1>2, <3>1 DEF FateInv, SinkKnown
  <2> QED
    BY <2>1 DEF SinkKnown
<1>4. BodiesKnown'
  <2>1. ASSUME NEW k \in 1..Len(failed), NEW x \in LinesOf(failed[k].body)
        PROVE  x \in 1..pushed' /\ \A y \in (Base' + 1)..x : y \in LinesOf(failed[k].body)
    <3>1. x \in 1..pushed /\ \A y \in (Base + 1)..x : y \in LinesOf(failed[k].body)
      BY DEF FateInv, BodiesKnown
    <3>2. x \in 1..pushed'
      BY <3>1
    <3>3. \A y \in (Base' + 1)..x : y \in (Base + 1)..x
      <4>1. \A a, b, z \in Int : a <= b => \A y \in (b + 1)..z : y \in (a + 1)..z
        OBVIOUS
      <4>2. x \in Int
        BY <3>1
      <4> QED
        BY <4>1, <4>2
    <3> QED
      BY <3>1, <3>2, <3>3
  <2> QED
    BY <2>1 DEF BodiesKnown
<1> QED
  BY <1>1, <1>3, <1>4

(* A flush writes lines newer than any in the sink, except those that came *)
(* in a body in doubt.                                                     *)
LEMMA FlushOrder ==
  ASSUME IndInv, FateInv, NEW n \in 0..cnt, NEW k \in 0..n, Advance(n),
         sink' = sink \o Taken(k), UNCHANGED <<pushed, failed>>
  PROVE  SinkInOrder' /\ BodiesKnown' /\ SinkKnown'
<1> DEFINE L == Len(sink)
<1>1. /\ cnt \in Nat /\ pushed \in Nat /\ Base \in Nat /\ cnt <= pushed
      /\ n \in Nat /\ k \in Nat /\ k \in 0..cnt
  BY HeldIsSpan DEF Base
<1>2. Base' = Base + n
  BY <1>1 DEF Base, Advance
<1>3. /\ sink \in Seq(Nat) /\ L \in Nat /\ Len(sink') = L + k
      /\ \A i \in 1..L : sink'[i] = sink[i] /\ sink[i] \in Nat
      /\ \A i \in (L + 1)..(L + k) : sink'[i] = Base + (i - L)
  <2>1. Taken(k) = Span(Base, k) /\ Taken(k) \in Seq(Nat) /\ Len(Taken(k)) = k
    BY <1>1, HeldLines
  <2>2. sink \in Seq(Nat) /\ L \in Nat
    BY LenProperties DEF IndInv, TypeOK
  <2>3. /\ Len(sink') = L + k
        /\ \A i \in 1..(L + k) : sink'[i] = IF i <= L THEN sink[i] ELSE Taken(k)[i - L]
    <3> DEFINE new == Taken(k)
    <3>1. new \in Seq(Nat) /\ Len(new) = k /\ sink' = sink \o new
      BY <2>1
    <3> HIDE DEF new, L
    <3>2. /\ Len(sink \o new) = Len(sink) + Len(new)
          /\ \A i \in 1..(Len(sink) + Len(new)) :
               (sink \o new)[i] = IF i <= Len(sink) THEN sink[i] ELSE new[i - Len(sink)]
      BY <2>2, <3>1, ConcatProperties
    <3> QED
      BY <3>1, <3>2 DEF new, L
  <2>4. \A j \in 1..k : Taken(k)[j] = Base + j
    <3>1. \A j \in 1..k : Span(Base, k)[j] = Base + j
      BY DEF Span
    <3> QED
      BY <2>1, <3>1
  <2>5. \A i \in 1..L : sink[i] \in Nat
    BY <2>2, ElementOfSeq
  <2> HIDE DEF L
  <2>6. ASSUME NEW i \in (L + 1)..(L + k) PROVE sink'[i] = Base + (i - L)
    <3>1. i - L \in 1..k /\ i \in 1..(L + k) /\ ~(i <= L)
      BY <1>1, <2>2
    <3> QED
      BY <2>3, <2>4, <3>1
  <2>7. ASSUME NEW i \in 1..L PROVE sink'[i] = sink[i]
    <3>1. i \in 1..(L + k) /\ i <= L
      BY <1>1, <2>2
    <3> QED
      BY <2>3, <3>1
  <2> QED
    BY <2>2, <2>3, <2>5, <2>6, <2>7 DEF L
<1> HIDE DEF L
<1>4. \A x : StoredIn(failed', x) <=> StoredIn(failed, x)
  BY DEF StoredIn, LinesOf
<1>5. ASSUME NEW i \in 1..L, NEW y \in (Base + 1)..sink[i]
      PROVE  StoredIn(failed, y)
  <2>1. sink[i] > Base
    BY <1>1, <1>3
  <2>2. StoredIn(failed, sink[i])
    BY <1>1, <1>3, <2>1 DEF FateInv, SinkKnown, L
  <2>3. PICK m \in 1..Len(failed) : failed[m].stored /\ sink[i] \in LinesOf(failed[m].body)
    BY <2>2 DEF StoredIn
  <2>4. y \in LinesOf(failed[m].body)
    BY <2>3 DEF FateInv, BodiesKnown
  <2> QED
    BY <2>3, <2>4 DEF StoredIn
<1>6. SinkInOrder'
  <2>1. ASSUME NEW i \in 1..(L + k), NEW j \in 1..(L + k), i < j, sink'[j] <= sink'[i]
        PROVE  StoredIn(failed, sink'[j])
    <3>1. CASE j <= L
      <4>1. i \in 1..L /\ j \in 1..L
        BY <1>1, <1>3, <2>1, <3>1
      <4>2. sink[j] <= sink[i]
        BY <1>3, <2>1, <4>1
      <4>3. StoredIn(failed, sink[j])
        BY <2>1, <4>1, <4>2 DEF FateInv, SinkInOrder, StoredIn, L
      <4> QED
        BY <1>3, <4>1, <4>3
    <3>2. CASE j > L /\ i <= L
      <4>1. i \in 1..L /\ j \in (L + 1)..(L + k)
        BY <1>1, <1>3, <3>2
      <4>2. sink'[j] = Base + (j - L) /\ sink'[i] = sink[i] /\ sink[i] \in Nat
        BY <1>3, <4>1
      <4>3. sink'[j] \in (Base + 1)..sink[i]
        BY <1>1, <1>3, <2>1, <4>1, <4>2
      <4> QED
        BY <1>5, <4>1, <4>3
    <3>3. CASE j > L /\ i > L
      <4>1. i \in (L + 1)..(L + k) /\ j \in (L + 1)..(L + k)
        BY <1>1, <1>3, <3>3
      <4>2. sink'[j] = Base + (j - L) /\ sink'[i] = Base + (i - L)
        BY <1>3, <4>1
      <4> QED
        BY <1>1, <1>3, <2>1, <4>1, <4>2
    <3> QED
      BY <1>1, <1>3, <3>1, <3>2, <3>3
  <2>2. \A x : StoredIn(failed, x) => \E m \in 1..Len(failed') :
                               failed'[m].stored /\ x \in LinesOf(failed'[m].body)
    BY DEF StoredIn
  <2> QED
    BY <1>3, <2>1, <2>2 DEF SinkInOrder
<1>7. SinkKnown'
  <2>1. ASSUME NEW i \in 1..(L + k) PROVE sink'[i] <= Base' \/ StoredIn(failed, sink'[i])
    <3>1. CASE i <= L
      <4>1. i \in 1..L
        BY <1>1, <1>3, <3>1
      <4>2. sink[i] <= Base \/ StoredIn(failed, sink[i])
        BY <4>1 DEF FateInv, SinkKnown, L
      <4> QED
        BY <1>1, <1>2, <1>3, <4>1, <4>2
    <3>2. CASE i > L
      <4>1. sink'[i] = Base + (i - L) /\ i - L <= k
        BY <1>1, <1>3, <3>2
      <4> QED
        BY <1>1, <1>2, <1>3, <4>1
    <3> QED
      BY <1>1, <1>3, <3>1, <3>2
  <2> QED
    BY <1>3, <1>4, <2>1 DEF SinkKnown
<1>8. BodiesKnown'
  <2>1. ASSUME NEW m \in 1..Len(failed), NEW x \in LinesOf(failed[m].body)
        PROVE  x \in 1..pushed /\ \A y \in (Base' + 1)..x : y \in LinesOf(failed[m].body)
    <3>1. x \in 1..pushed /\ \A y \in (Base + 1)..x : y \in LinesOf(failed[m].body)
      BY DEF FateInv, BodiesKnown
    <3> QED
      BY <1>1, <1>2, <3>1
  <2> QED
    BY <2>1 DEF BodiesKnown
<1> QED
  BY <1>6, <1>7, <1>8

(* A failed POST puts the oldest lines of the ring in doubt. *)
LEMMA PostFailsOrder ==
  ASSUME IndInv, FateInv, NEW n \in Batches, PostFails(n)
  PROVE  SinkInOrder' /\ BodiesKnown' /\ SinkKnown'
<1> DEFINE F == Len(failed)
           Post == [body : Seq(Nat), stored : BOOLEAN]
           new == [body |-> Taken(n), stored |-> FALSE]
<1>1. /\ cnt \in Nat /\ pushed \in Nat /\ Base \in Nat /\ n \in 0..cnt /\ Base + n <= pushed
  BY HeldIsSpan DEF Batches, Base
<1>2. UNCHANGED <<Base, pushed, sink>>
  BY DEF PostFails, Base, spoolVars
<1>3. Taken(n) \in Seq(Nat) /\ LinesOf(Taken(n)) = (Base + 1)..(Base + n)
  BY <1>1, HeldLines
<1>4. /\ F \in Nat /\ Len(failed') = F + 1
      /\ \A m \in 1..F : failed'[m] = failed[m]
      /\ failed'[F + 1] = new
  <2>1. new \in Post /\ failed \in Seq(Post) /\ failed' = Append(failed, new)
    BY <1>3 DEF IndInv, TypeOK, PostFails
  <2>2. F \in Nat
    BY <2>1, LenProperties
  <2> HIDE DEF Post, new
  <2> QED
    BY <2>1, <2>2, AppendProperties
<1>5. new.body = Taken(n)
  OBVIOUS
<1> HIDE DEF F, new
<1>6. ASSUME NEW x, StoredIn(failed, x) PROVE StoredIn(failed', x)
  <2>1. PICK m \in 1..F : failed[m].stored /\ x \in LinesOf(failed[m].body)
    BY <1>6 DEF StoredIn, F
  <2>2. m \in 1..Len(failed') /\ failed'[m] = failed[m]
    BY <1>4, <2>1
  <2> QED
    BY <2>1, <2>2 DEF StoredIn
<1>7. SinkInOrder'
  <2>1. \A i, j \in 1..Len(sink) : i < j /\ sink[j] <= sink[i] => StoredIn(failed, sink[j])
    BY DEF FateInv, SinkInOrder, StoredIn
  <2>2. \A x : StoredIn(failed', x) => \E m \in 1..Len(failed') :
                               failed'[m].stored /\ x \in LinesOf(failed'[m].body)
    BY DEF StoredIn
  <2> QED
    BY <1>2, <1>6, <2>1, <2>2 DEF SinkInOrder
<1>8. SinkKnown'
  <2>1. \A i \in 1..Len(sink) : sink[i] <= Base \/ StoredIn(failed, sink[i])
    BY DEF FateInv, SinkKnown
  <2>2. \A i \in 1..Len(sink) : sink[i] <= Base \/ StoredIn(failed', sink[i])
    BY <1>6, <2>1
  <2> QED
    BY <1>2, <2>2 DEF SinkKnown
<1>9. BodiesKnown'
  <2>1. ASSUME NEW m \in 1..(F + 1), NEW x \in LinesOf(failed'[m].body)
        PROVE  x \in 1..pushed /\ \A y \in (Base + 1)..x : y \in LinesOf(failed'[m].body)
    <3>1. CASE m \in 1..F
      BY <1>4, <3>1 DEF FateInv, BodiesKnown, F
    <3>2. CASE m = F + 1
      <4>1. LinesOf(failed'[m].body) = (Base + 1)..(Base + n)
        BY <1>3, <1>4, <1>5, <3>2
      <4> QED
        BY <1>1, <4>1
    <3> QED
      BY <1>4, <3>1, <3>2
  <2> QED
    BY <1>2, <1>4, <2>1 DEF BodiesKnown
<1> QED
  BY <1>7, <1>8, <1>9

(* A body stored late may come after newer lines; each of its lines was    *)
(* then in doubt.                                                          *)
LEMMA CollectorOrder ==
  ASSUME IndInv, FateInv, NEW i \in 1..Len(failed), CollectorStores(i)
  PROVE  SinkInOrder' /\ BodiesKnown' /\ SinkKnown'
<1> DEFINE F == Len(failed)
           L == Len(sink)
           b == failed[i].body
           Post == [body : Seq(Nat), stored : BOOLEAN]
           new == [body |-> b, stored |-> TRUE]
<1>1. UNCHANGED <<Base, pushed>>
  BY DEF CollectorStores, Base, spoolVars
<1>2. b \in Seq(Nat) /\ sink \in Seq(Nat) /\ L \in Nat /\ Len(b) \in Nat
  BY BodyType, LenProperties DEF IndInv, TypeOK
<1>3. /\ Len(failed') = F /\ \A m \in 1..F : failed'[m] = IF m = i THEN new ELSE failed[m]
  <2>1. new \in Post /\ failed \in Seq(Post) /\ failed' = [failed EXCEPT ![i] = new]
    BY <1>2 DEF IndInv, TypeOK, CollectorStores
  <2> HIDE DEF Post, new
  <2> QED
    BY <2>1, ExceptSeq
<1>4. new.body = b /\ new.stored
  OBVIOUS
<1>5. /\ Len(sink') = L + Len(b)
      /\ \A j \in 1..(L + Len(b)) : sink'[j] = IF j <= L THEN sink[j] ELSE b[j - L]
  BY <1>2, ConcatProperties DEF CollectorStores
<1> HIDE DEF F, L, b, new
<1>6. \A m \in 1..F : LinesOf(failed'[m].body) = LinesOf(failed[m].body)
  BY <1>3, <1>4 DEF b
<1>7. ASSUME NEW x, StoredIn(failed, x) PROVE StoredIn(failed', x)
  <2>1. PICK m \in 1..F : failed[m].stored /\ x \in LinesOf(failed[m].body)
    BY <1>7 DEF StoredIn, F
  <2>2. failed'[m].stored /\ x \in LinesOf(failed'[m].body)
    BY <1>3, <1>4, <1>6, <2>1
  <2> QED
    BY <1>3, <2>2 DEF StoredIn
<1>8. ASSUME NEW j \in (L + 1)..(L + Len(b)) PROVE StoredIn(failed', sink'[j])
  <2>1. j - L \in 1..Len(b) /\ sink'[j] = b[j - L]
    BY <1>2, <1>5
  <2>2. sink'[j] \in LinesOf(b)
    BY <2>1 DEF LinesOf
  <2>3. i \in 1..F /\ failed'[i].stored /\ sink'[j] \in LinesOf(failed'[i].body)
    BY <1>3, <1>4, <2>2 DEF F
  <2> QED
    BY <1>3, <2>3 DEF StoredIn
<1>9. SinkInOrder'
  <2>1. ASSUME NEW j \in 1..(L + Len(b)), NEW h \in 1..(L + Len(b)), h < j, sink'[j] <= sink'[h]
        PROVE  StoredIn(failed', sink'[j])
    <3>1. CASE j <= L
      <4>1. j \in 1..L /\ h \in 1..L /\ sink'[j] = sink[j] /\ sink'[h] = sink[h]
        BY <1>2, <1>5, <2>1, <3>1
      <4>2. StoredIn(failed, sink[j])
        BY <2>1, <4>1 DEF FateInv, SinkInOrder, StoredIn, L
      <4> QED
        BY <1>7, <4>1, <4>2
    <3>2. CASE j > L
      BY <1>2, <1>8, <3>2
    <3> QED
      BY <1>2, <3>1, <3>2
  <2>2. \A x : StoredIn(failed', x) => \E m \in 1..Len(failed') :
                               failed'[m].stored /\ x \in LinesOf(failed'[m].body)
    BY DEF StoredIn
  <2> QED
    BY <1>5, <2>1, <2>2 DEF SinkInOrder
<1>10. SinkKnown'
  <2>1. ASSUME NEW j \in 1..(L + Len(b)) PROVE sink'[j] <= Base \/ StoredIn(failed', sink'[j])
    <3>1. CASE j <= L
      <4>1. j \in 1..L /\ sink'[j] = sink[j]
        BY <1>2, <1>5, <3>1
      <4>2. sink[j] <= Base \/ StoredIn(failed, sink[j])
        BY <4>1 DEF FateInv, SinkKnown, L
      <4> QED
        BY <1>7, <4>1, <4>2
    <3>2. CASE j > L
      BY <1>2, <1>8, <3>2
    <3> QED
      BY <1>2, <3>1, <3>2
  <2> QED
    BY <1>1, <1>5, <2>1 DEF SinkKnown
<1>11. BodiesKnown'
  <2>1. \A m \in 1..F : \A x \in LinesOf(failed[m].body) :
          x \in 1..pushed /\ \A y \in (Base + 1)..x : y \in LinesOf(failed[m].body)
    BY DEF FateInv, BodiesKnown, F
  <2> QED
    BY <1>1, <1>3, <1>6, <2>1 DEF BodiesKnown
<1> QED
  BY <1>9, <1>10, <1>11
-----------------------------------------------------------------------------
(* The places of the drop notices in a queue of events. *)
Notices(q) == {i \in 1..Len(q) : q[i] = "DROP"}

(* The notices in a queue are finitely many. *)
LEMMA NoticesFinite ==
  ASSUME NEW q \in Seq(Events)
  PROVE  IsFiniteSet(Notices(q)) /\ Cardinality(Notices(q)) \in Nat
<1>1. Len(q) \in Nat /\ Notices(q) \in SUBSET (1..Len(q))
  BY LenProperties DEF Notices
<1>2. IsFiniteSet(1..Len(q))
  BY <1>1, FS_Interval
<1>3. IsFiniteSet(Notices(q))
  BY <1>1, <1>2, FS_Subset
<1> QED
  BY <1>3, FS_CardinalityType

(* Handing out the oldest event takes its notice, if it is one, and moves  *)
(* the others up.                                                          *)
LEMMA NoticesTail ==
  ASSUME NEW q \in Seq(Events), q # <<>>
  PROVE  Cardinality(Notices(q))
           = Cardinality(Notices(Tail(q))) + (IF Head(q) = "DROP" THEN 1 ELSE 0)
<1> DEFINE S == Notices(q) \ {1}
           T == Notices(Tail(q))
           f == [i \in S |-> i - 1]
<1>1. /\ Len(q) \in Nat \ {0} /\ Tail(q) \in Seq(Events) /\ Len(Tail(q)) = Len(q) - 1
      /\ \A i \in 1..(Len(q) - 1) : Tail(q)[i] = q[i + 1]
      /\ Head(q) = q[1]
  BY HeadTailProperties, EmptySeq
<1>2. \A i \in S : i \in 2..Len(q) /\ q[i] = "DROP"
  BY <1>1 DEF Notices
<1>3. \A i \in T : i \in 1..(Len(q) - 1) /\ q[i + 1] = "DROP"
  BY <1>1 DEF Notices
<1>4. \A i \in S : i - 1 \in T
  <2>1. ASSUME NEW i \in S PROVE i - 1 \in T
    <3>1. i \in 2..Len(q) /\ q[i] = "DROP"
      BY <1>2
    <3>2. i - 1 \in 1..(Len(q) - 1) /\ (i - 1) + 1 = i
      BY <1>1, <3>1
    <3>3. Tail(q)[i - 1] = "DROP"
      BY <1>1, <3>1, <3>2
    <3> QED
      BY <1>1, <3>2, <3>3 DEF Notices
  <2> QED
    BY <2>1
<1>5. \A j \in T : j + 1 \in S /\ (j + 1) - 1 = j
  <2>1. ASSUME NEW j \in T PROVE j + 1 \in S /\ (j + 1) - 1 = j
    <3>1. j \in 1..(Len(q) - 1) /\ q[j + 1] = "DROP"
      BY <1>3
    <3>2. j + 1 \in 1..Len(q) /\ j + 1 # 1
      BY <1>1, <3>1
    <3> QED
      BY <3>1, <3>2 DEF Notices
  <2> QED
    BY <2>1
<1>6. S \subseteq Int
  BY <1>2
<1> HIDE DEF S, T
<1>7. f \in Bijection(S, T)
  <2>1. f \in [S -> T]
    BY <1>4
  <2>2. \A a, b \in S : f[a] = f[b] => a = b
    BY <1>6
  <2>3. \A t \in T : \E s \in S : f[s] = t
    BY <1>5
  <2> QED
    BY <2>1, <2>2, <2>3 DEF Bijection, Injection, Surjection, IsInjective
<1>8. IsFiniteSet(Notices(q)) /\ IsFiniteSet(S) /\ Cardinality(Notices(q)) \in Nat
      /\ Cardinality(S) = IF 1 \in Notices(q) THEN Cardinality(Notices(q)) - 1
                                              ELSE Cardinality(Notices(q))
  BY NoticesFinite, FS_RemoveElement DEF S
<1>9. Cardinality(T) = Cardinality(S)
  BY <1>7, <1>8, FS_Bijection DEF ExistsBijection
<1>10. 1 \in Notices(q) <=> Head(q) = "DROP"
  BY <1>1 DEF Notices
<1> QED
  BY <1>8, <1>9, <1>10 DEF T

(* A handler reports at most one drop, at some place p of its list: behind *)
(* the queue comes one more notice if that event fits, none otherwise.     *)
LEMMA NoticesNotify ==
  ASSUME CoreAssumption, TypeOK, NEW events \in Seq(Events), Notify(events),
         NEW p \in Nat \ {0},
         \A i \in 1..Len(events) : i # p => events[i] # "DROP"
  PROVE  LET d == IF p <= Len(events) /\ events[p] = "DROP" THEN 1 ELSE 0
             W == Cardinality(Notices(eq))
         IN  /\ W \in Nat /\ told' = told
             /\ Cardinality(Notices(eq')) \in W..(W + d)
             /\ ~overrun' => ~overrun /\ Cardinality(Notices(eq')) = W + d
<1> DEFINE room == EventQ - Len(eq)
           kept == IF Len(events) <= room THEN Len(events) ELSE room
           d == IF p <= Len(events) /\ events[p] = "DROP" THEN 1 ELSE 0
           W == Cardinality(Notices(eq))
           s == SubSeq(events, 1, kept)
           L == Len(eq)
<1>1. /\ eq \in Seq(Events) /\ L <= EventQ /\ L \in Nat
      /\ Len(events) \in Nat /\ EventQ \in Nat
  BY LenProperties DEF TypeOK, CoreAssumption
<1>2. kept \in 0..Len(events) /\ kept \in Nat
  BY <1>1
<1>3. eq' = eq \o s /\ told' = told /\ (~overrun' => ~overrun /\ kept = Len(events))
  <2>1. eq' = eq \o s /\ told' = told /\ overrun' = (overrun \/ kept < Len(events))
    BY DEF Notify
  <2> HIDE DEF kept, s
  <2>2. ~(kept < Len(events)) => kept = Len(events)
    BY <1>1, <1>2
  <2>3. ~overrun' => ~overrun /\ ~(kept < Len(events))
    BY <2>1, Zenon
  <2> QED
    BY <2>1, <2>2, <2>3, Zenon
<1> HIDE DEF kept
<1>4. \A i \in 1..kept : events[i] \in Events
  BY <1>1, <1>2, ElementOfSeq
<1>5. s \in Seq(Events) /\ Len(s) = kept /\ \A i \in 1..kept : s[i] = events[i]
  <2>1. /\ s \in Seq(Events) /\ Len(s) = IF 1 <= kept THEN kept - 1 + 1 ELSE 0
        /\ \A i \in 1..(kept - 1 + 1) : s[i] = events[1 + i - 1]
    BY <1>2, <1>4, SubSeqProperties
  <2> HIDE DEF s
  <2>2. Len(s) = kept /\ kept - 1 + 1 = kept /\ \A i \in 1..kept : 1 + i - 1 = i
    BY <1>2, <2>1
  <2> QED
    BY <2>1, <2>2
<1>6. /\ Len(eq \o s) = L + kept
      /\ \A i \in 1..(L + kept) : (eq \o s)[i] = IF i <= L THEN eq[i] ELSE events[i - L]
  <2>1. /\ Len(eq \o s) = L + Len(s)
        /\ \A i \in 1..(L + Len(s)) : (eq \o s)[i] = IF i <= L THEN eq[i] ELSE s[i - L]
    BY <1>1, <1>5, ConcatProperties
  <2> HIDE DEF s
  <2>2. \A i \in 1..(L + kept) : ~(i <= L) => i - L \in 1..kept
    BY <1>1, <1>2
  <2> QED
    BY <1>5, <2>1, <2>2
<1> HIDE DEF s, L
<1>7. \A i \in 1..(L + kept) : ~(i <= L) /\ i # L + p => events[i - L] # "DROP"
  <2>1. ASSUME NEW i \in 1..(L + kept), ~(i <= L), i # L + p PROVE i - L \in 1..Len(events) /\ i - L # p
    BY <1>1, <1>2, <2>1
  <2> QED
    BY <2>1
<1>8. IsFiniteSet(Notices(eq)) /\ W \in Nat /\ L + p \notin Notices(eq)
  BY <1>1, NoticesFinite DEF Notices, L
<1>9. CASE p <= kept /\ events[p] = "DROP"
  <2>1. L + p \in 1..(L + kept) /\ (L + p) - L = p /\ ~(L + p <= L)
    BY <1>1, <1>2, <1>9
  <2>2. Notices(eq \o s) = Notices(eq) \cup {L + p}
    <3>1. (eq \o s)[L + p] = "DROP"
      BY <1>6, <1>9, <2>1
    <3>2. ASSUME NEW i \in 1..(L + kept), i # L + p
          PROVE  (eq \o s)[i] = "DROP" <=> i \in 1..L /\ eq[i] = "DROP"
      <4>1. CASE i <= L
        BY <1>1, <1>6, <4>1
      <4>2. CASE ~(i <= L)
        <5>1. (eq \o s)[i] = events[i - L]
          BY <1>6, <4>2
        <5>2. events[i - L] # "DROP"
          BY <1>7, <3>2, <4>2
        <5>3. i \notin 1..L
          BY <1>1, <4>2
        <5> QED
          BY <5>1, <5>2, <5>3
      <4> QED
        BY <4>1, <4>2
    <3>3. \A i \in 1..L : i \in 1..(L + kept) /\ i # L + p
      BY <1>1, <1>2
    <3> QED
      BY <1>6, <2>1, <3>1, <3>2, <3>3 DEF Notices, L
  <2>3. Cardinality(Notices(eq \o s)) = W + 1
    BY <1>8, <2>2, FS_AddElement
  <2>4. d = 1
    BY <1>2, <1>9
  <2> QED
    BY <1>3, <1>8, <2>3, <2>4
<1>10. CASE ~(p <= kept /\ events[p] = "DROP")
  <2>1. Notices(eq \o s) = Notices(eq)
    <3>1. ASSUME NEW i \in 1..(L + kept)
          PROVE  (eq \o s)[i] = "DROP" <=> i \in 1..L /\ eq[i] = "DROP"
      <4>1. CASE i <= L
        BY <1>1, <1>6, <4>1
      <4>2. CASE i = L + p
        <5>1. i - L = p /\ p <= kept /\ ~(i <= L)
          BY <1>1, <1>2, <4>2
        <5> QED
          BY <1>6, <1>10, <5>1
      <4>3. CASE ~(i <= L) /\ i # L + p
        <5>1. (eq \o s)[i] = events[i - L]
          BY <1>6, <4>3
        <5>2. events[i - L] # "DROP"
          BY <1>7, <4>3
        <5>3. i \notin 1..L
          BY <1>1, <4>3
        <5> QED
          BY <5>1, <5>2, <5>3
      <4> QED
        BY <4>1, <4>2, <4>3
    <3>2. \A i \in 1..L : i \in 1..(L + kept)
      BY <1>1, <1>2
    <3> QED
      BY <1>6, <3>1, <3>2 DEF Notices, L
  <2>2. kept = Len(events) => d = 0
    BY <1>10
  <2>3. d \in 0..1
    OBVIOUS
  <2> HIDE DEF d, W
  <2>4. Cardinality(Notices(eq')) = W
    BY <1>3, <2>1 DEF W
  <2>5. W \in W..(W + d) /\ (kept = Len(events) => W = W + d)
    BY <1>8, <2>2, <2>3
  <2> QED
    BY <1>3, <1>8, <2>4, <2>5 DEF d, W
<1> QED
  BY <1>9, <1>10

(* The host's count stays right when a handler counts a drop exactly if it *)
(* reports one.                                                            *)
LEMMA DropsNotify ==
  ASSUME CoreAssumption, TypeOK, DropsTold, NEW events \in Seq(Events), Notify(events),
         NEW p \in Nat \ {0},
         \A i \in 1..Len(events) : i # p => events[i] # "DROP",
         drops' = drops + (IF p <= Len(events) /\ events[p] = "DROP" THEN 1 ELSE 0)
  PROVE  DropsTold'
<1> DEFINE d == IF p <= Len(events) /\ events[p] = "DROP" THEN 1 ELSE 0
           W == Cardinality(Notices(eq))
           V == Cardinality(Notices(eq'))
<1>1. /\ W \in Nat /\ told' = told /\ V \in W..(W + d)
      /\ (~overrun' => ~overrun /\ V = W + d)
  BY NoticesNotify
<1>2. d \in 0..1 /\ told \in Nat /\ drops \in Nat /\ drops' = drops + d
  BY DEF TypeOK
<1>3. told + W <= drops /\ (~overrun => told + W = drops)
  BY DEF DropsTold, Notices
<1> HIDE DEF d, W, V
<1>4. told + V <= drops + d
  BY <1>1, <1>2, <1>3
<1>5. ~overrun' => told + V = drops + d
  BY <1>1, <1>2, <1>3
<1> QED
  BY <1>1, <1>2, <1>4, <1>5 DEF DropsTold, Notices, V

(* A push reports a drop exactly when it counts one. *)
LEMMA StoreDrops ==
  ASSUME CoreAssumption, TypeOK, DropsTold, NEW events \in Reports, Store(events)
  PROVE  DropsTold'
<1>1. Notify(events) /\ drops' = (IF Full THEN drops + 1 ELSE drops) /\ drops \in Nat
  BY DEF Store, TypeOK
<1>2. PICK p \in Nat \ {0} :
        /\ \A i \in 1..Len(events) : i # p => events[i] # "DROP"
        /\ (p <= Len(events) /\ events[p] = "DROP") <=> Full
  BY ReportShape
<1>3. drops' = drops + (IF p <= Len(events) /\ events[p] = "DROP" THEN 1 ELSE 0)
  BY <1>1, <1>2
<1>4. events \in Seq(Events)
  BY ReportShape
<1> QED
  BY <1>1, <1>2, <1>3, <1>4, DropsNotify

(* apply_config, and a sample no ring takes, report no drop and count none. *)
LEMMA ConfigDrops ==
  ASSUME CoreAssumption, TypeOK, DropsTold, drops' = drops,
         NEW events \in {<<"REJECTED">>, <<"APPLIED">>, <<"SAMPLE">>,
                         <<"NEED_ALLOC", "REJECTED">>},
         Notify(events)
  PROVE  DropsTold'
<1>1. events \in Seq(Events) /\ Len(events) \in Nat
      /\ \A i \in 1..Len(events) : events[i] # "DROP"
  <2>1. /\ "REJECTED" \in Events /\ "APPLIED" \in Events /\ "NEED_ALLOC" \in Events
        /\ "SAMPLE" \in Events
    BY DEF Events
  <2>2. /\ <<"REJECTED">> \in Seq(Events) /\ <<"APPLIED">> \in Seq(Events)
        /\ <<"SAMPLE">> \in Seq(Events)
        /\ <<"NEED_ALLOC", "REJECTED">> \in Seq(Events)
    BY <2>1, SmallSeq
  <2>3. CASE events = <<"REJECTED">>
    BY <2>2, <2>3
  <2>4. CASE events = <<"APPLIED">>
    BY <2>2, <2>4
  <2>5. CASE events = <<"NEED_ALLOC", "REJECTED">>
    BY <2>2, <2>5
  <2>6. CASE events = <<"SAMPLE">>
    BY <2>2, <2>6
  <2> QED
    BY <2>3, <2>4, <2>5, <2>6
<1>2. ~(1 <= Len(events) /\ events[1] = "DROP") /\ 1 \in Nat \ {0}
  BY <1>1
<1>3. drops' = drops + (IF 1 <= Len(events) /\ events[1] = "DROP" THEN 1 ELSE 0)
  BY <1>2 DEF TypeOK
<1> QED
  BY <1>1, <1>2, <1>3, DropsNotify

(* An event the host takes changes from waiting to told. *)
LEMMA NextEventDrops ==
  ASSUME TypeOK, DropsTold, NextEvent
  PROVE  DropsTold'
<1>1. eq \in Seq(Events) /\ eq # <<>> /\ eq' = Tail(eq) /\ Tail(eq) \in Seq(Events)
  BY HeadTailProperties DEF TypeOK, NextEvent
<1>2. Cardinality(Notices(eq))
        = Cardinality(Notices(eq')) + (IF Head(eq) = "DROP" THEN 1 ELSE 0)
  BY <1>1, NoticesTail
<1>3. Cardinality(Notices(eq)) \in Nat /\ Cardinality(Notices(eq')) \in Nat
  BY <1>1, NoticesFinite
<1>4. /\ told' = told + (IF Head(eq) = "DROP" THEN 1 ELSE 0)
      /\ overrun' = overrun /\ drops' = drops /\ told \in Nat /\ drops \in Nat
  BY DEF NextEvent, TypeOK
<1>5. /\ told + Cardinality(Notices(eq)) <= drops
      /\ ~overrun => told + Cardinality(Notices(eq)) = drops
  BY DEF DropsTold, Notices
<1>6. told' + Cardinality(Notices(eq')) = told + Cardinality(Notices(eq))
  BY <1>2, <1>3, <1>4
<1> QED
  BY <1>4, <1>5, <1>6 DEF DropsTold, Notices

(***************************************************************************)
(* The second invariant: what becomes of every line, what the host hears   *)
(* and that ring and configuration agree.  It is inductive relative to     *)
(* IndInv.                                                                 *)
(***************************************************************************)
AccountInv == FateInv /\ DropsTold /\ CapMatchesConfig

(* An agent just created has nothing to account for. *)
LEMMA InitAccount ==
  ASSUME CoreAssumption, Init
  PROVE  AccountInv
<1>1. IndInv
  BY InitIndInv
<1>2. cnt = 0 /\ pushed = 0 /\ Base = 0
  BY DEF Init, Base
<1>3. LinesOf(Held) = {}
  <2>1. cnt \in 0..cnt
    BY <1>2
  <2>2. LinesOf(Held) = (Base + 1)..pushed
    BY <1>1, <2>1, HeldLines
  <2> QED
    BY <1>2, <2>2
<1>4. Len(sink) = 0 /\ Len(failed) = 0 /\ Len(eq) = 0 /\ LinesOf(sink) = {}
  BY EmptySeq DEF Init, LinesOf
<1>5. LossAccounted
  BY <1>2, <1>3, <1>4, FS_EmptySet DEF Init, LossAccounted
<1>6. SinkInOrder /\ BodiesKnown /\ SinkKnown
  BY <1>4 DEF SinkInOrder, BodiesKnown, SinkKnown
<1>7. DropsTold
  <2>1. Notices(eq) = {}
    BY <1>4 DEF Notices
  <2>2. Cardinality(Notices(eq)) = 0
    BY <2>1, FS_EmptySet
  <2> QED
    BY <2>2 DEF DropsTold, Notices, Init
<1>8. CapMatchesConfig
  BY DEF Init, CapMatchesConfig
<1> QED
  BY <1>5, <1>6, <1>7, <1>8 DEF AccountInv, FateInv

(* A push accounts for its lines and reports its drop. *)
LEMMA StoreAccount ==
  ASSUME CoreAssumption, IndInv, IndInv', AccountInv,
         NEW events \in Reports, Store(events)
  PROVE  AccountInv'
<1>1. FateInv /\ LossAccounted /\ DropsTold /\ TypeOK
  BY DEF AccountInv, FateInv, IndInv
<1>2. /\ cnt \in Nat /\ pushed \in Nat /\ Base \in Nat /\ pushed' \in Nat /\ Base' \in Nat
  BY HeldIsSpan, HeldPrime
<1>3. pushed' = pushed + 1 /\ cnt' \in {cnt, cnt + 1} /\ failed' = failed /\ sink' = sink
  BY DEF Store
<1>4. Base <= Base' /\ pushed <= pushed'
  <2>1. \A p, c \in Nat : p - c <= (p + 1) - c /\ p - c <= (p + 1) - (c + 1) /\ p <= p + 1
    OBVIOUS
  <2> QED
    BY <1>2, <1>3, <2>1 DEF Base
<1>5. SinkInOrder' /\ BodiesKnown' /\ SinkKnown'
  BY <1>1, <1>2, <1>3, <1>4, QuietOrder DEF TypeOK
<1>6. LossAccounted'
  BY <1>1, StoreLoss
<1>7. DropsTold'
  BY <1>1, StoreDrops
<1>8. CapMatchesConfig'
  BY DEF AccountInv, CapMatchesConfig, Store
<1> QED
  BY <1>5, <1>6, <1>7, <1>8 DEF AccountInv, FateInv

(* A flush that advances the ring accounts for what it took. *)
LEMMA FlushAccount ==
  ASSUME IndInv, IndInv', AccountInv, NEW n \in 0..cnt, NEW k \in 0..n,
         Advance(n), sink' = sink \o Taken(k),
         unwritten' = unwritten \cup (LinesOf(Taken(n)) \ LinesOf(Taken(k))),
         UNCHANGED <<pushed, drops, dropped, wiped, failed, cfg, eventVars>>
  PROVE  AccountInv'
<1>1. FateInv /\ LossAccounted
  BY DEF AccountInv, FateInv
<1>2. SinkInOrder' /\ BodiesKnown' /\ SinkKnown'
  BY <1>1, FlushOrder
<1>3. LossAccounted'
  BY <1>1, FlushLoss
<1>4. DropsTold' /\ CapMatchesConfig'
  BY DEF AccountInv, DropsTold, CapMatchesConfig, eventVars, Advance
<1> QED
  BY <1>2, <1>3, <1>4 DEF AccountInv, FateInv

(* What leaves ring, sink and causes of loss alone leaves the account of   *)
(* losses alone.                                                           *)
LEMMA LossStutters ==
  ASSUME LossAccounted, UNCHANGED <<spoolVars, drops, pushed, sink, dropped, wiped, unwritten>>
  PROVE  LossAccounted'
<1>1. Held' = Held
  BY DEF Held, LineAt, spoolVars
<1> QED
  BY <1>1 DEF LossAccounted

(* What leaves lines, sink and posts alone leaves their account alone. *)
LEMMA FateStutters ==
  ASSUME IndInv, FateInv, UNCHANGED <<spoolVars, drops, pushed, fateVars>>
  PROVE  FateInv'
<1>1. LossAccounted'
  BY LossStutters DEF FateInv, fateVars
<1>2. SinkInOrder'
  BY DEF FateInv, SinkInOrder, fateVars
<1>3. Base' = Base
  BY DEF Base, spoolVars
<1>4. BodiesKnown' /\ SinkKnown'
  BY <1>3 DEF FateInv, BodiesKnown, SinkKnown, fateVars
<1> QED
  BY <1>1, <1>2, <1>4 DEF FateInv

(* A released ring is accounted for, and no line moves ahead of another. *)
LEMMA ReleaseFate ==
  ASSUME IndInv, IndInv', FateInv, NEW c, Release(c),
         UNCHANGED <<drops, pushed, sink, dropped, unwritten, failed>>
  PROVE  FateInv'
<1>1. LossAccounted'
  BY ReleaseLoss DEF FateInv
<1>2. /\ cnt \in Nat /\ pushed \in Nat /\ Base \in Nat /\ pushed' \in Nat /\ Base' \in Nat
  BY HeldIsSpan, HeldPrime
<1>3. Base <= Base' /\ pushed <= pushed'
  BY <1>2 DEF Base, Release
<1>4. SinkInOrder' /\ BodiesKnown' /\ SinkKnown'
  BY <1>2, <1>3, QuietOrder DEF IndInv, TypeOK
<1> QED
  BY <1>1, <1>4 DEF FateInv

(* apply_config keeps the account on each of its four paths; only where it *)
(* installs a ring does it store the configuration.                        *)
LEMMA ConfigAccount ==
  ASSUME CoreAssumption, IndInv, IndInv', AccountInv, ApplyConfig
  PROVE  AccountInv'
<1>0. FateInv /\ DropsTold /\ TypeOK /\ CapMatchesConfig
  BY DEF AccountInv, IndInv
<1>1. PICK req \in Requests :
        \/ ConfigInvalid(req)
        \/ ConfigNoMemory(req)
        \/ \E mode \in Modes : ConfigSameSize(req, mode) \/ ConfigResize(req, mode)
  BY DEF ApplyConfig
<1>2. CASE ConfigInvalid(req)
  <2>1. FateInv'
    BY <1>0, <1>2, FateStutters DEF ConfigInvalid
  <2>2. DropsTold'
    BY <1>0, <1>2, ConfigDrops DEF ConfigInvalid
  <2>3. CapMatchesConfig'
    BY <1>0, <1>2 DEF ConfigInvalid, CapMatchesConfig, spoolVars
  <2> QED
    BY <2>1, <2>2, <2>3 DEF AccountInv
<1>3. CASE ConfigNoMemory(req)
  <2>1. FateInv'
    BY <1>0, <1>3, ReleaseFate DEF ConfigNoMemory
  <2>2. DropsTold'
    BY <1>0, <1>3, ConfigDrops DEF ConfigNoMemory
  <2>3. CapMatchesConfig'
    BY <1>3 DEF ConfigNoMemory, Release, CapMatchesConfig
  <2> QED
    BY <2>1, <2>2, <2>3 DEF AccountInv
<1>4. ASSUME NEW mode \in Modes, ConfigSameSize(req, mode)
      PROVE  AccountInv'
  <2>1. FateInv'
    BY <1>0, <1>4, FateStutters DEF ConfigSameSize
  <2>2. DropsTold'
    BY <1>0, <1>4, ConfigDrops DEF ConfigSameSize, Accepted
  <2>3. CapMatchesConfig'
    BY <1>4 DEF ConfigSameSize, Accepted, CapMatchesConfig, spoolVars
  <2> QED
    BY <2>1, <2>2, <2>3 DEF AccountInv
<1>5. ASSUME NEW mode \in Modes, ConfigResize(req, mode)
      PROVE  AccountInv'
  <2>1. FateInv'
    BY <1>0, <1>5, ReleaseFate DEF ConfigResize
  <2>2. DropsTold'
    BY <1>0, <1>5, ConfigDrops DEF ConfigResize, Accepted
  <2>3. CapMatchesConfig'
    BY <1>5 DEF ConfigResize, Release, Accepted, CapMatchesConfig
  <2> QED
    BY <2>1, <2>2, <2>3 DEF AccountInv
<1> QED
  BY <1>1, <1>2, <1>3, <1>4, <1>5

(* Every step of the agent core keeps the account. *)
LEMMA NextAccount ==
  ASSUME CoreAssumption, IndInv, IndInv', AccountInv, [Next]_vars
  PROVE  AccountInv'
<1>0. FateInv /\ LossAccounted /\ DropsTold /\ CapMatchesConfig /\ TypeOK
  BY DEF AccountInv, FateInv, IndInv
<1>1. CASE PushLine
  BY <1>1, StoreAccount DEF PushLine, Reports
<1>2. CASE SampleTick
  <2>1. CASE Store(DropEvent \o <<"SAMPLE">>)
    BY <2>1, StoreAccount DEF Reports
  <2>2. CASE UNCHANGED <<spoolVars, drops, cfg, pushed, fateVars, eventVars>>
    <3>1. FateInv'
      BY <1>0, <2>2, FateStutters
    <3>2. DropsTold' /\ CapMatchesConfig'
      BY <1>0, <2>2 DEF DropsTold, CapMatchesConfig, eventVars, spoolVars
    <3> QED
      BY <3>1, <3>2 DEF AccountInv
  <2> QED
    BY <1>2, <2>1, <2>2 DEF SampleTick
<1>2a. CASE LiveSampleTick
  <2>1. CASE Store(<<"SAMPLE">> \o DropEvent)
    BY <2>1, StoreAccount DEF Reports
  <2>2. CASE Notify(<<"SAMPLE">>) /\ UNCHANGED <<spoolVars, drops, cfg, pushed, fateVars>>
    <3>1. FateInv'
      BY <1>0, <2>2, FateStutters
    <3>2. DropsTold'
      BY <1>0, <2>2, ConfigDrops
    <3>3. CapMatchesConfig'
      BY <1>0, <2>2 DEF CapMatchesConfig, spoolVars
    <3> QED
      BY <3>1, <3>2, <3>3 DEF AccountInv
  <2> QED
    BY <1>2a, <2>1, <2>2 DEF LiveSampleTick
<1>3. ASSUME NEW n \in 0..cnt, NEW k \in 0..n, FlushStdio(n, k)
      PROVE  AccountInv'
  BY <1>3, FlushAccount DEF FlushStdio
<1>4. CASE FlushStdioOk
  <2>1. cnt \in 0..cnt
    BY <1>0 DEF TypeOK
  <2> QED
    BY <1>3, <1>4, <2>1 DEF FlushStdioOk
<1>5. CASE FlushStdioFails
  BY <1>3, <1>5 DEF FlushStdioFails
<1>6. CASE FlushHttpOk
  <2>1. PICK n \in Batches : PostOk(n)
    BY <1>6 DEF FlushHttpOk
  <2>2. n \in 0..cnt /\ n \in 0..n
    BY <1>0 DEF Batches, TypeOK
  <2>3. unwritten' = unwritten \cup (LinesOf(Taken(n)) \ LinesOf(Taken(n)))
    BY <2>1 DEF PostOk
  <2> QED
    BY <2>1, <2>2, <2>3, FlushAccount DEF PostOk
<1>7. CASE FlushHttpFails
  <2>1. PICK n \in Batches : PostFails(n)
    BY <1>7 DEF FlushHttpFails
  <2>2. SinkInOrder' /\ BodiesKnown' /\ SinkKnown'
    BY <1>0, <2>1, PostFailsOrder
  <2>3. LossAccounted'
    BY <1>0, <2>1, LossStutters DEF PostFails
  <2>4. DropsTold' /\ CapMatchesConfig'
    BY <1>0, <2>1 DEF PostFails, DropsTold, CapMatchesConfig, eventVars, spoolVars
  <2> QED
    BY <2>2, <2>3, <2>4 DEF AccountInv, FateInv
<1>8. CASE \E i \in 1..Len(failed) : CollectorStores(i)
  <2>1. PICK i \in 1..Len(failed) : CollectorStores(i)
    BY <1>8
  <2>2. SinkInOrder' /\ BodiesKnown' /\ SinkKnown'
    BY <1>0, <2>1, CollectorOrder
  <2>3. LossAccounted'
    BY <1>0, <2>1, CollectorLoss DEF FateInv
  <2>4. DropsTold' /\ CapMatchesConfig'
    BY <1>0, <2>1 DEF CollectorStores, DropsTold, CapMatchesConfig, eventVars, spoolVars
  <2> QED
    BY <2>2, <2>3, <2>4 DEF AccountInv, FateInv
<1>9. CASE ApplyConfig
  BY <1>9, ConfigAccount
<1>10. CASE NextEvent
  <2>1. FateInv'
    BY <1>0, <1>10, FateStutters DEF NextEvent
  <2>2. DropsTold'
    BY <1>0, <1>10, NextEventDrops
  <2>3. CapMatchesConfig'
    BY <1>0, <1>10 DEF NextEvent, CapMatchesConfig, spoolVars
  <2> QED
    BY <2>1, <2>2, <2>3 DEF AccountInv
<1>11. CASE UNCHANGED vars
  <2>1. FateInv'
    BY <1>0, <1>11, FateStutters DEF vars
  <2>2. DropsTold' /\ CapMatchesConfig'
    BY <1>0, <1>11 DEF DropsTold, CapMatchesConfig, vars, eventVars, spoolVars
  <2> QED
    BY <2>1, <2>2 DEF AccountInv
<1> QED
  BY <1>1, <1>2, <1>2a, <1>4, <1>5, <1>6, <1>7, <1>8, <1>9, <1>10, <1>11 DEF Next

(* The account holds in every reachable state. *)
THEOREM AccountInvariant == Spec => []AccountInv
<1>1. Init => AccountInv
  BY CoreAssumption, InitAccount
<1>2. IndInv /\ IndInv' /\ AccountInv /\ [Next]_vars => AccountInv'
  BY CoreAssumption, NextAccount
<1> QED
  BY <1>1, <1>2, CoreInvariant, PTL DEF Spec

(* No line of the agent disappears without a recorded cause, and           *)
(* spool_drops counts the lines a full ring dropped.                       *)
THEOREM LossAccountedHolds == Spec => []LossAccounted
<1>1. AccountInv => LossAccounted
  BY DEF AccountInv, FateInv
<1> QED
  BY <1>1, AccountInvariant, PTL

(* A line reaches the sink twice, or late, only through a POST that was    *)
(* reported failed and stored all the same.                                *)
THEOREM SinkInOrderHolds == Spec => []SinkInOrder
<1>1. AccountInv => SinkInOrder
  BY DEF AccountInv, FateInv
<1> QED
  BY <1>1, AccountInvariant, PTL

(* The host hears of every drop, unless its event queue overran. *)
THEOREM DropsToldHolds == Spec => []DropsTold
<1>1. AccountInv => DropsTold
  BY DEF AccountInv
<1> QED
  BY <1>1, AccountInvariant, PTL

(* The ring has the size of the configuration in force. *)
THEOREM CapMatchesConfigHolds == Spec => []CapMatchesConfig
<1>1. AccountInv => CapMatchesConfig
  BY DEF AccountInv
<1> QED
  BY <1>1, AccountInvariant, PTL
=============================================================================
