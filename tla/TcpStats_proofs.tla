--------------------------- MODULE TcpStats_proofs ---------------------------
(***************************************************************************)
(* tcp_stats.c: for every size of the tables and of the ring of SYNs, and  *)
(* however often rows are evicted or the prefix length changes, no address *)
(* and no network has two rows, the rows add up to the totals, and the     *)
(* count of retransmitted SYNs is exact while the ring holds every tuple   *)
(* and never too high.                                                     *)
(***************************************************************************)
EXTENDS TcpStats, SequenceTheorems, FiniteSetTheorems, WellFoundedInduction, TLAPS

(* A set of numbers that is not empty has a least element. *)
LEMMA LeastExists ==
  ASSUME NEW S \in SUBSET Nat, S # {}
  PROVE  \E i \in S : \A j \in S : i <= j
<1>1. PICK i \in S : \A j \in S : <<j, i>> \notin OpToRel(<, Nat)
  BY NatLessThanWellFounded, WFMin
<1>2. \A j \in S : i <= j
  <2>1. ASSUME NEW j \in S, j < i PROVE <<j, i>> \in OpToRel(<, Nat)
    BY <2>1 DEF OpToRel
  <2>2. \A j \in S : ~(j < i)
    BY <1>1, <2>1
  <2> QED
    BY <2>2
<1> QED
  BY <1>2

(* So Min picks one of its elements. *)
LEMMA MinIsMember ==
  ASSUME NEW S \in SUBSET Nat, S # {}
  PROVE  Min(S) \in S
BY LeastExists DEF Min

(* A function over 1..k is a sequence of that length. *)
LEMMA SeqOf ==
  ASSUME NEW S, NEW k \in Nat, NEW f \in [1..k -> S]
  PROVE  f \in Seq(S) /\ Len(f) = k
OBVIOUS

(***************************************************************************)
(* Sums of a column.                                                       *)
(***************************************************************************)
(* What holds at 0 and passes on from each number to the next holds up to n. *)
LEMMA UpwardFrom0 ==
  ASSUME NEW n \in Nat, NEW A, 0 \in A, \A k \in 0..(n - 1) : k \in A => k + 1 \in A
  PROVE  \A k \in 0..n : k \in A
<1> DEFINE bad == {k \in 0..n : k \notin A}
<1> SUFFICES ASSUME bad # {} PROVE FALSE
  OBVIOUS
<1>1. bad \in SUBSET Nat
  OBVIOUS
<1>2. PICK k \in bad : \A j \in bad : k <= j
  BY <1>1, LeastExists
<1>3. k - 1 \in 0..(n - 1) /\ k - 1 \notin bad
  BY <1>2
<1>4. (k - 1) + 1 \in A
  BY <1>3
<1> QED
  BY <1>2, <1>4

(* The partial sums of a column. *)
Partial(s, col, n) == s = [k \in 0..n |-> IF k = 0 THEN 0 ELSE s[k - 1] + col[k]]

LEMMA PartialExists ==
  ASSUME NEW col \in Seq(Nat)
  PROVE  \E s \in [0..Len(col) -> Nat] : Partial(s, col, Len(col))
<1> DEFINE A == {n \in 0..Len(col) : \E s \in [0..n -> Nat] : Partial(s, col, n)}
<1>1. Len(col) \in Nat /\ \A k \in 1..Len(col) : col[k] \in Nat
  BY ElementOfSeq, LenProperties
<1>2. 0 \in A
  <2> DEFINE s == [k \in 0..0 |-> 0]
  <2>1. s \in [0..0 -> Nat]
    OBVIOUS
  <2>2. Partial(s, col, 0)
    BY DEF Partial
  <2> QED
    BY <1>1, <2>1, <2>2
<1>3. ASSUME NEW n \in 0..(Len(col) - 1), n \in A PROVE n + 1 \in A
  <2>1. PICK s \in [0..n -> Nat] : Partial(s, col, n)
    BY <1>3
  <2> DEFINE t == [k \in 0..(n + 1) |-> IF k = n + 1 THEN s[n] + col[n + 1] ELSE s[k]]
  <2>2. n \in Nat /\ n + 1 \in 1..Len(col) /\ s[n] + col[n + 1] \in Nat
    BY <1>1, <2>1
  <2>3. t \in [0..(n + 1) -> Nat]
    BY <2>1, <2>2
  <2>4. ASSUME NEW k \in 0..(n + 1)
        PROVE  t[k] = IF k = 0 THEN 0 ELSE t[k - 1] + col[k]
    <3>1. CASE k = n + 1
      <4>1. k - 1 = n /\ n \in 0..(n + 1) /\ n # n + 1 /\ k # 0
        BY <2>2, <3>1
      <4> QED
        BY <3>1, <4>1
    <3>2. CASE k # n + 1
      <4>1. k \in 0..n
        BY <2>2, <3>2
      <4>2. s[k] = IF k = 0 THEN 0 ELSE s[k - 1] + col[k]
        BY <2>1, <4>1 DEF Partial
      <4>3. t[k] = s[k] /\ (k # 0 => t[k - 1] = s[k - 1])
        BY <2>2, <3>2, <4>1
      <4> QED
        BY <4>2, <4>3
    <3> QED
      BY <3>1, <3>2
  <2> HIDE DEF t
  <2>5. Partial(t, col, n + 1)
    BY <2>3, <2>4 DEF Partial
  <2>6. \E r \in [0..(n + 1) -> Nat] : Partial(r, col, n + 1)
    BY <2>3, <2>5
  <2>7. n + 1 \in 0..Len(col)
    BY <1>1, <2>2
  <2> QED
    BY <2>6, <2>7
<1> HIDE DEF A
<1>4. \A k \in 0..Len(col) : k \in A
  BY <1>1, <1>2, <1>3, UpwardFrom0
<1>5. Len(col) \in A
  BY <1>1, <1>4
<1> QED
  BY <1>5 DEF A

(* SumOf returns the last of the partial sums. *)
LEMMA SumPartial ==
  ASSUME NEW col \in Seq(Nat), NEW n \in Nat, Len(col) = n
  PROVE  \E s \in [0..n -> Nat] :
           /\ SumOf(col) = s[n] /\ s[0] = 0
           /\ \A k \in 1..n : s[k] = s[k - 1] + col[k]
<1> DEFINE s == CHOOSE f : f = [k \in 0..n |-> IF k = 0 THEN 0 ELSE f[k - 1] + col[k]]
<1>1. n \in Nat /\ \A k \in 1..n : col[k] \in Nat
  BY ElementOfSeq
<1>2. SumOf(col) = s[n]
  BY DEF SumOf
<1>3. \E r \in [0..Len(col) -> Nat] : Partial(r, col, Len(col))
  BY PartialExists
<1>4. \E f : f = [k \in 0..n |-> IF k = 0 THEN 0 ELSE f[k - 1] + col[k]]
  BY <1>3 DEF Partial
<1>5. s = [k \in 0..n |-> IF k = 0 THEN 0 ELSE s[k - 1] + col[k]]
  BY <1>4
<1> HIDE DEF s
<1>6. \A k \in 0..n : s[k] = IF k = 0 THEN 0 ELSE s[k - 1] + col[k]
  BY <1>5
<1>7. s[0] = 0 /\ \A k \in 1..n : s[k] = s[k - 1] + col[k]
  BY <1>1, <1>6
<1>8. s \in [0..n -> Nat]
  <2> DEFINE A == {k \in 0..n : s[k] \in Nat}
  <2>1. 0 \in A
    BY <1>1, <1>7
  <2>2. ASSUME NEW k \in 0..(n - 1), k \in A PROVE k + 1 \in A
    <3>1. k + 1 \in 1..n /\ (k + 1) - 1 = k /\ s[k] \in Nat
      BY <1>1, <2>2
    <3>2. s[k + 1] = s[k] + col[k + 1] /\ col[k + 1] \in Nat
      BY <1>1, <1>7, <3>1
    <3> QED
      BY <3>1, <3>2
  <2> HIDE DEF A
  <2>3. \A k \in 0..n : k \in A
    BY <1>1, <2>1, <2>2, UpwardFrom0
  <2>4. \A k \in 0..n : s[k] \in Nat
    BY <2>3 DEF A
  <2> QED
    BY <1>5, <2>4
<1> QED
  BY <1>2, <1>7, <1>8
(* Another number in one place changes the sum by the difference. *)
LEMMA SumChange ==
  ASSUME NEW c \in Seq(Nat), NEW d \in Seq(Nat), Len(d) = Len(c), NEW i \in 1..Len(c),
         \A k \in 1..Len(c) : k # i => d[k] = c[k]
  PROVE  SumOf(c) \in Nat /\ SumOf(d) \in Nat /\ SumOf(d) + c[i] = SumOf(c) + d[i]
<1>1. Len(c) \in Nat /\ \A k \in 1..Len(c) : c[k] \in Nat /\ d[k] \in Nat
  BY ElementOfSeq, LenProperties
<1>2. PICK s \in [0..Len(c) -> Nat] :
        /\ SumOf(c) = s[Len(c)] /\ s[0] = 0
        /\ \A k \in 1..Len(c) : s[k] = s[k - 1] + c[k]
  BY <1>1, SumPartial
<1>3. PICK t \in [0..Len(c) -> Nat] :
        /\ SumOf(d) = t[Len(c)] /\ t[0] = 0
        /\ \A k \in 1..Len(c) : t[k] = t[k - 1] + d[k]
  BY <1>1, SumPartial
<1> DEFINE A == {k \in 0..Len(c) : IF k < i THEN t[k] = s[k] ELSE t[k] + c[i] = s[k] + d[i]}
<1>4. 0 \in A
  BY <1>1, <1>2, <1>3
<1>5. ASSUME NEW k \in 0..(Len(c) - 1), k \in A PROVE k + 1 \in A
  <2> DEFINE n == k + 1
  <2>1. /\ n \in 1..Len(c) /\ n - 1 = k /\ k \in Nat /\ k \in 0..Len(c) /\ n \in 0..Len(c)
        /\ n < i => k < i /\ n # i
        /\ n = i => k < i
        /\ i < n => ~(k < i) /\ n # i
    BY <1>1, <1>5
  <2>2. s[n] = s[k] + c[n] /\ t[n] = t[k] + d[n]
    BY <1>2, <1>3, <2>1
  <2>3. /\ s[k] \in Nat /\ t[k] \in Nat /\ c[n] \in Nat /\ d[n] \in Nat /\ c[i] \in Nat /\ d[i] \in Nat
        /\ n # i => d[n] = c[n]
    BY <1>1, <1>2, <1>3, <2>1
  <2>4. IF k < i THEN t[k] = s[k] ELSE t[k] + c[i] = s[k] + d[i]
    BY <1>5
  <2>5. n \in Nat /\ i \in Nat
    BY <1>1, <2>1
  <2> HIDE DEF n
  <2> DEFINE S == s[k]
             T == t[k]
             cn == c[n]
             dn == d[n]
             ci == c[i]
             di == d[i]
  <2>6. /\ S \in Nat /\ T \in Nat /\ cn \in Nat /\ dn \in Nat /\ ci \in Nat /\ di \in Nat
        /\ n # i => dn = cn
        /\ n = i => dn = di /\ cn = ci
        /\ IF k < i THEN T = S ELSE T + ci = S + di
    BY <2>3, <2>4
  <2> HIDE DEF S, T, cn, dn, ci, di
  <2>7. IF n < i THEN T + dn = S + cn ELSE (T + dn) + ci = (S + cn) + di
    <3>1. CASE n < i
      BY <2>1, <2>6, <3>1
    <3>2. CASE n = i
      <4>1. T = S /\ dn = di /\ cn = ci /\ ~(n < i)
        BY <2>1, <2>5, <2>6, <3>2
      <4> QED
        BY <2>6, <4>1
    <3>3. CASE i < n
      <4>1. T + ci = S + di /\ dn = cn /\ ~(n < i)
        BY <2>1, <2>5, <2>6, <3>3
      <4> QED
        BY <2>6, <4>1
    <3> QED
      BY <2>5, <3>1, <3>2, <3>3
  <2>8. IF n < i THEN t[n] = s[n] ELSE t[n] + c[i] = s[n] + d[i]
    BY <2>2, <2>7 DEF S, T, cn, dn, ci, di
  <2> QED
    BY <2>1, <2>8 DEF n
<1> HIDE DEF A
<1>6. \A k \in 0..Len(c) : k \in A
  BY <1>1, <1>4, <1>5, UpwardFrom0
<1>7. Len(c) \in 0..Len(c) /\ ~(Len(c) < i)
  BY <1>1
<1> QED
  BY <1>2, <1>3, <1>6, <1>7 DEF A

(* A number behind the last one is added to the sum. *)
LEMMA SumLonger ==
  ASSUME NEW c \in Seq(Nat), NEW d \in Seq(Nat), Len(d) = Len(c) + 1,
         \A k \in 1..Len(c) : d[k] = c[k]
  PROVE  SumOf(c) \in Nat /\ SumOf(d) = SumOf(c) + d[Len(d)]
<1>1. Len(c) \in Nat /\ Len(d) \in Nat
  BY LenProperties
<1>2. PICK s \in [0..Len(c) -> Nat] :
        /\ SumOf(c) = s[Len(c)] /\ s[0] = 0
        /\ \A k \in 1..Len(c) : s[k] = s[k - 1] + c[k]
  BY <1>1, SumPartial
<1>3. PICK t \in [0..Len(d) -> Nat] :
        /\ SumOf(d) = t[Len(d)] /\ t[0] = 0
        /\ \A k \in 1..Len(d) : t[k] = t[k - 1] + d[k]
  BY <1>1, SumPartial
<1> DEFINE A == {k \in 0..Len(c) : t[k] = s[k]}
<1>4. 0 \in A
  BY <1>1, <1>2, <1>3
<1>5. ASSUME NEW k \in 0..(Len(c) - 1), k \in A PROVE k + 1 \in A
  <2>1. k + 1 \in 1..Len(c) /\ k + 1 \in 1..Len(d) /\ (k + 1) - 1 = k /\ k + 1 \in 0..Len(c)
    BY <1>1
  <2>2. s[k + 1] = s[k] + c[k + 1] /\ t[k + 1] = t[k] + d[k + 1] /\ d[k + 1] = c[k + 1]
    BY <1>2, <1>3, <2>1
  <2> QED
    BY <1>5, <2>1, <2>2
<1> HIDE DEF A
<1>6. \A k \in 0..Len(c) : k \in A
  BY <1>1, <1>4, <1>5, UpwardFrom0
<1>7. t[Len(c)] = s[Len(c)]
  BY <1>1, <1>6 DEF A
<1>8. Len(d) \in 1..Len(d) /\ Len(d) - 1 = Len(c)
  BY <1>1
<1>9. t[Len(d)] = t[Len(c)] + d[Len(d)]
  BY <1>3, <1>8
<1>10. s[Len(c)] \in Nat
  <2>1. Len(c) \in 0..Len(c)
    BY <1>1
  <2> QED
    BY <2>1
<1> QED
  BY <1>2, <1>3, <1>7, <1>9, <1>10

(* A column in which the number at one place was raised by delta, or delta *)
(* put behind the last one, or written over a number that is forgotten.    *)
Entered(c, d, i, delta, found, evicts) ==
  /\ Len(d) = IF i > Len(c) THEN i ELSE Len(c)
  /\ \A k \in 1..Len(c) : k # i => d[k] = c[k]
  /\ d[i] = IF found THEN c[i] + delta ELSE delta
  /\ i \in 1..(Len(c) + 1) /\ (found => i \in 1..Len(c))
  /\ ~evicts /\ ~found => i = Len(c) + 1

(* What a step does to a sum: it grows by delta, or by less if it forgets. *)
Grows(a, b, delta, evicts) ==
  /\ a \in Nat /\ b \in Nat /\ delta \in Nat /\ b <= a + delta
  /\ ~evicts => b = a + delta

LEMMA SumEntered ==
  ASSUME NEW c \in Seq(Nat), NEW d \in Seq(Nat), NEW i, NEW delta \in Nat,
         NEW found, NEW evicts, Entered(c, d, i, delta, found, evicts)
  PROVE  Grows(SumOf(c), SumOf(d), delta, evicts)
<1>1. /\ Len(c) \in Nat /\ i \in 1..(Len(c) + 1)
      /\ \A k \in 1..Len(c) : c[k] \in Nat
      /\ \A k \in 1..Len(c) : k # i => d[k] = c[k]
      /\ d[i] = IF found THEN c[i] + delta ELSE delta
      /\ Len(d) = IF i > Len(c) THEN i ELSE Len(c)
  BY ElementOfSeq, LenProperties DEF Entered
<1>2. CASE i \in 1..Len(c)
  <2>1. Len(d) = Len(c) /\ i # Len(c) + 1
    BY <1>1, <1>2
  <2>2. SumOf(c) \in Nat /\ SumOf(d) \in Nat /\ SumOf(d) + c[i] = SumOf(c) + d[i]
    BY <1>1, <1>2, <2>1, SumChange
  <2>3. c[i] \in Nat /\ (~evicts => found)
    BY <1>1, <1>2, <2>1 DEF Entered
  <2> DEFINE a == SumOf(c)
             b == SumOf(d)
             x == c[i]
  <2>4. /\ a \in Nat /\ b \in Nat /\ x \in Nat
        /\ b + x = a + (IF found THEN x + delta ELSE delta)
    BY <1>1, <2>2, <2>3
  <2> HIDE DEF a, b, x
  <2>5. b <= a + delta /\ (found => b = a + delta)
    BY <2>4
  <2> QED
    BY <2>3, <2>4, <2>5 DEF a, b, Grows
<1>3. CASE i = Len(c) + 1
  <2>1. Len(d) = Len(c) + 1 /\ ~found /\ \A k \in 1..Len(c) : d[k] = c[k]
    BY <1>1, <1>3 DEF Entered
  <2>2. SumOf(c) \in Nat /\ SumOf(d) = SumOf(c) + d[Len(d)]
    BY <2>1, SumLonger
  <2> QED
    BY <1>1, <1>3, <2>1, <2>2 DEF Grows
<1> QED
  BY <1>1, <1>2, <1>3
(***************************************************************************)
(* The tables.  Rows of either table have a key of K and a packet count.   *)
(***************************************************************************)
KeyUnique(table) == \A i, j \in 1..Len(table) : table[i].key = table[j].key => i = j

(* One of the rows has the fewest packets: there is a row to evict.        *)
LEMMA FewestExists ==
  ASSUME NEW R, NEW table \in Seq(R), \A r \in R : r.pkt \in Nat, Len(table) > 0
  PROVE  Fewest(table) \in SUBSET Nat /\ Fewest(table) # {} /\ Fewest(table) \subseteq 1..Len(table)
<1> DEFINE counts == {table[i].pkt : i \in 1..Len(table)}
<1>1. Len(table) \in Nat /\ \A i \in 1..Len(table) : table[i].pkt \in Nat
  BY ElementOfSeq, LenProperties
<1>2. counts \in SUBSET Nat /\ table[1].pkt \in counts
  BY <1>1
<1>3. PICK m \in counts : \A n \in counts : m <= n
  BY <1>2, LeastExists
<1>4. PICK i \in 1..Len(table) : m = table[i].pkt
  BY <1>3
<1>5. i \in Fewest(table)
  BY <1>3, <1>4 DEF Fewest
<1> QED
  BY <1>1, <1>5 DEF Fewest

(* remote_index and prefix_index return a row of the table or the place    *)
(* behind the last one, and never beyond the array.                        *)
LEMMA IndexInTable ==
  ASSUME NEW R, NEW table \in Seq(R), \A r \in R : r.pkt \in Nat,
         NEW max \in Nat \ {0}, Len(table) <= max, NEW key
  PROVE  /\ Index(table, key, max) \in 1..max
         /\ Index(table, key, max) \in 1..(Len(table) + 1)
         /\ Rows(table, key) # {} => Index(table, key, max) \in Rows(table, key)
<1>1. Len(table) \in Nat
  BY LenProperties
<1>2. CASE Rows(table, key) # {}
  <2>1. Rows(table, key) \in SUBSET Nat /\ Rows(table, key) \subseteq 1..Len(table)
    BY <1>1 DEF Rows
  <2>2. Min(Rows(table, key)) \in Rows(table, key)
    BY <1>2, <2>1, MinIsMember
  <2>3. Index(table, key, max) = Min(Rows(table, key))
    BY <1>2 DEF Index
  <2> QED
    BY <1>1, <2>1, <2>2, <2>3
<1>3. CASE Rows(table, key) = {} /\ Len(table) < max
  <2>1. Index(table, key, max) = Len(table) + 1
    BY <1>3 DEF Index
  <2> QED
    BY <1>1, <1>3, <2>1
<1>4. CASE Rows(table, key) = {} /\ ~(Len(table) < max)
  <2>1. Len(table) = max
    BY <1>1, <1>4
  <2>2. Min(Fewest(table)) \in 1..Len(table)
    BY <2>1, FewestExists, MinIsMember
  <2>3. Index(table, key, max) = Min(Fewest(table))
    BY <1>4 DEF Index
  <2> QED
    BY <1>1, <1>4, <2>1, <2>2, <2>3
<1> QED
  BY <1>2, <1>3, <1>4

(* The row that is written has the key that was looked for: it is written  *)
(* over the row of that key, over a row that is evicted, or at the end.    *)
LEMMA PutKeepsTable ==
  ASSUME NEW R, NEW table \in Seq(R), \A r \in R : r.pkt \in Nat,
         NEW max \in Nat \ {0}, Len(table) <= max, NEW row \in R, KeyUnique(table)
  PROVE  /\ Put(table, Index(table, row.key, max), row) \in Seq(R)
         /\ Len(Put(table, Index(table, row.key, max), row)) <= max
         /\ KeyUnique(Put(table, Index(table, row.key, max), row))
<1> DEFINE key == row.key
           at == Index(table, key, max)
           size == IF at > Len(table) THEN at ELSE Len(table)
           new == Put(table, at, row)
<1>1. /\ at \in 1..max /\ at \in 1..(Len(table) + 1)
      /\ Rows(table, key) # {} => at \in Rows(table, key)
  BY IndexInTable
<1>2. Len(table) \in Nat /\ \A k \in 1..Len(table) : table[k] \in R
  BY ElementOfSeq, LenProperties
<1>3. new = [k \in 1..size |-> IF k = at THEN row ELSE table[k]]
  BY DEF Put
<1> HIDE DEF key, at, new
<1>4. size \in Nat /\ size <= max /\ \A k \in 1..size : k # at => k \in 1..Len(table)
  BY <1>1, <1>2
<1> HIDE DEF size
<1>5. new \in [1..size -> R] /\ \A k \in 1..size : new[k] = IF k = at THEN row ELSE table[k]
  BY <1>2, <1>3, <1>4
<1>6. new \in Seq(R) /\ Len(new) = size
  BY <1>4, <1>5, SeqOf
<1>7. ASSUME NEW k \in 1..size, k # at PROVE new[k].key # key
  <2>1. k \in 1..Len(table) /\ new[k] = table[k]
    BY <1>4, <1>5, <1>7
  <2>2. CASE table[k].key = key
    <3>1. k \in Rows(table, key)
      BY <2>1, <2>2 DEF Rows
    <3>2. at \in 1..Len(table) /\ table[at].key = key
      BY <1>1, <3>1 DEF Rows
    <3> QED
      BY <1>7, <2>1, <2>2, <3>2 DEF KeyUnique
  <2> QED
    BY <2>1, <2>2
<1>8. KeyUnique(new)
  <2> SUFFICES ASSUME NEW i \in 1..size, NEW j \in 1..size, new[i].key = new[j].key
               PROVE  i = j
    BY <1>6 DEF KeyUnique
  <2>1. \A k \in 1..size : k = at => new[k].key = key
    BY <1>5 DEF key
  <2>2. CASE i = at \/ j = at
    BY <1>7, <2>1, <2>2
  <2>3. CASE i # at /\ j # at
    <3>1. /\ i \in 1..Len(table) /\ j \in 1..Len(table)
          /\ new[i] = table[i] /\ new[j] = table[j]
      BY <1>4, <1>5, <2>3
    <3> QED
      BY <3>1 DEF KeyUnique
  <2> QED
    BY <2>2, <2>3
<1> QED
  BY <1>4, <1>6, <1>8 DEF new, at, key

(***************************************************************************)
(* apply_packet and the tables.                                            *)
(***************************************************************************)
RemoteRows == [key : Addresses, pkt : Nat, syn : Nat, retr : Nat]
PrefixRows == [key : Networks, pkt : Nat, syn : Nat, retr : Nat, remotes : Nat]

LEMMA OneIsNat ==
  ASSUME NEW b
  PROVE  One(b) \in {0, 1}
BY DEF One

(* A row that is bumped stays a row of its key and counts the packet. *)
Counted(row, p) ==
  /\ Bumped(row, p).pkt = row.pkt + 1
  /\ Bumped(row, p).syn = row.syn + One(p.syn)
  /\ Bumped(row, p).retr = row.retr + One(Retrans(p))

LEMMA BumpedRow ==
  ASSUME NEW p, NEW K, NEW row
  PROVE  /\ row \in [key : K, pkt : Nat, syn : Nat, retr : Nat] =>
              /\ Bumped(row, p) \in [key : K, pkt : Nat, syn : Nat, retr : Nat]
              /\ Counted(row, p) /\ Bumped(row, p).key = row.key
         /\ row \in [key : K, pkt : Nat, syn : Nat, retr : Nat, remotes : Nat] =>
              /\ Bumped(row, p) \in [key : K, pkt : Nat, syn : Nat, retr : Nat, remotes : Nat]
              /\ Counted(row, p) /\ Bumped(row, p).key = row.key
         /\ row \in [pkt : Nat, syn : Nat, retr : Nat] =>
              /\ Bumped(row, p) \in [pkt : Nat, syn : Nat, retr : Nat] /\ Counted(row, p)
<1>1. One(p.syn) \in Nat /\ One(Retrans(p)) \in Nat
  BY OneIsNat
<1> DEFINE a == row.pkt + 1
           b == row.syn + One(p.syn)
           c == row.retr + One(Retrans(p))
<1>2. Bumped(row, p) = [row EXCEPT !.pkt = a, !.syn = b, !.retr = c]
  BY DEF Bumped
<1> HIDE DEF a, b, c
<1>3. ASSUME row \in [key : K, pkt : Nat, syn : Nat, retr : Nat]
      PROVE  Bumped(row, p) \in [key : K, pkt : Nat, syn : Nat, retr : Nat] /\ Counted(row, p) /\ Bumped(row, p).key = row.key
  <2>1. a \in Nat /\ b \in Nat /\ c \in Nat
    BY <1>1, <1>3 DEF a, b, c
  <2>2. /\ Bumped(row, p) \in [key : K, pkt : Nat, syn : Nat, retr : Nat] /\ Bumped(row, p).key = row.key
        /\ Bumped(row, p).pkt = a /\ Bumped(row, p).syn = b /\ Bumped(row, p).retr = c
    BY <1>3, <1>2, <2>1
  <2> QED
    BY <2>2 DEF a, b, c, Counted
<1>4. ASSUME row \in [key : K, pkt : Nat, syn : Nat, retr : Nat, remotes : Nat]
      PROVE  Bumped(row, p) \in [key : K, pkt : Nat, syn : Nat, retr : Nat, remotes : Nat] /\ Counted(row, p) /\ Bumped(row, p).key = row.key
  <2>1. a \in Nat /\ b \in Nat /\ c \in Nat
    BY <1>1, <1>4 DEF a, b, c
  <2>2. /\ Bumped(row, p) \in [key : K, pkt : Nat, syn : Nat, retr : Nat, remotes : Nat] /\ Bumped(row, p).key = row.key
        /\ Bumped(row, p).pkt = a /\ Bumped(row, p).syn = b /\ Bumped(row, p).retr = c
    BY <1>4, <1>2, <2>1
  <2> QED
    BY <2>2 DEF a, b, c, Counted
<1>5. ASSUME row \in [pkt : Nat, syn : Nat, retr : Nat]
      PROVE  Bumped(row, p) \in [pkt : Nat, syn : Nat, retr : Nat] /\ Counted(row, p)
  <2>1. a \in Nat /\ b \in Nat /\ c \in Nat
    BY <1>1, <1>5 DEF a, b, c
  <2>2. /\ Bumped(row, p) \in [pkt : Nat, syn : Nat, retr : Nat]
        /\ Bumped(row, p).pkt = a /\ Bumped(row, p).syn = b /\ Bumped(row, p).retr = c
    BY <1>5, <1>2, <2>1
  <2> QED
    BY <2>2 DEF a, b, c, Counted
<1> QED
  BY <1>3, <1>4, <1>5

(* The row of the remote is about the remote. *)
LEMMA RemoteRowTyped ==
  ASSUME TcpAssumption, TypeOK, RowsUnique, NEW p \in Packets
  PROVE  /\ Remote(p) \in Addresses
         /\ RemoteRow(p) \in RemoteRows /\ RemoteRow(p).key = Remote(p)
<1>1. Remote(p) \in Addresses
  BY DEF Remote, Addresses
<1> DEFINE ip == Remote(p)
           row == RowFor(remotes, ip, RemoteMax, FreshRemote(ip))
<1>2. /\ remotes \in Seq(RemoteRows) /\ Len(remotes) <= RemoteMax /\ RemoteMax \in Nat \ {0}
      /\ \A r \in RemoteRows : r.pkt \in Nat
  BY DEF TypeOK, TcpAssumption, RemoteRows
<1>3. row \in RemoteRows /\ row.key = ip
  <2> HIDE DEF ip
  <2>1. ip \in Addresses
    BY <1>1 DEF ip
  <2>2. CASE Rows(remotes, ip) # {}
    <3>1. Index(remotes, ip, RemoteMax) \in Rows(remotes, ip)
      BY <1>2, <2>2, IndexInTable
    <3>2. PICK i \in 1..Len(remotes) : i = Index(remotes, ip, RemoteMax) /\ remotes[i].key = ip
      BY <3>1 DEF Rows
    <3>3. remotes[i] \in RemoteRows
      BY <1>2, <3>2, ElementOfSeq
    <3> QED
      BY <2>2, <3>2, <3>3 DEF RowFor
  <2>3. CASE Rows(remotes, ip) = {}
    <3>1. row = FreshRemote(ip)
      BY <2>3 DEF RowFor
    <3> QED
      BY <2>1, <3>1 DEF FreshRemote, RemoteRows
  <2> QED
    BY <2>2, <2>3
<1>4. RemoteRow(p) = Bumped(row, p)
  BY DEF RemoteRow
<1> HIDE DEF row
<1>5. Bumped(row, p) \in RemoteRows /\ Bumped(row, p).key = row.key
  BY <1>3, BumpedRow DEF RemoteRows
<1> QED
  BY <1>1, <1>3, <1>4, <1>5

(* The row of the network is about the network. *)
LEMMA PrefixRowTyped ==
  ASSUME TcpAssumption, TypeOK, RowsUnique, NEW p \in Packets, NEW px \in Networks
  PROVE  PrefixRow(p, px) \in PrefixRows /\ PrefixRow(p, px).key = px
<1> DEFINE row == RowFor(prefixes, px, PrefixMax, FreshPrefix(px))
<1>1. /\ prefixes \in Seq(PrefixRows) /\ Len(prefixes) <= PrefixMax /\ PrefixMax \in Nat \ {0}
      /\ \A r \in PrefixRows : r.pkt \in Nat
  BY DEF TypeOK, TcpAssumption, PrefixRows
<1>2. row \in PrefixRows /\ row.key = px
  <2>1. CASE Rows(prefixes, px) # {}
    <3>1. Index(prefixes, px, PrefixMax) \in Rows(prefixes, px)
      BY <1>1, <2>1, IndexInTable
    <3>2. PICK i \in 1..Len(prefixes) : i = Index(prefixes, px, PrefixMax) /\ prefixes[i].key = px
      BY <3>1 DEF Rows
    <3>3. prefixes[i] \in PrefixRows
      BY <1>1, <3>2, ElementOfSeq
    <3> QED
      BY <2>1, <3>2, <3>3 DEF RowFor
  <2>2. CASE Rows(prefixes, px) = {}
    <3>1. row = FreshPrefix(px)
      BY <2>2 DEF RowFor
    <3> QED
      BY <3>1 DEF FreshPrefix, PrefixRows
  <2> QED
    BY <2>1, <2>2
<1>3. PrefixRow(p, px) = [Bumped(row, p) EXCEPT !.remotes = @ + One(FirstTouch(p))]
  BY DEF PrefixRow
<1> HIDE DEF row
<1>4. Bumped(row, p) \in PrefixRows /\ Bumped(row, p).key = row.key
  BY <1>2, BumpedRow DEF PrefixRows
<1> DEFINE bumped == Bumped(row, p)
<1> HIDE DEF bumped
<1>5. bumped \in PrefixRows /\ bumped.key = px
  BY <1>2, <1>4 DEF bumped
<1>6. /\ [bumped EXCEPT !.remotes = @ + One(FirstTouch(p))] \in PrefixRows
      /\ [bumped EXCEPT !.remotes = @ + One(FirstTouch(p))].key = px
  BY <1>5, OneIsNat DEF PrefixRows
<1> QED
  BY <1>3, <1>6 DEF bumped

(* Both tables keep their bounds and have one row for each key. *)
LEMMA TablesKept ==
  ASSUME TcpAssumption, TypeOK, RowsUnique, NEW p \in Packets, ApplyPacket(p)
  PROVE  /\ remotes' \in Seq(RemoteRows) /\ Len(remotes') <= RemoteMax
         /\ prefixes' \in Seq(PrefixRows) /\ Len(prefixes') <= PrefixMax
         /\ RowsUnique'
<1> DEFINE ip == Remote(p)
           px == PrefixOf[plen][ip]
<1>1. /\ remotes \in Seq(RemoteRows) /\ Len(remotes) <= RemoteMax /\ RemoteMax \in Nat \ {0}
      /\ prefixes \in Seq(PrefixRows) /\ Len(prefixes) <= PrefixMax /\ PrefixMax \in Nat \ {0}
      /\ \A r \in RemoteRows : r.pkt \in Nat
      /\ \A r \in PrefixRows : r.pkt \in Nat
      /\ plen \in Lengths
  BY DEF TypeOK, TcpAssumption, RemoteRows, PrefixRows
<1>2. KeyUnique(remotes) /\ KeyUnique(prefixes)
  BY DEF RowsUnique, KeyUnique
<1>3. ip \in Addresses /\ RemoteRow(p) \in RemoteRows /\ RemoteRow(p).key = ip
  BY RemoteRowTyped
<1>4. px \in Networks
  BY <1>1, <1>3 DEF Networks
<1>5. PrefixRow(p, px) \in PrefixRows /\ PrefixRow(p, px).key = px
  BY <1>4, PrefixRowTyped
<1>6. /\ remotes' = Put(remotes, Index(remotes, ip, RemoteMax), RemoteRow(p))
      /\ prefixes' = IF p.v6 THEN prefixes
                     ELSE Put(prefixes, Index(prefixes, px, PrefixMax), PrefixRow(p, px))
  BY DEF ApplyPacket
<1> HIDE DEF ip, px
<1>7. remotes' \in Seq(RemoteRows) /\ Len(remotes') <= RemoteMax /\ KeyUnique(remotes')
  BY <1>1, <1>2, <1>3, <1>6, PutKeepsTable
<1>8. prefixes' \in Seq(PrefixRows) /\ Len(prefixes') <= PrefixMax /\ KeyUnique(prefixes')
  <2>1. CASE p.v6
    BY <1>1, <1>2, <1>6, <2>1
  <2>2. CASE ~p.v6
    BY <1>1, <1>2, <1>5, <1>6, <2>2, PutKeepsTable
  <2> QED
    BY <2>1, <2>2
<1> QED
  BY <1>7, <1>8 DEF RowsUnique, KeyUnique

(***************************************************************************)
(* The sums of the tables.                                                 *)
(***************************************************************************)
(* Where a row is put: in its place, at the end, or over an evicted one.   *)
Placed(table, new, at, row, found, evicts) ==
  /\ at \in 1..(Len(table) + 1)
  /\ Len(new) = IF at > Len(table) THEN at ELSE Len(table)
  /\ \A k \in 1..Len(table) : k # at => new[k] = table[k]
  /\ new[at] = row
  /\ found => at \in 1..Len(table)
  /\ ~evicts /\ ~found => at = Len(table) + 1

LEMMA PlacedRows ==
  ASSUME NEW table, NEW new, NEW at, NEW row, NEW found, NEW evicts,
         Placed(table, new, at, row, found, evicts), Len(table) \in Nat
  PROVE  /\ at \in 1..Len(new) /\ new[at] = row /\ (found => at \in 1..Len(table))
         /\ \A k \in 1..Len(table) : k \in 1..Len(new) /\ (k # at => new[k] = table[k])
<1>1. at \in 1..(Len(table) + 1) /\ Len(new) = IF at > Len(table) THEN at ELSE Len(table)
  BY DEF Placed
<1>2. at \in 1..Len(new) /\ \A k \in 1..Len(table) : k \in 1..Len(new)
  BY <1>1
<1> QED
  BY <1>2 DEF Placed

LEMMA PutPlaces ==
  ASSUME NEW R, NEW table \in Seq(R), \A r \in R : r.pkt \in Nat,
         NEW max \in Nat \ {0}, Len(table) <= max, NEW key, NEW row
  PROVE  Placed(table, Put(table, Index(table, key, max), row), Index(table, key, max), row,
                Rows(table, key) # {}, Evicts(table, key, max))
<1> DEFINE at == Index(table, key, max)
           size == IF at > Len(table) THEN at ELSE Len(table)
           new == Put(table, at, row)
           found == Rows(table, key) # {}
           evicts == Evicts(table, key, max)
<1>1. at \in 1..(Len(table) + 1) /\ (found => at \in Rows(table, key))
  BY IndexInTable
<1>2. Len(table) \in Nat
  BY LenProperties
<1>3. found => at \in 1..Len(table)
  BY <1>1 DEF Rows
<1>4. ~evicts /\ ~found => at = Len(table) + 1
  BY <1>2 DEF Evicts, Index
<1>5. new = [k \in 1..size |-> IF k = at THEN row ELSE table[k]]
  BY DEF Put
<1> HIDE DEF at, new, found, evicts
<1>6. size \in Nat /\ at \in 1..size /\ \A k \in 1..Len(table) : k \in 1..size
  BY <1>1, <1>2
<1> HIDE DEF size
<1>7. Len(new) = size
  BY <1>5, <1>6
<1>8. new[at] = row /\ \A k \in 1..Len(table) : k # at => new[k] = table[k]
  BY <1>5, <1>6
<1>9. Placed(table, new, at, row, found, evicts)
  BY <1>1, <1>3, <1>4, <1>7, <1>8 DEF Placed, size
<1> QED
  BY <1>9 DEF at, new, found, evicts

(* The columns are sequences of numbers. *)
LEMMA ColumnsTyped ==
  ASSUME NEW R, \A r \in R : r.pkt \in Nat /\ r.syn \in Nat /\ r.retr \in Nat, NEW table \in Seq(R)
  PROVE  /\ Pkts(table) \in Seq(Nat) /\ Len(Pkts(table)) = Len(table)
         /\ Syns(table) \in Seq(Nat) /\ Len(Syns(table)) = Len(table)
         /\ Retrs(table) \in Seq(Nat) /\ Len(Retrs(table)) = Len(table)
         /\ \A i \in 1..Len(table) : /\ Pkts(table)[i] = table[i].pkt
                                     /\ Syns(table)[i] = table[i].syn
                                     /\ Retrs(table)[i] = table[i].retr
<1>1. Len(table) \in Nat /\ \A i \in 1..Len(table) : table[i] \in R
  BY ElementOfSeq, LenProperties
<1>2. Pkts(table) \in [1..Len(table) -> Nat] /\ \A i \in 1..Len(table) : Pkts(table)[i] = table[i].pkt
  BY <1>1 DEF Pkts
<1>3. Syns(table) \in [1..Len(table) -> Nat] /\ \A i \in 1..Len(table) : Syns(table)[i] = table[i].syn
  BY <1>1 DEF Syns
<1>4. Retrs(table) \in [1..Len(table) -> Nat] /\ \A i \in 1..Len(table) : Retrs(table)[i] = table[i].retr
  BY <1>1 DEF Retrs
<1> QED
  BY <1>1, <1>2, <1>3, <1>4, SeqOf

LEMMA RemotesColumn ==
  ASSUME NEW table \in Seq(PrefixRows)
  PROVE  /\ Remotes(table) \in Seq(Nat) /\ Len(Remotes(table)) = Len(table)
         /\ \A i \in 1..Len(table) : Remotes(table)[i] = table[i].remotes
<1>1. Len(table) \in Nat /\ \A i \in 1..Len(table) : table[i] \in PrefixRows
  BY ElementOfSeq, LenProperties
<1>2. /\ Remotes(table) \in [1..Len(table) -> Nat]
      /\ \A i \in 1..Len(table) : Remotes(table)[i] = table[i].remotes
  BY <1>1 DEF Remotes, PrefixRows
<1> QED
  BY <1>1, <1>2, SeqOf

(* A packet is counted in the row that is put. *)
CountedIn(table, new, at, row, found, evicts, syn, retr) ==
  /\ Placed(table, new, at, row, found, evicts)
  /\ row.pkt = IF found THEN table[at].pkt + 1 ELSE 1
  /\ row.syn = IF found THEN table[at].syn + syn ELSE syn
  /\ row.retr = IF found THEN table[at].retr + retr ELSE retr

(* The rows of a table before and after. *)
LEMMA TableGrows ==
  ASSUME NEW R, \A r \in R : r.pkt \in Nat /\ r.syn \in Nat /\ r.retr \in Nat,
         NEW table \in Seq(R), NEW new \in Seq(R), NEW at, NEW row, NEW found, NEW evicts,
         NEW syn \in Nat, NEW retr \in Nat,
         CountedIn(table, new, at, row, found, evicts, syn, retr)
  PROVE  /\ Grows(SumOf(Pkts(table)), SumOf(Pkts(new)), 1, evicts)
         /\ Grows(SumOf(Syns(table)), SumOf(Syns(new)), syn, evicts)
         /\ Grows(SumOf(Retrs(table)), SumOf(Retrs(new)), retr, evicts)
<1>1. Len(table) \in Nat /\ Len(new) \in Nat /\ 1 \in Nat
  BY LenProperties
<1>0. /\ Placed(table, new, at, row, found, evicts)
      /\ row.pkt = IF found THEN table[at].pkt + 1 ELSE 1
      /\ row.syn = IF found THEN table[at].syn + syn ELSE syn
      /\ row.retr = IF found THEN table[at].retr + retr ELSE retr
  BY DEF CountedIn
<1>2. /\ at \in 1..Len(new) /\ new[at] = row /\ (found => at \in 1..Len(table))
      /\ \A k \in 1..Len(table) : k \in 1..Len(new) /\ (k # at => new[k] = table[k])
  BY <1>0, <1>1, PlacedRows
<1>3. Grows(SumOf(Pkts(table)), SumOf(Pkts(new)), 1, evicts)
  <2> DEFINE c == Pkts(table)
             d == Pkts(new)
  <2>1. /\ c \in Seq(Nat) /\ Len(c) = Len(table)
        /\ \A k \in 1..Len(table) : c[k] = table[k].pkt
    BY ColumnsTyped
  <2>2. /\ d \in Seq(Nat) /\ Len(d) = Len(new)
        /\ \A k \in 1..Len(new) : d[k] = new[k].pkt
    BY ColumnsTyped
  <2> HIDE DEF c, d
  <2>3. \A k \in 1..Len(table) : k # at => d[k] = c[k]
    BY <1>2, <2>1, <2>2
  <2>4. d[at] = IF found THEN c[at] + 1 ELSE 1
    BY <1>0, <1>2, <2>1, <2>2
  <2>5. Entered(c, d, at, 1, found, evicts)
    BY <1>0, <2>1, <2>2, <2>3, <2>4 DEF Entered, Placed
  <2>6. Grows(SumOf(c), SumOf(d), 1, evicts)
    BY <1>1, <2>1, <2>2, <2>5, SumEntered, Zenon
  <2> QED
    BY <2>6 DEF c, d
<1>4. Grows(SumOf(Syns(table)), SumOf(Syns(new)), syn, evicts)
  <2> DEFINE c == Syns(table)
             d == Syns(new)
  <2>1. /\ c \in Seq(Nat) /\ Len(c) = Len(table)
        /\ \A k \in 1..Len(table) : c[k] = table[k].syn
    BY ColumnsTyped
  <2>2. /\ d \in Seq(Nat) /\ Len(d) = Len(new)
        /\ \A k \in 1..Len(new) : d[k] = new[k].syn
    BY ColumnsTyped
  <2> HIDE DEF c, d
  <2>3. \A k \in 1..Len(table) : k # at => d[k] = c[k]
    BY <1>2, <2>1, <2>2
  <2>4. d[at] = IF found THEN c[at] + syn ELSE syn
    BY <1>0, <1>2, <2>1, <2>2
  <2>5. Entered(c, d, at, syn, found, evicts)
    BY <1>0, <2>1, <2>2, <2>3, <2>4 DEF Entered, Placed
  <2>6. Grows(SumOf(c), SumOf(d), syn, evicts)
    BY <1>1, <2>1, <2>2, <2>5, SumEntered, Zenon
  <2> QED
    BY <2>6 DEF c, d
<1>5. Grows(SumOf(Retrs(table)), SumOf(Retrs(new)), retr, evicts)
  <2> DEFINE c == Retrs(table)
             d == Retrs(new)
  <2>1. /\ c \in Seq(Nat) /\ Len(c) = Len(table)
        /\ \A k \in 1..Len(table) : c[k] = table[k].retr
    BY ColumnsTyped
  <2>2. /\ d \in Seq(Nat) /\ Len(d) = Len(new)
        /\ \A k \in 1..Len(new) : d[k] = new[k].retr
    BY ColumnsTyped
  <2> HIDE DEF c, d
  <2>3. \A k \in 1..Len(table) : k # at => d[k] = c[k]
    BY <1>2, <2>1, <2>2
  <2>4. d[at] = IF found THEN c[at] + retr ELSE retr
    BY <1>0, <1>2, <2>1, <2>2
  <2>5. Entered(c, d, at, retr, found, evicts)
    BY <1>0, <2>1, <2>2, <2>3, <2>4 DEF Entered, Placed
  <2>6. Grows(SumOf(c), SumOf(d), retr, evicts)
    BY <1>1, <2>1, <2>2, <2>5, SumEntered, Zenon
  <2> QED
    BY <2>6 DEF c, d
<1> QED
  BY <1>3, <1>4, <1>5

(* The row of a remote counts the packet on top of what it had. *)
LEMMA RemoteRowCounts ==
  ASSUME TcpAssumption, TypeOK, NEW p \in Packets,
         NEW found, found = (Rows(remotes, Remote(p)) # {}),
         NEW at, at = Index(remotes, Remote(p), RemoteMax)
  PROVE  /\ RemoteRow(p).pkt = IF found THEN remotes[at].pkt + 1 ELSE 1
         /\ RemoteRow(p).syn = IF found THEN remotes[at].syn + One(p.syn) ELSE One(p.syn)
         /\ RemoteRow(p).retr = IF found THEN remotes[at].retr + One(Retrans(p)) ELSE One(Retrans(p))
<1> DEFINE ip == Remote(p)
           row == RowFor(remotes, ip, RemoteMax, FreshRemote(ip))
<1>0. /\ remotes \in Seq(RemoteRows) /\ Len(remotes) <= RemoteMax /\ RemoteMax \in Nat \ {0}
      /\ \A r \in RemoteRows : r.pkt \in Nat
  BY DEF TypeOK, TcpAssumption, RemoteRows
<1>1. One(p.syn) \in Nat /\ One(Retrans(p)) \in Nat
  BY OneIsNat
<1>2. RemoteRow(p) = Bumped(row, p)
  BY DEF RemoteRow
<1>3. CASE found
  <2>1. row = remotes[at] /\ at \in 1..Len(remotes)
    <3>1. Rows(remotes, ip) # {}
      BY <1>3
    <3>2. at \in Rows(remotes, ip)
      BY <1>0, <3>1, IndexInTable
    <3> QED
      BY <3>1, <3>2 DEF RowFor, Rows
  <2>2. row \in RemoteRows
    BY <1>0, <2>1, ElementOfSeq
  <2> HIDE DEF row
  <2>3. Counted(row, p)
    BY <2>2, BumpedRow DEF RemoteRows
  <2> QED
    BY <1>2, <1>3, <2>1, <2>3 DEF Counted
<1>4. CASE ~found
  <2>1. row = FreshRemote(ip)
    BY <1>4 DEF RowFor
  <2>2. row \in [key : {ip}, pkt : Nat, syn : Nat, retr : Nat] /\ row.pkt = 0 /\ row.syn = 0 /\ row.retr = 0
    BY <2>1 DEF FreshRemote
  <2> HIDE DEF row
  <2>3. Counted(row, p)
    BY <2>2, BumpedRow
  <2> QED
    BY <1>1, <1>2, <1>4, <2>2, <2>3 DEF Counted
<1> QED
  BY <1>3, <1>4

(* So does the row of a network, and it counts a remote's first packet. *)
LEMMA PrefixRowCounts ==
  ASSUME TcpAssumption, TypeOK, NEW p \in Packets, NEW px \in Networks,
         NEW found, found = (Rows(prefixes, px) # {}),
         NEW at, at = Index(prefixes, px, PrefixMax), NEW new, new = PrefixRow(p, px),
         NEW first, first = One(FirstTouch(p))
  PROVE  /\ new.pkt = IF found THEN prefixes[at].pkt + 1 ELSE 1
         /\ new.syn = IF found THEN prefixes[at].syn + One(p.syn) ELSE One(p.syn)
         /\ new.retr = IF found THEN prefixes[at].retr + One(Retrans(p)) ELSE One(Retrans(p))
         /\ new.remotes = IF found THEN prefixes[at].remotes + first ELSE first
<1> DEFINE row == RowFor(prefixes, px, PrefixMax, FreshPrefix(px))
           bumped == Bumped(row, p)
<1>0. /\ prefixes \in Seq(PrefixRows) /\ Len(prefixes) <= PrefixMax /\ PrefixMax \in Nat \ {0}
      /\ \A r \in PrefixRows : r.pkt \in Nat
  BY DEF TypeOK, TcpAssumption, PrefixRows
<1>1. One(p.syn) \in Nat /\ One(Retrans(p)) \in Nat /\ first \in Nat
  BY OneIsNat
<1>2. new = [bumped EXCEPT !.remotes = @ + first]
  BY DEF PrefixRow
<1>3. /\ row \in PrefixRows
      /\ found => row = prefixes[at]
      /\ ~found => row.pkt = 0 /\ row.syn = 0 /\ row.retr = 0 /\ row.remotes = 0
  <2>1. CASE found
    <3>1. Rows(prefixes, px) # {}
      BY <2>1
    <3>2. at \in Rows(prefixes, px)
      BY <1>0, <3>1, IndexInTable
    <3>3. at \in 1..Len(prefixes) /\ row = prefixes[at]
      BY <3>1, <3>2 DEF RowFor, Rows
    <3>4. prefixes[at] \in PrefixRows
      BY <1>0, <3>3, ElementOfSeq
    <3> QED
      BY <2>1, <3>3, <3>4
  <2>2. CASE ~found
    <3>1. row = FreshPrefix(px)
      BY <2>2 DEF RowFor
    <3> QED
      BY <2>2, <3>1 DEF FreshPrefix, PrefixRows
  <2> QED
    BY <2>1, <2>2
<1> HIDE DEF row
<1>4. bumped \in PrefixRows /\ Counted(row, p)
  BY <1>3, BumpedRow DEF PrefixRows
<1>5. bumped.remotes = row.remotes
  <2> DEFINE a == row.pkt + 1
             b == row.syn + One(p.syn)
             c == row.retr + One(Retrans(p))
  <2>1. bumped = [row EXCEPT !.pkt = a, !.syn = b, !.retr = c]
    BY DEF Bumped
  <2> HIDE DEF a, b, c
  <2> QED
    BY <1>3, <2>1 DEF PrefixRows
<1>6. /\ bumped.pkt = row.pkt + 1 /\ bumped.syn = row.syn + One(p.syn)
      /\ bumped.retr = row.retr + One(Retrans(p))
  BY <1>4 DEF Counted
<1> HIDE DEF bumped
<1> DEFINE total4 == bumped.remotes + first
<1>7. new = [bumped EXCEPT !.remotes = total4]
  BY <1>2
<1> HIDE DEF total4
<1>8. new.pkt = bumped.pkt /\ new.syn = bumped.syn /\ new.retr = bumped.retr /\ new.remotes = total4
  BY <1>4, <1>7 DEF PrefixRows
<1>9. CASE found
  BY <1>3, <1>5, <1>6, <1>8, <1>9 DEF total4
<1>10. CASE ~found
  BY <1>1, <1>3, <1>5, <1>6, <1>8, <1>10 DEF total4
<1> QED
  BY <1>9, <1>10

(* What a packet does to the sums of the remotes. *)
LEMMA RemotesGrow ==
  ASSUME TcpAssumption, TypeOK, RowsUnique, NEW p \in Packets, ApplyPacket(p),
         NEW evicts, evicts = Evicts(remotes, Remote(p), RemoteMax)
  PROVE  /\ Grows(SumOf(Pkts(remotes)), SumOf(Pkts(remotes')), 1, evicts)
         /\ Grows(SumOf(Syns(remotes)), SumOf(Syns(remotes')), One(p.syn), evicts)
         /\ Grows(SumOf(Retrs(remotes)), SumOf(Retrs(remotes')), One(Retrans(p)), evicts)
<1> DEFINE at == Index(remotes, Remote(p), RemoteMax)
           found == Rows(remotes, Remote(p)) # {}
           row == RemoteRow(p)
           syn == One(p.syn)
           retr == One(Retrans(p))
<1>1. /\ remotes \in Seq(RemoteRows) /\ Len(remotes) <= RemoteMax /\ RemoteMax \in Nat \ {0}
      /\ \A r \in RemoteRows : r.pkt \in Nat /\ r.syn \in Nat /\ r.retr \in Nat
  BY DEF TypeOK, TcpAssumption, RemoteRows
<1>2. remotes' \in Seq(RemoteRows)
  BY TablesKept
<1>3. syn \in Nat /\ retr \in Nat
  BY OneIsNat
<1>4. /\ row.pkt = IF found THEN remotes[at].pkt + 1 ELSE 1
      /\ row.syn = IF found THEN remotes[at].syn + syn ELSE syn
      /\ row.retr = IF found THEN remotes[at].retr + retr ELSE retr
  BY RemoteRowCounts
<1>5. Placed(remotes, remotes', at, row, found, evicts)
  <2>1. remotes' = Put(remotes, at, row)
    BY DEF ApplyPacket
  <2> QED
    BY <1>1, <2>1, PutPlaces
<1> HIDE DEF at, found, row, syn, retr
<1>6. /\ Grows(SumOf(Pkts(remotes)), SumOf(Pkts(remotes')), 1, evicts)
      /\ Grows(SumOf(Syns(remotes)), SumOf(Syns(remotes')), syn, evicts)
      /\ Grows(SumOf(Retrs(remotes)), SumOf(Retrs(remotes')), retr, evicts)
  <2>1. CountedIn(remotes, remotes', at, row, found, evicts, syn, retr)
    BY <1>4, <1>5 DEF CountedIn
  <2> QED
    BY <1>1, <1>2, <1>3, <2>1, TableGrows
<1> QED
  BY <1>6 DEF syn, retr

(* What an IPv4 packet does to the sums of the prefixes. *)
LEMMA PrefixesGrow ==
  ASSUME TcpAssumption, TypeOK, RowsUnique, NEW p \in Packets, ApplyPacket(p), ~p.v6,
         NEW evicts, evicts = Evicts(prefixes, PrefixOf[plen][Remote(p)], PrefixMax)
  PROVE  /\ Grows(SumOf(Pkts(prefixes)), SumOf(Pkts(prefixes')), 1, evicts)
         /\ Grows(SumOf(Syns(prefixes)), SumOf(Syns(prefixes')), One(p.syn), evicts)
         /\ Grows(SumOf(Retrs(prefixes)), SumOf(Retrs(prefixes')), One(Retrans(p)), evicts)
         /\ Grows(SumOf(Remotes(prefixes)), SumOf(Remotes(prefixes')), One(FirstTouch(p)), evicts)
<1> DEFINE px == PrefixOf[plen][Remote(p)]
           at == Index(prefixes, px, PrefixMax)
           found == Rows(prefixes, px) # {}
           row == PrefixRow(p, px)
           syn == One(p.syn)
           retr == One(Retrans(p))
           first == One(FirstTouch(p))
<1>1. /\ prefixes \in Seq(PrefixRows) /\ Len(prefixes) <= PrefixMax /\ PrefixMax \in Nat \ {0}
      /\ \A r \in PrefixRows : r.pkt \in Nat /\ r.syn \in Nat /\ r.retr \in Nat
  BY DEF TypeOK, TcpAssumption, PrefixRows
<1>2. prefixes' \in Seq(PrefixRows)
  BY TablesKept
<1>3. syn \in Nat /\ retr \in Nat /\ first \in Nat
  BY OneIsNat
<1>4. px \in Networks
  <2>1. Remote(p) \in Addresses
    BY RemoteRowTyped
  <2>2. plen \in Lengths
    BY DEF TypeOK
  <2> QED
    BY <2>1, <2>2 DEF Networks
<1>5. /\ row.pkt = IF found THEN prefixes[at].pkt + 1 ELSE 1
      /\ row.syn = IF found THEN prefixes[at].syn + syn ELSE syn
      /\ row.retr = IF found THEN prefixes[at].retr + retr ELSE retr
      /\ row.remotes = IF found THEN prefixes[at].remotes + first ELSE first
  <2>1. /\ found = (Rows(prefixes, px) # {}) /\ at = Index(prefixes, px, PrefixMax)
        /\ row = PrefixRow(p, px) /\ first = One(FirstTouch(p))
    OBVIOUS
  <2> HIDE DEF px, at, found, row, first
  <2> QED
    BY <1>4, <2>1, PrefixRowCounts
<1>6. Placed(prefixes, prefixes', at, row, found, evicts)
  <2>1. prefixes' = Put(prefixes, at, row)
    BY DEF ApplyPacket
  <2> QED
    BY <1>1, <2>1, PutPlaces
<1> HIDE DEF px, at, found, row, syn, retr, first
<1>7. /\ Grows(SumOf(Pkts(prefixes)), SumOf(Pkts(prefixes')), 1, evicts)
      /\ Grows(SumOf(Syns(prefixes)), SumOf(Syns(prefixes')), syn, evicts)
      /\ Grows(SumOf(Retrs(prefixes)), SumOf(Retrs(prefixes')), retr, evicts)
  <2>1. CountedIn(prefixes, prefixes', at, row, found, evicts, syn, retr)
    BY <1>5, <1>6 DEF CountedIn
  <2> QED
    BY <1>1, <1>2, <1>3, <2>1, TableGrows
<1>8. Grows(SumOf(Remotes(prefixes)), SumOf(Remotes(prefixes')), first, evicts)
  <2> DEFINE c == Remotes(prefixes)
             d == Remotes(prefixes')
  <2>1. /\ Len(prefixes) \in Nat /\ Len(prefixes') \in Nat
    BY <1>1, <1>2, LenProperties
  <2>2. /\ at \in 1..Len(prefixes') /\ prefixes'[at] = row /\ (found => at \in 1..Len(prefixes))
        /\ \A k \in 1..Len(prefixes) : k \in 1..Len(prefixes') /\ (k # at => prefixes'[k] = prefixes[k])
    BY <1>6, <2>1, PlacedRows
  <2>3. /\ c \in Seq(Nat) /\ Len(c) = Len(prefixes)
        /\ \A k \in 1..Len(prefixes) : c[k] = prefixes[k].remotes
    BY <1>1, RemotesColumn
  <2>4. /\ d \in Seq(Nat) /\ Len(d) = Len(prefixes')
        /\ \A k \in 1..Len(prefixes') : d[k] = prefixes'[k].remotes
    BY <1>2, RemotesColumn
  <2> HIDE DEF c, d
  <2>5. \A k \in 1..Len(prefixes) : k # at => d[k] = c[k]
    BY <2>2, <2>3, <2>4
  <2>6. d[at] = IF found THEN c[at] + first ELSE first
    BY <1>5, <2>2, <2>3, <2>4
  <2>7. Entered(c, d, at, first, found, evicts)
    BY <1>6, <2>3, <2>4, <2>5, <2>6 DEF Entered, Placed
  <2>8. Grows(SumOf(c), SumOf(d), first, evicts)
    BY <1>3, <2>3, <2>4, <2>7, SumEntered, Zenon
  <2> QED
    BY <2>8 DEF c, d
<1> QED
  BY <1>7, <1>8 DEF syn, retr, first

(***************************************************************************)
(* The rows and the totals.                                                *)
(***************************************************************************)
(* A remote has a row only after a packet; so only a new row has none, and *)
(* the first packet of a row is the first of its remote.                   *)
RowsBegun == \A i \in 1..Len(remotes) : remotes[i].pkt > 0

SumsInv == RowsAddUp /\ RemotesCountedOnce /\ RowsBegun

(* The sums of either table and the totals they are compared with. *)
RemotesAddUp(pkt, syn, retr, t, gone) ==
  /\ pkt <= t.pkt /\ syn <= t.syn /\ retr <= t.retr
  /\ gone \/ (pkt = t.pkt /\ syn = t.syn /\ retr = t.retr)

PrefixesAddUp(pkt, syn, retr, v, t, gone) ==
  /\ pkt <= v.pkt /\ syn <= v.syn /\ retr <= t.retr
  /\ gone \/ (pkt = v.pkt /\ syn = v.syn /\ retr = t.retr)

(* RowsAddUp, one table at a time. *)
LEMMA AddUpParts ==
  RowsAddUp <=>
    /\ RemotesAddUp(SumOf(Pkts(remotes)), SumOf(Syns(remotes)), SumOf(Retrs(remotes)),
                    total, "remote" \in evicted)
    /\ PrefixesAddUp(SumOf(Pkts(prefixes)), SumOf(Syns(prefixes)), SumOf(Retrs(prefixes)),
                     v4, total, "prefix" \in evicted)
BY DEF RowsAddUp, RemotesAddUp, PrefixesAddUp

LEMMA ApplyAddsUp ==
  ASSUME TcpAssumption, TypeOK, RowsUnique, RowsAddUp, NEW p \in Packets, ApplyPacket(p)
  PROVE  RowsAddUp'
<1> DEFINE evR == Evicts(remotes, Remote(p), RemoteMax)
           evP == Evicts(prefixes, PrefixOf[plen][Remote(p)], PrefixMax)
<1>1. /\ total.pkt \in Nat /\ total.syn \in Nat /\ total.retr \in Nat
      /\ v4.pkt \in Nat /\ v4.syn \in Nat
  BY DEF TypeOK
<1>2. total'.pkt = total.pkt + 1 /\ total'.syn = total.syn + One(p.syn) /\ total'.retr = total.retr + One(Retrans(p))
  <2>1. total' = Bumped(total, p) /\ Counted(total, p)
    BY BumpedRow DEF ApplyPacket, TypeOK
  <2> QED
    BY <2>1 DEF Counted
<1>3. v4'.pkt = v4.pkt + One(~p.v6) /\ v4'.syn = v4.syn + One(Tracked(p))
  BY DEF ApplyPacket
<1>4. /\ (evR \/ "remote" \in evicted) => "remote" \in evicted'
      /\ ((~p.v6 /\ evP) \/ "prefix" \in evicted) => "prefix" \in evicted'
  BY DEF ApplyPacket
<1>5. RemotesAddUp(SumOf(Pkts(remotes')), SumOf(Syns(remotes')), SumOf(Retrs(remotes')),
                   total', "remote" \in evicted')
  <2>1. /\ Grows(SumOf(Pkts(remotes)), SumOf(Pkts(remotes')), 1, evR)
        /\ Grows(SumOf(Syns(remotes)), SumOf(Syns(remotes')), One(p.syn), evR)
        /\ Grows(SumOf(Retrs(remotes)), SumOf(Retrs(remotes')), One(Retrans(p)), evR)
    BY RemotesGrow
  <2>2. RemotesAddUp(SumOf(Pkts(remotes)), SumOf(Syns(remotes)), SumOf(Retrs(remotes)),
                     total, "remote" \in evicted)
    BY AddUpParts
  <2> HIDE DEF evR
  <2> QED
    BY <1>1, <1>2, <1>4, <2>1, <2>2 DEF RemotesAddUp, Grows
<1>6. PrefixesAddUp(SumOf(Pkts(prefixes')), SumOf(Syns(prefixes')), SumOf(Retrs(prefixes')),
                    v4', total', "prefix" \in evicted')
  <2>1. PrefixesAddUp(SumOf(Pkts(prefixes)), SumOf(Syns(prefixes)), SumOf(Retrs(prefixes)),
                      v4, total, "prefix" \in evicted)
    BY AddUpParts
  <2>2. CASE p.v6
    <3>1. prefixes' = prefixes /\ v4'.pkt = v4.pkt /\ v4'.syn = v4.syn /\ total'.retr = total.retr
      BY <1>1, <1>2, <1>3, <2>2 DEF ApplyPacket, One, Tracked, Retrans
    <3> QED
      BY <1>4, <2>1, <3>1 DEF PrefixesAddUp
  <2>3. CASE ~p.v6
    <3>1. /\ Grows(SumOf(Pkts(prefixes)), SumOf(Pkts(prefixes')), 1, evP)
          /\ Grows(SumOf(Syns(prefixes)), SumOf(Syns(prefixes')), One(p.syn), evP)
          /\ Grows(SumOf(Retrs(prefixes)), SumOf(Retrs(prefixes')), One(Retrans(p)), evP)
      BY <2>3, PrefixesGrow
    <3>2. v4'.pkt = v4.pkt + 1 /\ v4'.syn = v4.syn + One(p.syn)
      BY <1>3, <2>3 DEF One, Tracked
    <3> HIDE DEF evP
    <3> QED
      BY <1>1, <1>2, <1>4, <2>1, <2>3, <3>1, <3>2 DEF PrefixesAddUp, Grows
  <2> QED
    BY <2>2, <2>3
<1> QED
  BY <1>5, <1>6 DEF RowsAddUp, RemotesAddUp, PrefixesAddUp

(* The first packet of a row means a row more, or an eviction. *)
LEMMA ApplyCountsOnce ==
  ASSUME TcpAssumption, TypeOK, RowsUnique, RemotesCountedOnce, RowsBegun,
         NEW p \in Packets, ApplyPacket(p)
  PROVE  RemotesCountedOnce' /\ RowsBegun'
<1> DEFINE at == Index(remotes, Remote(p), RemoteMax)
           found == Rows(remotes, Remote(p)) # {}
           row == RemoteRow(p)
           evR == Evicts(remotes, Remote(p), RemoteMax)
           evP == Evicts(prefixes, PrefixOf[plen][Remote(p)], PrefixMax)
<1>1. /\ remotes \in Seq(RemoteRows) /\ Len(remotes) <= RemoteMax /\ RemoteMax \in Nat \ {0}
      /\ \A r \in RemoteRows : r.pkt \in Nat
      /\ prefixes \in Seq(PrefixRows)
  BY DEF TypeOK, TcpAssumption, RemoteRows, PrefixRows
<1>2. Len(remotes) \in Nat /\ \A i \in 1..Len(remotes) : remotes[i].pkt \in Nat
  BY <1>1, ElementOfSeq, LenProperties
<1>3. row.pkt = IF found THEN remotes[at].pkt + 1 ELSE 1
  BY RemoteRowCounts
<1>4. Placed(remotes, remotes', at, row, found, evR)
  <2>1. remotes' = Put(remotes, at, row)
    BY DEF ApplyPacket
  <2> QED
    BY <1>1, <2>1, PutPlaces
<1>5. (evR \/ "remote" \in evicted) => "remote" \in evicted'
  BY DEF ApplyPacket
<1>6. FirstTouch(p) <=> row.pkt = 1
  BY DEF FirstTouch
<1>7. \/ p.v6 /\ prefixes' = prefixes
      \/ Grows(SumOf(Remotes(prefixes)), SumOf(Remotes(prefixes')), One(FirstTouch(p)), evP)
  BY PrefixesGrow DEF ApplyPacket
<1>8. SumOf(Remotes(prefixes)) \in Nat
  <2>1. Remotes(prefixes) \in Seq(Nat) /\ Len(Remotes(prefixes)) \in Nat
    BY <1>1, RemotesColumn, LenProperties
  <2> QED
    BY <2>1, SumPartial
<1> HIDE DEF at, found, row, evR, evP
<1>9. found => at \in 1..Len(remotes) /\ remotes[at].pkt > 0
  BY <1>4 DEF Placed, RowsBegun
<1>10. row.pkt \in Nat /\ row.pkt > 0 /\ (row.pkt = 1 => ~found)
  BY <1>2, <1>3, <1>9
<1>11. RowsBegun'
  <2> SUFFICES ASSUME NEW i \in 1..Len(remotes') PROVE remotes'[i].pkt > 0
    BY DEF RowsBegun
  <2>1. CASE i = at
    BY <1>4, <1>10, <2>1 DEF Placed
  <2>2. CASE i # at
    <3>1. i \in 1..Len(remotes)
      BY <1>2, <1>4, <2>2 DEF Placed
    <3> QED
      BY <1>4, <2>2, <3>1 DEF Placed, RowsBegun
  <2> QED
    BY <2>1, <2>2
<1>12. ASSUME "remote" \notin evicted'
       PROVE  SumOf(Remotes(prefixes')) <= Len(remotes')
  <2>1. ~evR /\ SumOf(Remotes(prefixes)) <= Len(remotes)
    BY <1>5, <1>12 DEF RemotesCountedOnce
  <2>2. /\ Len(remotes') \in Nat /\ Len(remotes) <= Len(remotes')
        /\ row.pkt = 1 => Len(remotes') = Len(remotes) + 1
    BY <1>2, <1>4, <1>10, <2>1 DEF Placed
  <2>3. CASE p.v6 /\ prefixes' = prefixes
    BY <1>2, <1>8, <2>1, <2>2, <2>3
  <2>4. CASE Grows(SumOf(Remotes(prefixes)), SumOf(Remotes(prefixes')), One(FirstTouch(p)), evP)
    <3>1. CASE row.pkt = 1
      BY <1>2, <1>6, <2>1, <2>2, <2>4, <3>1 DEF Grows, One
    <3>2. CASE row.pkt # 1
      BY <1>2, <1>6, <2>1, <2>2, <2>4, <3>2 DEF Grows, One
    <3> QED
      BY <3>1, <3>2
  <2> QED
    BY <1>7, <2>3, <2>4
<1> QED
  BY <1>11, <1>12 DEF RemotesCountedOnce

(* Empty tables add up to nothing. *)
LEMMA EmptySums ==
  ASSUME NEW table, table = << >>
  PROVE  /\ SumOf(Pkts(table)) = 0 /\ SumOf(Syns(table)) = 0 /\ SumOf(Retrs(table)) = 0
         /\ SumOf(Remotes(table)) = 0
<1>1. ASSUME NEW c \in Seq(Nat), Len(c) = 0 PROVE SumOf(c) = 0
  <2>0. Len(c) \in Nat
    BY LenProperties
  <2>1. PICK s \in [0..Len(c) -> Nat] :
          /\ SumOf(c) = s[Len(c)] /\ s[0] = 0
          /\ \A k \in 1..Len(c) : s[k] = s[k - 1] + c[k]
    BY <2>0, SumPartial
  <2> QED
    BY <1>1, <2>1
<1>2. table \in Seq(PrefixRows) /\ Len(table) = 0
  OBVIOUS
<1>3. \A r \in PrefixRows : r.pkt \in Nat /\ r.syn \in Nat /\ r.retr \in Nat
  BY DEF PrefixRows
<1> QED
  BY <1>1, <1>2, <1>3, ColumnsTyped, RemotesColumn

LEMMA SumsStart ==
  ASSUME remotes = << >>, prefixes = << >>, total = Zero, v4 = [pkt |-> 0, syn |-> 0]
  PROVE  SumsInv
<1>1. /\ SumOf(Pkts(remotes)) = 0 /\ SumOf(Syns(remotes)) = 0 /\ SumOf(Retrs(remotes)) = 0
      /\ SumOf(Pkts(prefixes)) = 0 /\ SumOf(Syns(prefixes)) = 0 /\ SumOf(Retrs(prefixes)) = 0
      /\ SumOf(Remotes(prefixes)) = 0
  BY EmptySums
<1>2. Len(remotes) = 0
  OBVIOUS
<1>3. total.pkt = 0 /\ total.syn = 0 /\ total.retr = 0 /\ v4.pkt = 0 /\ v4.syn = 0
  BY DEF Zero
<1>4. RowsAddUp
  BY <1>1, <1>3 DEF RowsAddUp
<1>5. RemotesCountedOnce /\ RowsBegun
  BY <1>1, <1>2 DEF RemotesCountedOnce, RowsBegun
<1> QED
  BY <1>4, <1>5 DEF SumsInv

(***************************************************************************)
(* The ring of SYNs.                                                       *)
(***************************************************************************)
(* A tuple in the ring has been seen. *)
RingKnown == \A i \in 0..(FlowsMax - 1) : flows[i] # Unused => flows[i] \in synced

(* Each tuple that was seen has been entered at least once, and a SYN is   *)
(* either entered or counted as a retransmission.                          *)
RingCounts == IsFiniteSet(synced) /\ Cardinality(synced) + total.retr <= v4.syn

(* As long as all tuples fit, each has been entered exactly once, in order *)
(* from the first entry, and none was overwritten.                         *)
RingHoldsAll ==
  Cardinality(synced) <= FlowsMax =>
    /\ Cardinality(synced) + total.retr = v4.syn
    /\ Cardinality(synced) < FlowsMax => flowI = Cardinality(synced)
    /\ \A t \in synced : \E i \in 0..(FlowsMax - 1) : i < Cardinality(synced) /\ flows[i] = t

RingInv == RingKnown /\ RingCounts /\ RingHoldsAll

(* The entry after i, within the ring. *)
LEMMA NextEntry ==
  ASSUME NEW size \in Nat \ {0}, NEW i \in 0..(size - 1)
  PROVE  /\ (i + 1) % size \in 0..(size - 1)
         /\ i + 1 < size => (i + 1) % size = i + 1
  OBVIOUS

(* A SYN of a tuple that the ring holds: nothing but the counts changes.   *)
LEMMA RingRepeat ==
  ASSUME TcpAssumption, TypeOK, RingInv, NEW p \in Packets, ApplyPacket(p), Tracked(p), Retrans(p)
  PROVE  RingInv'
<1>1. PICK i \in 0..(FlowsMax - 1) : flows[i] = Tuple(p)
  BY DEF Retrans, TypeOK
<1>2. Tuple(p) # Unused
  BY DEF TcpAssumption, Tuple, Unused
<1>3. Tuple(p) \in synced
  BY <1>1, <1>2 DEF RingInv, RingKnown
<1>4. synced' = synced
  BY <1>3 DEF ApplyPacket
<1>5. UNCHANGED <<flows, flowI>>
  BY DEF ApplyPacket, Remember
<1>6. total'.retr = total.retr + 1 /\ v4'.syn = v4.syn + 1
  <2>1. total' = Bumped(total, p) /\ v4' = [pkt |-> v4.pkt + One(~p.v6), syn |-> v4.syn + One(Tracked(p))]
    BY DEF ApplyPacket
  <2>2. Bumped(total, p).retr = total.retr + One(Retrans(p))
    BY BumpedRow DEF TypeOK, Counted
  <2> QED
    BY <2>1, <2>2 DEF One
<1>7. Cardinality(synced) \in Nat /\ total.retr \in Nat /\ v4.syn \in Nat
  BY FS_CardinalityType DEF RingInv, RingCounts, TypeOK
<1>8. RingKnown'
  BY <1>4, <1>5 DEF RingInv, RingKnown
<1>9. RingCounts'
  BY <1>4, <1>6, <1>7 DEF RingInv, RingCounts
<1>10. RingHoldsAll'
  BY <1>4, <1>5, <1>6, <1>7 DEF RingInv, RingHoldsAll
<1> QED
  BY <1>8, <1>9, <1>10 DEF RingInv

(* A SYN of a tuple that the ring does not hold takes the next entry.  It  *)
(* may have been seen before and overwritten since, but not as long as all *)
(* tuples fit.                                                             *)
LEMMA RingEntry ==
  ASSUME TcpAssumption, TypeOK, RingInv, NEW p \in Packets, ApplyPacket(p), Tracked(p), ~Retrans(p)
  PROVE  RingInv'
<1> DEFINE t == Tuple(p)
           n == Cardinality(synced)
<1>1. \A i \in 0..(FlowsMax - 1) : flows[i] # t
  BY DEF Retrans, TypeOK
<1>2. /\ synced' = synced \cup {t} /\ flows' = [flows EXCEPT ![flowI] = t]
      /\ flowI' = (flowI + 1) % FlowsMax
  BY DEF ApplyPacket, Remember
<1>3. total'.retr = total.retr /\ v4'.syn = v4.syn + 1
  <2>1. total' = Bumped(total, p) /\ v4' = [pkt |-> v4.pkt + One(~p.v6), syn |-> v4.syn + One(Tracked(p))]
    BY DEF ApplyPacket
  <2>2. Bumped(total, p).retr = total.retr + One(Retrans(p)) /\ total.retr \in Nat
    BY BumpedRow DEF TypeOK, Counted
  <2>3. One(Retrans(p)) = 0 /\ One(Tracked(p)) = 1
    BY DEF One
  <2>4. total'.retr = total.retr + 0
    BY <2>1, <2>2, <2>3
  <2>5. v4'.syn = v4.syn + One(Tracked(p))
    BY <2>1
  <2> QED
    BY <2>2, <2>3, <2>4, <2>5
<1>4. /\ IsFiniteSet(synced) /\ n \in Nat /\ total.retr \in Nat /\ v4.syn \in Nat
      /\ n + total.retr <= v4.syn
  BY FS_CardinalityType DEF RingInv, RingCounts, TypeOK
<1>5. /\ IsFiniteSet(synced')
      /\ Cardinality(synced') = IF t \in synced THEN n ELSE n + 1
  BY <1>2, <1>4, FS_AddElement
<1>6. /\ FlowsMax \in Nat \ {0} /\ flowI \in 0..(FlowsMax - 1)
      /\ flows \in [0..(FlowsMax - 1) -> Tuples \cup {Unused}]
  BY DEF TcpAssumption, TypeOK
<1> HIDE DEF t, n
<1>7. \A i \in 0..(FlowsMax - 1) : flows'[i] = IF i = flowI THEN t ELSE flows[i]
  BY <1>2, <1>6
<1>8. RingKnown'
  BY <1>2, <1>7 DEF RingInv, RingKnown
<1>9. RingCounts'
  BY <1>3, <1>4, <1>5 DEF RingCounts
<1>10. ASSUME Cardinality(synced') <= FlowsMax
       PROVE  /\ t \notin synced /\ n < FlowsMax /\ flowI = n
              /\ Cardinality(synced') = n + 1 /\ n + total.retr = v4.syn
  <2>1. n <= FlowsMax
    BY <1>4, <1>5, <1>6, <1>10
  <2>2. t \notin synced
    BY <1>1, <2>1 DEF RingInv, RingHoldsAll, n
  <2>3. Cardinality(synced') = n + 1 /\ n < FlowsMax
    BY <1>4, <1>5, <1>6, <1>10, <2>2
  <2> QED
    BY <2>1, <2>2, <2>3 DEF RingInv, RingHoldsAll, n
<1>11. ASSUME Cardinality(synced') <= FlowsMax
       PROVE  /\ Cardinality(synced') + total'.retr = v4'.syn
              /\ Cardinality(synced') < FlowsMax => flowI' = Cardinality(synced')
              /\ \A u \in synced' : \E i \in 0..(FlowsMax - 1) :
                    i < Cardinality(synced') /\ flows'[i] = u
  <2>1. /\ t \notin synced /\ n < FlowsMax /\ flowI = n
        /\ Cardinality(synced') = n + 1 /\ n + total.retr = v4.syn
    BY <1>10, <1>11
  <2>2. Cardinality(synced') + total'.retr = v4'.syn
    BY <1>3, <1>4, <2>1
  <2>3. ASSUME n + 1 < FlowsMax PROVE flowI' = n + 1
    <3>1. (n + 1) % FlowsMax = n + 1
      <4>1. n \in 0..(FlowsMax - 1)
        BY <1>4, <1>6, <2>3
      <4> QED
        BY <1>6, <2>3, <4>1, NextEntry
    <3> QED
      BY <1>2, <2>1, <3>1
  <2>4. ASSUME NEW u \in synced'
        PROVE  \E i \in 0..(FlowsMax - 1) : i < n + 1 /\ flows'[i] = u
    <3>1. CASE u = t
      BY <1>4, <1>6, <1>7, <2>1, <3>1
    <3>2. CASE u # t
      <4>1. PICK i \in 0..(FlowsMax - 1) : i < n /\ flows[i] = u
        BY <1>2, <1>4, <1>6, <2>1, <3>2 DEF RingInv, RingHoldsAll, n
      <4>2. i # flowI /\ i < n + 1
        BY <1>4, <2>1, <4>1
      <4> QED
        BY <1>7, <4>1, <4>2
    <3> QED
      BY <3>1, <3>2
  <2> QED
    BY <2>1, <2>2, <2>3, <2>4
<1>12. RingHoldsAll'
  BY <1>11 DEF RingHoldsAll
<1> QED
  BY <1>8, <1>9, <1>12 DEF RingInv

(* Any other packet leaves the ring alone. *)
LEMMA RingOther ==
  ASSUME TypeOK, RingInv, NEW p \in Packets, ApplyPacket(p), ~Tracked(p)
  PROVE  RingInv'
<1>1. UNCHANGED <<flows, flowI, synced>>
  BY DEF ApplyPacket, Remember
<1>2. total'.retr = total.retr /\ v4'.syn = v4.syn
  <2>1. total' = Bumped(total, p) /\ v4' = [pkt |-> v4.pkt + One(~p.v6), syn |-> v4.syn + One(Tracked(p))]
    BY DEF ApplyPacket
  <2>2. Bumped(total, p).retr = total.retr + One(Retrans(p)) /\ total.retr \in Nat /\ v4.syn \in Nat
    BY BumpedRow DEF TypeOK, Counted
  <2>3. One(Retrans(p)) = 0 /\ One(Tracked(p)) = 0
    BY DEF One, Retrans
  <2> QED
    BY <2>1, <2>2, <2>3
<1> QED
  BY <1>1, <1>2 DEF RingInv, RingKnown, RingCounts, RingHoldsAll

(***************************************************************************)
(* The inductive invariant.                                                *)
(***************************************************************************)
TcpInv == TypeOK /\ RowsUnique /\ RingInv

(* The counters of a packet, and the ring, have their types. *)
LEMMA CountsTyped ==
  ASSUME TcpAssumption, TypeOK, NEW p \in Packets, ApplyPacket(p)
  PROVE  /\ total' \in [pkt : Nat, syn : Nat, retr : Nat] /\ v4' \in [pkt : Nat, syn : Nat]
         /\ flows' \in [0..(FlowsMax - 1) -> Tuples \cup {Unused}] /\ flowI' \in 0..(FlowsMax - 1)
         /\ synced' \subseteq Tuples /\ evicted' \subseteq {"remote", "prefix"}
<1>1. Tuple(p) \in Tuples
  BY DEF Tuples
<1>2. total' \in [pkt : Nat, syn : Nat, retr : Nat]
  BY BumpedRow DEF ApplyPacket, TypeOK
<1>3. v4' \in [pkt : Nat, syn : Nat]
  <2> DEFINE a == v4.pkt + One(~p.v6)
             b == v4.syn + One(Tracked(p))
  <2>1. v4' = [pkt |-> a, syn |-> b]
    BY DEF ApplyPacket
  <2>2. v4 \in [pkt : Nat, syn : Nat]
    BY DEF TypeOK
  <2>3. a \in Nat /\ b \in Nat
    BY <2>2, OneIsNat
  <2> HIDE DEF a, b
  <2> QED
    BY <2>1, <2>3
<1>4. flows' \in [0..(FlowsMax - 1) -> Tuples \cup {Unused}] /\ flowI' \in 0..(FlowsMax - 1)
  <2>1. /\ FlowsMax \in Nat \ {0} /\ flowI \in 0..(FlowsMax - 1)
        /\ flows \in [0..(FlowsMax - 1) -> Tuples \cup {Unused}]
    BY DEF TcpAssumption, TypeOK
  <2>2. \/ flows' = [flows EXCEPT ![flowI] = Tuple(p)] /\ flowI' = (flowI + 1) % FlowsMax
        \/ UNCHANGED <<flows, flowI>>
    BY DEF ApplyPacket, Remember
  <2>3. (flowI + 1) % FlowsMax \in 0..(FlowsMax - 1)
    BY <2>1, NextEntry
  <2> QED
    BY <1>1, <2>1, <2>2, <2>3
<1>5. synced' \subseteq Tuples
  BY <1>1 DEF ApplyPacket, TypeOK
<1>6. evicted' \subseteq {"remote", "prefix"}
  BY DEF ApplyPacket, TypeOK
<1> QED
  BY <1>2, <1>3, <1>4, <1>5, <1>6

(* A payload, parsed or not. *)
LEMMA TakeKeeps ==
  ASSUME TcpAssumption, TcpInv, NEW p \in Packets, NEW nonTcp \in BOOLEAN, Take(p, nonTcp),
         pc' \in {"idle", "tick", "request"}, budget' \in 0..PollMax
  PROVE  TcpInv'
<1>1. TypeOK /\ RowsUnique /\ RingInv
  BY DEF TcpInv
<1>2. /\ cfgLen' \in Lengths /\ plen' \in Lengths /\ emitted' \in 0..(1 + 2 * TopN)
      /\ seen' \in 0..MaxPackets
  BY <1>1 DEF Take, TypeOK, TcpAssumption
<1>3. intake' \in [parsed : Nat, nonTcp : Nat, fail : Nat]
  <2> DEFINE a == intake.parsed + 1
             b == intake.nonTcp + One(nonTcp)
             c == intake.fail + One(p.kind # "tcp" /\ ~nonTcp)
  <2>1. intake' = [parsed |-> a, nonTcp |-> b, fail |-> c]
    BY DEF Take
  <2>2. intake \in [parsed : Nat, nonTcp : Nat, fail : Nat]
    BY <1>1 DEF TypeOK
  <2>3. a \in Nat /\ b \in Nat /\ c \in Nat
    BY <2>2, OneIsNat
  <2> HIDE DEF a, b, c
  <2> QED
    BY <2>1, <2>3
<1>4. CASE p.kind = "tcp"
  <2>1. ApplyPacket(p)
    BY <1>4 DEF Take
  <2>2. /\ remotes' \in Seq(RemoteRows) /\ Len(remotes') <= RemoteMax
        /\ prefixes' \in Seq(PrefixRows) /\ Len(prefixes') <= PrefixMax
        /\ RowsUnique'
    BY <1>1, <2>1, TablesKept
  <2>3. TypeOK'
    BY <1>1, <1>2, <1>3, <2>1, <2>2, CountsTyped DEF TypeOK, RemoteRows, PrefixRows
  <2>4. RingInv'
    BY <1>1, <2>1, RingRepeat, RingEntry, RingOther
  <2> QED
    BY <2>2, <2>3, <2>4 DEF TcpInv
<1>5. CASE p.kind # "tcp"
  <2>1. UNCHANGED <<total, remotes, prefixes, flows, flowI, v4, synced, evicted>>
    BY <1>5 DEF Take, Skip
  <2>2. TypeOK'
    BY <1>1, <1>2, <1>3, <2>1 DEF TypeOK
  <2>3. RowsUnique'
    BY <1>1, <2>1 DEF RowsUnique
  <2>4. RingInv'
    BY <1>1, <2>1 DEF RingInv, RingKnown, RingCounts, RingHoldsAll
  <2> QED
    BY <2>2, <2>3, <2>4 DEF TcpInv
<1> QED
  BY <1>4, <1>5

(* The empty state of Init and of cpe_agent_tcp_reset. *)
LEMMA EmptyTables ==
  ASSUME TcpAssumption
  PROVE  /\ << >> \in Seq(RemoteRows) /\ << >> \in Seq(PrefixRows)
         /\ Len(<< >>) = 0 /\ 0 <= RemoteMax /\ 0 <= PrefixMax
         /\ NoFlows \in [0..(FlowsMax - 1) -> Tuples \cup {Unused}] /\ 0 \in 0..(FlowsMax - 1)
         /\ \A i \in 0..(FlowsMax - 1) : NoFlows[i] = Unused
         /\ Zero \in [pkt : Nat, syn : Nat, retr : Nat] /\ Zero.retr = 0
         /\ NoIntake \in [parsed : Nat, nonTcp : Nat, fail : Nat]
         /\ 0 \in 0..PollMax /\ 0 \in 0..(1 + 2 * TopN) /\ 0 \in 0..MaxPackets
         /\ IsFiniteSet({}) /\ Cardinality({}) = 0
<1>1. << >> \in Seq(RemoteRows) /\ << >> \in Seq(PrefixRows) /\ Len(<< >>) = 0
  OBVIOUS
<1>2. 0 <= RemoteMax /\ 0 <= PrefixMax /\ 0 \in 0..(FlowsMax - 1)
      /\ 0 \in 0..PollMax /\ 0 \in 0..(1 + 2 * TopN) /\ 0 \in 0..MaxPackets
  BY DEF TcpAssumption
<1>3. IsFiniteSet({}) /\ Cardinality({}) = 0
  BY FS_EmptySet
<1>4. /\ NoFlows \in [0..(FlowsMax - 1) -> Tuples \cup {Unused}]
      /\ \A i \in 0..(FlowsMax - 1) : NoFlows[i] = Unused
  BY DEF NoFlows
<1> QED
  BY <1>1, <1>2, <1>3, <1>4 DEF Zero, NoIntake

LEMMA TcpInit ==
  ASSUME TcpAssumption, Init
  PROVE  TcpInv
<1>1. TypeOK
  BY EmptyTables DEF Init, TypeOK, RemoteRows, PrefixRows
<1>2. RowsUnique
  BY EmptyTables DEF Init, RowsUnique
<1>3. RingInv
  <2>1. flows = NoFlows /\ flowI = 0 /\ synced = {} /\ total.retr = 0 /\ v4.syn = 0
    BY EmptyTables DEF Init
  <2>2. RingKnown
    BY <2>1, EmptyTables DEF RingKnown
  <2>3. RingCounts
    BY <2>1, EmptyTables DEF RingCounts
  <2>4. RingHoldsAll
    BY <2>1, EmptyTables DEF RingHoldsAll
  <2> QED
    BY <2>2, <2>3, <2>4 DEF RingInv
<1> QED
  BY <1>1, <1>2, <1>3 DEF TcpInv

(* An emission writes one summary and at most TopN lines of either table. *)
LEMMA LinesBounded ==
  ASSUME TcpAssumption, TypeOK
  PROVE  Lines \in 0..(1 + 2 * TopN)
<1>1. Len(remotes) \in Nat /\ Len(prefixes) \in Nat /\ TopN \in Nat
  BY LenProperties DEF TypeOK, TcpAssumption
<1> DEFINE n == Least(TopN, Len(remotes))
           m == Least(n, Len(prefixes))
<1>2. n \in 0..TopN
  BY <1>1 DEF Least
<1> HIDE DEF n
<1>3. m \in 0..TopN
  BY <1>1, <1>2 DEF Least
<1>4. Lines = 1 + n + m
  BY DEF Lines, n
<1> HIDE DEF m
<1> QED
  BY <1>1, <1>2, <1>3, <1>4

(* Steps that touch no counter. *)
LEMMA CountsUntouched ==
  ASSUME TcpInv, UNCHANGED <<countVars, seen>>,
         pc' \in {"idle", "tick", "request"}, budget' \in 0..PollMax,
         cfgLen' \in Lengths, plen' \in Lengths, emitted' \in 0..(1 + 2 * TopN)
  PROVE  TcpInv'
<1>1. UNCHANGED <<total, intake, remotes, prefixes, flows, flowI, v4, synced, evicted, seen>>
  BY DEF countVars
<1>2. TypeOK'
  BY <1>1 DEF TcpInv, TypeOK
<1>3. RowsUnique'
  BY <1>1 DEF TcpInv, RowsUnique
<1>4. RingInv'
  BY <1>1 DEF TcpInv, RingInv, RingKnown, RingCounts, RingHoldsAll
<1> QED
  BY <1>2, <1>3, <1>4 DEF TcpInv

LEMMA TcpStep ==
  ASSUME TcpAssumption, TcpInv, [Next]_vars
  PROVE  TcpInv'
<1>1. /\ TypeOK /\ PollMax \in Nat /\ PollMax \in 0..PollMax /\ 0 \in 0..PollMax
      /\ pc \in {"idle", "tick", "request"} /\ budget \in 0..PollMax
      /\ cfgLen \in Lengths /\ plen \in Lengths /\ emitted \in 0..(1 + 2 * TopN)
  <2>1. PollMax \in Nat
    BY DEF TcpAssumption
  <2>2. TypeOK
    BY DEF TcpInv
  <2>3. /\ pc \in {"idle", "tick", "request"} /\ budget \in 0..PollMax
        /\ cfgLen \in Lengths /\ plen \in Lengths /\ emitted \in 0..(1 + 2 * TopN)
    BY <2>2 DEF TypeOK
  <2> QED
    BY <2>1, <2>2, <2>3
<1>2. CASE Reload
  BY <1>1, <1>2, CountsUntouched DEF Reload
<1>3. CASE TickStart
  BY <1>1, <1>3, CountsUntouched DEF TickStart
<1>4. CASE PollRequest
  BY <1>1, <1>4, CountsUntouched DEF PollRequest
<1>5. CASE PollEnd
  <2>1. emitted' \in 0..(1 + 2 * TopN)
    BY <1>1, <1>5, LinesBounded DEF PollEnd
  <2> QED
    BY <1>1, <1>5, <2>1, CountsUntouched DEF PollEnd
<1>6. CASE EmitRequest
  <2>1. emitted' \in 0..(1 + 2 * TopN)
    BY <1>1, <1>6, LinesBounded DEF EmitRequest
  <2> QED
    BY <1>1, <1>6, <2>1, CountsUntouched DEF EmitRequest
<1>7. CASE Reset
  <2>1. TypeOK'
    BY <1>1, <1>7, EmptyTables DEF Reset, TypeOK, RemoteRows, PrefixRows
  <2>2. RowsUnique'
    BY <1>7, EmptyTables DEF Reset, RowsUnique
  <2>3. RingInv'
    <3>1. flows' = NoFlows /\ flowI' = 0 /\ synced' = {} /\ total'.retr = 0 /\ v4'.syn = 0
      BY <1>7, EmptyTables DEF Reset
    <3>2. RingKnown'
      BY <3>1, EmptyTables DEF RingKnown
    <3>3. RingCounts'
      BY <3>1, EmptyTables DEF RingCounts
    <3>4. RingHoldsAll'
      BY <3>1, EmptyTables DEF RingHoldsAll
    <3> QED
      BY <3>2, <3>3, <3>4 DEF RingInv
  <2> QED
    BY <2>1, <2>2, <2>3 DEF TcpInv
<1>8. ASSUME NEW p \in Packets, OnPayload(p) PROVE TcpInv'
  <2>1. budget' \in 0..PollMax /\ pc' = pc /\ Take(p, p.kind = "other")
    BY <1>1, <1>8 DEF OnPayload
  <2> QED
    BY <1>1, <2>1, TakeKeeps
<1>9. ASSUME NEW p \in Packets, FeedPayload(p) PROVE TcpInv'
  <2>1. budget' = budget /\ pc' = pc /\ Take(p, FALSE)
    BY <1>9 DEF FeedPayload
  <2> QED
    BY <1>1, <2>1, TakeKeeps
<1>10. CASE UNCHANGED vars
  BY <1>1, <1>10, CountsUntouched DEF vars
<1> QED
  BY <1>2, <1>3, <1>4, <1>5, <1>6, <1>7, <1>8, <1>9, <1>10 DEF Next

(* The counters of tcp_stats.c: types, bounds of the tables, unique rows   *)
(* and the state of the SYN ring together are inductive.                   *)
THEOREM TcpInvariant == Spec => []TcpInv
<1>1. Init => TcpInv
  BY TcpAssumption, TcpInit
<1>2. TcpInv /\ [Next]_vars => TcpInv'
  BY TcpAssumption, TcpStep
<1> QED
  BY <1>1, <1>2, PTL DEF Spec

LEMMA SumsStep ==
  ASSUME TcpAssumption, TcpInv, SumsInv, [Next]_vars
  PROVE  SumsInv'
<1>1. TypeOK /\ RowsUnique /\ RowsAddUp /\ RemotesCountedOnce /\ RowsBegun
  BY DEF TcpInv, SumsInv
<1>2. ASSUME UNCHANGED <<total, remotes, prefixes, v4, evicted>> PROVE SumsInv'
  BY <1>1, <1>2 DEF SumsInv, RowsAddUp, RemotesCountedOnce, RowsBegun
<1>3. CASE Reload \/ TickStart \/ PollRequest \/ PollEnd \/ EmitRequest \/ UNCHANGED vars
  <2>1. UNCHANGED countVars
    BY <1>3 DEF Reload, TickStart, PollRequest, PollEnd, EmitRequest, vars
  <2> QED
    BY <1>2, <2>1 DEF countVars
<1>4. CASE Reset
  <2>1. remotes' = << >> /\ prefixes' = << >> /\ total' = Zero /\ v4' = [pkt |-> 0, syn |-> 0]
    BY <1>4 DEF Reset
  <2>2. /\ SumOf(Pkts(remotes')) = 0 /\ SumOf(Syns(remotes')) = 0 /\ SumOf(Retrs(remotes')) = 0
        /\ SumOf(Pkts(prefixes')) = 0 /\ SumOf(Syns(prefixes')) = 0 /\ SumOf(Retrs(prefixes')) = 0
        /\ SumOf(Remotes(prefixes')) = 0
    BY <2>1, EmptySums
  <2>3. Len(remotes') = 0
    BY <2>1
  <2>4. total'.pkt = 0 /\ total'.syn = 0 /\ total'.retr = 0 /\ v4'.pkt = 0 /\ v4'.syn = 0
    BY <2>1 DEF Zero
  <2>5. RowsAddUp'
    BY <2>2, <2>4 DEF RowsAddUp
  <2>6. RemotesCountedOnce' /\ RowsBegun'
    BY <2>2, <2>3 DEF RemotesCountedOnce, RowsBegun
  <2> QED
    BY <2>5, <2>6 DEF SumsInv
<1>5. ASSUME NEW p \in Packets, OnPayload(p) \/ FeedPayload(p) PROVE SumsInv'
  <2>1. ApplyPacket(p) \/ Skip
    BY <1>5 DEF OnPayload, FeedPayload, Take
  <2>2. CASE ApplyPacket(p)
    BY <1>1, <2>2, ApplyAddsUp, ApplyCountsOnce DEF SumsInv
  <2>3. CASE Skip
    BY <1>2, <2>3 DEF Skip
  <2> QED
    BY <2>1, <2>2, <2>3
<1> QED
  BY <1>3, <1>4, <1>5 DEF Next

(* The sums of both tables against the totals of tcp_stats.c are inductive *)
(* on top of the types and the unique rows.                                *)
THEOREM SumsInvariant == Spec => []SumsInv
<1>1. Init => SumsInv
  BY SumsStart DEF Init
<1>2. TcpInv /\ SumsInv /\ [Next]_vars => SumsInv'
  BY TcpAssumption, SumsStep
<1> QED
  BY <1>1, <1>2, TcpInvariant, PTL DEF Spec

(* apply_packet: the rows of remotes and of prefixes add up to the totals  *)
(* as long as none was evicted, and never exceed them, for every size of   *)
(* the tables, every kind of packet and every change of the prefix length. *)
THEOREM RowsAddUpHolds == Spec => []RowsAddUp
<1>1. SumsInv => RowsAddUp
  BY DEF SumsInv
<1> QED
  BY <1>1, SumsInvariant, PTL

(* apply_packet: without evictions the prefixes together claim no more     *)
(* remotes than there are rows of remotes.                                 *)
THEOREM RemotesCountedOnceHolds == Spec => []RemotesCountedOnce
<1>1. SumsInv => RemotesCountedOnce
  BY DEF SumsInv
<1> QED
  BY <1>1, SumsInvariant, PTL

(* remote_index and prefix_index never create a second row for an address  *)
(* or a network, whatever was evicted and however often the prefix length  *)
(* was changed under the table.                                            *)
THEOREM RowsUniqueHolds == Spec => []RowsUnique
<1>1. TcpInv => RowsUnique
  BY DEF TcpInv
<1> QED
  BY <1>1, TcpInvariant, PTL

(* flow_is_retrans: the count of retransmissions never exceeds the SYNs    *)
(* that repeat a tuple, and equals them while the ring has not overflowed. *)
THEOREM RetransExactHolds == Spec => []RetransExact
<1>1. TcpInv => RetransExact
  <2> SUFFICES ASSUME TcpInv PROVE RetransExact
    OBVIOUS
  <2> DEFINE n == Cardinality(synced)
  <2>1. n \in Nat /\ total.retr \in Nat /\ v4.syn \in Nat
    BY FS_CardinalityType DEF TcpInv, TypeOK, RingInv, RingCounts
  <2>2. n + total.retr <= v4.syn /\ (n <= FlowsMax => n + total.retr = v4.syn)
    BY DEF TcpInv, RingInv, RingCounts, RingHoldsAll
  <2> HIDE DEF n
  <2>3. total.retr <= v4.syn - n /\ (n <= FlowsMax => total.retr = v4.syn - n)
    BY <2>1, <2>2
  <2> QED
    BY <2>3 DEF RetransExact, n
<1> QED
  BY <1>1, TcpInvariant, PTL
=============================================================================
