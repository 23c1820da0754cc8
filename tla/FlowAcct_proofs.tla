--------------------------- MODULE FlowAcct_proofs ---------------------------
(***************************************************************************)
(* flow_acct.c: for every number of slots, connections and reads per tick, *)
(* table_used counts the slots in use, no connection has two rows, and a   *)
(* teardown is reported once, with the final count.  Without loss of       *)
(* events and with dumps read to their end, flow_list is the live          *)
(* conntrack table.                                                        *)
(***************************************************************************)
EXTENDS FlowAcct, SequenceTheorems, FiniteSetTheorems, WellFoundedInduction, TLAPS

(* A set of numbers that is not empty has a least element. *)
LEMMA LeastIsMember ==
  ASSUME NEW S \in SUBSET Nat, S # {}
  PROVE  Least(S) \in S /\ \A j \in S : Least(S) <= j
<1>1. PICK i \in S : \A j \in S : <<j, i>> \notin OpToRel(<, Nat)
  BY NatLessThanWellFounded, WFMin
<1>2. \A j \in S : i <= j
  <2>1. ASSUME NEW j \in S, j < i PROVE <<j, i>> \in OpToRel(<, Nat)
    BY <2>1 DEF OpToRel
  <2>2. \A j \in S : ~(j < i)
    BY <1>1, <2>1
  <2> QED
    BY <2>2
<1> QED
  BY <1>2 DEF Least

(* The event frees the slot. *)
Ends(ev) == ev.kind = "DESTROY" /\ EmitDestroy

(* What apply_event leaves in the slot it chose. *)
Placed(slot, ev) ==
  IF Ends(ev) THEN [Merged(slot, ev) EXCEPT !.used = FALSE, !.alive = FALSE] ELSE Merged(slot, ev)

(* The bytes a slot shows after an event: the event's, if it has counters, *)
(* else those the slot had, a free slot none.                              *)
BytesAfter(slot, ev) == IF ev.counted THEN ev.bytes ELSE IF slot.used THEN slot.bytes ELSE 0

(* A slot takes the identity of the event, and its counters if it has any. *)
LEMMA MergedRow ==
  ASSUME FlowAssumption, clock \in 0..MaxClock, NEW slot \in Rows, NEW ev \in Events
  PROVE  /\ Merged(slot, ev) \in Rows
         /\ Merged(slot, ev).used
         /\ Merged(slot, ev).id = ev.conn /\ Merged(slot, ev).tuple = TupleOf[ev.conn]
         /\ Merged(slot, ev).bytes = BytesAfter(slot, ev)
<1>1. /\ ev.conn \in Conns /\ ev.bytes \in 0..MaxBytes /\ TupleOf[ev.conn] \in Conns
      /\ ev.counted \in BOOLEAN /\ 0 \in 0..MaxBytes
  BY DEF Events, FlowAssumption
<1>2. CASE ~slot.used
  <2> DEFINE n == IF ev.counted THEN ev.bytes ELSE 0
  <2>1. Merged(slot, ev) = [used |-> TRUE, id |-> ev.conn, tuple |-> TupleOf[ev.conn], name |-> ev.conn,
        bytes |-> n, seen |-> clock, alive |-> ev.kind # "DESTROY"]
    BY <1>2 DEF Merged, Fresh
  <2>2. n \in 0..MaxBytes /\ n = BytesAfter(slot, ev)
    BY <1>1, <1>2 DEF BytesAfter
  <2> HIDE DEF n
  <2>3. Merged(slot, ev) \in Rows
    BY <1>1, <2>1, <2>2 DEF Rows
  <2>4. Merged(slot, ev).used
    BY <2>1
  <2>5. /\ Merged(slot, ev).id = ev.conn /\ Merged(slot, ev).tuple = TupleOf[ev.conn]
        /\ Merged(slot, ev).bytes = n
    BY <2>1
  <2> QED BY <2>2, <2>3, <2>4, <2>5
<1>3. CASE slot.used
  <2> DEFINE n == IF ev.counted THEN ev.bytes ELSE slot.bytes
  <2>1. Merged(slot, ev) = [slot EXCEPT !.id = ev.conn, !.tuple = TupleOf[ev.conn], !.seen = clock,
                                        !.bytes = n]
    BY <1>3 DEF Merged, Rows
  <2>2. n \in 0..MaxBytes /\ n = BytesAfter(slot, ev)
    BY <1>1, <1>3 DEF BytesAfter, Rows
  <2> HIDE DEF n
  <2>3. Merged(slot, ev) \in Rows
    BY <1>1, <2>1, <2>2 DEF Rows
  <2>4. Merged(slot, ev).used
    BY <1>3, <2>1 DEF Rows
  <2>5. /\ Merged(slot, ev).id = ev.conn /\ Merged(slot, ev).tuple = TupleOf[ev.conn]
        /\ Merged(slot, ev).bytes = n
    BY <2>1 DEF Rows
  <2> QED BY <2>2, <2>3, <2>4, <2>5
<1> QED BY <1>2, <1>3

(* So does the slot apply_event leaves, which is in use unless it was freed. *)
LEMMA PlacedRow ==
  ASSUME FlowAssumption, clock \in 0..MaxClock, NEW slot \in Rows, NEW ev \in Events
  PROVE  /\ Placed(slot, ev) \in Rows
         /\ Placed(slot, ev).used <=> ~Ends(ev)
         /\ Placed(slot, ev).id = ev.conn /\ Placed(slot, ev).tuple = TupleOf[ev.conn]
         /\ Placed(slot, ev).bytes = BytesAfter(slot, ev)
<1> DEFINE m == Merged(slot, ev)
<1>1. /\ m \in Rows /\ m.used /\ m.id = ev.conn /\ m.tuple = TupleOf[ev.conn]
      /\ m.bytes = BytesAfter(slot, ev)
  BY MergedRow
<1> HIDE DEF m
<1>2. CASE Ends(ev)
  <2>1. Placed(slot, ev) = [m EXCEPT !.used = FALSE, !.alive = FALSE]
    BY <1>2 DEF Placed, m
  <2>2. Placed(slot, ev) \in Rows
    BY <1>1, <2>1 DEF Rows
  <2>3. ~Placed(slot, ev).used
    BY <1>1, <2>1 DEF Rows
  <2>4. /\ Placed(slot, ev).id = ev.conn /\ Placed(slot, ev).tuple = TupleOf[ev.conn]
        /\ Placed(slot, ev).bytes = BytesAfter(slot, ev)
    BY <1>1, <2>1 DEF Rows
  <2> QED
    BY <1>2, <2>2, <2>3, <2>4
<1>3. CASE ~Ends(ev)
  BY <1>1, <1>3 DEF Placed, m
<1> QED
  BY <1>2, <1>3

(***************************************************************************)
(* What every row is: a connection under its own tuple.  NoDoubleEntry     *)
(* needs it, because a record is matched by ct_id or by tuple.             *)
(***************************************************************************)
RowsKnown ==
  \A i \in InUse : table[i].id \in Conns /\ table[i].tuple = TupleOf[table[i].id]

(* find_slot returns a slot: a matching one if there is one, else a free   *)
(* one if there is one.                                                    *)
LEMMA FindSlotFinds ==
  ASSUME FlowAssumption, TypeOK, NEW c \in Conns
  PROVE  /\ FindSlot(c) \in Slots
         /\ Matches(c) # {} => FindSlot(c) \in Matches(c)
         /\ Matches(c) = {} /\ FreeSlots # {} => FindSlot(c) \in FreeSlots
<1>1. Slots \subseteq Nat /\ 0 \in Slots
  BY DEF Slots, FlowAssumption
<1>2. Matches(c) \subseteq Slots /\ FreeSlots \subseteq Slots /\ Oldest \subseteq Slots
  BY DEF Matches, FreeSlots, Oldest
<1>3. Oldest # {}
  <2> DEFINE seens == {table[i].seen : i \in Slots}
  <2>1. \A i \in Slots : table[i].seen \in Nat
    BY DEF TypeOK, Rows, FlowAssumption
  <2>2. seens \subseteq Nat /\ seens # {}
    BY <1>1, <2>1
  <2>3. Least(seens) \in seens /\ \A j \in seens : Least(seens) <= j
    BY <2>2, LeastIsMember
  <2>4. PICK i \in Slots : table[i].seen = Least(seens)
    BY <2>3
  <2>5. \A j \in Slots : table[i].seen <= table[j].seen
    BY <2>3, <2>4
  <2> QED
    BY <2>5 DEF Oldest
<1>4. CASE Matches(c) # {}
  <2>1. Least(Matches(c)) \in Matches(c)
    BY <1>1, <1>2, <1>4, LeastIsMember
  <2> QED
    BY <1>2, <1>4, <2>1 DEF FindSlot
<1>5. CASE Matches(c) = {} /\ FreeSlots # {}
  <2>1. Least(FreeSlots) \in FreeSlots
    BY <1>1, <1>2, <1>5, LeastIsMember
  <2> QED
    BY <1>2, <1>5, <2>1 DEF FindSlot
<1>6. CASE Matches(c) = {} /\ FreeSlots = {}
  <2>1. Least(Oldest) \in Oldest
    BY <1>1, <1>2, <1>3, LeastIsMember
  <2> QED
    BY <1>2, <1>6, <2>1 DEF FindSlot
<1> QED
  BY <1>4, <1>5, <1>6

(* Apart from the slot chosen, no slot in use matches the event. *)
LEMMA OthersDiffer ==
  ASSUME FlowAssumption, TypeOK, RowsKnown, NoDoubleEntry, NEW c \in Conns,
         NEW j \in InUse, j # FindSlot(c)
  PROVE  table[j].id # c /\ table[j].tuple # TupleOf[c]
<1>1. SUFFICES ASSUME j \in Matches(c) PROVE FALSE
  BY DEF Matches, InUse
<1>2. FindSlot(c) \in Matches(c)
  BY <1>1, FindSlotFinds
<1>3. FindSlot(c) \in InUse /\ table[FindSlot(c)].tuple = TupleOf[c]
  BY <1>2 DEF Matches, InUse, RowsKnown
<1>4. table[j].tuple = TupleOf[c]
  BY <1>1 DEF Matches, InUse, RowsKnown
<1> QED
  BY <1>3, <1>4 DEF NoDoubleEntry

(* apply_event changes one slot and leaves the others alone. *)
LEMMA ApplyTable ==
  ASSUME FlowAssumption, TypeOK, NEW ev \in Events, ApplyEvent(ev)
  PROVE  /\ FindSlot(ev.conn) \in Slots /\ ev.conn \in Conns
         /\ table' = [table EXCEPT ![FindSlot(ev.conn)] = Placed(table[FindSlot(ev.conn)], ev)]
         /\ table' \in [Slots -> Rows]
         /\ \A j \in Slots : j # FindSlot(ev.conn) => table'[j] = table[j]
         /\ table'[FindSlot(ev.conn)].used <=> ~Ends(ev)
         /\ table'[FindSlot(ev.conn)].id = ev.conn
         /\ table'[FindSlot(ev.conn)].tuple = TupleOf[ev.conn]
         /\ table'[FindSlot(ev.conn)].bytes = BytesAfter(table[FindSlot(ev.conn)], ev)
<1> DEFINE i == FindSlot(ev.conn)
<1>1. ev.conn \in Conns
  BY DEF Events
<1>2. i \in Slots
  BY <1>1, FindSlotFinds
<1>3. table' = [table EXCEPT ![i] = Placed(table[i], ev)]
  BY DEF ApplyEvent, Placed, Ends
<1>4. table \in [Slots -> Rows] /\ table[i] \in Rows /\ clock \in 0..MaxClock
  BY <1>2 DEF TypeOK
<1>5. /\ Placed(table[i], ev) \in Rows
      /\ Placed(table[i], ev).used <=> ~Ends(ev)
      /\ Placed(table[i], ev).id = ev.conn /\ Placed(table[i], ev).tuple = TupleOf[ev.conn]
      /\ Placed(table[i], ev).bytes = BytesAfter(table[i], ev)
  BY <1>4, PlacedRow
<1> HIDE DEF i
<1>6. /\ table' \in [Slots -> Rows] /\ table'[i] = Placed(table[i], ev)
      /\ \A j \in Slots : j # i => table'[j] = table[j]
  BY <1>2, <1>3, <1>4, <1>5
<1>7. table'[i].used <=> ~Ends(ev)
  BY <1>5, <1>6
<1>8. /\ table'[i].id = ev.conn /\ table'[i].tuple = TupleOf[ev.conn]
      /\ table'[i].bytes = BytesAfter(table[i], ev)
  BY <1>5, <1>6
<1> QED
  BY <1>1, <1>2, <1>3, <1>6, <1>7, <1>8 DEF i

(* The slots in use after it: the same, with the chosen one added unless   *)
(* the event freed it.                                                     *)
LEMMA ApplyInUse ==
  ASSUME FlowAssumption, TypeOK, NEW ev \in Events, ApplyEvent(ev)
  PROVE  InUse' = IF Ends(ev) THEN InUse \ {FindSlot(ev.conn)}
                              ELSE InUse \cup {FindSlot(ev.conn)}
<1> DEFINE i == FindSlot(ev.conn)
<1>1. /\ i \in Slots /\ (table'[i].used <=> ~Ends(ev))
      /\ \A j \in Slots : j # i => table'[j] = table[j]
  BY ApplyTable
<1> HIDE DEF i
<1>2. InUse' = {j \in Slots : table'[j].used}
  BY DEF InUse
<1>3. CASE Ends(ev)
  <2>1. \A j \in Slots : table'[j].used <=> table[j].used /\ j # i
    BY <1>1, <1>3
  <2>2. InUse' = InUse \ {i}
    BY <1>2, <2>1 DEF InUse
  <2> QED
    BY <1>3, <2>2 DEF i
<1>4. CASE ~Ends(ev)
  <2>1. \A j \in Slots : table'[j].used <=> table[j].used \/ j = i
    BY <1>1, <1>4
  <2>2. InUse' = InUse \cup {i}
    BY <1>1, <1>2, <2>1 DEF InUse
  <2> QED
    BY <1>4, <2>2 DEF i
<1> QED
  BY <1>3, <1>4

(* apply_event keeps one row per connection, under its tuple. *)
LEMMA ApplyRows ==
  ASSUME FlowAssumption, TypeOK, RowsKnown, NoDoubleEntry, NEW ev \in Events, ApplyEvent(ev)
  PROVE  RowsKnown' /\ NoDoubleEntry'
<1> DEFINE i == FindSlot(ev.conn)
<1>1. /\ i \in Slots /\ ev.conn \in Conns
      /\ \A j \in Slots : j # i => table'[j] = table[j]
      /\ table'[i].id = ev.conn /\ table'[i].tuple = TupleOf[ev.conn]
  BY ApplyTable
<1>2. InUse' \subseteq InUse \cup {i} /\ InUse \subseteq Slots
  BY ApplyInUse DEF InUse
<1>3. \A j \in InUse : j # i => table[j].id # ev.conn /\ table[j].tuple # TupleOf[ev.conn]
  BY <1>1, OthersDiffer
<1> HIDE DEF i
<1>4. \A j \in InUse' : j = i \/ (j \in InUse /\ table'[j] = table[j])
  BY <1>1, <1>2
<1>5. RowsKnown'
  BY <1>1, <1>4 DEF RowsKnown
<1>6. NoDoubleEntry'
  BY <1>1, <1>3, <1>4 DEF NoDoubleEntry
<1> QED
  BY <1>5, <1>6

(* There are MaxFlows slots. *)
LEMMA SlotCount ==
  ASSUME FlowAssumption
  PROVE  IsFiniteSet(Slots) /\ Cardinality(Slots) = MaxFlows /\ MaxFlows \in Nat
<1>1. 0 \in Int /\ MaxFlows - 1 \in Int /\ MaxFlows \in Nat /\ ~(0 > MaxFlows - 1)
      /\ ((MaxFlows - 1) - 0) + 1 = MaxFlows
  BY DEF FlowAssumption
<1>2. IsFiniteSet(0..(MaxFlows - 1)) /\ Cardinality(0..(MaxFlows - 1)) =
         IF 0 > MaxFlows - 1 THEN 0 ELSE ((MaxFlows - 1) - 0) + 1
  BY <1>1, FS_Interval
<1> QED
  BY <1>1, <1>2 DEF Slots

(* apply_event keeps table_used equal to the number of slots in use. *)
LEMMA ApplyUsed ==
  ASSUME FlowAssumption, TypeOK, UsedCounts, NEW ev \in Events, ApplyEvent(ev)
  PROVE  UsedCounts' /\ used' \in 0..MaxFlows
<1> DEFINE i == FindSlot(ev.conn)
           grown == IF table[i].used THEN used ELSE used + 1
<1>1. i \in Slots
  BY ApplyTable
<1>2. IsFiniteSet(Slots) /\ Cardinality(Slots) = MaxFlows /\ MaxFlows \in Nat
  BY SlotCount
<1>3. InUse \in SUBSET Slots /\ InUse' \in SUBSET Slots
  BY DEF InUse
<1>4. IsFiniteSet(InUse) /\ Cardinality(InUse) \in Nat /\ used = Cardinality(InUse)
  BY <1>2, <1>3, FS_Subset, FS_CardinalityType DEF UsedCounts
<1>5. i \in InUse <=> table[i].used
  BY <1>1 DEF InUse
<1>6. used' = IF Ends(ev) /\ grown > 0 THEN grown - 1 ELSE grown
  BY DEF ApplyEvent, Ends
<1> HIDE DEF i
<1>7. Cardinality(InUse \cup {i}) = grown /\ grown \in Nat
  <2>1. Cardinality(InUse \cup {i})
          = IF i \in InUse THEN Cardinality(InUse) ELSE Cardinality(InUse) + 1
    BY <1>4, FS_AddElement
  <2> QED
    BY <1>4, <1>5, <2>1
<1>8. Cardinality(InUse \ {i}) = grown - 1 /\ grown > 0
  <2>1. Cardinality(InUse \ {i})
          = IF i \in InUse THEN Cardinality(InUse) - 1 ELSE Cardinality(InUse)
    BY <1>4, FS_RemoveElement
  <2>2. i \in InUse => Cardinality(InUse) # 0
    BY <1>4, FS_EmptySet
  <2>3. CASE i \in InUse
    BY <1>4, <1>5, <2>1, <2>2, <2>3
  <2>4. CASE i \notin InUse
    BY <1>4, <1>5, <2>1, <2>4
  <2> QED
    BY <2>3, <2>4
<1> HIDE DEF grown
<1>9. InUse' = IF Ends(ev) THEN InUse \ {i} ELSE InUse \cup {i}
  BY ApplyInUse DEF i
<1>10. used' = Cardinality(InUse')
  <2>1. CASE Ends(ev)
    BY <1>6, <1>8, <1>9, <2>1
  <2>2. CASE ~Ends(ev)
    BY <1>6, <1>7, <1>9, <2>2
  <2> QED
    BY <2>1, <2>2
<1>11. Cardinality(InUse') \in Nat /\ Cardinality(InUse') <= MaxFlows
  BY <1>2, <1>3, FS_Subset, FS_CardinalityType
<1> QED
  BY <1>2, <1>10, <1>11 DEF UsedCounts

(* apply_event adds at most one line: for a freed slot a "destroy" line    *)
(* with the identity and the counters of the event, unless the spool is    *)
(* missing.                                                                *)
LEMMA ApplyLines ==
  ASSUME FlowAssumption, TypeOK, NEW ev \in Events, ApplyEvent(ev)
  PROVE  /\ Ends(ev) => \/ \E l \in Lines : /\ lines' = Append(lines, l) /\ l.ev = "destroy"
                                            /\ l.id = ev.conn
                                            /\ ev.counted => l.bytes = ev.bytes
                        \/ lines' = lines /\ ev.conn \in lost'
         /\ ~Ends(ev) => \/ lines' = lines
                         \/ \E l \in Lines : lines' = Append(lines, l) /\ l.ev = "new"
         /\ lines' \in Seq(Lines)
         /\ lost \subseteq lost' /\ lost' \subseteq Conns
<1> DEFINE i == FindSlot(ev.conn)
           slot == Merged(table[i], ev)
<1>1. i \in Slots
  BY ApplyTable
<1>2. clock \in 0..MaxClock /\ table[i] \in Rows /\ lines \in Seq(Lines) /\ lost \subseteq Conns
  BY <1>1 DEF TypeOK
<1>3. slot \in Rows /\ slot.id = ev.conn /\ (ev.counted => slot.bytes = ev.bytes)
  BY <1>2, MergedRow DEF BytesAfter
<1>4. IF Ends(ev) THEN PushLine("destroy", slot)
      ELSE IF ev.kind = "NEW" /\ EmitNew THEN PushLine("new", slot) ELSE UNCHANGED <<lines, lost>>
  BY DEF ApplyEvent, Ends
<1>5. ev.conn \in Conns
  BY DEF Events
<1> HIDE DEF i, slot
<1>6. \A k \in {"new", "destroy"} :
        /\ Line(k, slot) \in Lines /\ Line(k, slot).ev = k
        /\ Line(k, slot).id = ev.conn /\ (ev.counted => Line(k, slot).bytes = ev.bytes)
  BY <1>3, <1>5 DEF Line, Lines, Rows
<1>7. CASE Ends(ev)
  <2>1. PushLine("destroy", slot)
    BY <1>4, <1>7
  <2>2. CASE lines' = Append(lines, Line("destroy", slot)) /\ UNCHANGED lost
    BY <1>2, <1>6, <1>7, <2>2
  <2>3. CASE lost' = lost \cup {slot.id} /\ UNCHANGED lines
    BY <1>2, <1>3, <1>5, <1>7, <2>3
  <2> QED
    BY <2>1, <2>2, <2>3 DEF PushLine
<1>8. CASE ~Ends(ev)
  <2>1. \/ lines' = Append(lines, Line("new", slot)) /\ lost' = lost
        \/ lines' = lines /\ lost' = lost
    BY <1>4, <1>8 DEF PushLine
  <2> QED
    BY <1>2, <1>6, <1>8, <2>1
<1> QED
  BY <1>7, <1>8

(* An event of a kind, for a connection, with a counter in range. *)
LEMMA EventTyped ==
  ASSUME FlowAssumption, NEW kind \in Kinds, NEW c \in Conns, NEW counted \in BOOLEAN,
         NEW n \in 0..MaxBytes
  PROVE  /\ Event(kind, c, counted, n) \in Events /\ Event(kind, c, counted, n).kind = kind
         /\ Event(kind, c, counted, n).conn = c /\ Event(kind, c, counted, n).counted = counted
         /\ counted => Event(kind, c, counted, n).bytes = n
         /\ Event(kind, c, counted, n).bytes <= n
<1> DEFINE b == IF counted THEN n ELSE 0
<1>1. b \in 0..MaxBytes /\ b <= n /\ (counted => b = n)
  BY DEF FlowAssumption
<1>2. Event(kind, c, counted, n) = [kind |-> kind, conn |-> c, counted |-> counted, bytes |-> b]
  BY DEF Event
<1> HIDE DEF b
<1> QED
  BY <1>1, <1>2 DEF Events

(* The events the kernel sends about a connection. *)
NewOf(c) == Event("NEW", c, FALSE, 0)
UpdateOf(c, counted) == Event("UPDATE", c, counted, bytes[c] + 1)
EndOf(c) == Event("DESTROY", c, TRUE, bytes[c])
DumpOf(c) == Event("UPDATE", c, TRUE, bytes[c])

LEMMA SentTyped ==
  ASSUME FlowAssumption, TypeOK, NEW c \in Conns
  PROVE  /\ NewOf(c) \in Events /\ NewOf(c).kind = "NEW" /\ NewOf(c).conn = c /\ NewOf(c).bytes <= 0
         /\ EndOf(c) \in Events /\ EndOf(c).kind = "DESTROY" /\ EndOf(c).conn = c
         /\ EndOf(c).counted /\ EndOf(c).bytes = bytes[c]
         /\ DumpOf(c) \in Events /\ DumpOf(c).kind = "UPDATE" /\ DumpOf(c).conn = c
         /\ DumpOf(c).counted /\ DumpOf(c).bytes = bytes[c]
         /\ bytes[c] < MaxBytes => \A counted \in UpdateCounts :
              /\ UpdateOf(c, counted) \in Events /\ UpdateOf(c, counted).kind = "UPDATE"
              /\ UpdateOf(c, counted).conn = c /\ UpdateOf(c, counted).bytes <= bytes[c] + 1
<1>1. bytes[c] \in 0..MaxBytes /\ 0 \in 0..MaxBytes /\ {"NEW", "UPDATE", "DESTROY"} \subseteq Kinds
  BY DEF TypeOK, FlowAssumption, Kinds
<1>2. /\ NewOf(c) \in Events /\ NewOf(c).kind = "NEW" /\ NewOf(c).conn = c /\ NewOf(c).bytes <= 0
  BY <1>1 DEF NewOf, Event, Events, Kinds
<1>3. /\ EndOf(c) \in Events /\ EndOf(c).kind = "DESTROY" /\ EndOf(c).conn = c
      /\ EndOf(c).counted /\ EndOf(c).bytes = bytes[c]
  BY <1>1 DEF EndOf, Event, Events, Kinds
<1>4. /\ DumpOf(c) \in Events /\ DumpOf(c).kind = "UPDATE" /\ DumpOf(c).conn = c
      /\ DumpOf(c).counted /\ DumpOf(c).bytes = bytes[c]
  BY <1>1 DEF DumpOf, Event, Events, Kinds
<1>5. ASSUME bytes[c] < MaxBytes, NEW counted \in UpdateCounts
      PROVE  /\ UpdateOf(c, counted) \in Events /\ UpdateOf(c, counted).kind = "UPDATE"
             /\ UpdateOf(c, counted).conn = c /\ UpdateOf(c, counted).bytes <= bytes[c] + 1
  <2>1. bytes[c] + 1 \in 0..MaxBytes /\ counted \in BOOLEAN
    BY <1>1, <1>5 DEF FlowAssumption
  <2> QED
    BY <1>1, <2>1, EventTyped DEF UpdateOf
<1> QED
  BY <1>2, <1>3, <1>4, <1>5

(* A delivery leaves typed queues. *)
LEMMA DeliverTyped ==
  ASSUME TypeOK, NEW ev \in Events, Deliver(ev)
  PROVE  evq' \in Seq(Events) /\ lost' \subseteq Conns
<1>1. ev.conn \in Conns
  BY DEF Events
<1>2. CASE evq' = Append(evq, ev) /\ UNCHANGED lost
  BY <1>2 DEF TypeOK
<1>3. CASE lost' = lost \cup {ev.conn} /\ UNCHANGED evq
  BY <1>1, <1>3 DEF TypeOK
<1> QED
  BY <1>2, <1>3 DEF Deliver

(* apply_event keeps the types of what it changes. *)
LEMMA ApplyTyped ==
  ASSUME FlowAssumption, TypeOK, UsedCounts, NEW ev \in Events, ApplyEvent(ev)
  PROVE  /\ table' \in [Slots -> Rows] /\ used' \in 0..MaxFlows /\ lines' \in Seq(Lines)
         /\ lost' \subseteq Conns
<1>1. table' \in [Slots -> Rows]
  BY ApplyTable
<1>2. used' \in 0..MaxFlows
  BY ApplyUsed
<1>3. lines' \in Seq(Lines) /\ lost' \subseteq Conns
  BY ApplyLines
<1> QED
  BY <1>1, <1>2, <1>3

(* Every step keeps every variable in its type. *)
LEMMA TypeStep ==
  ASSUME FlowAssumption, TypeOK, UsedCounts, [Next]_vars
  PROVE  TypeOK'
<1>1. ASSUME NEW c \in Conns, Create(c) PROVE TypeOK'
  <2>1. NewOf(c) \in Events /\ Deliver(NewOf(c))
    BY <1>1, SentTyped DEF Create, NewOf
  <2>2. evq' \in Seq(Events) /\ lost' \subseteq Conns
    BY <2>1, DeliverTyped
  <2> QED
    BY <1>1, <2>2 DEF Create, TypeOK, tickVars
<1>2. ASSUME NEW c \in Conns, Traffic(c) PROVE TypeOK'
  <2>1. bytes[c] < MaxBytes /\ bytes[c] + 1 \in 0..MaxBytes
    BY <1>2 DEF Traffic, TypeOK, FlowAssumption
  <2>2. evq' \in Seq(Events) /\ lost' \subseteq Conns
    <3>1. CASE UNCHANGED <<evq, lost>>
      BY <3>1 DEF TypeOK
    <3>2. ASSUME NEW counted \in UpdateCounts, Deliver(UpdateOf(c, counted))
          PROVE  evq' \in Seq(Events) /\ lost' \subseteq Conns
      BY <2>1, <3>2, SentTyped, DeliverTyped
    <3> QED
      BY <1>2, <3>1, <3>2 DEF Traffic, UpdateOf
  <2>3. bytes' \in [Conns -> 0..MaxBytes]
    BY <1>2, <2>1 DEF Traffic, TypeOK
  <2> QED
    BY <1>2, <2>2, <2>3 DEF Traffic, TypeOK, tickVars
<1>3. ASSUME NEW c \in Conns, Destroy(c) PROVE TypeOK'
  <2>1. EndOf(c) \in Events /\ Deliver(EndOf(c))
    BY <1>3, SentTyped DEF Destroy, EndOf
  <2>2. evq' \in Seq(Events) /\ lost' \subseteq Conns
    BY <2>1, DeliverTyped
  <2> QED
    BY <1>3, <2>2 DEF Destroy, TypeOK, tickVars
<1>4. ASSUME NEW c \in Conns, DumpVisit(c) PROVE TypeOK'
  <2>1. DumpOf(c) \in Events
    BY SentTyped
  <2>2. dumpq' \in Seq(Events)
    <3>1. dumpq' = IF phase[c] = "live" THEN Append(dumpq, DumpOf(c)) ELSE dumpq
      BY <1>4, Zenon DEF DumpVisit, DumpOf
    <3> QED
      BY <2>1, <3>1 DEF TypeOK
  <2>3. walk' \subseteq Conns /\ missed' \subseteq Conns
    BY <1>4 DEF DumpVisit, TypeOK
  <2>4. UNCHANGED <<phase, bytes, evq, lost, pc, budget, clock, table, used, lines>>
    BY <1>4 DEF DumpVisit, tickVars, kernelVars
  <2> QED
    BY <2>2, <2>3, <2>4 DEF TypeOK
<1>5. CASE StartTick
  BY <1>5 DEF StartTick, TypeOK, kernelVars, FlowAssumption
<1>6. CASE ReadEvent
  <2>1. Head(evq) \in Events /\ Tail(evq) \in Seq(Events)
    BY <1>6 DEF ReadEvent, TypeOK
  <2>2. /\ table' \in [Slots -> Rows] /\ used' \in 0..MaxFlows /\ lines' \in Seq(Lines)
        /\ lost' \subseteq Conns
    BY <1>6, <2>1, ApplyTyped DEF ReadEvent
  <2> QED
    BY <1>6, <2>1, <2>2 DEF ReadEvent, TypeOK, kernelVars, FlowAssumption
<1>7. CASE EndPoll
  BY <1>7 DEF EndPoll, TypeOK, kernelVars, FlowAssumption
<1>8. CASE ReadDump
  <2>1. Head(dumpq) \in Events /\ Tail(dumpq) \in Seq(Events)
    BY <1>8 DEF ReadDump, TypeOK
  <2>2. /\ table' \in [Slots -> Rows] /\ used' \in 0..MaxFlows /\ lines' \in Seq(Lines)
        /\ lost' \subseteq Conns
    BY <1>8, <2>1, ApplyTyped DEF ReadDump
  <2> QED
    BY <1>8, <2>1, <2>2 DEF ReadDump, TypeOK, kernelVars, tickVars
<1>9. CASE EndDump
  BY <1>9 DEF EndDump, TypeOK, kernelVars
<1>10. CASE UNCHANGED vars
  BY <1>10 DEF vars, TypeOK
<1> QED
  BY <1>1, <1>2, <1>3, <1>4, <1>5, <1>6, <1>7, <1>8, <1>9, <1>10 DEF Next, Kernel, Tick

(* What a delivery makes of the event queue: the same events, and perhaps  *)
(* one more at the end.                                                    *)
LEMMA Delivered ==
  ASSUME TypeOK, NEW ev \in Events, Deliver(ev)
  PROVE  /\ \A p \in 1..Len(evq) : p \in 1..Len(evq') /\ evq'[p] = evq[p]
         /\ \A p \in 1..Len(evq') : \/ p \in 1..Len(evq) /\ evq'[p] = evq[p]
                                    \/ p = Len(evq) + 1 /\ evq'[p] = ev
<1>1. evq \in Seq(Events)
  BY DEF TypeOK
<1>2. CASE evq' = Append(evq, ev)
  <2>1. /\ Len(evq') = Len(evq) + 1 /\ Len(evq) \in Nat
        /\ \A p \in 1..Len(evq) : evq'[p] = evq[p]
        /\ evq'[Len(evq) + 1] = ev
    BY <1>1, <1>2
  <2> QED
    BY <2>1
<1>3. CASE evq' = evq
  BY <1>3
<1> QED
  BY <1>2, <1>3 DEF Deliver

(* What each step of the kernel adds to the event queue. *)
Gains(ev) ==
  /\ \A p \in 1..Len(evq) : p \in 1..Len(evq') /\ evq'[p] = evq[p]
  /\ \A p \in 1..Len(evq') : \/ p \in 1..Len(evq) /\ evq'[p] = evq[p]
                             \/ p = Len(evq) + 1 /\ evq'[p] = ev
GainsUpdate(c) == evq' = evq \/ \E counted \in UpdateCounts : Gains(UpdateOf(c, counted))
LEMMA Sends ==
  ASSUME FlowAssumption, TypeOK, NEW c \in Conns
  PROVE  /\ Create(c) => Gains(NewOf(c))
         /\ Traffic(c) => bytes[c] < MaxBytes /\ GainsUpdate(c)
         /\ Destroy(c) => Gains(EndOf(c))
<1>1. ASSUME Create(c) PROVE Gains(NewOf(c))
  <2>1. NewOf(c) \in Events /\ Deliver(NewOf(c))
    BY <1>1, SentTyped DEF Create, NewOf
  <2> QED
    BY <2>1, Delivered DEF Gains
<1>2. ASSUME Traffic(c) PROVE bytes[c] < MaxBytes /\ GainsUpdate(c)
  <2>1. bytes[c] < MaxBytes
    BY <1>2 DEF Traffic
  <2>2. ASSUME NEW counted \in UpdateCounts, Deliver(UpdateOf(c, counted)) PROVE Gains(UpdateOf(c, counted))
    <3>1. UpdateOf(c, counted) \in Events
      BY <2>1, SentTyped
    <3> QED
      BY <2>2, <3>1, Delivered DEF Gains
  <2> QED
    BY <1>2, <2>1, <2>2 DEF Traffic, UpdateOf, GainsUpdate
<1>3. ASSUME Destroy(c) PROVE Gains(EndOf(c))
  <2>1. EndOf(c) \in Events /\ Deliver(EndOf(c))
    BY <1>3, SentTyped DEF Destroy, EndOf
  <2> QED
    BY <2>1, Delivered DEF Gains
<1> QED
  BY <1>1, <1>2, <1>3

(* The first element of a queue, and what is left behind it. *)
LEMMA Popped ==
  ASSUME NEW S, NEW q \in Seq(S), q # <<>>
  PROVE  /\ 1 \in 1..Len(q) /\ Head(q) = q[1] /\ Len(q) \in Nat
         /\ \A p \in 1..Len(Tail(q)) : p + 1 \in 1..Len(q) /\ Tail(q)[p] = q[p + 1]
         /\ \A p \in 1..Len(q) : p # 1 => p - 1 \in 1..Len(Tail(q)) /\ Tail(q)[p - 1] = q[p]
<1>1. Len(q) \in Nat /\ Len(q) > 0 /\ Len(Tail(q)) = Len(q) - 1 /\ Head(q) = q[1]
  OBVIOUS
<1>2. \A p \in 1..Len(Tail(q)) : Tail(q)[p] = q[p + 1]
  BY HeadTailProperties
<1>3. \A p \in 1..Len(q) : p # 1 => p - 1 \in 1..Len(Tail(q)) /\ (p - 1) + 1 = p
  BY <1>1
<1>4. \A p \in 1..Len(q) : p # 1 => Tail(q)[p - 1] = q[p]
  BY <1>2, <1>3
<1> QED
  BY <1>1, <1>2, <1>3, <1>4

(* Events, dump records and lines are about connections. *)
LEMMA QueuesTyped ==
  ASSUME TypeOK
  PROVE  /\ \A n \in 1..Len(evq) : evq[n] \in Events /\ evq[n].conn \in Conns
         /\ \A n \in 1..Len(dumpq) : dumpq[n] \in Events /\ dumpq[n].conn \in Conns
         /\ \A n \in 1..Len(lines) : lines[n] \in Lines /\ lines[n].id \in Conns
<1>1. \A n \in 1..Len(evq) : evq[n] \in Events
  BY DEF TypeOK
<1>2. \A n \in 1..Len(dumpq) : dumpq[n] \in Events
  BY DEF TypeOK
<1>3. \A n \in 1..Len(lines) : lines[n] \in Lines
  BY DEF TypeOK
<1>4. (\A e \in Events : e.conn \in Conns) /\ (\A l \in Lines : l.id \in Conns)
  BY DEF Events, Lines
<1> QED
  BY <1>1, <1>2, <1>3, <1>4

(***************************************************************************)
(* Teardowns under way.  A DESTROY event in the socket carries the final   *)
(* count of a connection that is gone and has not been reported; there is  *)
(* one per connection; a dump never carries one.                           *)
(***************************************************************************)
Unreported(c) == \A m \in DestroyLines : lines[m].id # c
FinalEvents ==
  \A n \in 1..Len(evq) : evq[n].kind = "DESTROY" =>
    /\ phase[evq[n].conn] = "gone" /\ Unreported(evq[n].conn)
    /\ evq[n].counted /\ evq[n].bytes = bytes[evq[n].conn]
OneTeardown ==
  \A m, n \in 1..Len(evq) : m # n /\ evq[m].kind = "DESTROY" /\ evq[n].kind = "DESTROY" =>
    evq[m].conn # evq[n].conn
DumpsUpdate == \A n \in 1..Len(dumpq) : dumpq[n].kind = "UPDATE"
TornDown == FinalEvents /\ OneTeardown /\ DumpsUpdate

(* A connection is reported only once it is gone. *)
LEMMA LiveUnreported ==
  ASSUME TypeOK, DestroyIsFinal, NEW c \in Conns, phase[c] # "gone"
  PROVE  Unreported(c)
BY DEF DestroyIsFinal, Unreported

(* The kernel's steps keep the account of the teardowns. *)
LEMMA TornKernel ==
  ASSUME FlowAssumption, TypeOK, TornDown, DestroyIsFinal, Kernel
  PROVE  TornDown' /\ DestroyIsFinal'
<1>0. \A n \in DestroyLines : lines[n].id \in Conns
  BY QueuesTyped DEF DestroyLines
<1>00. \A n \in 1..Len(evq) : evq[n].conn \in Conns
  BY QueuesTyped
<1>1. ASSUME NEW c \in Conns, Create(c) PROVE TornDown' /\ DestroyIsFinal'
  <2>2. \A p \in 1..Len(evq') : \/ p \in 1..Len(evq) /\ evq'[p] = evq[p]
                                \/ evq'[p].kind = "NEW"
    BY <1>1, Sends, SentTyped DEF Gains
  <2>3. /\ \A d \in Conns : phase[d] = "gone" => phase'[d] = "gone"
        /\ bytes' = bytes /\ lines' = lines /\ dumpq' = dumpq
    BY <1>1 DEF Create, TypeOK
  <2>4. DestroyIsFinal'
    BY <1>0, <2>3 DEF DestroyIsFinal, DestroyLines
  <2>5. FinalEvents'
    BY <1>00, <2>2, <2>3 DEF FinalEvents, TornDown, Unreported, DestroyLines
  <2>6. OneTeardown'
    BY <2>2 DEF OneTeardown, TornDown
  <2>7. DumpsUpdate'
    BY <2>3 DEF DumpsUpdate, TornDown
  <2> QED
    BY <2>4, <2>5, <2>6, <2>7 DEF TornDown
<1>2. ASSUME NEW c \in Conns, Traffic(c) PROVE TornDown' /\ DestroyIsFinal'
  <2>2. \A p \in 1..Len(evq') : \/ p \in 1..Len(evq) /\ evq'[p] = evq[p]
                                \/ evq'[p].kind = "UPDATE"
    <3>1. bytes[c] < MaxBytes /\ GainsUpdate(c)
      BY <1>2, Sends
    <3>2. \A counted \in UpdateCounts : UpdateOf(c, counted).kind = "UPDATE"
      BY <3>1, SentTyped
    <3> QED
      BY <3>1, <3>2 DEF Gains, GainsUpdate
  <2>3. /\ \A d \in Conns : phase[d] = "gone" => phase'[d] = "gone" /\ bytes'[d] = bytes[d]
        /\ lines' = lines /\ dumpq' = dumpq
    BY <1>2 DEF Traffic, TypeOK
  <2>4. DestroyIsFinal'
    BY <1>0, <2>3 DEF DestroyIsFinal, DestroyLines
  <2>5. FinalEvents'
    BY <1>00, <2>2, <2>3 DEF FinalEvents, TornDown, Unreported, DestroyLines
  <2>6. OneTeardown'
    BY <2>2 DEF OneTeardown, TornDown
  <2>7. DumpsUpdate'
    BY <2>3 DEF DumpsUpdate, TornDown
  <2> QED
    BY <2>4, <2>5, <2>6, <2>7 DEF TornDown
<1>3. ASSUME NEW c \in Conns, Destroy(c) PROVE TornDown' /\ DestroyIsFinal'
  <2>1. phase[c] = "live"
    BY <1>3 DEF Destroy
  <2>2. \A p \in 1..Len(evq') : \/ p \in 1..Len(evq) /\ evq'[p] = evq[p]
                                \/ /\ p = Len(evq) + 1 /\ evq'[p].conn = c
                                   /\ evq'[p].counted /\ evq'[p].bytes = bytes[c]
    BY <1>3, Sends, SentTyped DEF Gains
  <2>3. /\ \A d \in Conns : phase[d] = "gone" => phase'[d] = "gone"
        /\ phase'[c] = "gone"
        /\ bytes' = bytes /\ lines' = lines /\ dumpq' = dumpq
    BY <1>3 DEF Destroy, TypeOK
  <2>4. Unreported(c)
    BY <2>1, LiveUnreported
  <2>5. \A n \in 1..Len(evq) : evq[n].kind = "DESTROY" => evq[n].conn # c
    BY <2>1 DEF TornDown, FinalEvents
  <2>6. DestroyIsFinal'
    BY <1>0, <2>3 DEF DestroyIsFinal, DestroyLines
  <2>7. FinalEvents'
    BY <1>00, <2>2, <2>3, <2>4 DEF FinalEvents, TornDown, Unreported, DestroyLines
  <2>8. OneTeardown'
    BY <2>2, <2>5 DEF OneTeardown, TornDown
  <2>9. DumpsUpdate'
    BY <2>3 DEF DumpsUpdate, TornDown
  <2> QED
    BY <2>6, <2>7, <2>8, <2>9 DEF TornDown
<1>4. ASSUME NEW c \in Conns, DumpVisit(c) PROVE TornDown' /\ DestroyIsFinal'
  <2>1. DumpOf(c) \in Events /\ DumpOf(c).kind = "UPDATE"
    BY SentTyped
  <2>2. phase' = phase /\ bytes' = bytes /\ lines' = lines /\ evq' = evq
    BY <1>4 DEF DumpVisit, kernelVars
  <2>3. DumpsUpdate'
    <3>1. CASE dumpq' = dumpq
      BY <3>1 DEF TornDown, DumpsUpdate
    <3>2. CASE dumpq' = Append(dumpq, DumpOf(c))
      <4>1. /\ Len(dumpq') = Len(dumpq) + 1 /\ Len(dumpq) \in Nat
            /\ \A p \in 1..Len(dumpq) : dumpq'[p] = dumpq[p]
            /\ dumpq'[Len(dumpq) + 1] = DumpOf(c)
        BY <2>1, <3>2 DEF TypeOK
      <4> QED
        BY <2>1, <4>1 DEF TornDown, DumpsUpdate
    <3> QED
      BY <1>4, <3>1, <3>2 DEF DumpVisit, DumpOf
  <2> QED
    BY <2>2, <2>3 DEF TornDown, FinalEvents, OneTeardown, Unreported, DestroyLines, DestroyIsFinal
<1> QED
  BY <1>1, <1>2, <1>3, <1>4 DEF Kernel

(* Reading an event: a teardown moves from the socket to the lines, with   *)
(* its final count, and leaves no second one behind.                       *)
LEMMA TornRead ==
  ASSUME FlowAssumption, TypeOK, TornDown, DestroyIsFinal, ReadEvent
  PROVE  TornDown' /\ DestroyIsFinal'
<1> DEFINE ev == Head(evq)
<1>1. /\ evq \in Seq(Events) /\ evq # <<>> /\ evq' = Tail(evq) /\ ApplyEvent(ev)
      /\ phase' = phase /\ bytes' = bytes /\ dumpq' = dumpq
  BY DEF ReadEvent, TypeOK, kernelVars
<1>2. /\ 1 \in 1..Len(evq) /\ ev = evq[1] /\ Len(evq) \in Nat
      /\ \A p \in 1..Len(evq') : p + 1 \in 1..Len(evq) /\ evq'[p] = evq[p + 1] /\ p + 1 # 1
  BY <1>1, Popped
<1>3. ev \in Events /\ ev.conn \in Conns
  BY <1>2, QueuesTyped
<1>4. \A n \in 1..Len(lines) : lines[n].id \in Conns
  BY QueuesTyped
<1>5. lines \in Seq(Lines) /\ Len(lines) \in Nat
  BY DEF TypeOK
<1>6. OneTeardown'
  <2>1. \A m, n \in 1..Len(evq') : m # n => m + 1 # n + 1
    OBVIOUS
  <2> QED
    BY <1>2, <2>1 DEF TornDown, OneTeardown
<1>7. DumpsUpdate'
  BY <1>1 DEF TornDown, DumpsUpdate
<1>8. \A p \in 1..Len(evq') : evq'[p].kind = "DESTROY" =>
        /\ phase[evq'[p].conn] = "gone"
        /\ evq'[p].counted /\ evq'[p].bytes = bytes[evq'[p].conn]
        /\ Unreported(evq'[p].conn)
        /\ ev.kind = "DESTROY" => evq'[p].conn # ev.conn
  BY <1>2 DEF TornDown, FinalEvents, OneTeardown
<1> HIDE DEF ev
<1>9. CASE Ends(ev) /\ \E l \in Lines : /\ lines' = Append(lines, l) /\ l.ev = "destroy"
                                        /\ l.id = ev.conn /\ (ev.counted => l.bytes = ev.bytes)
  <2>0. PICK l \in Lines : /\ lines' = Append(lines, l) /\ l.ev = "destroy"
                           /\ l.id = ev.conn /\ (ev.counted => l.bytes = ev.bytes)
    BY <1>9
  <2>1. /\ lines' = Append(lines, l) /\ l.ev = "destroy"
        /\ l.id = ev.conn /\ l.bytes = ev.bytes
    BY <1>2, <1>9, <2>0 DEF Ends, TornDown, FinalEvents
  <2>2. /\ Len(lines') = Len(lines) + 1 /\ \A n \in 1..Len(lines) : lines'[n] = lines[n]
        /\ lines'[Len(lines) + 1] = l
    BY <1>5, <2>1
  <2>3. \A n \in DestroyLines' : \/ n \in DestroyLines /\ lines'[n] = lines[n]
                                 \/ n = Len(lines) + 1 /\ lines'[n] = l
    BY <1>5, <2>2 DEF DestroyLines
  <2>4. ev.kind = "DESTROY" /\ phase[ev.conn] = "gone" /\ ev.bytes = bytes[ev.conn]
        /\ Unreported(ev.conn)
    BY <1>2, <1>9 DEF Ends, TornDown, FinalEvents
  <2>5. FinalEvents'
    <3>1. ASSUME NEW p \in 1..Len(evq'), evq'[p].kind = "DESTROY", NEW m \in DestroyLines'
          PROVE  lines'[m].id # evq'[p].conn
      <4>1. Unreported(evq'[p].conn) /\ evq'[p].conn # ev.conn
        BY <1>8, <2>4, <3>1
      <4>2. CASE m \in DestroyLines /\ lines'[m] = lines[m]
        BY <4>1, <4>2 DEF Unreported
      <4>3. CASE lines'[m] = l
        BY <2>1, <4>1, <4>3
      <4> QED
        BY <2>3, <4>2, <4>3
    <3>2. \A p \in 1..Len(evq') : evq'[p].kind = "DESTROY" =>
            \A m \in DestroyLines' : lines'[m].id # evq'[p].conn
      BY <3>1
    <3> QED
      BY <1>1, <1>8, <3>2 DEF FinalEvents, Unreported
  <2>6. DestroyIsFinal'
    <3>1. ASSUME NEW n \in DestroyLines'
          PROVE  phase[lines'[n].id] = "gone" /\ lines'[n].bytes = bytes[lines'[n].id]
      <4>1. CASE n \in DestroyLines /\ lines'[n] = lines[n]
        BY <4>1 DEF DestroyIsFinal
      <4>2. CASE lines'[n] = l
        BY <2>1, <2>4, <4>2
      <4> QED
        BY <2>3, <4>1, <4>2
    <3>2. \A n \in DestroyLines : lines[n].id # l.id
      BY <2>1, <2>4 DEF Unreported
    <3>3. ASSUME NEW m \in DestroyLines', NEW n \in DestroyLines', m # n
          PROVE  lines'[m].id # lines'[n].id
      <4>1. CASE m \in DestroyLines /\ lines'[m] = lines[m] /\ n \in DestroyLines /\ lines'[n] = lines[n]
        BY <3>3, <4>1 DEF DestroyIsFinal
      <4>2. CASE m \in DestroyLines /\ lines'[m] = lines[m] /\ lines'[n] = l
        BY <3>2, <4>2
      <4>3. CASE lines'[m] = l /\ n \in DestroyLines /\ lines'[n] = lines[n]
        BY <3>2, <4>3
      <4> QED
        BY <2>3, <3>3, <4>1, <4>2, <4>3
    <3> QED
      BY <1>1, <3>1, <3>3 DEF DestroyIsFinal
  <2> QED
    BY <1>6, <1>7, <2>5, <2>6 DEF TornDown
<1>10. CASE lines' = lines \/ \E l \in Lines : lines' = Append(lines, l) /\ l.ev = "new"
  <2>1. \A n \in DestroyLines' : n \in DestroyLines /\ lines'[n] = lines[n]
    <3>1. CASE lines' = lines
      BY <3>1 DEF DestroyLines
    <3>2. CASE \E l \in Lines : lines' = Append(lines, l) /\ l.ev = "new"
      <4>1. PICK l \in Lines : lines' = Append(lines, l) /\ l.ev = "new"
        BY <3>2
      <4>2. /\ Len(lines') = Len(lines) + 1 /\ \A n \in 1..Len(lines) : lines'[n] = lines[n]
            /\ lines'[Len(lines) + 1] = l
        BY <1>5, <4>1
      <4> QED
        BY <1>5, <4>1, <4>2 DEF DestroyLines
    <3> QED
      BY <1>10, <3>1, <3>2
  <2>2. FinalEvents'
    BY <1>1, <1>8, <2>1 DEF FinalEvents, Unreported
  <2>3. DestroyIsFinal'
    BY <1>1, <2>1 DEF DestroyIsFinal
  <2> QED
    BY <1>6, <1>7, <2>2, <2>3 DEF TornDown
<1> QED
  BY <1>1, <1>3, <1>9, <1>10, ApplyLines

(* A dump record never reports a teardown. *)
LEMMA TornDump ==
  ASSUME FlowAssumption, TypeOK, TornDown, DestroyIsFinal, ReadDump
  PROVE  TornDown' /\ DestroyIsFinal'
<1> DEFINE ev == Head(dumpq)
<1>1. /\ dumpq \in Seq(Events) /\ dumpq # <<>> /\ dumpq' = Tail(dumpq) /\ ApplyEvent(ev)
      /\ phase' = phase /\ bytes' = bytes /\ evq' = evq
  BY DEF ReadDump, TypeOK, kernelVars
<1>2. /\ 1 \in 1..Len(dumpq) /\ ev = dumpq[1]
      /\ \A p \in 1..Len(dumpq') : p + 1 \in 1..Len(dumpq) /\ dumpq'[p] = dumpq[p + 1]
  BY <1>1, Popped
<1>3. ev \in Events
  BY <1>2, QueuesTyped
<1>4. ev.kind = "UPDATE"
  BY <1>2 DEF TornDown, DumpsUpdate
<1>5. lines' = lines
  BY <1>1, <1>4 DEF ApplyEvent
<1>6. DumpsUpdate'
  BY <1>2 DEF TornDown, DumpsUpdate
<1> QED
  BY <1>1, <1>5, <1>6 DEF TornDown, FinalEvents, OneTeardown, Unreported, DestroyLines, DestroyIsFinal

(***************************************************************************)
(* The inductive invariant.                                                *)
(***************************************************************************)
FlowInv ==
  TypeOK /\ RowsKnown /\ NoDoubleEntry /\ UsedCounts /\ TornDown /\ DestroyIsFinal

(* A step that leaves the table, the lines and the queues' teardowns alone *)
(* keeps the rest of the invariant.                                        *)
LEMMA TableKept ==
  ASSUME RowsKnown, NoDoubleEntry, UsedCounts, table' = table, used' = used
  PROVE  RowsKnown' /\ NoDoubleEntry' /\ UsedCounts'
<1>1. InUse' = InUse
  BY DEF InUse
<1> QED
  BY <1>1 DEF RowsKnown, NoDoubleEntry, UsedCounts

(* A step that leaves queues, lines and the kernel alone keeps the account *)
(* of the teardowns.                                                       *)
LEMMA TornKept ==
  ASSUME TornDown, DestroyIsFinal, UNCHANGED <<phase, bytes, evq, dumpq, lines>>
  PROVE  TornDown' /\ DestroyIsFinal'
BY DEF TornDown, FinalEvents, OneTeardown, DumpsUpdate, Unreported, DestroyLines, DestroyIsFinal

(* The empty table and the empty queues. *)
LEMMA FlowInit ==
  ASSUME FlowAssumption, Init
  PROVE  FlowInv
<1>1. Free \in Rows /\ ~Free.used
  BY DEF Free, Rows, FlowAssumption
<1>2. TypeOK
  <2>1. table \in [Slots -> Rows] /\ lines \in Seq(Lines) /\ lost \subseteq Conns
    BY <1>1 DEF Init
  <2>2. used \in 0..MaxFlows /\ budget \in 0..PollLimit /\ clock \in 0..MaxClock
    BY DEF Init, FlowAssumption
  <2>3. evq \in Seq(Events) /\ dumpq \in Seq(Events) /\ walk \subseteq Conns
    BY DEF Init
  <2>4. /\ phase \in [Conns -> {"unborn", "live", "gone"}] /\ bytes \in [Conns -> 0..MaxBytes]
        /\ missed \subseteq Conns
    BY DEF Init
  <2> QED
    BY <2>1, <2>2, <2>3, <2>4 DEF Init, TypeOK
<1>3. InUse = {}
  BY <1>1 DEF Init, InUse
<1>4. RowsKnown /\ NoDoubleEntry
  BY <1>3 DEF RowsKnown, NoDoubleEntry
<1>5. UsedCounts
  BY <1>3, FS_EmptySet DEF UsedCounts, Init
<1>6. Len(evq) = 0 /\ Len(dumpq) = 0 /\ Len(lines) = 0
  BY DEF Init
<1>7. TornDown /\ DestroyIsFinal
  BY <1>6 DEF TornDown, FinalEvents, OneTeardown, DumpsUpdate, DestroyIsFinal, DestroyLines
<1> QED
  BY <1>2, <1>4, <1>5, <1>7 DEF FlowInv

(* Every step of the kernel and of the tick keeps it. *)
LEMMA FlowStep ==
  ASSUME FlowAssumption, FlowInv, [Next]_vars
  PROVE  FlowInv'
<1> USE DEF FlowInv
<1>1. TypeOK'
  BY TypeStep
<1>2. CASE Kernel
  <2>1. table' = table /\ used' = used
    BY <1>2 DEF Kernel, Create, Traffic, Destroy, DumpVisit
  <2> QED
    BY <1>1, <1>2, <2>1, TornKernel, TableKept
<1>3. CASE ReadEvent
  <2>1. Head(evq) \in Events /\ ApplyEvent(Head(evq))
    BY <1>3 DEF ReadEvent, TypeOK
  <2>2. RowsKnown' /\ NoDoubleEntry'
    BY <2>1, ApplyRows
  <2>3. UsedCounts'
    BY <2>1, ApplyUsed
  <2> QED
    BY <1>1, <1>3, <2>2, <2>3, TornRead
<1>4. CASE ReadDump
  <2>1. Head(dumpq) \in Events /\ ApplyEvent(Head(dumpq))
    BY <1>4 DEF ReadDump, TypeOK
  <2>2. RowsKnown' /\ NoDoubleEntry'
    BY <2>1, ApplyRows
  <2>3. UsedCounts'
    BY <2>1, ApplyUsed
  <2> QED
    BY <1>1, <1>4, <2>2, <2>3, TornDump
<1>5. CASE StartTick \/ EndPoll \/ EndDump \/ UNCHANGED vars
  <2>1. UNCHANGED <<phase, bytes, evq, dumpq, lines>> /\ table' = table /\ used' = used
    BY <1>5 DEF StartTick, EndPoll, EndDump, vars, kernelVars
  <2> QED
    BY <1>1, <2>1, TableKept, TornKept
<1> QED
  BY <1>2, <1>3, <1>4, <1>5 DEF Next, Tick

(* FlowInv holds of every behaviour of the flow accounting: whatever is    *)
(* lost, merged, evicted or read late.                                     *)
THEOREM FlowInvariant == Spec => []FlowInv
<1>1. Init => FlowInv
  BY FlowInit, FlowAssumption
<1>2. FlowInv /\ [Next]_vars => FlowInv'
  BY FlowStep, FlowAssumption
<1> QED
  BY <1>1, <1>2, PTL DEF Spec

(* table_used, kept by increments and decrements, is the number of slots   *)
(* in use.                                                                 *)
THEOREM UsedCountsHolds == Spec => []UsedCounts
<1>1. FlowInv => UsedCounts
  BY DEF FlowInv
<1> QED
  BY <1>1, FlowInvariant, PTL

(* No connection has two rows, although a record is matched by ct_id or by *)
(* tuple and a tuple may be reused.                                        *)
THEOREM NoDoubleEntryHolds == Spec => []NoDoubleEntry
<1>1. FlowInv => NoDoubleEntry
  BY DEF FlowInv
<1> QED
  BY <1>1, FlowInvariant, PTL

(* A "destroy" line is about a connection that is gone, carries its final  *)
(* count and is the only one about it.                                     *)
THEOREM DestroyIsFinalHolds == Spec => []DestroyIsFinal
<1>1. FlowInv => DestroyIsFinal
  BY DEF FlowInv
<1> QED
  BY <1>1, FlowInvariant, PTL

-----------------------------------------------------------------------------
(***************************************************************************)
(* Teardowns are not swallowed.                                            *)
(***************************************************************************)

(* apply_event keeps the lines there are, and reports a teardown or finds  *)
(* no spool.                                                               *)
LEMMA ReportedGrows ==
  ASSUME FlowAssumption, TypeOK, NEW ev \in Events, ApplyEvent(ev)
  PROVE  /\ \A c \in Conns : Reported(c) => Reported(c)'
         /\ Ends(ev) => ev.conn \in lost' \/ \E n \in DestroyLines' : lines'[n].id = ev.conn
<1>1. lines \in Seq(Lines) /\ Len(lines) \in Nat
  BY DEF TypeOK
<1>2. CASE lines' = lines /\ (Ends(ev) => ev.conn \in lost')
  BY <1>2 DEF Reported, DestroyLines
<1>3. ASSUME NEW l \in Lines, lines' = Append(lines, l)
      PROVE  /\ \A n \in DestroyLines : n \in DestroyLines' /\ lines'[n] = lines[n]
             /\ l.ev = "destroy" => \E n \in DestroyLines' : lines'[n].id = l.id
  <2>1. /\ Len(lines') = Len(lines) + 1 /\ lines'[Len(lines) + 1] = l
        /\ \A n \in 1..Len(lines) : lines'[n] = lines[n]
    BY <1>1, <1>3
  <2>2. /\ Len(lines) + 1 \in 1..Len(lines')
        /\ \A n \in 1..Len(lines) : n \in 1..Len(lines')
    BY <1>1, <2>1
  <2> QED
    BY <2>1, <2>2 DEF DestroyLines
<1>4. CASE \E l \in Lines : lines' = Append(lines, l) /\ l.ev = "destroy" /\ l.id = ev.conn
  <2>1. PICK l \in Lines : lines' = Append(lines, l) /\ l.ev = "destroy" /\ l.id = ev.conn
    BY <1>4
  <2>2. /\ \A n \in DestroyLines : n \in DestroyLines' /\ lines'[n] = lines[n]
        /\ \E n \in DestroyLines' : lines'[n].id = ev.conn
    BY <1>3, <2>1
  <2> QED
    BY <2>2 DEF Reported
<1>5. CASE ~Ends(ev) /\ \E l \in Lines : lines' = Append(lines, l)
  <2>1. \A n \in DestroyLines : n \in DestroyLines' /\ lines'[n] = lines[n]
    BY <1>3, <1>5
  <2> QED
    BY <1>5, <2>1 DEF Reported
<1> QED
  BY <1>2, <1>4, <1>5, ApplyLines

(* What is in the socket stays there until it is read; a teardown enters   *)
(* it or is lost.                                                          *)
LEMMA KeptKernel ==
  ASSUME FlowAssumption, TypeOK, TeardownKept, Kernel
  PROVE  TeardownKept'
<1>1. PICK c \in Conns : Create(c) \/ Traffic(c) \/ Destroy(c) \/ DumpVisit(c)
  BY DEF Kernel
<1>2. bytes[c] \in 0..MaxBytes /\ MaxBytes \in Nat /\ phase \in [Conns -> {"unborn", "live", "gone"}]
  BY DEF TypeOK, FlowAssumption
<1>3. lines' = lines
  BY <1>1 DEF Create, Traffic, Destroy, DumpVisit
<1>4. lost \subseteq lost' /\ \A p \in 1..Len(evq) : p \in 1..Len(evq') /\ evq'[p] = evq[p]
  <2>1. lost \subseteq lost'
    BY <1>1 DEF Create, Traffic, Destroy, DumpVisit, Deliver
  <2>2. CASE Create(c)
    BY <2>1, <2>2, Sends DEF Gains
  <2>3. CASE Traffic(c)
    <3>1. GainsUpdate(c)
      BY <2>3, Sends
    <3> QED
      BY <2>1, <3>1 DEF GainsUpdate, Gains
  <2>4. CASE Destroy(c)
    BY <2>1, <2>4, Sends DEF Gains
  <2>5. CASE DumpVisit(c)
    BY <2>1, <2>5 DEF DumpVisit
  <2> QED
    BY <1>1, <2>2, <2>3, <2>4, <2>5
<1>5. \A d \in Conns : (Reported(d) => Reported(d)') /\ (Foretells(d) => Foretells(d)')
  BY <1>3, <1>4 DEF Reported, DestroyLines, Foretells
<1>6. ASSUME NEW d \in Conns, phase'[d] = "gone", phase[d] # "gone"
      PROVE  d \in lost' \/ Foretells(d)'
  <2>1. Destroy(c) /\ d = c
    BY <1>1, <1>2, <1>6 DEF Create, Traffic, Destroy, DumpVisit, kernelVars
  <2> DEFINE e == EndOf(c)
  <2>2. Deliver(e)
    BY <2>1 DEF Destroy, EndOf
  <2>3. e.kind = "DESTROY" /\ e.conn = c /\ e \in Events /\ evq \in Seq(Events)
    BY SentTyped DEF TypeOK
  <2> HIDE DEF e
  <2>4. CASE evq' = Append(evq, e)
    <3>1. Len(evq) + 1 \in 1..Len(evq') /\ evq'[Len(evq) + 1] = e
      BY <2>3, <2>4
    <3> QED
      BY <2>1, <2>3, <3>1 DEF Foretells
  <2> QED
    BY <2>1, <2>2, <2>3, <2>4 DEF Deliver
<1> QED
  BY <1>4, <1>5, <1>6 DEF TeardownKept

(* Reading an event reports the teardown it takes from the socket, unless  *)
(* there is no spool.                                                      *)
LEMMA KeptRead ==
  ASSUME FlowAssumption, TypeOK, TeardownKept, ReadEvent
  PROVE  TeardownKept'
<1> DEFINE ev == Head(evq)
<1>1. /\ evq \in Seq(Events) /\ evq # <<>> /\ evq' = Tail(evq) /\ ApplyEvent(ev)
      /\ phase' = phase
  BY DEF ReadEvent, TypeOK, kernelVars
<1>2. /\ 1 \in 1..Len(evq) /\ ev = evq[1]
      /\ \A p \in 1..Len(evq) : p # 1 => p - 1 \in 1..Len(evq') /\ evq'[p - 1] = evq[p]
  BY <1>1, Popped
<1>3. ev \in Events
  BY <1>2, QueuesTyped
<1>4. /\ \A c \in Conns : Reported(c) => Reported(c)'
      /\ Ends(ev) => ev.conn \in lost' \/ \E n \in DestroyLines' : lines'[n].id = ev.conn
      /\ lost \subseteq lost'
  BY <1>1, <1>3, ReportedGrows, ApplyLines
<1>5. EmitDestroy => \A c \in Conns : Foretells(c) => Foretells(c)' \/ Reported(c)' \/ c \in lost'
  <2>1. SUFFICES ASSUME EmitDestroy, NEW c \in Conns,
                        NEW p \in 1..Len(evq), evq[p].kind = "DESTROY", evq[p].conn = c
                 PROVE  Foretells(c)' \/ Reported(c)' \/ c \in lost'
    BY DEF Foretells
  <2>2. CASE p = 1
    <3>1. Ends(ev) /\ ev.conn = c
      BY <1>2, <2>1, <2>2 DEF Ends
    <3> QED
      BY <1>4, <3>1 DEF Reported
  <2>3. CASE p # 1
    BY <1>2, <2>1, <2>3 DEF Foretells
  <2> QED
    BY <2>2, <2>3
<1> QED
  BY <1>1, <1>4, <1>5 DEF TeardownKept

(* No teardown is swallowed: a connection that is gone is reported, was    *)
(* lost by the kernel or for want of a spool, or has its DESTROY event     *)
(* still in the socket, for any number of connections and slots and any    *)
(* budget of a tick.                                                       *)
THEOREM TeardownKeptHolds == Spec => []TeardownKept
<1>1. Init => TeardownKept
  BY DEF Init, TeardownKept
<1>2. FlowInv /\ TeardownKept /\ [Next]_vars => TeardownKept'
  <2>1. ASSUME FlowInv, TeardownKept, [Next]_vars PROVE TeardownKept'
    <3>1. CASE Kernel
      BY <2>1, <3>1, KeptKernel, FlowAssumption DEF FlowInv
    <3>2. CASE ReadEvent
      BY <2>1, <3>2, KeptRead, FlowAssumption DEF FlowInv
    <3>3. CASE ReadDump
      <4>1. Head(dumpq) \in Events /\ ApplyEvent(Head(dumpq)) /\ UNCHANGED <<phase, evq>>
        BY <2>1, <3>3 DEF ReadDump, FlowInv, TypeOK, kernelVars
      <4>2. lost \subseteq lost' /\ \A c \in Conns : Reported(c) => Reported(c)'
        BY <2>1, <4>1, ReportedGrows, ApplyLines, FlowAssumption DEF FlowInv
      <4> QED
        BY <2>1, <4>1, <4>2 DEF TeardownKept, Foretells
    <3>4. CASE StartTick \/ EndPoll \/ EndDump \/ UNCHANGED vars
      <4>1. UNCHANGED <<phase, evq, lines, lost>>
        BY <3>4 DEF StartTick, EndPoll, EndDump, vars, kernelVars
      <4> QED
        BY <2>1, <4>1 DEF TeardownKept, Foretells, Reported, DestroyLines
    <3> QED
      BY <2>1, <3>1, <3>2, <3>3, <3>4 DEF Next, Tick
  <2> QED
    BY <2>1
<1> QED
  BY <1>1, <1>2, FlowInvariant, PTL DEF Spec
-----------------------------------------------------------------------------
(***************************************************************************)
(* flow_list against the live table, when no event is lost, every dump is  *)
(* read to its end and emit_destroy is on (the default).  A record or a    *)
(* row about a connection that is gone is always followed by the DESTROY   *)
(* event that will free the row.                                           *)
(***************************************************************************)
Foretold(c, n) == \E q \in 1..Len(evq) : q > n /\ evq[q].kind = "DESTROY" /\ evq[q].conn = c
LiveOr(c, n) == phase[c] = "live" \/ Foretold(c, n)

EventsLive == \A p \in 1..Len(evq) : evq[p].kind # "DESTROY" => LiveOr(evq[p].conn, p)
DumpLive   == \A p \in 1..Len(dumpq) : LiveOr(dumpq[p].conn, 0)
RowsLive   == \A i \in InUse : LiveOr(table[i].id, 0)
DumpRead   == pc # "dump" => walk = {} /\ dumpq = <<>>
LiveInv == EventsLive /\ DumpLive /\ RowsLive /\ DumpRead

(* The rows after apply_event: those about other connections, unchanged,   *)
(* and the one about the event's, unless it was freed.                     *)
LEMMA RowsAfter ==
  ASSUME FlowAssumption, FlowInv, NEW ev \in Events, ApplyEvent(ev), NEW j \in InUse'
  PROVE  \/ j \in InUse /\ table'[j] = table[j] /\ table[j].id # ev.conn
         \/ table'[j].id = ev.conn /\ ~Ends(ev)
<1> USE DEF FlowInv
<1> DEFINE i == FindSlot(ev.conn)
<1>1. /\ i \in Slots /\ ev.conn \in Conns
      /\ \A k \in Slots : k # i => table'[k] = table[k]
      /\ table'[i].id = ev.conn /\ (table'[i].used <=> ~Ends(ev))
  BY ApplyTable
<1>2. InUse' \subseteq InUse \cup {i} /\ InUse \subseteq Slots
  BY ApplyInUse DEF InUse
<1>3. \A k \in InUse : k # i => table[k].id # ev.conn
  BY <1>1, OthersDiffer
<1>4. table'[j].used
  BY DEF InUse
<1> HIDE DEF i
<1>5. CASE j = i
  BY <1>1, <1>4, <1>5
<1>6. CASE j # i
  BY <1>1, <1>2, <1>3, <1>6
<1> QED
  BY <1>5, <1>6

(* The kernel breaks no promise: a connection that goes leaves its DESTROY *)
(* at the end of the queue.                                                *)
LEMMA PromisesKept ==
  ASSUME FlowAssumption, FlowInv, ~Lossy, Kernel, NEW d \in Conns, NEW n \in 0..Len(evq), LiveOr(d, n)
  PROVE  LiveOr(d, n)'
<1> USE DEF FlowInv
<1>0. evq \in Seq(Events) /\ Len(evq) \in Nat /\ n \in Nat /\ n <= Len(evq)
  BY DEF TypeOK
<1>1. ASSUME NEW c \in Conns, Create(c) PROVE LiveOr(d, n)'
  <2>1. \A p \in 1..Len(evq) : p \in 1..Len(evq') /\ evq'[p] = evq[p]
    BY <1>1, Sends DEF Gains
  <2>2. phase[d] = "live" => phase'[d] = "live"
    BY <1>1 DEF Create, TypeOK
  <2> QED
    BY <2>1, <2>2 DEF LiveOr, Foretold
<1>2. ASSUME NEW c \in Conns, Traffic(c) PROVE LiveOr(d, n)'
  <2>1. \A p \in 1..Len(evq) : p \in 1..Len(evq') /\ evq'[p] = evq[p]
    <3>1. GainsUpdate(c)
      BY <1>2, Sends
    <3> QED
      BY <3>1 DEF GainsUpdate, Gains
  <2>2. phase' = phase
    BY <1>2 DEF Traffic
  <2> QED
    BY <2>1, <2>2 DEF LiveOr, Foretold
<1>3. ASSUME NEW c \in Conns, Destroy(c) PROVE LiveOr(d, n)'
  <2>2. \A p \in 1..Len(evq) : p \in 1..Len(evq') /\ evq'[p] = evq[p]
    BY <1>3, Sends DEF Gains
  <2>3. CASE d = c
    <3>1. evq' = Append(evq, EndOf(c))
      BY <1>3 DEF Destroy, Deliver, EndOf
    <3>2. EndOf(c) \in Events /\ EndOf(c).kind = "DESTROY" /\ EndOf(c).conn = c
      BY SentTyped
    <3>3. Len(evq') = Len(evq) + 1 /\ evq'[Len(evq) + 1] = EndOf(c)
      BY <1>0, <3>1, <3>2
    <3>4. Len(evq) + 1 \in 1..Len(evq') /\ Len(evq) + 1 > n
      BY <1>0, <3>3
    <3>5. Foretold(d, n)'
      BY <2>3, <3>2, <3>3, <3>4 DEF Foretold
    <3> QED
      BY <3>5 DEF LiveOr
  <2>4. CASE d # c
    <3>1. phase'[d] = phase[d]
      BY <1>3, <2>4 DEF Destroy, TypeOK
    <3> QED
      BY <2>2, <3>1 DEF LiveOr, Foretold
  <2> QED
    BY <2>3, <2>4
<1>4. ASSUME NEW c \in Conns, DumpVisit(c) PROVE LiveOr(d, n)'
  BY <1>4 DEF DumpVisit, kernelVars, LiveOr, Foretold
<1> QED
  BY <1>1, <1>2, <1>3, <1>4 DEF Kernel

(* What the kernel adds to the queues is about live connections, and is a  *)
(* NEW only for a connection it has just created.                          *)
LEMMA KernelAdds ==
  ASSUME FlowAssumption, FlowInv, Kernel
  PROVE  /\ \A p \in 1..Len(evq) : p \in 1..Len(evq') /\ evq'[p] = evq[p]
         /\ \A p \in 1..Len(evq') :
              \/ p \in 1..Len(evq) /\ evq'[p] = evq[p]
              \/ /\ p = Len(evq) + 1 /\ evq'[p].conn \in Conns
                 /\ evq'[p].kind = "DESTROY" \/ phase'[evq'[p].conn] = "live"
                 /\ evq'[p].kind = "NEW" \/ phase[evq'[p].conn] = "live"
         /\ \A p \in 1..Len(dumpq) : p \in 1..Len(dumpq') /\ dumpq'[p] = dumpq[p]
         /\ \A p \in 1..Len(dumpq') :
              \/ p \in 1..Len(dumpq) /\ dumpq'[p] = dumpq[p]
              \/ /\ dumpq'[p].conn \in Conns /\ phase[dumpq'[p].conn] = "live"
                 /\ phase'[dumpq'[p].conn] = "live" /\ walk # {}
<1> USE DEF FlowInv
<1> DEFINE Kept == \A p \in 1..Len(evq) : p \in 1..Len(evq') /\ evq'[p] = evq[p]
           Old(p) == p \in 1..Len(evq) /\ evq'[p] = evq[p]
           New(p) == /\ p = Len(evq) + 1 /\ evq'[p].conn \in Conns
                     /\ evq'[p].kind = "DESTROY" \/ phase'[evq'[p].conn] = "live"
                     /\ evq'[p].kind = "NEW" \/ phase[evq'[p].conn] = "live"
           Evs == \A p \in 1..Len(evq') : Old(p) \/ New(p)
           DumpsKept == \A p \in 1..Len(dumpq) : p \in 1..Len(dumpq') /\ dumpq'[p] = dumpq[p]
           Dumps == \A p \in 1..Len(dumpq') :
              \/ p \in 1..Len(dumpq) /\ dumpq'[p] = dumpq[p]
              \/ /\ dumpq'[p].conn \in Conns /\ phase[dumpq'[p].conn] = "live"
                 /\ phase'[dumpq'[p].conn] = "live" /\ walk # {}
<1>1. ASSUME NEW c \in Conns, Create(c) PROVE Kept /\ Evs /\ DumpsKept /\ Dumps
  <2>1. NewOf(c).kind = "NEW" /\ NewOf(c).conn = c
    BY SentTyped
  <2>2. Kept /\ \A p \in 1..Len(evq') : Old(p) \/ (p = Len(evq) + 1 /\ evq'[p] = NewOf(c))
    BY <1>1, Sends DEF Gains
  <2>3. phase'[c] = "live" /\ dumpq' = dumpq
    BY <1>1 DEF Create, TypeOK
  <2> QED
    BY <2>1, <2>2, <2>3
<1>2. ASSUME NEW c \in Conns, Traffic(c) PROVE Kept /\ Evs /\ DumpsKept /\ Dumps
  <2>1. GainsUpdate(c) /\ bytes[c] < MaxBytes
    BY <1>2, Sends
  <2>2. \A counted \in UpdateCounts : UpdateOf(c, counted).conn = c /\ UpdateOf(c, counted).kind = "UPDATE"
    BY <2>1, SentTyped
  <2>3. Kept /\ \A p \in 1..Len(evq') : Old(p) \/ (p = Len(evq) + 1 /\ evq'[p].conn = c)
    BY <2>1, <2>2 DEF GainsUpdate, Gains
  <2>4. phase[c] = "live" /\ phase' = phase /\ dumpq' = dumpq
    BY <1>2 DEF Traffic
  <2> QED
    BY <2>3, <2>4
<1>3. ASSUME NEW c \in Conns, Destroy(c) PROVE Kept /\ Evs /\ DumpsKept /\ Dumps
  <2>1. EndOf(c).kind = "DESTROY" /\ EndOf(c).conn = c
    BY SentTyped
  <2>2. Kept /\ \A p \in 1..Len(evq') : Old(p) \/ (p = Len(evq) + 1 /\ evq'[p] = EndOf(c))
    BY <1>3, Sends DEF Gains
  <2>3. phase[c] = "live" /\ dumpq' = dumpq
    BY <1>3 DEF Destroy
  <2> QED
    BY <2>1, <2>2, <2>3
<1>4. ASSUME NEW c \in Conns, DumpVisit(c) PROVE Kept /\ Evs /\ DumpsKept /\ Dumps
  <2>1. DumpOf(c) \in Events /\ DumpOf(c).conn = c
    BY SentTyped
  <2>2. phase' = phase /\ evq' = evq /\ walk # {}
    BY <1>4 DEF DumpVisit, kernelVars
  <2>3. DumpsKept /\ Dumps
    <3>0. dumpq' = IF phase[c] = "live" THEN Append(dumpq, DumpOf(c)) ELSE dumpq
      BY <1>4, Zenon DEF DumpVisit, DumpOf
    <3>1. CASE dumpq' = dumpq
      BY <3>1
    <3>2. CASE phase[c] = "live" /\ dumpq' = Append(dumpq, DumpOf(c))
      <4>1. /\ Len(dumpq') = Len(dumpq) + 1 /\ Len(dumpq) \in Nat
            /\ \A p \in 1..Len(dumpq) : dumpq'[p] = dumpq[p]
            /\ dumpq'[Len(dumpq) + 1] = DumpOf(c)
        BY <2>1, <3>2 DEF TypeOK
      <4>2. /\ DumpsKept
            /\ \A p \in 1..Len(dumpq') : \/ p \in 1..Len(dumpq) /\ dumpq'[p] = dumpq[p]
                                         \/ dumpq'[p] = DumpOf(c)
        BY <4>1
      <4> QED
        BY <2>1, <2>2, <3>2, <4>2
    <3> QED
      BY <3>0, <3>1, <3>2
  <2> QED
    BY <2>2, <2>3
<1> QED
  BY <1>1, <1>2, <1>3, <1>4 DEF Kernel

(* LiveInv under the kernel's steps. *)
LEMMA LiveKernel ==
  ASSUME FlowAssumption, FlowInv, LiveInv, ~Lossy, Kernel
  PROVE  LiveInv'
<1> USE DEF FlowInv
<1>0. Len(evq) \in Nat
  BY DEF TypeOK
<1>1. EventsLive'
  <2>1. ASSUME NEW p \in 1..Len(evq'), evq'[p].kind # "DESTROY"
        PROVE  phase'[evq'[p].conn] = "live" \/ \E q \in 1..Len(evq') :
                 q > p /\ evq'[q].kind = "DESTROY" /\ evq'[q].conn = evq'[p].conn
    <3>1. CASE p \in 1..Len(evq) /\ evq'[p] = evq[p]
      <4>1. evq[p].conn \in Conns /\ p \in 0..Len(evq) /\ LiveOr(evq[p].conn, p)
        BY <1>0, <2>1, <3>1, QueuesTyped DEF LiveInv, EventsLive
      <4>2. \A d \in Conns : LiveOr(d, p) => LiveOr(d, p)'
        BY <4>1, PromisesKept
      <4> QED
        BY <3>1, <4>1, <4>2 DEF LiveOr, Foretold
    <3>2. CASE phase'[evq'[p].conn] = "live"
      BY <3>2
    <3> QED
      BY <2>1, <3>1, <3>2, KernelAdds
  <2> QED
    BY <2>1 DEF EventsLive, LiveOr, Foretold
<1>2. \A d \in Conns : LiveOr(d, 0) => LiveOr(d, 0)'
  <2>1. 0 \in 0..Len(evq)
    BY <1>0
  <2> QED
    BY <2>1, PromisesKept
<1>3. DumpLive'
  <2>1. ASSUME NEW p \in 1..Len(dumpq')
        PROVE  phase'[dumpq'[p].conn] = "live" \/ \E q \in 1..Len(evq') :
                 q > 0 /\ evq'[q].kind = "DESTROY" /\ evq'[q].conn = dumpq'[p].conn
    <3>1. CASE p \in 1..Len(dumpq) /\ dumpq'[p] = dumpq[p]
      <4>1. dumpq[p].conn \in Conns /\ LiveOr(dumpq[p].conn, 0)
        BY <3>1, QueuesTyped DEF LiveInv, DumpLive
      <4> QED
        BY <1>2, <3>1, <4>1 DEF LiveOr, Foretold
    <3>2. CASE phase'[dumpq'[p].conn] = "live"
      BY <3>2
    <3> QED
      BY <3>1, <3>2, KernelAdds
  <2> QED
    BY <2>1 DEF DumpLive, LiveOr, Foretold
<1>4. table' = table /\ pc' = pc
  BY DEF Kernel, Create, Traffic, Destroy, DumpVisit, tickVars
<1>5. RowsLive'
  <2>1. InUse' = InUse
    BY <1>4 DEF InUse
  <2>2. \A i \in InUse : LiveOr(table[i].id, 0)' /\ table'[i].id = table[i].id
    BY <1>2, <1>4 DEF LiveInv, RowsLive, RowsKnown, LiveOr, Foretold
  <2> QED
    BY <1>4, <2>1, <2>2 DEF RowsLive, LiveOr, Foretold
<1>6. DumpRead'
  BY <1>4 DEF LiveInv, DumpRead, Kernel, Create, Traffic, Destroy, DumpVisit
<1> QED
  BY <1>1, <1>3, <1>5, <1>6 DEF LiveInv

(* Once an event has been read, what was promised behind it still is. *)
LEMMA PromisesRead ==
  ASSUME FlowInv, ReadEvent, NEW d \in Conns
  PROVE  /\ \A n \in Nat : LiveOr(d, n + 1) =>
              phase'[d] = "live" \/ \E q \in 1..Len(evq') :
                 q > n /\ evq'[q].kind = "DESTROY" /\ evq'[q].conn = d
         /\ LiveOr(d, 0) /\ (evq[1].kind # "DESTROY" \/ evq[1].conn # d) => LiveOr(d, 0)'
<1>1. evq \in Seq(Events) /\ evq # <<>> /\ evq' = Tail(evq) /\ phase' = phase
  BY DEF ReadEvent, FlowInv, TypeOK, kernelVars
<1>2. \A p \in 1..Len(evq) : p # 1 => p - 1 \in 1..Len(evq') /\ evq'[p - 1] = evq[p]
  BY <1>1, Popped
<1>3. Len(evq) \in Nat
  BY <1>1
<1>4. ASSUME NEW n \in Nat, NEW q \in 1..Len(evq), q > n, q # 1,
             evq[q].kind = "DESTROY", evq[q].conn = d
      PROVE  \E r \in 1..Len(evq') : r > n - 1 /\ evq'[r].kind = "DESTROY" /\ evq'[r].conn = d
  <2>1. q - 1 \in 1..Len(evq') /\ evq'[q - 1] = evq[q] /\ q - 1 > n - 1
    BY <1>2, <1>3, <1>4
  <2> QED
    BY <1>4, <2>1
<1>5. \A n \in Nat : LiveOr(d, n + 1) =>
              phase'[d] = "live" \/ \E q \in 1..Len(evq') :
                 q > n /\ evq'[q].kind = "DESTROY" /\ evq'[q].conn = d
  <2>1. SUFFICES ASSUME NEW n \in Nat, Foretold(d, n + 1)
                 PROVE  \E r \in 1..Len(evq') : r > n /\ evq'[r].kind = "DESTROY" /\ evq'[r].conn = d
    BY <1>1 DEF LiveOr
  <2>2. PICK q \in 1..Len(evq) : q > n + 1 /\ evq[q].kind = "DESTROY" /\ evq[q].conn = d
    BY <2>1 DEF Foretold
  <2>3. n + 1 \in Nat /\ q # 1 /\ (n + 1) - 1 = n
    BY <2>2
  <2> QED
    BY <1>4, <2>2, <2>3
<1>6. LiveOr(d, 0) /\ (evq[1].kind # "DESTROY" \/ evq[1].conn # d) => LiveOr(d, 0)'
  <2>1. SUFFICES ASSUME Foretold(d, 0), evq[1].kind # "DESTROY" \/ evq[1].conn # d
                 PROVE  Foretold(d, 0)'
    BY <1>1 DEF LiveOr
  <2>2. PICK q \in 1..Len(evq) : evq[q].kind = "DESTROY" /\ evq[q].conn = d
    BY <2>1 DEF Foretold
  <2>3. q # 1
    BY <2>1, <2>2
  <2>4. q - 1 \in 1..Len(evq') /\ evq'[q - 1] = evq[q] /\ q - 1 > 0
    BY <1>2, <1>3, <2>3
  <2> QED
    BY <2>2, <2>4 DEF Foretold
<1> QED
  BY <1>5, <1>6

(* LiveInv when an event is read: a DESTROY frees the only row about its   *)
(* connection; any other event leaves its row to what is promised behind.  *)
LEMMA LiveRead ==
  ASSUME FlowAssumption, FlowInv, LiveInv, EmitDestroy, ReadEvent
  PROVE  LiveInv'
<1> USE DEF FlowInv
<1> DEFINE ev == Head(evq)
<1>1. /\ evq \in Seq(Events) /\ evq # <<>> /\ evq' = Tail(evq) /\ ApplyEvent(ev)
      /\ phase' = phase /\ walk' = walk /\ dumpq' = dumpq /\ pc' = pc /\ pc = "poll"
  BY DEF ReadEvent, TypeOK, kernelVars
<1>2. /\ 1 \in 1..Len(evq) /\ ev = evq[1]
      /\ \A p \in 1..Len(evq') : p + 1 \in 1..Len(evq) /\ evq'[p] = evq[p + 1]
  BY <1>1, Popped
<1>3. ev \in Events /\ ev.conn \in Conns
  BY <1>2, QueuesTyped
<1>4. dumpq = <<>> /\ walk = {}
  BY <1>1 DEF LiveInv, DumpRead
<1>5. DumpRead' /\ DumpLive'
  BY <1>1, <1>4 DEF DumpRead, DumpLive
<1>6. EventsLive'
  <2>1. ASSUME NEW p \in 1..Len(evq'), evq'[p].kind # "DESTROY"
        PROVE  phase'[evq'[p].conn] = "live" \/ \E q \in 1..Len(evq') :
                 q > p /\ evq'[q].kind = "DESTROY" /\ evq'[q].conn = evq'[p].conn
    <3>1. p + 1 \in 1..Len(evq) /\ evq'[p] = evq[p + 1] /\ evq[p + 1].conn \in Conns /\ p \in Nat
      BY <1>2, QueuesTyped
    <3>2. LiveOr(evq[p + 1].conn, p + 1)
      BY <2>1, <3>1 DEF LiveInv, EventsLive
    <3> QED
      BY <3>1, <3>2, PromisesRead
  <2> QED
    BY <2>1 DEF EventsLive, LiveOr, Foretold
<1>7. RowsLive'
  <2>1. ASSUME NEW j \in InUse'
        PROVE  phase'[table'[j].id] = "live" \/ \E q \in 1..Len(evq') :
                 q > 0 /\ evq'[q].kind = "DESTROY" /\ evq'[q].conn = table'[j].id
    <3>1. CASE j \in InUse /\ table'[j] = table[j] /\ table[j].id # ev.conn
      <4>1. table[j].id \in Conns /\ LiveOr(table[j].id, 0) /\ evq[1].conn # table[j].id
        BY <1>2, <3>1 DEF LiveInv, RowsLive, RowsKnown
      <4>2. LiveOr(table[j].id, 0) => phase'[table[j].id] = "live" \/ \E q \in 1..Len(evq') :
                 q > 0 /\ evq'[q].kind = "DESTROY" /\ evq'[q].conn = table[j].id
        BY <4>1, PromisesRead DEF LiveOr, Foretold
      <4> QED
        BY <3>1, <4>1, <4>2
    <3>2. CASE table'[j].id = ev.conn /\ ~Ends(ev)
      <4>1. ev.kind # "DESTROY"
        BY <3>2 DEF Ends
      <4>2. LiveOr(ev.conn, 0 + 1)
        BY <1>2, <4>1 DEF LiveInv, EventsLive
      <4> QED
        BY <1>3, <3>2, <4>2, PromisesRead
    <3> QED
      BY <1>1, <1>3, <3>1, <3>2, RowsAfter
  <2> QED
    BY <2>1 DEF RowsLive, LiveOr, Foretold
<1> QED
  BY <1>5, <1>6, <1>7 DEF LiveInv

(* LiveInv when a dump record is read: it was visited while its connection *)
(* lived, so that a DESTROY of it, if any, is still in the event queue.    *)
LEMMA LiveDump ==
  ASSUME FlowAssumption, FlowInv, LiveInv, ReadDump
  PROVE  LiveInv'
<1> USE DEF FlowInv
<1> DEFINE ev == Head(dumpq)
<1>1. /\ dumpq \in Seq(Events) /\ dumpq # <<>> /\ dumpq' = Tail(dumpq) /\ ApplyEvent(ev)
      /\ phase' = phase /\ evq' = evq /\ pc' = pc /\ pc = "dump"
  BY DEF ReadDump, TypeOK, kernelVars, tickVars
<1>2. /\ 1 \in 1..Len(dumpq) /\ ev = dumpq[1]
      /\ \A p \in 1..Len(dumpq') : p + 1 \in 1..Len(dumpq) /\ dumpq'[p] = dumpq[p + 1]
  BY <1>1, Popped
<1>3. ev \in Events
  BY <1>2, QueuesTyped
<1>4. DumpRead' /\ EventsLive'
  BY <1>1 DEF LiveInv, DumpRead, EventsLive, LiveOr, Foretold
<1>5. DumpLive'
  BY <1>1, <1>2 DEF LiveInv, DumpLive, LiveOr, Foretold
<1>6. RowsLive'
  <2>1. ASSUME NEW j \in InUse' PROVE LiveOr(table'[j].id, 0)
    <3>1. CASE j \in InUse /\ table'[j] = table[j]
      BY <3>1 DEF LiveInv, RowsLive
    <3>2. CASE table'[j].id = ev.conn
      BY <1>2, <3>2 DEF LiveInv, DumpLive
    <3> QED
      BY <1>1, <1>3, <3>1, <3>2, RowsAfter
  <2> QED
    BY <1>1, <2>1 DEF RowsLive, LiveOr, Foretold
<1> QED
  BY <1>4, <1>5, <1>6 DEF LiveInv

(* Every step keeps LiveInv when nothing is lost and dumps are read to     *)
(* their end.                                                              *)
LEMMA LiveStep ==
  ASSUME FlowAssumption, FlowInv, LiveInv, ~Lossy, ~SplitDump, EmitDestroy, [Next]_vars
  PROVE  LiveInv'
<1>1. CASE StartTick \/ EndPoll \/ EndDump \/ UNCHANGED vars
  <2>1. UNCHANGED <<phase, evq, dumpq, table>>
    BY <1>1 DEF StartTick, EndPoll, EndDump, vars, kernelVars
  <2>2. EventsLive' /\ DumpLive' /\ RowsLive'
    BY <2>1 DEF LiveInv, EventsLive, DumpLive, RowsLive, InUse, LiveOr, Foretold
  <2>3. DumpRead'
    BY <1>1 DEF StartTick, EndPoll, EndDump, vars, LiveInv, DumpRead
  <2> QED
    BY <2>2, <2>3 DEF LiveInv
<1> QED
  BY <1>1, LiveKernel, LiveRead, LiveDump DEF Next, Tick

(* Nothing to be live at first. *)
LEMMA LiveInit ==
  ASSUME FlowAssumption, Init
  PROVE  LiveInv
<1>1. InUse = {}
  BY DEF Init, InUse, Free
<1> QED
  BY <1>1 DEF Init, LiveInv, EventsLive, DumpLive, RowsLive, DumpRead

(* flow_list is a snapshot of the live conntrack table once everything has *)
(* been read, provided the kernel lost no event, every dump was read to    *)
(* its end and emit_destroy is on: for any number of connections, slots    *)
(* and reads per tick, whatever the interleaving of the two sockets.       *)
THEOREM FlowListLiveHolds ==
  ASSUME ~Lossy, ~SplitDump, EmitDestroy
  PROVE  Spec => []FlowListLive
<1>1. Init => LiveInv
  BY LiveInit, FlowAssumption
<1>2. FlowInv /\ LiveInv /\ [Next]_vars => LiveInv'
  BY LiveStep, FlowAssumption
<1>3. LiveInv => FlowListLive
  <2>1. SUFFICES ASSUME LiveInv, Quiet PROVE \A i \in InUse : phase[table[i].id] = "live"
    BY DEF FlowListLive
  <2>2. Len(evq) = 0
    BY <2>1 DEF Quiet
  <2> QED
    BY <2>1, <2>2 DEF LiveInv, RowsLive, LiveOr, Foretold
<1> QED
  BY <1>1, <1>2, <1>3, FlowInvariant, PTL DEF Spec
-----------------------------------------------------------------------------
(***************************************************************************)
(* No live connection is missing from flow_list when there is a slot for   *)
(* every tuple.  Live connections have different tuples; a live connection *)
(* has its NEW event in the socket, or nothing in the sockets can take its *)
(* row from it, and it has a row, or a dump record under way, or is still  *)
(* to be found by a dump.  What follows an event of a live connection      *)
(* cannot take its row either.                                             *)
(***************************************************************************)
Clash(c, d) == c # d /\ TupleOf[c] = TupleOf[d]
Announced(c) == \E p \in 1..Len(evq) : evq[p].kind = "NEW" /\ evq[p].conn = c
Listed(c) == \E i \in InUse : table[i].id = c
Safe(c) == /\ \A p \in 1..Len(evq) : ~Clash(c, evq[p].conn)
           /\ \A p \in 1..Len(dumpq) : ~Clash(c, dumpq[p].conn)

TuplesDiffer == \A c, d \in Conns : phase[c] = "live" /\ phase[d] = "live" => ~Clash(c, d)
Dumped(c) == \E p \in 1..Len(dumpq) : dumpq[p].conn = c
Comes ==
  \A c \in Conns : phase[c] = "live" =>
    Announced(c) \/ (Safe(c) /\ (Listed(c) \/ Dumped(c) \/ c \in missed))
LiveIsSafe ==
  \A p, q \in 1..Len(evq) :
    phase[evq[p].conn] = "live" /\ p < q => ~Clash(evq[p].conn, evq[q].conn)
CompInv == TuplesDiffer /\ Comes /\ LiveIsSafe

Tuples == {TupleOf[c] : c \in Conns}

(* With a slot for every tuple, a record that matches no row finds a free  *)
(* slot: nothing is evicted.                                               *)
LEMMA RoomForAll ==
  ASSUME FlowAssumption, FlowInv, Cardinality(Tuples) <= MaxFlows,
         NEW c \in Conns, Matches(c) = {}
  PROVE  FreeSlots # {}
<1> USE DEF FlowInv
<1>1. SUFFICES ASSUME FreeSlots = {} PROVE FALSE
  OBVIOUS
<1>2. InUse = Slots
  BY <1>1 DEF FreeSlots, InUse
<1> DEFINE f == [i \in Slots |-> table[i].tuple]
           T == Tuples \ {TupleOf[c]}
<1>3. \A i \in Slots : table[i].tuple \in T
  BY <1>2 DEF RowsKnown, Tuples, Matches, InUse
<1>4. f \in [Slots -> T]
  BY <1>3
<1>5. \A i, j \in Slots : i # j => f[i] # f[j]
  BY <1>2 DEF NoDoubleEntry
<1>6. IsFiniteSet(Tuples) /\ Cardinality(Tuples) \in Nat
  <2>1. Tuples \in SUBSET Conns
    BY DEF Tuples, FlowAssumption
  <2> QED
    BY <2>1, FS_Subset, FS_CardinalityType DEF FlowAssumption
<1>7. TupleOf[c] \in Tuples
  BY DEF Tuples
<1>8. IsFiniteSet(T) /\ Cardinality(T) = Cardinality(Tuples) - 1
  BY <1>6, <1>7, FS_RemoveElement
<1>9. IsFiniteSet(Slots) /\ Cardinality(Slots) = MaxFlows /\ MaxFlows \in Nat
  BY SlotCount
<1>10. Cardinality(T) < Cardinality(Slots)
  BY <1>6, <1>8, <1>9
<1> HIDE DEF f, T
<1>11. \E x, y \in Slots : x # y /\ f[x] = f[y]
  BY <1>4, <1>8, <1>9, <1>10, FS_PigeonHole
<1> QED
  BY <1>5, <1>11

(* A row keeps its place when a record that does not clash with it is      *)
(* applied; the record of a connection not torn down gives it a row.       *)
LEMMA ListedKept ==
  ASSUME FlowAssumption, FlowInv, Cardinality(Tuples) <= MaxFlows,
         NEW c \in Conns, NEW ev \in Events, ApplyEvent(ev), ~(Ends(ev) /\ ev.conn = c)
  PROVE  /\ ev.conn = c => Listed(c)'
         /\ Listed(c) /\ ~Clash(c, ev.conn) => Listed(c)'
<1> USE DEF FlowInv
<1> DEFINE k == FindSlot(ev.conn)
<1>1. /\ k \in Slots /\ ev.conn \in Conns
      /\ \A j \in Slots : j # k => table'[j] = table[j]
      /\ table'[k].id = ev.conn /\ (table'[k].used <=> ~Ends(ev))
  BY ApplyTable
<1>2. /\ Matches(ev.conn) # {} => k \in Matches(ev.conn)
      /\ Matches(ev.conn) = {} /\ FreeSlots # {} => k \in FreeSlots
  BY <1>1, FindSlotFinds
<1>3. Matches(ev.conn) = {} => FreeSlots # {}
  BY <1>1, RoomForAll
<1> HIDE DEF k
<1>4. ev.conn = c => Listed(c)'
  BY <1>1 DEF Listed, InUse
<1>5. ASSUME Listed(c), ~Clash(c, ev.conn), ev.conn # c PROVE Listed(c)'
  <2>1. PICK i \in InUse : table[i].id = c
    BY <1>5 DEF Listed
  <2>2. i \in Slots /\ table[i].used /\ table[i].tuple = TupleOf[c]
    BY <2>1 DEF InUse, RowsKnown
  <2>3. i \notin Matches(ev.conn) /\ i \notin FreeSlots
    BY <1>5, <2>1, <2>2 DEF Clash, Matches, FreeSlots
  <2>4. i # k
    BY <1>2, <1>3, <2>3
  <2>5. table'[i] = table[i]
    BY <1>1, <2>2, <2>4
  <2> QED
    BY <2>1, <2>2, <2>5 DEF Listed, InUse
<1> QED
  BY <1>4, <1>5

(* A live connection that a dump visits has a record under way. *)
LEMMA FoundByDump ==
  ASSUME FlowAssumption, FlowInv, Kernel, NEW c \in missed, phase[c] = "live"
  PROVE  Dumped(c)' \/ c \in missed'
<1>1. CASE missed' = missed
  BY <1>1
<1>2. ASSUME NEW d \in Conns, DumpVisit(d) PROVE Dumped(c)' \/ c \in missed'
  <2>1. CASE d # c
    BY <1>2, <2>1 DEF DumpVisit
  <2>2. CASE d = c
    <3>1. DumpOf(d) \in Events /\ DumpOf(d).conn = d /\ dumpq \in Seq(Events)
      BY SentTyped DEF FlowInv, TypeOK
    <3>2. dumpq' = IF phase[d] = "live" THEN Append(dumpq, DumpOf(d)) ELSE dumpq
      BY <1>2, Zenon DEF DumpVisit, DumpOf
    <3>3. dumpq' = Append(dumpq, DumpOf(d))
      BY <2>2, <3>2
    <3>4. Len(dumpq) + 1 \in 1..Len(dumpq') /\ dumpq'[Len(dumpq) + 1] = DumpOf(d)
      BY <3>1, <3>3
    <3> QED
      BY <2>2, <3>1, <3>4 DEF Dumped
  <2> QED
    BY <2>1, <2>2
<1> QED
  BY <1>1, <1>2 DEF Kernel, Create, Traffic, Destroy

(* The kernel's steps keep CompInv: a tuple is reused only once the        *)
(* connection that had it is gone, and what it sends is about the live.    *)
LEMMA CompKernel ==
  ASSUME FlowAssumption, FlowInv, LiveInv, CompInv, ~Lossy, Kernel
  PROVE  CompInv'
<1> USE DEF FlowInv
<1>0. Len(evq) \in Nat
  BY DEF TypeOK
<1>1. /\ \A p \in 1..Len(evq) : p \in 1..Len(evq') /\ evq'[p] = evq[p]
      /\ \A p \in 1..Len(evq') :
              \/ p \in 1..Len(evq) /\ evq'[p] = evq[p]
              \/ /\ p = Len(evq) + 1 /\ evq'[p].conn \in Conns
                 /\ evq'[p].kind = "DESTROY" \/ phase'[evq'[p].conn] = "live"
                 /\ evq'[p].kind = "NEW" \/ phase[evq'[p].conn] = "live"
      /\ \A p \in 1..Len(dumpq) : p \in 1..Len(dumpq') /\ dumpq'[p] = dumpq[p]
      /\ \A p \in 1..Len(dumpq') :
              \/ p \in 1..Len(dumpq) /\ dumpq'[p] = dumpq[p]
              \/ dumpq'[p].conn \in Conns /\ phase[dumpq'[p].conn] = "live"
                 /\ phase'[dumpq'[p].conn] = "live"
  BY KernelAdds
<1>2. InUse' = InUse /\ table' = table
  BY DEF Kernel, Create, Traffic, Destroy, DumpVisit, InUse
<1>3. TuplesDiffer'
  <2>1. ASSUME NEW c \in Conns, Create(c) PROVE TuplesDiffer'
    <3>1. /\ \A d \in Conns : d # c => phase'[d] = phase[d]
          /\ \A d \in Conns : TupleOf[d] = TupleOf[c] => phase[d] # "live"
      BY <2>1 DEF Create, TypeOK
    <3> QED
      BY <3>1 DEF CompInv, TuplesDiffer, Clash
  <2>2. ASSUME NEW c \in Conns, Traffic(c) \/ Destroy(c) \/ DumpVisit(c) PROVE TuplesDiffer'
    <3>1. \A d \in Conns : phase'[d] = "live" => phase[d] = "live"
      BY <2>2 DEF Traffic, Destroy, DumpVisit, kernelVars, TypeOK
    <3> QED
      BY <3>1 DEF CompInv, TuplesDiffer
  <2> QED
    BY <2>1, <2>2 DEF Kernel
<1>4. ASSUME NEW c \in Conns, phase'[c] = "live"
      PROVE  \/ phase[c] = "live"
             \/ phase[c] = "unborn" /\ evq' = Append(evq, NewOf(c))
  <2>1. ASSUME NEW d \in Conns, Create(d)
        PROVE  \/ phase[c] = "live"
               \/ phase[c] = "unborn" /\ evq' = Append(evq, NewOf(c))
    <3>1. CASE d = c
      BY <2>1, <3>1 DEF Create, Deliver, NewOf
    <3>2. CASE d # c
      BY <1>4, <2>1, <3>2 DEF Create, TypeOK
    <3> QED
      BY <3>1, <3>2
  <2>2. ASSUME NEW d \in Conns, Traffic(d) \/ Destroy(d) \/ DumpVisit(d)
        PROVE  phase[c] = "live"
    BY <1>4, <2>2 DEF Traffic, Destroy, DumpVisit, kernelVars, TypeOK
  <2> QED
    BY <2>1, <2>2 DEF Kernel
<1>5. \A c, d \in Conns : phase[c] = "live" /\ phase[d] = "live" => ~Clash(c, d)
  BY DEF CompInv, TuplesDiffer
<1>6. \A c, d \in Conns : phase'[c] = "live" /\ phase'[d] = "live" => ~Clash(c, d)
  BY <1>3 DEF TuplesDiffer
<1>7. ASSUME NEW c \in Conns, phase'[c] = "live", phase[c] = "live"
      PROVE  \A p \in 1..Len(evq') : (p \in 1..Len(evq) /\ evq'[p] = evq[p]) \/ ~Clash(c, evq'[p].conn)
  BY <1>1, <1>5, <1>6, <1>7
<1>8. Comes'
  <2>1. SUFFICES ASSUME NEW c \in Conns, phase'[c] = "live"
                 PROVE  Announced(c)' \/ (Safe(c)' /\ (Listed(c)' \/ Dumped(c)' \/ c \in missed'))
    BY DEF Comes
  <2>2. CASE phase[c] = "live"
    <3>1. CASE Announced(c)
      BY <1>1, <3>1 DEF Announced
    <3>2. CASE Safe(c) /\ (Listed(c) \/ Dumped(c) \/ c \in missed)
      <4>1. Listed(c)' \/ Dumped(c)' \/ c \in missed'
        <5>1. Listed(c) => Listed(c)'
          BY <1>2 DEF Listed
        <5>2. Dumped(c) => Dumped(c)'
          BY <1>1 DEF Dumped
        <5>3. c \in missed => Dumped(c)' \/ c \in missed'
          BY <2>2, FoundByDump
        <5> QED
          BY <3>2, <5>1, <5>2, <5>3
      <4>2. Safe(c)'
        BY <1>1, <1>5, <1>7, <2>1, <2>2, <3>2 DEF Safe
      <4> QED
        BY <4>1, <4>2
    <3> QED
      BY <2>2, <3>1, <3>2 DEF CompInv, Comes
  <2>3. CASE evq' = Append(evq, NewOf(c))
    <3>2. NewOf(c) \in Events /\ NewOf(c).kind = "NEW" /\ NewOf(c).conn = c
      BY SentTyped
    <3>3. Len(evq') = Len(evq) + 1 /\ evq'[Len(evq) + 1] = NewOf(c)
      BY <2>3, <3>2 DEF TypeOK
    <3>4. Len(evq) + 1 \in 1..Len(evq')
      BY <1>0, <3>3
    <3> QED
      BY <3>2, <3>3, <3>4 DEF Announced
  <2> QED
    BY <1>4, <2>1, <2>2, <2>3
<1>9. LiveIsSafe'
  <2>1. SUFFICES ASSUME NEW p \in 1..Len(evq'), NEW q \in 1..Len(evq'),
                        phase'[evq'[p].conn] = "live", p < q
                 PROVE  ~Clash(evq'[p].conn, evq'[q].conn)
    BY DEF LiveIsSafe
  <2>2. p \in 1..Len(evq) /\ evq'[p] = evq[p] /\ evq[p].conn \in Conns
    <3>1. p \in 1..Len(evq) /\ evq'[p] = evq[p]
      BY <1>0, <1>1, <2>1
    <3> QED
      BY <3>1, QueuesTyped
  <2>3. phase[evq[p].conn] = "live"
    <3>1. phase[evq[p].conn] # "unborn"
      <4>1. evq[p].kind # "DESTROY" => LiveOr(evq[p].conn, p)
        BY <2>2 DEF LiveInv, EventsLive
      <4>2. evq[p].kind = "DESTROY" => phase[evq[p].conn] = "gone"
        BY <2>2 DEF TornDown, FinalEvents
      <4>3. Foretold(evq[p].conn, p) => phase[evq[p].conn] = "gone"
        BY DEF Foretold, TornDown, FinalEvents
      <4> QED
        BY <4>1, <4>2, <4>3 DEF LiveOr
    <3> QED
      BY <1>4, <2>1, <2>2, <3>1
  <2>4. CASE q \in 1..Len(evq) /\ evq'[q] = evq[q]
    BY <2>1, <2>2, <2>3, <2>4 DEF CompInv, LiveIsSafe
  <2> QED
    BY <1>7, <2>1, <2>2, <2>3, <2>4
<1> QED
  BY <1>3, <1>8, <1>9 DEF CompInv

(* Reading an event keeps CompInv: the NEW event of a live connection      *)
(* becomes a row, and no other event takes the row away.                   *)
LEMMA CompRead ==
  ASSUME FlowAssumption, FlowInv, LiveInv, CompInv, Cardinality(Tuples) <= MaxFlows, ReadEvent
  PROVE  CompInv'
<1> USE DEF FlowInv
<1> DEFINE ev == Head(evq)
<1>1. /\ evq \in Seq(Events) /\ evq # <<>> /\ evq' = Tail(evq) /\ ApplyEvent(ev)
      /\ phase' = phase /\ dumpq' = dumpq /\ missed' = missed /\ pc = "poll"
  BY DEF ReadEvent, TypeOK, kernelVars
<1>2. /\ 1 \in 1..Len(evq) /\ ev = evq[1]
      /\ \A p \in 1..Len(evq') : p + 1 \in 1..Len(evq) /\ evq'[p] = evq[p + 1]
      /\ \A p \in 1..Len(evq) : p # 1 => p - 1 \in 1..Len(evq') /\ evq'[p - 1] = evq[p]
  BY <1>1, Popped
<1>3. ev \in Events /\ ev.conn \in Conns
  BY <1>2, QueuesTyped
<1>4. dumpq = <<>>
  BY <1>1 DEF LiveInv, DumpRead
<1> HIDE DEF ev
<1>5. TuplesDiffer'
  BY <1>1 DEF CompInv, TuplesDiffer
<1>6. LiveIsSafe'
  <2>1. \A p, q \in 1..Len(evq') : p < q => p + 1 < q + 1
    OBVIOUS
  <2> QED
    BY <1>1, <1>2, <2>1 DEF CompInv, LiveIsSafe
<1>7. Comes'
  <2>1. SUFFICES ASSUME NEW c \in Conns, phase[c] = "live"
                 PROVE  Announced(c)' \/ (Safe(c)' /\ (Listed(c)' \/ Dumped(c)' \/ c \in missed'))
    BY <1>1 DEF Comes
  <2>2. ~(Ends(ev) /\ ev.conn = c)
    <3>1. ev.kind = "DESTROY" => phase[ev.conn] = "gone"
      BY <1>2 DEF TornDown, FinalEvents
    <3> QED
      BY <2>1, <3>1 DEF Ends
  <2>3. /\ ev.conn = c => Listed(c)'
        /\ Listed(c) /\ ~Clash(c, ev.conn) => Listed(c)'
    BY <1>1, <1>3, <2>2, ListedKept
  <2>4. CASE Announced(c)
    <3>1. PICK p \in 1..Len(evq) : evq[p].kind = "NEW" /\ evq[p].conn = c
      BY <2>4 DEF Announced
    <3>2. CASE p # 1
      BY <1>2, <3>1, <3>2 DEF Announced
    <3>3. CASE p = 1
      <4>1. \A q \in 1..Len(evq) : 1 < q => ~Clash(c, evq[q].conn)
        BY <2>1, <3>1, <3>3 DEF CompInv, LiveIsSafe
      <4>2. \A q \in 1..Len(evq') : ~Clash(c, evq'[q].conn)
        <5>1. \A q \in 1..Len(evq') : 1 < q + 1
          OBVIOUS
        <5> QED
          BY <1>2, <4>1, <5>1
      <4>3. Len(dumpq') = 0
        BY <1>1, <1>4
      <4>4. Safe(c)'
        BY <4>2, <4>3 DEF Safe
      <4> QED
        BY <1>2, <2>3, <3>1, <3>3, <4>4
    <3> QED
      BY <3>2, <3>3
  <2>5. CASE Safe(c) /\ (Listed(c) \/ Dumped(c) \/ c \in missed)
    <3>0. ~Dumped(c)
      BY <1>4 DEF Dumped
    <3>1. Safe(c)'
      BY <1>1, <1>2, <2>5 DEF Safe
    <3>2. ~Clash(c, ev.conn)
      BY <1>2, <2>5 DEF Safe
    <3> QED
      BY <1>1, <2>3, <2>5, <3>0, <3>1, <3>2
  <2> QED
    BY <2>1, <2>4, <2>5 DEF CompInv, Comes
<1> QED
  BY <1>5, <1>6, <1>7 DEF CompInv

(* So does reading a dump record. *)
LEMMA CompDump ==
  ASSUME FlowAssumption, FlowInv, CompInv, Cardinality(Tuples) <= MaxFlows, ReadDump
  PROVE  CompInv'
<1> USE DEF FlowInv
<1> DEFINE ev == Head(dumpq)
<1>1. /\ dumpq \in Seq(Events) /\ dumpq # <<>> /\ dumpq' = Tail(dumpq) /\ ApplyEvent(ev)
      /\ phase' = phase /\ evq' = evq /\ missed' = missed
  BY DEF ReadDump, TypeOK, kernelVars
<1>2. /\ 1 \in 1..Len(dumpq) /\ ev = dumpq[1]
      /\ \A p \in 1..Len(dumpq') : p + 1 \in 1..Len(dumpq) /\ dumpq'[p] = dumpq[p + 1]
      /\ \A p \in 1..Len(dumpq) : p # 1 => p - 1 \in 1..Len(dumpq') /\ dumpq'[p - 1] = dumpq[p]
  BY <1>1, Popped
<1>3. ev \in Events /\ ev.kind = "UPDATE"
  BY <1>2, QueuesTyped DEF TornDown, DumpsUpdate
<1> HIDE DEF ev
<1>4. TuplesDiffer' /\ LiveIsSafe'
  BY <1>1 DEF CompInv, TuplesDiffer, LiveIsSafe
<1>5. Comes'
  <2>1. SUFFICES ASSUME NEW c \in Conns, phase[c] = "live"
                 PROVE  Announced(c)' \/ (Safe(c)' /\ (Listed(c)' \/ Dumped(c)' \/ c \in missed'))
    BY <1>1 DEF Comes
  <2>2. /\ ev.conn = c => Listed(c)'
        /\ Listed(c) /\ ~Clash(c, ev.conn) => Listed(c)'
    <3>1. ~(Ends(ev) /\ ev.conn = c)
      BY <1>3 DEF Ends
    <3> QED
      BY <1>1, <1>3, <3>1, ListedKept
  <2>3. Announced(c) => Announced(c)'
    BY <1>1 DEF Announced
  <2>4. Safe(c) => Safe(c)' /\ ~Clash(c, ev.conn)
    BY <1>1, <1>2 DEF Safe
  <2>5. Dumped(c) => Listed(c)' \/ Dumped(c)'
    <3>1. ASSUME NEW p \in 1..Len(dumpq), dumpq[p].conn = c PROVE Listed(c)' \/ Dumped(c)'
      <4>1. CASE p = 1
        BY <1>2, <2>2, <3>1, <4>1
      <4>2. CASE p # 1
        BY <1>2, <3>1, <4>2 DEF Dumped
      <4> QED
        BY <4>1, <4>2
    <3> QED
      BY <3>1 DEF Dumped
  <2> QED
    BY <1>1, <2>1, <2>2, <2>3, <2>4, <2>5 DEF CompInv, Comes
<1> QED
  BY <1>4, <1>5 DEF CompInv

(* Every step keeps CompInv. *)
LEMMA CompStep ==
  ASSUME FlowAssumption, FlowInv, LiveInv, CompInv, ~Lossy, Cardinality(Tuples) <= MaxFlows,
         [Next]_vars
  PROVE  CompInv'
<1>1. CASE StartTick \/ EndPoll \/ EndDump \/ UNCHANGED vars
  <2>1. UNCHANGED <<phase, evq, dumpq, table, missed>>
    BY <1>1 DEF StartTick, EndPoll, EndDump, vars, kernelVars
  <2> QED
    BY <2>1 DEF CompInv, TuplesDiffer, Comes, LiveIsSafe, Announced, Listed, Dumped, Safe, InUse
<1> QED
  BY <1>1, CompKernel, CompRead, CompDump DEF Next, Tick

(* The connections older than the sockets are still to be found. *)
LEMMA CompInit ==
  ASSUME FlowAssumption, Init
  PROVE  CompInv
<1>1. Len(evq) = 0 /\ Len(dumpq) = 0
  BY DEF Init
<1>2. /\ missed = {c \in Conns : phase[c] = "live"}
      /\ \A c, d \in missed : c # d => TupleOf[c] # TupleOf[d]
  BY DEF Init
<1>3. TuplesDiffer
  BY <1>2 DEF TuplesDiffer, Clash
<1>4. Comes /\ LiveIsSafe
  BY <1>1, <1>2 DEF Comes, LiveIsSafe, Safe
<1> QED
  BY <1>3, <1>4 DEF CompInv

(* With a slot for every tuple, no event lost and dumps read to their end, *)
(* flow_list names every live connection once all events have been read,   *)
(* even while tuples are reused, save those that are older than the        *)
(* sockets and that no dump has visited yet.                               *)
THEOREM FlowListCompleteHolds ==
  ASSUME ~Lossy, ~SplitDump, EmitDestroy, Cardinality(Tuples) <= MaxFlows
  PROVE  Spec => []FlowListComplete
<1>1. Init => LiveInv
  BY LiveInit, FlowAssumption
<1>2. FlowInv /\ LiveInv /\ [Next]_vars => LiveInv'
  BY LiveStep, FlowAssumption
<1>3. Init => CompInv
  BY CompInit, FlowAssumption
<1>4. FlowInv /\ LiveInv /\ CompInv /\ [Next]_vars => CompInv'
  BY CompStep, FlowAssumption
<1>5. CompInv => FlowListComplete
  BY DEF CompInv, Comes, Announced, Listed, Dumped, FlowListComplete, Quiet
<1> QED
  BY <1>1, <1>2, <1>3, <1>4, <1>5, FlowInvariant, PTL DEF Spec
-----------------------------------------------------------------------------
(***************************************************************************)
(* Bytes.  What is under way was counted by the kernel for the connection  *)
(* it names.  An event without counters leaves a slot's bytes alone: if    *)
(* they are those of another connection with the same tuple, then one of   *)
(* the two is gone, and since nothing of another connection follows an     *)
(* event of a live one, it is the event's own connection, whose DESTROY    *)
(* is still to be read and will free the row.                              *)
(***************************************************************************)
EventsCounted == \A n \in 1..Len(evq) : evq[n].counted => evq[n].bytes <= bytes[evq[n].conn]
DumpsCounted  ==
  \A n \in 1..Len(dumpq) : dumpq[n].counted /\ dumpq[n].bytes <= bytes[dumpq[n].conn]
RowGood(n, c) == n <= bytes[c] \/ Foretells(c)
RowsGood == \A i \in InUse : RowGood(table[i].bytes, table[i].id)
BytesInv == EventsCounted /\ DumpsCounted /\ RowsGood

(* Counters only grow. *)
LEMMA CountersGrow ==
  ASSUME FlowAssumption, TypeOK, Kernel
  PROVE  /\ bytes \in [Conns -> Nat] /\ bytes' \in [Conns -> Nat]
         /\ \A d \in Conns : bytes[d] <= bytes'[d]
<1>1. bytes \in [Conns -> Nat]
  BY DEF TypeOK
<1>2. ASSUME NEW c \in Conns, Traffic(c)
      PROVE  bytes' \in [Conns -> Nat] /\ \A d \in Conns : bytes[d] <= bytes'[d]
  BY <1>1, <1>2 DEF Traffic
<1>3. CASE bytes' = bytes
  BY <1>1, <1>3
<1> QED
  BY <1>1, <1>2, <1>3 DEF Kernel, Create, Destroy, DumpVisit, kernelVars

(* What a step of the kernel adds to a queue was counted. *)
LEMMA KernelCounts ==
  ASSUME FlowAssumption, TypeOK, Kernel
  PROVE  /\ \A p \in 1..Len(evq') : \/ p \in 1..Len(evq) /\ evq'[p] = evq[p]
                                    \/ evq'[p].bytes <= bytes'[evq'[p].conn]
         /\ \A p \in 1..Len(dumpq') :
              \/ p \in 1..Len(dumpq) /\ dumpq'[p] = dumpq[p]
              \/ dumpq'[p].counted /\ dumpq'[p].bytes <= bytes'[dumpq'[p].conn]
<1>1. PICK c \in Conns : Create(c) \/ Traffic(c) \/ Destroy(c) \/ DumpVisit(c)
  BY DEF Kernel
<1>2. bytes[c] \in Nat /\ bytes \in [Conns -> 0..MaxBytes] /\ MaxBytes \in Nat
  BY DEF TypeOK, FlowAssumption
<1>3. CASE Create(c)
  <2>1. bytes' = bytes /\ dumpq' = dumpq
    BY <1>3 DEF Create
  <2>2. NewOf(c).conn = c /\ NewOf(c).bytes <= bytes[c]
    <3>1. NewOf(c).conn = c /\ NewOf(c).bytes = 0
      BY DEF NewOf, Event
    <3> QED
      BY <1>2, <3>1
  <2>3. Gains(NewOf(c))
    BY <1>3, Sends
  <2> QED
    BY <2>1, <2>2, <2>3 DEF Gains
<1>4. CASE Destroy(c)
  <2>1. bytes' = bytes /\ dumpq' = dumpq
    BY <1>4 DEF Destroy
  <2>2. EndOf(c).conn = c /\ EndOf(c).bytes <= bytes[c]
    BY <1>2, SentTyped
  <2>3. Gains(EndOf(c))
    BY <1>4, Sends
  <2> QED
    BY <2>1, <2>2, <2>3 DEF Gains
<1>5. CASE Traffic(c)
  <2>1. bytes'[c] = bytes[c] + 1 /\ dumpq' = dumpq
    BY <1>2, <1>5 DEF Traffic
  <2>2. GainsUpdate(c) /\ bytes[c] < MaxBytes
    BY <1>5, Sends
  <2>3. \A counted \in UpdateCounts :
          UpdateOf(c, counted).conn = c /\ UpdateOf(c, counted).bytes <= bytes[c] + 1
    BY <2>2, SentTyped
  <2> QED
    BY <2>1, <2>2, <2>3 DEF GainsUpdate, Gains
<1>6. CASE DumpVisit(c)
  <2>1. bytes' = bytes /\ evq' = evq
    BY <1>6 DEF DumpVisit, kernelVars
  <2>2. DumpOf(c) \in Events /\ DumpOf(c).conn = c /\ DumpOf(c).counted /\ DumpOf(c).bytes <= bytes[c]
    BY <1>2, SentTyped
  <2>3. dumpq' = IF phase[c] = "live" THEN Append(dumpq, DumpOf(c)) ELSE dumpq
    BY <1>6, Zenon DEF DumpVisit, DumpOf
  <2>4. \A p \in 1..Len(dumpq') :
          (p \in 1..Len(dumpq) /\ dumpq'[p] = dumpq[p]) \/ dumpq'[p] = DumpOf(c)
    <3>1. CASE dumpq' = dumpq
      BY <3>1
    <3>2. CASE dumpq' = Append(dumpq, DumpOf(c))
      <4>1. dumpq \in Seq(Events)
        BY DEF TypeOK
      <4> QED
        BY <2>2, <3>2, <4>1
    <3> QED
      BY <2>3, <3>1, <3>2
  <2> QED
    BY <2>1, <2>2, <2>4
<1> QED
  BY <1>1, <1>3, <1>4, <1>5, <1>6

(* An order on numbers passes through a counter that grew. *)
LEMMA AtMostGrown ==
  ASSUME NEW a \in Nat, NEW b \in Nat, NEW c \in Nat, a <= b, b <= c
  PROVE  a <= c
OBVIOUS

(* The kernel's steps keep BytesInv. *)
LEMMA BytesKernel ==
  ASSUME FlowAssumption, FlowInv, BytesInv, Kernel
  PROVE  BytesInv'
<1> USE DEF FlowInv
<1>1. /\ bytes \in [Conns -> Nat] /\ bytes' \in [Conns -> Nat]
      /\ \A d \in Conns : bytes[d] <= bytes'[d]
  BY CountersGrow
<1>2. \A e \in Events : e.bytes \in Nat /\ e.conn \in Conns
  BY DEF Events
<1>3. ASSUME NEW d \in Conns, NEW k \in Nat, k <= bytes[d] PROVE k <= bytes'[d]
  <2>1. bytes[d] \in Nat /\ bytes'[d] \in Nat /\ bytes[d] <= bytes'[d]
    BY <1>1
  <2> QED
    BY <1>3, <2>1, AtMostGrown
<1>4. EventsCounted'
  <2>1. SUFFICES ASSUME NEW p \in 1..Len(evq'), evq'[p].counted
                 PROVE  evq'[p].bytes <= bytes'[evq'[p].conn]
    BY DEF EventsCounted
  <2>2. CASE p \in 1..Len(evq) /\ evq'[p] = evq[p]
    <3>1. evq[p].bytes \in Nat /\ evq[p].conn \in Conns /\ evq[p].bytes <= bytes[evq[p].conn]
      BY <1>2, <2>1, <2>2, QueuesTyped DEF BytesInv, EventsCounted
    <3> QED
      BY <1>3, <2>2, <3>1
  <2> QED
    BY <2>2, KernelCounts
<1>5. DumpsCounted'
  <2>1. SUFFICES ASSUME NEW p \in 1..Len(dumpq')
                 PROVE  dumpq'[p].counted /\ dumpq'[p].bytes <= bytes'[dumpq'[p].conn]
    BY DEF DumpsCounted
  <2>2. CASE p \in 1..Len(dumpq) /\ dumpq'[p] = dumpq[p]
    <3>1. /\ dumpq[p].bytes \in Nat /\ dumpq[p].conn \in Conns
          /\ dumpq[p].counted /\ dumpq[p].bytes <= bytes[dumpq[p].conn]
      BY <1>2, <2>2, QueuesTyped DEF BytesInv, DumpsCounted
    <3> QED
      BY <1>3, <2>2, <3>1
  <2> QED
    BY <2>2, KernelCounts
<1>6. table' = table
  BY DEF Kernel, Create, Traffic, Destroy, DumpVisit
<1>7. RowsGood'
  <2>1. SUFFICES ASSUME NEW i \in InUse
                 PROVE  table[i].bytes <= bytes'[table[i].id] \/ Foretells(table[i].id)'
    BY <1>6 DEF RowsGood, RowGood, InUse, Foretells
  <2>2. table[i] \in Rows /\ table[i].bytes \in Nat /\ table[i].id \in Conns
    BY DEF TypeOK, InUse, Rows, RowsKnown
  <2>3. CASE table[i].bytes <= bytes[table[i].id]
    BY <1>3, <2>2, <2>3
  <2>4. CASE Foretells(table[i].id)
    <3>1. \A p \in 1..Len(evq) : p \in 1..Len(evq') /\ evq'[p] = evq[p]
      BY KernelAdds
    <3> QED
      BY <1>6, <2>4, <3>1 DEF Foretells
  <2> QED
    BY <2>3, <2>4 DEF BytesInv, RowsGood, RowGood
<1> QED
  BY <1>4, <1>5, <1>7 DEF BytesInv

(* Where an event without counters finds its slot: free, or with a row of  *)
(* its own connection, or with one of the same tuple.                      *)
LEMMA OwnSlot ==
  ASSUME FlowAssumption, FlowInv, Cardinality(Tuples) <= MaxFlows, NEW c \in Conns,
         table[FindSlot(c)].used
  PROVE  /\ FindSlot(c) \in InUse
         /\ table[FindSlot(c)].id = c \/ Clash(c, table[FindSlot(c)].id)
<1> USE DEF FlowInv
<1> DEFINE k == FindSlot(c)
<1>1. /\ k \in Slots
      /\ Matches(c) # {} => k \in Matches(c)
      /\ Matches(c) = {} /\ FreeSlots # {} => k \in FreeSlots
  BY FindSlotFinds
<1>2. Matches(c) = {} => FreeSlots # {}
  BY RoomForAll
<1>3. table[k].used
  OBVIOUS
<1> HIDE DEF k
<1>4. k \in Matches(c) /\ k \in InUse
  BY <1>1, <1>2, <1>3 DEF FreeSlots, InUse
<1>5. table[k].tuple = TupleOf[table[k].id]
  BY <1>4 DEF RowsKnown
<1>6. table[k].id = c \/ Clash(c, table[k].id)
  BY <1>4, <1>5 DEF Matches, Clash
<1> QED
  BY <1>4, <1>6 DEF k

(* Reading an event keeps BytesInv. *)
LEMMA BytesRead ==
  ASSUME FlowAssumption, FlowInv, LiveInv, CompInv, BytesInv, EmitDestroy,
         Cardinality(Tuples) <= MaxFlows, ReadEvent
  PROVE  BytesInv'
<1> USE DEF FlowInv
<1> DEFINE ev == Head(evq)
           k == FindSlot(ev.conn)
           Still(d) == \E n \in 1..Len(evq') : evq'[n].kind = "DESTROY" /\ evq'[n].conn = d
<1>1. /\ evq \in Seq(Events) /\ evq # <<>> /\ evq' = Tail(evq) /\ ApplyEvent(ev)
      /\ phase' = phase /\ bytes' = bytes /\ dumpq' = dumpq
  BY DEF ReadEvent, TypeOK, kernelVars
<1>2. /\ 1 \in 1..Len(evq) /\ ev = evq[1]
      /\ \A p \in 1..Len(evq') : p + 1 \in 1..Len(evq) /\ evq'[p] = evq[p + 1]
      /\ \A p \in 1..Len(evq) : p # 1 => p - 1 \in 1..Len(evq') /\ evq'[p - 1] = evq[p]
  BY <1>1, Popped
<1>3. ev \in Events /\ ev.conn \in Conns
  BY <1>2, QueuesTyped
<1>4. EventsCounted' /\ DumpsCounted'
  BY <1>1, <1>2 DEF BytesInv, EventsCounted, DumpsCounted
<1>5. \A d \in Conns : Foretells(d) /\ ~(ev.kind = "DESTROY" /\ ev.conn = d) => Still(d)
  <2>1. ASSUME NEW d \in Conns, NEW q \in 1..Len(evq), evq[q].kind = "DESTROY", evq[q].conn = d,
               ~(ev.kind = "DESTROY" /\ ev.conn = d)
        PROVE  Still(d)
    <3>1. q # 1
      BY <1>2, <2>1
    <3> QED
      BY <1>2, <2>1, <3>1
  <2> QED
    BY <2>1 DEF Foretells
<1>6. /\ k \in Slots
      /\ \A j \in Slots : j # k => table'[j] = table[j]
      /\ table'[k].id = ev.conn /\ table'[k].bytes = BytesAfter(table[k], ev)
      /\ table'[k].used <=> ~Ends(ev)
  BY <1>1, <1>3, ApplyTable
<1>7. \A j \in InUse : j # k => table[j].id # ev.conn
  BY <1>3, OthersDiffer
<1>8. InUse' \subseteq InUse \cup {k} /\ InUse \subseteq Slots
  BY <1>1, <1>3, ApplyInUse DEF InUse
<1>9. table[k].used => k \in InUse /\ (table[k].id = ev.conn \/ Clash(ev.conn, table[k].id))
  BY <1>3, OwnSlot
<1> HIDE DEF ev, k
<1>10. ASSUME ~Ends(ev) PROVE table'[k].bytes <= bytes[ev.conn] \/ Still(ev.conn)
  <2>1. ev.kind # "DESTROY"
    BY <1>10 DEF Ends
  <2>2. Foretells(ev.conn) => Still(ev.conn)
    BY <1>3, <1>5, <2>1
  <2>3. CASE ev.counted
    BY <1>1, <1>2, <1>6, <2>3 DEF BytesInv, EventsCounted, BytesAfter
  <2>4. CASE ~ev.counted /\ ~table[k].used
    <3>1. table'[k].bytes = 0 /\ bytes[ev.conn] \in Nat
      BY <1>3, <1>6, <2>4 DEF BytesAfter, TypeOK
    <3>2. 0 <= bytes[ev.conn]
      BY <3>1
    <3> QED
      BY <3>1, <3>2
  <2>5. CASE ~ev.counted /\ table[k].used /\ table[k].id = ev.conn
    <3>1. RowGood(table[k].bytes, ev.conn) /\ table'[k].bytes = table[k].bytes
      BY <1>6, <1>9, <2>5 DEF BytesInv, RowsGood, BytesAfter
    <3> QED
      BY <2>2, <3>1 DEF RowGood
  <2>6. CASE ~ev.counted /\ table[k].used /\ Clash(ev.conn, table[k].id)
    <3>1. k \in InUse /\ table[k].id \in Conns /\ LiveOr(table[k].id, 0) /\ table[k].id # ev.conn
      BY <1>9, <2>6 DEF RowsKnown, LiveInv, RowsLive, Clash
    <3>2. phase[ev.conn] # "live"
      <4>1. SUFFICES ASSUME phase[ev.conn] = "live" PROVE FALSE
        OBVIOUS
      <4>2. phase[table[k].id] # "live"
        BY <1>3, <2>6, <3>1, <4>1 DEF CompInv, TuplesDiffer
      <4>3. PICK q \in 1..Len(evq) : evq[q].conn = table[k].id
        BY <3>1, <4>2 DEF LiveOr, Foretold
      <4>4. 1 < q
        BY <1>2, <3>1, <4>3
      <4> QED
        BY <1>2, <2>6, <4>1, <4>3, <4>4 DEF CompInv, LiveIsSafe
    <3>3. LiveOr(ev.conn, 1)
      BY <1>2, <2>1 DEF LiveInv, EventsLive
    <3>4. Foretells(ev.conn)
      BY <3>2, <3>3 DEF LiveOr, Foretold, Foretells
    <3> QED
      BY <2>2, <3>4
  <2> QED
    BY <1>9, <2>3, <2>4, <2>5, <2>6
<1>11. RowsGood'
  <2>1. ASSUME NEW j \in InUse' PROVE table'[j].bytes <= bytes[table'[j].id] \/ Still(table'[j].id)
    <3>1. CASE j = k
      <4>1. ~Ends(ev)
        BY <1>6, <2>1, <3>1 DEF InUse
      <4> QED
        BY <1>6, <1>10, <3>1, <4>1
    <3>2. CASE j # k
      <4>1. j \in InUse /\ table'[j] = table[j] /\ table[j].id # ev.conn /\ table[j].id \in Conns
        BY <1>6, <1>7, <1>8, <2>1, <3>2 DEF RowsKnown
      <4>2. RowGood(table[j].bytes, table[j].id)
        BY <4>1 DEF BytesInv, RowsGood
      <4>3. Foretells(table[j].id) => Still(table[j].id)
        BY <1>5, <4>1
      <4> QED
        BY <4>1, <4>2, <4>3 DEF RowGood
    <3> QED
      BY <3>1, <3>2
  <2> QED
    BY <1>1, <2>1 DEF RowsGood, RowGood, Foretells
<1> QED
  BY <1>4, <1>11 DEF BytesInv

(* Reading a dump record keeps BytesInv: it has counters. *)
LEMMA BytesDump ==
  ASSUME FlowAssumption, FlowInv, BytesInv, ReadDump
  PROVE  BytesInv'
<1> USE DEF FlowInv
<1> DEFINE ev == Head(dumpq)
           k == FindSlot(ev.conn)
<1>1. /\ dumpq \in Seq(Events) /\ dumpq # <<>> /\ dumpq' = Tail(dumpq) /\ ApplyEvent(ev)
      /\ bytes' = bytes /\ evq' = evq
  BY DEF ReadDump, TypeOK, kernelVars
<1>2. /\ 1 \in 1..Len(dumpq) /\ ev = dumpq[1]
      /\ \A p \in 1..Len(dumpq') : p + 1 \in 1..Len(dumpq) /\ dumpq'[p] = dumpq[p + 1]
  BY <1>1, Popped
<1>3. ev \in Events /\ ev.counted /\ ev.bytes <= bytes[ev.conn]
  BY <1>2, QueuesTyped DEF BytesInv, DumpsCounted
<1>4. EventsCounted' /\ DumpsCounted'
  BY <1>1, <1>2 DEF BytesInv, EventsCounted, DumpsCounted
<1>5. /\ \A j \in Slots : j # k => table'[j] = table[j]
      /\ table'[k].id = ev.conn /\ table'[k].bytes = BytesAfter(table[k], ev)
  BY <1>1, <1>3, ApplyTable
<1>6. InUse' \subseteq InUse \cup {k} /\ InUse \subseteq Slots
  BY <1>1, <1>3, ApplyInUse DEF InUse
<1> HIDE DEF ev, k
<1>7. ASSUME NEW j \in InUse' PROVE table'[j].bytes <= bytes[table'[j].id] \/ Foretells(table'[j].id)
  <2>1. CASE j = k
    BY <1>3, <1>5, <2>1 DEF BytesAfter
  <2>2. CASE j # k
    <3>1. j \in InUse /\ table'[j] = table[j]
      BY <1>5, <1>6, <1>7, <2>2
    <3> QED
      BY <3>1 DEF BytesInv, RowsGood, RowGood
  <2> QED
    BY <2>1, <2>2
<1> QED
  BY <1>1, <1>4, <1>7 DEF BytesInv, RowsGood, RowGood, Foretells

(* Every step keeps BytesInv. *)
LEMMA BytesStep ==
  ASSUME FlowAssumption, FlowInv, LiveInv, CompInv, BytesInv, EmitDestroy,
         Cardinality(Tuples) <= MaxFlows, [Next]_vars
  PROVE  BytesInv'
<1>1. CASE StartTick \/ EndPoll \/ EndDump \/ UNCHANGED vars
  <2>1. UNCHANGED <<bytes, evq, dumpq, table>>
    BY <1>1 DEF StartTick, EndPoll, EndDump, vars, kernelVars
  <2> QED
    BY <2>1 DEF BytesInv, EventsCounted, DumpsCounted, RowsGood, RowGood, InUse, Foretells
<1> QED
  BY <1>1, BytesKernel, BytesRead, BytesDump DEF Next, Tick

(* With a slot for every tuple, no event lost and dumps read to their end, *)
(* once everything has been read no row credits a connection with bytes    *)
(* that the kernel did not count for it: what a slot shows of an earlier   *)
(* connection is gone by then, although NEW events bring no counters.      *)
THEOREM BytesOwnHolds ==
  ASSUME ~Lossy, ~SplitDump, EmitDestroy, Cardinality(Tuples) <= MaxFlows
  PROVE  Spec => []BytesOwn
<1>1. Init => LiveInv /\ CompInv
  BY LiveInit, CompInit, FlowAssumption
<1>2. Init => BytesInv
  <2>1. ASSUME Init PROVE BytesInv
    <3>1. InUse = {} /\ Len(evq) = 0 /\ Len(dumpq) = 0
      BY <2>1 DEF Init, InUse, Free
    <3> QED
      BY <3>1 DEF BytesInv, EventsCounted, DumpsCounted, RowsGood
  <2> QED
    BY <2>1
<1>3. FlowInv /\ LiveInv /\ [Next]_vars => LiveInv'
  BY LiveStep, FlowAssumption
<1>4. FlowInv /\ LiveInv /\ CompInv /\ [Next]_vars => CompInv'
  BY CompStep, FlowAssumption
<1>5. FlowInv /\ LiveInv /\ CompInv /\ BytesInv /\ [Next]_vars => BytesInv'
  BY BytesStep, FlowAssumption
<1>6. BytesInv => BytesOwn
  <2>1. SUFFICES ASSUME BytesInv, Quiet PROVE \A i \in InUse : table[i].bytes <= bytes[table[i].id]
    BY DEF BytesOwn
  <2>2. Len(evq) = 0
    BY <2>1 DEF Quiet
  <2> QED
    BY <2>1, <2>2 DEF BytesInv, RowsGood, RowGood, Foretells
<1> QED
  BY <1>1, <1>2, <1>3, <1>4, <1>5, <1>6, FlowInvariant, PTL DEF Spec
=============================================================================
