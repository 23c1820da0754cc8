------------------------------ MODULE FlowAcct ------------------------------
(***************************************************************************)
(* agent/flow_acct.c: per-connection byte accounting.  The kernel's        *)
(* conntrack table changes while the agent reads two netlink sockets: one  *)
(* of multicast events and one of table dumps.  A tick drains the events,  *)
(* asks for a dump and drains the reply; each record is folded into a      *)
(* table of at most MaxFlows slots by apply_event.                         *)
(*                                                                         *)
(* A connection is a conntrack entry (its ct_id); TupleOf gives its        *)
(* addresses and ports, which a later connection may reuse.  Some are      *)
(* older than the sockets.  Counting is assumed on (nf_conntrack_acct=1):  *)
(* a DESTROY and a dump record carry counters, a NEW does not, an UPDATE   *)
(* may or may not.  Rates and the top-N samples are not modelled.          *)
(***************************************************************************)
EXTENDS Naturals, Sequences, FiniteSets

CONSTANTS
  Conns,         \* conntrack entries that may come to exist
  TupleOf,       \* their addresses and ports
  MaxFlows,      \* flow_max_flows, at most CPE_FLOW_MAX (1024)
  PollLimit,     \* events one tick reads (128 receives in the code)
  EmitDestroy,   \* flow_acct.emit_destroy
  EmitNew,       \* flow_acct.emit_new
  Lossy,         \* the event socket may overflow (NETLINK_NO_ENOBUFS)
  SplitDump,     \* a dump may outlast the drain that asked for it
  UpdateCounts,  \* may a multicast UPDATE carry counters: a subset of BOOLEAN
  NoSpool,       \* the spool may be missing (a resize found no memory)
  DumpBuf,       \* dump records the socket holds before the kernel pauses
  MaxBytes,      \* bound on a connection's byte counter
  MaxClock       \* bound on the ticks told apart by last_seen_ms

ASSUME FlowAssumption ==
  /\ IsFiniteSet(Conns)
  /\ TupleOf \in [Conns -> Conns]
  /\ MaxFlows \in Nat \ {0} /\ PollLimit \in Nat \ {0}
  /\ {EmitDestroy, EmitNew, Lossy, SplitDump, NoSpool} \subseteq BOOLEAN
  /\ UpdateCounts \subseteq BOOLEAN
  /\ DumpBuf \in Nat \ {0}
  /\ MaxBytes \in Nat /\ MaxClock \in Nat

NoConn == "none"
Slots == 0..(MaxFlows - 1)

VARIABLES
  phase,     \* kernel: "unborn", "live" or "gone", for every connection
  bytes,     \* kernel: its byte counter
  evq,       \* the event socket's receive queue
  walk,      \* connections the running dump has still to visit
  dumpq,     \* the dump socket's receive queue
  pc,        \* where flow_tick is
  budget,    \* receives left in this drain
  clock,     \* mono_ms at the tick, saturating at MaxClock
  table,     \* cpe_flow_state_t.table
  used,      \* table_used
  lines,     \* history: the "new" and "destroy" lines pushed to the spool
  lost,      \* history: connections that had an event lost by the kernel,
             \*   or their "destroy" line refused for want of a spool
  missed     \* history: connections older than the sockets that no dump
             \*   has visited

kernelVars == <<phase, bytes>>
tickVars   == <<pc, budget, clock>>
vars == <<phase, bytes, evq, walk, dumpq, pc, budget, clock, table, used, lines, lost,
          missed>>

Free == [used |-> FALSE, id |-> NoConn, tuple |-> NoConn, name |-> NoConn,
         bytes |-> 0, seen |-> 0, alive |-> FALSE]

(* flow_open: connections that exist by then sent their NEW to nobody. *)
Init ==
  /\ phase \in [Conns -> {"unborn", "live"}]
  /\ missed = {c \in Conns : phase[c] = "live"}
  /\ \A c, d \in missed : c # d => TupleOf[c] # TupleOf[d]
  /\ bytes \in [Conns -> 0..MaxBytes]
  /\ \A c \in Conns \ missed : bytes[c] = 0
  /\ evq = <<>> /\ walk = {} /\ dumpq = <<>>
  /\ pc = "idle" /\ budget = 0 /\ clock = 0
  /\ table = [i \in Slots |-> Free]
  /\ used = 0
  /\ lines = <<>> /\ lost = {}

(***************************************************************************)
(* The kernel.                                                             *)
(***************************************************************************)
Event(kind, c, counted, n) ==
  [kind |-> kind, conn |-> c, counted |-> counted, bytes |-> IF counted THEN n ELSE 0]

(* An event reaches the socket, or is dropped without a trace because the  *)
(* receive buffer is full and NETLINK_NO_ENOBUFS is set.                   *)
Deliver(ev) ==
  \/ evq' = Append(evq, ev) /\ UNCHANGED lost
  \/ Lossy /\ lost' = lost \cup {ev.conn} /\ UNCHANGED evq

Create(c) ==
  /\ phase[c] = "unborn"
  /\ \A d \in Conns : TupleOf[d] = TupleOf[c] => phase[d] # "live"
  /\ phase' = [phase EXCEPT ![c] = "live"]
  /\ Deliver(Event("NEW", c, FALSE, 0))
  /\ UNCHANGED <<bytes, walk, dumpq, tickVars, table, used, lines, missed>>

(* Traffic is counted silently; a packet that changes the connection's     *)
(* state is also multicast.                                                *)
Traffic(c) ==
  /\ phase[c] = "live"
  /\ bytes[c] < MaxBytes
  /\ bytes' = [bytes EXCEPT ![c] = bytes[c] + 1]
  /\ \/ UNCHANGED <<evq, lost>>
     \/ \E counted \in UpdateCounts : Deliver(Event("UPDATE", c, counted, bytes[c] + 1))
  /\ UNCHANGED <<phase, walk, dumpq, tickVars, table, used, lines, missed>>

Destroy(c) ==
  /\ phase[c] = "live"
  /\ phase' = [phase EXCEPT ![c] = "gone"]
  /\ Deliver(Event("DESTROY", c, TRUE, bytes[c]))
  /\ UNCHANGED <<bytes, walk, dumpq, tickVars, table, used, lines, missed>>

(* The dump visits the table entry by entry while connections come and go, *)
(* and waits for the reader when the socket is full.                       *)
DumpVisit(c) ==
  /\ c \in walk
  /\ Len(dumpq) < DumpBuf
  /\ walk' = walk \ {c}
  /\ dumpq' = IF phase[c] = "live" THEN Append(dumpq, Event("UPDATE", c, TRUE, bytes[c])) ELSE dumpq
  /\ missed' = missed \ {c}
  /\ UNCHANGED <<kernelVars, evq, lost, tickVars, table, used, lines>>

Kernel == \E c \in Conns : Create(c) \/ Traffic(c) \/ Destroy(c) \/ DumpVisit(c)

(***************************************************************************)
(* The table.                                                              *)
(***************************************************************************)
Least(S) == CHOOSE i \in S : \A j \in S : i <= j

(* find_slot: the first slot with this ct_id or this tuple, else the first *)
(* free one, else the one least recently seen.                             *)
MatchesById(c) == {i \in Slots : table[i].used /\ table[i].id = c}   \* mutant
Matches(c) == {i \in Slots : table[i].used /\ (table[i].id = c \/ table[i].tuple = TupleOf[c])}
FreeSlots  == {i \in Slots : ~table[i].used}
Oldest     == {i \in Slots : \A j \in Slots : table[i].seen <= table[j].seen}

(* Mutant: the search for a free slot stops at the first slot. *)
FindSlotFirst(c) == IF Matches(c) # {} THEN Least(Matches(c)) ELSE 0

FindSlot(c) ==
  IF Matches(c) # {} THEN Least(Matches(c))
  ELSE IF FreeSlots # {} THEN Least(FreeSlots)
  ELSE Least(Oldest)

(* What a free slot takes over: the whole record, zeroed first. *)
Fresh(ev) ==
  [used |-> TRUE, id |-> ev.conn, tuple |-> TupleOf[ev.conn], name |-> ev.conn,
   bytes |-> IF ev.counted THEN ev.bytes ELSE 0, seen |-> clock, alive |-> ev.kind # "DESTROY"]

(* Mutant: the counters of a used slot are not refreshed. *)
MergedStale(slot, ev) ==
  IF ~slot.used THEN Fresh(ev)
  ELSE [slot EXCEPT !.id = ev.conn, !.tuple = TupleOf[ev.conn], !.seen = clock]

(* Mutant: a free slot is not zeroed before it is filled. *)
MergedNotZeroed(slot, ev) ==
  [slot EXCEPT !.used = TRUE, !.id = ev.conn, !.tuple = TupleOf[ev.conn], !.seen = clock,
               !.bytes = IF ev.counted THEN ev.bytes ELSE @]

(* A used slot, matched or evicted, keeps its name (flow_id), its          *)
(* first_seen and its alive flag, and without new counters its bytes.      *)
Merged(slot, ev) ==
  IF ~slot.used THEN Fresh(ev)
  ELSE [slot EXCEPT !.id = ev.conn, !.tuple = TupleOf[ev.conn], !.seen = clock,
                    !.bytes = IF ev.counted THEN ev.bytes ELSE @]

Line(kind, slot) == [ev |-> kind, id |-> slot.id, name |-> slot.name, bytes |-> slot.bytes]

(* The line is formatted and pushed; without a spool it is refused, and    *)
(* apply_event goes on.                                                    *)
PushLine(kind, slot) ==
  \/ lines' = Append(lines, Line(kind, slot)) /\ UNCHANGED lost
  \/ /\ NoSpool
     /\ lost' = IF kind = "destroy" THEN lost \cup {slot.id} ELSE lost
     /\ UNCHANGED lines

(* Mutants of ApplyEvent: the slot is not freed; the teardown of a         *)
(* connection without a row is ignored.                                    *)
ApplyEventKeepsSlot(ev) ==
  LET i    == FindSlot(ev.conn)
      slot == Merged(table[i], ev)
      ends == ev.kind = "DESTROY" /\ EmitDestroy
  IN  /\ table' = [table EXCEPT ![i] = slot]
      /\ used' = IF table[i].used THEN used ELSE used + 1
      /\ IF ends THEN PushLine("destroy", slot) ELSE UNCHANGED <<lines, lost>>
ApplyEventKnownOnly(ev) ==
  LET i    == FindSlot(ev.conn)
      slot == Merged(table[i], ev)
      ends == ev.kind = "DESTROY" /\ EmitDestroy
  IN  IF ends /\ Matches(ev.conn) = {} THEN UNCHANGED <<table, used, lines, lost>>
      ELSE /\ table' = [table EXCEPT ![i] = IF ends THEN [slot EXCEPT !.used = FALSE] ELSE slot]
           /\ used' = IF ends THEN used - 1 ELSE IF table[i].used THEN used ELSE used + 1
           /\ IF ends THEN PushLine("destroy", slot) ELSE UNCHANGED <<lines, lost>>

(* apply_event: with emit_destroy a destroyed connection is reported and   *)
(* its slot freed; without it the slot stays as it is.                     *)
ApplyEvent(ev) ==
  LET i    == FindSlot(ev.conn)
      slot == Merged(table[i], ev)
      grown == IF table[i].used THEN used ELSE used + 1
      ends == ev.kind = "DESTROY" /\ EmitDestroy
      news == ev.kind = "NEW" /\ EmitNew
  IN  /\ table' = [table EXCEPT ![i] = IF ends THEN [slot EXCEPT !.used = FALSE, !.alive = FALSE]
                                               ELSE slot]
      /\ used' = IF ends /\ grown > 0 THEN grown - 1 ELSE grown
      /\ IF ends THEN PushLine("destroy", slot)
         ELSE IF news THEN PushLine("new", slot) ELSE UNCHANGED <<lines, lost>>

(***************************************************************************)
(* cpe_agent_flow_tick: flow_poll, then maybe_dump.                        *)
(***************************************************************************)
StartTick ==
  /\ pc = "idle"
  /\ pc' = "poll"
  /\ budget' = PollLimit
  /\ clock' = IF clock < MaxClock THEN clock + 1 ELSE clock
  /\ UNCHANGED <<kernelVars, evq, walk, dumpq, table, used, lines, lost, missed>>

ReadEvent ==
  /\ pc = "poll"
  /\ budget > 0
  /\ evq # <<>>
  /\ ApplyEvent(Head(evq))
  /\ evq' = Tail(evq)
  /\ budget' = budget - 1
  /\ UNCHANGED <<kernelVars, walk, dumpq, pc, clock, missed>>

(* The drain stops on an empty queue or a spent budget; a dump is asked    *)
(* for unless its interval has not elapsed or the request fails.  The      *)
(* kernel refuses a second dump on the socket while one is running.        *)
EndPoll ==
  /\ pc = "poll"
  /\ budget = 0 \/ evq = <<>>
  /\ \/ /\ pc' = "dump"
        /\ walk' = IF walk = {} THEN Conns ELSE walk
     \/ /\ pc' = "idle"
        /\ UNCHANGED walk
  /\ budget' = 0
  /\ UNCHANGED <<kernelVars, evq, dumpq, clock, table, used, lines, lost, missed>>

ReadDump ==
  /\ pc = "dump"
  /\ dumpq # <<>>
  /\ ApplyEvent(Head(dumpq))
  /\ dumpq' = Tail(dumpq)
  /\ UNCHANGED <<kernelVars, evq, walk, tickVars, missed>>

(* The reply has been read to its end, or the kernel stayed silent for     *)
(* longer than the drain waits (400 ms, then 50 ms), or 512 receives did   *)
(* not suffice: then the rest is left in the socket for the next tick.     *)
EndDump ==
  /\ pc = "dump"
  /\ SplitDump \/ (walk = {} /\ dumpq = <<>>)
  /\ pc' = "idle"
  /\ UNCHANGED <<kernelVars, evq, walk, dumpq, budget, clock, table, used, lines, lost,
                 missed>>

Tick == StartTick \/ ReadEvent \/ EndPoll \/ ReadDump \/ EndDump

Next == Kernel \/ Tick

Spec == Init /\ [][Next]_vars

(* Ticks come every 200 ms, the agent's thread being taken to come back    *)
(* from its POSTs (LoopPosts); the kernel carries a dump it began to its   *)
(* end.                                                                    *)
FairSpec ==
  /\ Spec
  /\ WF_vars(Tick)
  /\ WF_vars(\E c \in Conns : DumpVisit(c))
-----------------------------------------------------------------------------
Kinds == {"NEW", "UPDATE", "DESTROY"}
Events == [kind : Kinds, conn : Conns, counted : BOOLEAN, bytes : 0..MaxBytes]
Rows == [used : BOOLEAN, id : Conns \cup {NoConn}, tuple : Conns \cup {NoConn},
         name : Conns \cup {NoConn}, bytes : 0..MaxBytes, seen : 0..MaxClock,
         alive : BOOLEAN]
Lines == [ev : {"new", "destroy"}, id : Conns, name : Conns \cup {NoConn}, bytes : 0..MaxBytes]

(* Every variable holds a value of its type.                               *)
TypeOK ==
  /\ phase \in [Conns -> {"unborn", "live", "gone"}]
  /\ bytes \in [Conns -> 0..MaxBytes]
  /\ evq \in Seq(Events) /\ dumpq \in Seq(Events)
  /\ walk \subseteq Conns
  /\ pc \in {"idle", "poll", "dump"}
  /\ budget \in 0..PollLimit /\ clock \in 0..MaxClock
  /\ table \in [Slots -> Rows]
  /\ used \in 0..MaxFlows
  /\ lines \in Seq(Lines)
  /\ lost \subseteq Conns /\ missed \subseteq Conns

InUse == {i \in Slots : table[i].used}

(* table_used, maintained by increments and decrements in apply_event,     *)
(* always equals the number of slots in use.                               *)
UsedCounts == used = Cardinality(InUse)

(* No connection has two rows in flow_list: merging by ct_id or by tuple,  *)
(* eviction, reuse of a tuple and records read late never leave two slots  *)
(* that the next event could match.                                        *)
NoDoubleEntry ==
  \A i, j \in InUse : i # j => table[i].id # table[j].id /\ table[i].tuple # table[j].tuple

DestroyLines == {n \in 1..Len(lines) : lines[n].ev = "destroy"}

(* A "destroy" line reports the final byte count of a connection that is   *)
(* gone, under that connection's ct_id, and at most once, although the     *)
(* slot may have been merged with, or evicted from, another connection.    *)
DestroyIsFinal ==
  /\ \A n \in DestroyLines : /\ phase[lines[n].id] = "gone"
                             /\ lines[n].bytes = bytes[lines[n].id]
  /\ \A m, n \in DestroyLines : m # n => lines[m].id # lines[n].id

(* Nothing is under way: all events and dump records have been read. *)
Quiet == evq = <<>> /\ dumpq = <<>> /\ walk = {} /\ pc = "idle"

(* flow_list is a snapshot of the live conntrack table: once everything    *)
(* has been read, every row belongs to a connection that exists.           *)
FlowListLive == Quiet => \A i \in InUse : phase[table[i].id] = "live"

(* With room for all of them, no live connection is missing once all       *)
(* events have been read, save one that is older than the sockets and that *)
(* no dump has visited yet: it sent its NEW before anyone listened.        *)
FlowListComplete ==
  Quiet => \A c \in Conns : phase[c] = "live" /\ c \notin missed => \E i \in InUse : table[i].id = c

(* Once everything has been read, no row credits a connection with bytes   *)
(* that the kernel did not count for it, although a slot is taken over     *)
(* from an earlier connection, events without counters leave the slot's    *)
(* bytes alone, and dumps overtake events: until the events are read, a    *)
(* row can hold the bytes of the next connection with its tuple.           *)
BytesOwn == Quiet => \A i \in InUse : table[i].bytes <= bytes[table[i].id]

Reported(c) == \E n \in DestroyLines : lines[n].id = c
Foretells(c) == \E n \in 1..Len(evq) : evq[n].kind = "DESTROY" /\ evq[n].conn = c

(* At no time is a teardown neither reported, nor lost by the kernel or    *)
(* for want of a spool, nor still in the socket: eviction, merging with a  *)
(* connection of the same tuple and a spent budget cannot swallow it.      *)
TeardownKept ==
  EmitDestroy =>
    \A c \in Conns : phase[c] = "gone" => Reported(c) \/ c \in lost \/ Foretells(c)

(* Every teardown is reported in the end, unless an event of that          *)
(* connection was lost by the kernel or its line refused for want of a     *)
(* spool: neither eviction nor the budget of a tick (drain_fd) delays it   *)
(* for ever.                                                               *)
TeardownReported == \A c \in Conns : phase[c] = "gone" ~> Reported(c) \/ c \in lost
=============================================================================
