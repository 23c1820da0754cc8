------------------------------ MODULE AgentCore ------------------------------
(***************************************************************************)
(* agent/agent_core.c: the in-memory NDJSON spool (a ring of fixed-size    *)
(* lines), the bounded event queue towards the host, the flush to stdout,  *)
(* to the spool file or to the HTTP collector, and what applying a         *)
(* configuration does to the ring.                                         *)
(*                                                                         *)
(* A line's text is the serial number of the push that stored it.  The     *)
(* history variables record what became of every line; the code keeps only *)
(* spool_drops.                                                            *)
(***************************************************************************)
EXTENDS Naturals, Sequences, FiniteSets

CONSTANTS
  HardLines,     \* CPE_SPOOL_MAX_LINES_HARD (1024)
  DefaultLines,  \* CPE_CFG_SPOOL_DEFAULT (256)
  EventQ,        \* CPE_EVENT_Q (16)
  BatchMin,      \* lines of full length that always fit one POST body (7)
  Requests,      \* values of spool_max_lines a configuration may carry
  MaxPush,       \* bound on the lines pushed
  MaxGen,        \* bound on the configurations applied
  MaxFailed      \* bound on the POSTs that are reported failed

ASSUME CoreAssumption ==
  /\ HardLines \in Nat \ {0}
  /\ DefaultLines \in 1..HardLines
  /\ EventQ \in Nat \ {0}
  /\ BatchMin \in Nat \ {0}
  /\ Requests \subseteq Nat
  /\ MaxPush \in Nat /\ MaxGen \in Nat /\ MaxFailed \in Nat

(* emit_mode: "stdout" and "spool" both write through stdio, "http" and     *)
(* "https" both post.                                                      *)
Modes == {"stdio", "http"}

VARIABLES
  ring,       \* spool[]: slot -> line, 0 in a slot never written
  cap,        \* spool_cap; 0 stands for a null spool too
  head,       \* spool_head
  tail,       \* spool_tail
  cnt,        \* spool_cnt
  drops,      \* spool_drops
  eq,         \* the event queue, oldest first
  cfg,        \* the applied spool_max_lines, emit_mode and generation
  hasLast,    \* has_last: a sample is available to last_sample()
  pushed,     \* history: lines accepted by spool_push_line
  sink,       \* history: lines that reached stdout, the file or the collector
  dropped,    \* history: lines overwritten because the ring was full
  wiped,      \* history: lines in a ring that free_spool released
  unwritten,  \* history: lines taken off the ring whose write failed
  failed,     \* history: POSTs reported failed, and whether the collector
              \*   stored them all the same
  told,       \* history: SPOOL_DROP events handed to the host
  overrun     \* history: some event found the queue full

spoolVars == <<ring, cap, head, tail, cnt>>
fateVars  == <<sink, dropped, wiped, unwritten, failed>>
eventVars == <<eq, told, overrun>>
vars == <<spoolVars, drops, cfg, hasLast, pushed, fateVars, eventVars>>

(* The line at distance i from the oldest one, i in 1..cnt. *)
LineAt(i) == ring[(head + i - 1) % cap]
Held == [i \in 1..cnt |-> LineAt(i)]

(* Mutant of Notify: only the last event is kept. *)
NotifyLastOnly(events) ==
  LET n == Len(events)
      fits == n > 0 /\ Len(eq) < EventQ
  IN  /\ eq' = IF fits THEN Append(eq, events[n]) ELSE eq
      /\ overrun' = (overrun \/ (n > 0 /\ ~fits))
      /\ told' = told

(* eq_push for a list of events in the order the handler pushes them: one  *)
(* that finds the queue full is lost.                                      *)
Notify(events) ==
  LET room == EventQ - Len(eq)
      kept == IF Len(events) <= room THEN Len(events) ELSE room
  IN  /\ eq' = eq \o SubSeq(events, 1, kept)
      /\ overrun' = (overrun \/ kept < Len(events))
      /\ told' = told

EmptyRing(c) == [i \in 0..(c - 1) |-> 0]

(* cpe_agent_create: defaults, and a spool or no agent at all. *)
Init ==
  /\ cap = DefaultLines
  /\ ring = EmptyRing(DefaultLines)
  /\ head = 0 /\ tail = 0 /\ cnt = 0
  /\ drops = 0
  /\ cfg = [lines |-> DefaultLines, mode |-> "stdio", gen |-> 0]
  /\ hasLast = FALSE
  /\ pushed = 0
  /\ sink = <<>> /\ dropped = {} /\ wiped = {} /\ unwritten = {}
  /\ failed = <<>>
  /\ eq = <<>> /\ told = 0 /\ overrun = FALSE

(***************************************************************************)
(* cpe_agent_spool_push_line.  A full ring gives up its oldest line and    *)
(* says so; events lists this and what its caller reports, in order.       *)
(***************************************************************************)
FullTooLate == cnt > cap     \* mutant: off by one
Full == cnt >= cap

DropEvent == IF Full THEN <<"DROP">> ELSE <<>>

Store(events) ==
  /\ cap > 0
  /\ pushed < MaxPush
  /\ ring' = [ring EXCEPT ![tail] = pushed + 1]
  /\ tail' = (tail + 1) % cap
  /\ head' = IF Full THEN (head + 1) % cap ELSE head
  /\ cnt' = IF Full THEN cnt ELSE cnt + 1
  /\ drops' = IF Full THEN drops + 1 ELSE drops
  /\ dropped' = IF Full THEN dropped \cup {ring[head]} ELSE dropped
  /\ pushed' = pushed + 1
  /\ Notify(events)
  /\ UNCHANGED <<cap, cfg, sink, wiped, unwritten, failed>>

(* A line of the TCP, flow, Wi-Fi or conntrack producers. *)
PushLine == Store(DropEvent) /\ UNCHANGED hasLast

(* cpe_agent_demo_ping_tick: the sample is published before the push, so a *)
(* push the spool refuses still leaves it available.                       *)
SampleTick ==
  /\ hasLast' = TRUE
  /\ \/ Store(DropEvent \o <<"SAMPLE">>)
     \/ /\ cap = 0
        /\ UNCHANGED <<spoolVars, drops, cfg, pushed, fateVars, eventVars>>

(* The live ping, arping and trace: cpe_agent_set_last_sample publishes    *)
(* the sample and raises its event before the push, which a missing spool  *)
(* then refuses.                                                           *)
LiveSampleTick ==
  /\ hasLast' = TRUE
  /\ \/ Store(<<"SAMPLE">> \o DropEvent)
     \/ /\ cap = 0
        /\ Notify(<<"SAMPLE">>)
        /\ UNCHANGED <<spoolVars, drops, cfg, pushed, fateVars>>

(***************************************************************************)
(* cpe_agent_emit_flush.                                                   *)
(***************************************************************************)
(* Mutant: the lines are taken from the newest end. *)
AdvanceNewest(n) ==
  /\ tail' = (tail + cap - n) % cap
  /\ cnt' = cnt - n
  /\ UNCHANGED <<ring, cap, head>>

Advance(n) ==
  /\ head' = (head + n) % cap
  /\ cnt' = cnt - n
  /\ UNCHANGED <<ring, cap, tail>>

(* Mutants: the body lacks its last line; it is built backwards. *)
TakenShort(n) == SubSeq(Held, 1, IF n > 0 THEN n - 1 ELSE 0)
TakenBackwards(n) == [i \in 1..n |-> LineAt(n + 1 - i)]

Taken(n) == SubSeq(Held, 1, n)
LinesOf(s) == {s[i] : i \in 1..Len(s)}

(* Mutant: a failed write loses the lines at the front, not those at the end. *)
FlushStdioLosesFront(n, k) ==
  LET written == SubSeq(Held, n - k + 1, n)
  IN  /\ cap > 0
      /\ cfg.mode = "stdio"
      /\ Advance(n)
      /\ sink' = sink \o written
      /\ unwritten' = unwritten \cup (LinesOf(Taken(n)) \ LinesOf(written))
      /\ UNCHANGED <<drops, cfg, hasLast, pushed, dropped, wiped, failed, eventVars>>

(* cpe_agent_spool_flush prints line by line and advances past each; stdio *)
(* buffers, so when a print, the final fflush or the fclose fails, only a  *)
(* prefix of what was taken has reached the file.                          *)
FlushStdio(n, k) ==
  /\ cap > 0
  /\ cfg.mode = "stdio"
  /\ Advance(n)
  /\ sink' = sink \o Taken(k)
  /\ unwritten' = unwritten \cup (LinesOf(Taken(n)) \ LinesOf(Taken(k)))
  /\ UNCHANGED <<drops, cfg, hasLast, pushed, dropped, wiped, failed, eventVars>>

FlushStdioOk == cnt > 0 /\ FlushStdio(cnt, cnt)
FlushStdioFails == \E n \in 0..cnt : \E k \in 0..n : FlushStdio(n, k)

BatchesFull == {n \in 1..cnt : n >= BatchMin}   \* mutant: waits for a full body

(* How many lines one body takes: all of them, or at least BatchMin. *)
Batches == {n \in 1..cnt : n = cnt \/ n >= BatchMin}

(* The collector answers 2xx: only now does the ring advance. *)
PostOk(n) ==
  /\ cap > 0
  /\ cfg.mode = "http"
  /\ Advance(n)
  /\ sink' = sink \o Taken(n)
  /\ UNCHANGED <<drops, cfg, hasLast, pushed, dropped, wiped, unwritten,
                 failed, eventVars>>

FlushHttpOk == \E n \in Batches : PostOk(n)

(* The answer is not a 2xx, or does not come in time: the ring stays as it *)
(* is and the lines will be posted again.  The collector may have stored   *)
(* the body before that, may still do so later, or never.                  *)
PostFails(n) ==
  /\ cap > 0
  /\ cfg.mode = "http"
  /\ Len(failed) < MaxFailed
  /\ failed' = Append(failed, [body |-> Taken(n), stored |-> FALSE])
  /\ UNCHANGED <<spoolVars, drops, cfg, hasLast, pushed, sink, dropped, wiped,
                 unwritten, eventVars>>

FlushHttpFails == \E n \in Batches : PostFails(n)

CollectorStores(i) ==
  /\ ~failed[i].stored
  /\ failed' = [failed EXCEPT ![i] = [body |-> failed[i].body, stored |-> TRUE]]
  /\ sink' = sink \o failed[i].body
  /\ UNCHANGED <<spoolVars, drops, cfg, hasLast, pushed, dropped, wiped,
                 unwritten, eventVars>>

(***************************************************************************)
(* cpe_agent_apply_config, the part that concerns the spool.  Rejecting a  *)
(* bad value comes first; then the old ring is released before the new one *)
(* is allocated, and the configuration is stored last.                     *)
(***************************************************************************)
Wanted(req) == IF req = 0 THEN DefaultLines ELSE req
Valid(lines) == lines \in 1..HardLines

Release(c) ==
  /\ wiped' = wiped \cup LinesOf(Held)
  /\ head' = 0 /\ tail' = 0 /\ cnt' = 0
  /\ cap' = c
  /\ ring' = EmptyRing(c)

Accepted(req, mode) ==
  /\ cfg' = [lines |-> Wanted(req), mode |-> mode, gen |-> cfg.gen + 1]
  /\ Notify(<<"APPLIED">>)

ConfigInvalid(req) ==
  /\ ~Valid(Wanted(req))
  /\ Notify(<<"REJECTED">>)
  /\ UNCHANGED <<spoolVars, drops, cfg, hasLast, pushed, fateVars>>

(* Mutant: a ring that is large enough is kept. *)
ConfigKeepsLarger(req, mode) ==
  /\ Valid(Wanted(req))
  /\ Wanted(req) <= cap
  /\ Accepted(req, mode)
  /\ UNCHANGED <<spoolVars, drops, hasLast, pushed, fateVars>>

ConfigSameSize(req, mode) ==
  /\ Valid(Wanted(req))
  /\ Wanted(req) = cap
  /\ Accepted(req, mode)
  /\ UNCHANGED <<spoolVars, drops, hasLast, pushed, fateVars>>

ConfigResize(req, mode) ==
  /\ Valid(Wanted(req))
  /\ Wanted(req) # cap
  /\ Release(Wanted(req))
  /\ Accepted(req, mode)
  /\ UNCHANGED <<drops, hasLast, pushed, sink, dropped, unwritten, failed>>

ConfigNoMemory(req) ==
  /\ Valid(Wanted(req))
  /\ Wanted(req) # cap
  /\ Release(0)
  /\ Notify(<<"NEED_ALLOC", "REJECTED">>)
  /\ UNCHANGED <<drops, cfg, hasLast, pushed, sink, dropped, unwritten, failed>>

ApplyConfig ==
  \E req \in Requests :
    \/ ConfigInvalid(req)
    \/ ConfigNoMemory(req)
    \/ /\ cfg.gen < MaxGen
       /\ \E mode \in Modes : ConfigSameSize(req, mode) \/ ConfigResize(req, mode)

(* cpe_agent_next_event hands the oldest event to the host. *)
NextEvent ==
  /\ eq # <<>>
  /\ eq' = Tail(eq)
  /\ told' = told + (IF Head(eq) = "DROP" THEN 1 ELSE 0)
  /\ UNCHANGED <<spoolVars, drops, cfg, hasLast, pushed, fateVars, overrun>>

Next ==
  \/ PushLine
  \/ SampleTick
  \/ LiveSampleTick
  \/ FlushStdioOk
  \/ FlushStdioFails
  \/ FlushHttpOk
  \/ FlushHttpFails
  \/ \E i \in 1..Len(failed) : CollectorStores(i)
  \/ ApplyConfig
  \/ NextEvent

Spec == Init /\ [][Next]_vars

-----------------------------------------------------------------------------
Events == {"DROP", "SAMPLE", "APPLIED", "REJECTED", "NEED_ALLOC"}

(* Every variable of the agent core holds a value of its C type, and the   *)
(* ring has one slot per unit of spool_cap.                                *)
TypeOK ==
  /\ cap \in 0..HardLines
  /\ ring \in [0..(cap - 1) -> Nat]
  /\ head \in Nat /\ tail \in Nat /\ cnt \in Nat /\ drops \in Nat
  /\ cfg \in [lines : 1..HardLines, mode : Modes, gen : Nat]
  /\ hasLast \in BOOLEAN
  /\ pushed \in Nat
  /\ sink \in Seq(Nat)
  /\ dropped \subseteq Nat /\ wiped \subseteq Nat /\ unwritten \subseteq Nat
  /\ failed \in Seq([body : Seq(Nat), stored : BOOLEAN]) /\ told \in Nat
  /\ eq \in Seq(Events) /\ Len(eq) <= EventQ
  /\ overrun \in BOOLEAN

(* spool_head, spool_tail and spool_cnt, three separately updated counters *)
(* of spool_push_line, spool_flush, emit_flush and free_spool, always      *)
(* describe one and the same window of the ring.                           *)
RingShape ==
  /\ cnt <= cap
  /\ cap > 0 => head < cap /\ tail = (head + cnt) % cap
  /\ cap = 0 => head = 0 /\ tail = 0

(* The ring holds exactly the newest lines, in the order of the pushes:    *)
(* wrapping, dropping the oldest, partial flushes and resizing never skip, *)
(* repeat or reorder a line that is still held.                            *)
Window == cnt <= pushed /\ \A i \in 1..cnt : LineAt(i) = pushed - cnt + i

(* No line disappears without a cause: each line accepted is still held,   *)
(* or reached the sink, or was dropped by a full ring, released by a       *)
(* resize, or lost by a failed write; and spool_drops counts exactly the   *)
(* lines a full ring dropped.                                              *)
LossAccounted ==
  /\ 1..pushed = LinesOf(Held) \cup LinesOf(sink) \cup dropped \cup wiped \cup unwritten
  /\ Cardinality(dropped) = drops
  /\ (dropped \cup wiped \cup unwritten) \cap LinesOf(Held) = {}

(* The sink receives newer and newer lines, whatever failed writes,        *)
(* resizes and changes of emit_mode come between; a line comes again, or   *)
(* after a newer one, only if it was in a body whose POST was reported     *)
(* failed although the collector stored it.                                *)
SinkInOrder ==
  \A i, j \in 1..Len(sink) :
    i < j /\ sink[j] <= sink[i] =>
      \E k \in 1..Len(failed) : failed[k].stored /\ sink[j] \in LinesOf(failed[k].body)

(* The host never hears of more drops than there were, and hears of all of *)
(* them unless the event queue overran.                                    *)
DropsTold ==
  LET waiting == Cardinality({i \in 1..Len(eq) : eq[i] = "DROP"})
  IN  /\ told + waiting <= drops
      /\ ~overrun => told + waiting = drops

(* The ring, when there is one, has the size of the configuration in       *)
(* force: no sequence of rejected reloads, failed allocations and resizes  *)
(* leaves apply_config with a ring of one size and a configuration of      *)
(* another.                                                                *)
CapMatchesConfig == cap > 0 => cap = cfg.lines

(* The ring, read through Held, is the bounded drop-oldest queue.          *)
Spool == INSTANCE LineQueue WITH
           Limits <- 1..HardLines, FirstLimit <- DefaultLines,
           queue <- Held, limit <- cap, accepted <- pushed,
           discards <- drops, out <- sink,
           doubtful <- failed
SpoolSpec == Spool!LQSpec
=============================================================================
