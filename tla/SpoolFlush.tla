----------------------------- MODULE SpoolFlush -----------------------------
(***************************************************************************)
(* When the loop flushes the spool.  emit_flush is not called on a clock:  *)
(* on_timer calls it after a sample that went well and after a TCP tick    *)
(* that pushed lines, on_ipc_timer after a flow tick that did some work.   *)
(* Lines also arrive over the control socket (tcp_emit, flow_tick and the  *)
(* refresh of flow_list), and no flush follows those; the emit request and *)
(* a Wi-Fi scan flush by themselves.                                       *)
(***************************************************************************)
EXTENDS AgentCore

VARIABLE due  \* a callback of the loop goes on to its emit_flush

flushVars == <<vars, due>>

FlushInit == Init /\ due = FALSE

(* A tick of one of the timers that emit_flush follows: a sample, a line   *)
(* of the TCP or flow sensors, or flow events that produced no line.       *)
Tick ==
  /\ ~due /\ due' = TRUE
  /\ \/ PushLine
     \/ cap > 0 /\ (SampleTick \/ LiveSampleTick)
     \/ UNCHANGED vars

(* The further lines of such a tick; lines that come without a flush, over *)
(* the control socket; a sample that the missing spool refuses, which      *)
(* makes sample_tick fail.                                                 *)
PushOnly ==
  /\ UNCHANGED due
  /\ \/ PushLine
     \/ ~due /\ cap = 0 /\ (SampleTick \/ LiveSampleTick)

(* emit_flush, from a timer or on request. *)
FlushOk == due' = FALSE /\ (FlushStdioOk \/ FlushHttpOk)
FlushFails == due' = FALSE /\ (FlushStdioFails \/ FlushHttpFails)

(* It finds nothing to send, or cannot open the file or reach the          *)
(* collector at all.                                                       *)
FlushNothing == due /\ due' = FALSE /\ UNCHANGED vars

(* The loop's other work is never between a tick and its flush. *)
OtherWork == ~due /\ (ApplyConfig \/ NextEvent) /\ UNCHANGED due

Collector == (\E i \in 1..Len(failed) : CollectorStores(i)) /\ UNCHANGED due

FlushNext ==
  \/ Tick \/ PushOnly
  \/ FlushOk \/ FlushFails \/ FlushNothing
  \/ OtherWork \/ Collector

FlushSpec == FlushInit /\ [][FlushNext]_flushVars

(***************************************************************************)
(* A callback that came to its emit_flush calls it.  The sink does not     *)
(* refuse for ever: of the flushes that are due with lines to send in a    *)
(* mode, some succeed.  Nothing says that a flush will be due.             *)
(***************************************************************************)
FairSpec ==
  /\ FlushSpec
  /\ WF_flushVars(due /\ (FlushOk \/ FlushFails \/ FlushNothing))
  /\ SF_flushVars(due /\ due' = FALSE /\ FlushStdioOk)
  /\ SF_flushVars(due /\ due' = FALSE /\ FlushHttpOk)
-----------------------------------------------------------------------------
(* What a line in the ring is owed: it reaches the sink or is lost for one *)
(* of the recorded reasons.                                                *)
Settled(n) == n \in LinesOf(sink) \cup dropped \cup wiped \cup unwritten

(* No line stays in the ring for ever, whoever pushed it, as long as the   *)
(* timers come to emit_flush again and again: partial bodies, failed       *)
(* writes, changes of emit_mode and resizes only delay it.  The premise    *)
(* is the code's own condition: where every sample fails and no sensor has *)
(* anything to report, a line pushed over the control socket stays.        *)
EveryLineSettles ==
  []<>due => \A n \in 1..MaxPush : pushed >= n ~> Settled(n)
=============================================================================
