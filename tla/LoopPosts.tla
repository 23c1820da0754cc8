------------------------------ MODULE LoopPosts ------------------------------
(***************************************************************************)
(* The loop of AgentLoop while emit_flush posts to the collector.  A POST  *)
(* runs on the loop's only thread, inside the callback that flushes: after *)
(* a sample, a TCP tick, an emit request or a flow tick.  Until it returns *)
(* no other step of the loop is taken; signals still set their flags.      *)
(* Over plain http a POST ends within its time limits (PostReturns of      *)
(* HttpPost).  Over https neither the handshake nor the read has one.      *)
(***************************************************************************)
EXTENDS AgentLoop

VARIABLE posting   \* the thread is inside cpe_agent_http_post

postingVars == <<vars, posting>>

(* The places of a callback that call emit_flush, whether or not it posts. *)
FlushPlaces == {"sample", "tcp", "ipc", "serve", "flow"}

LoopStep == OnTimer \/ OnIpcTimer \/ Rounds \/ Exit

ThreadStep(step) ==
  /\ ~posting
  /\ step
  /\ posting' \in (IF pc \in FlushPlaces THEN BOOLEAN ELSE {FALSE})

PostEnds == posting /\ posting' = FALSE /\ UNCHANGED vars

PostsNext ==
  \/ ThreadStep(LoopStep)
  \/ PostEnds
  \/ Environment /\ UNCHANGED posting

PostsInit == Init /\ posting = FALSE

PostsSpec == PostsInit /\ [][PostsNext]_postingVars

(***************************************************************************)
(* Both timers repeat for ever, and a callback that was entered goes on    *)
(* unless it is inside a POST; the sample timer is not starved by the      *)
(* faster one because libuv runs every expired timer in the order of its   *)
(* deadline.  The loop without libuv needs no more than that its thread    *)
(* goes on.  Nothing says that a POST ends.                                *)
(***************************************************************************)
FairSpec ==
  /\ PostsSpec
  /\ WF_postingVars(ThreadStep(LoopStep))
  /\ SF_postingVars(ThreadStep(SampleTimer))
-----------------------------------------------------------------------------
(* No POST of the behaviour hangs.  HttpPost shows it for plain http; with *)
(* stdout and the spool file there are no POSTs; for https it is an        *)
(* assumption about the collector.                                         *)
PostsReturn == posting ~> ~posting

(* A SIGHUP is honoured: the file is read again, unless the agent exits or *)
(* a POST never returns.                                                   *)
HupHonoured ==
  PostsReturn =>
    \A v \in 1..MaxEdits : hupAt = v ~> (seen >= v \/ pc = "exited")

(* SIGINT and SIGTERM end the loop whatever callback it is in, unless it   *)
(* is in a POST that never returns: the flag is only read by the loop.     *)
StopExits == PostsReturn => (gStop ~> pc = "exited")
=============================================================================
