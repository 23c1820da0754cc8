------------------------------ MODULE IpcPosts ------------------------------
(***************************************************************************)
(* The control socket while emit_flush posts to the collector.  The poll   *)
(* of IpcServer shares its thread with every flush: an emit request posts  *)
(* inside handle_request, before its reply, and the timers post between    *)
(* two polls.  Until the POST returns no slot is served; clients go on.    *)
(* Over https a POST has no time limit (see LoopPosts).                    *)
(***************************************************************************)
EXTENDS IpcServer

VARIABLE posting   \* the agent's thread is inside cpe_agent_http_post

postingVars == <<vars, posting>>

(* The poll has left the thread to the timers, or a request is next. *)
MayPost == pc = "idle" \/ (pc = "lines" /\ Newlines # {})

PollStep ==
  /\ ~posting
  /\ Poll
  /\ posting' \in (IF MayPost' THEN BOOLEAN ELSE {FALSE})

PostEnds == posting /\ posting' = FALSE /\ UNCHANGED vars

(* An agent inside a POST cannot stop in good order, but it can be killed. *)
Lifetime ==
  /\ \/ Start
     \/ Stop /\ ~posting
     \/ Crash
  /\ posting' = FALSE

ClientsGoOn == (\E c \in Clients : ClientStep(c)) /\ UNCHANGED posting

PostsNext == PollStep \/ PostEnds \/ Lifetime \/ ClientsGoOn

PostsInit == Init /\ posting = FALSE

PostsSpec == PostsInit /\ [][PostsNext]_postingVars

(* The agent polls every 200 ms unless it is inside a POST, of which       *)
(* nothing says that it ends; cpe_ctl does nothing but its request.        *)
FairSpec ==
  /\ PostsSpec
  /\ WF_postingVars(PollStep)
  /\ \A c \in Ctl :
       WF_postingVars((SendRequest(c) \/ ReadReply(c) \/ ReadEnd(c)) /\ UNCHANGED posting)
-----------------------------------------------------------------------------
(* No POST of the behaviour hangs: so it is over plain http (PostReturns   *)
(* of HttpPost), and without a collector.                                  *)
PostsReturn == posting ~> ~posting

(* cpe_ctl, which sets no timeout of its own, returns with a reply or with *)
(* an error, unless the agent is inside a POST that never returns.         *)
CtlReturns ==
  PostsReturn => \A c \in Ctl : conn[c] = "open" ~> conn[c] = "left"
=============================================================================
