------------------------------ MODULE AgentLoop ------------------------------
(***************************************************************************)
(* The two builds of the agent's loop, with the reload path of             *)
(* agent/agent_core.c: agent/agent_loop.c, a libuv loop with a sample      *)
(* timer and a 200 ms timer, and agent/agent_loop_poll.c, which sleeps in  *)
(* slices of 200 ms between samples.  Both are single threaded, with two   *)
(* flags set behind their back by signals, reload the YAML file on SIGHUP  *)
(* and share the two netlink sensors that apply_config opens, rebinds and  *)
(* closes.                                                                 *)
(*                                                                         *)
(* Time is abstracted: an armed libuv timer may expire whenever the loop   *)
(* is idle; an interval is counted in slices, the last of which may be     *)
(* shorter.  What a sample contains is left to AgentCore; here a sample    *)
(* only records whether it was synthetic.                                  *)
(***************************************************************************)
EXTENDS Naturals

CONSTANTS
  Bodies,      \* contents the YAML file may have, see Body
  FirstBody,   \* its contents when the agent starts
  ForceDemo,   \* the agent was started with --demo
  MaxEdits,    \* bound on the edits of the file
  Loops        \* the builds: "uv" with libuv, "poll" without

Groups == {0, 5, 6}      \* tcp_stats: 0 is disabled, else the NFLOG group

Body == [ok : BOOLEAN,             \* it loads and validates
         interval : Nat \ {0},     \* demo_interval_ms, in slices
         demo : BOOLEAN,           \* demo.enabled
         tcp : Groups,
         flow : BOOLEAN,           \* flow_acct.enabled
         join : BOOLEAN]           \* flow_acct.join_update

ASSUME LoopAssumption ==
  /\ Bodies \subseteq Body
  /\ FirstBody \in Bodies /\ FirstBody.ok
  /\ ForceDemo \in BOOLEAN
  /\ MaxEdits \in Nat
  /\ Loops \subseteq {"uv", "poll"}

VARIABLES
  loop,      \* which build runs
  pc,        \* where the loop thread is
  gHup,      \* g_hup
  gStop,     \* g_stop
  file,      \* the YAML file: its body and how often it was edited
  staged,    \* the body reload_config has read
  cfg,       \* the configuration in force
  armed,     \* last_interval_ms, the repeat of the sample timer (poll: interval)
  left,      \* poll: slices left before the next sample
  tcp,       \* NFLOG socket: the group it is bound to or 0, and enabled
  flow,      \* conntrack socket: open, enabled, subscribed to updates
  probe,     \* whether the latest sample was synthetic
  seen,      \* history: the edit number of the file last read
  hupAt      \* history: the edit number of the file at the last SIGHUP

envVars    == <<loop, file, hupAt>>
timerVars  == <<armed, left>>
sensorVars == <<tcp, flow>>
vars == <<loop, pc, gHup, gStop, file, staged, cfg, armed, left, tcp, flow, probe, seen, hupAt>>

Closed == [fd |-> FALSE, on |-> FALSE, join |-> FALSE]

(* main: create, reload_config, and --demo applied once on top. *)
StartConfig == [FirstBody EXCEPT !.demo = FirstBody.demo \/ ForceDemo]

(* cpe_agent_run_uv: clear the flags, enter the loop with both timers      *)
(* armed, or at the top of the loop that samples and sleeps.               *)
Init ==
  /\ loop \in Loops
  /\ pc = IF loop = "uv" THEN "idle" ELSE "top"
  /\ gHup = FALSE /\ gStop = FALSE
  /\ file = [body |-> FirstBody, ver |-> 0]
  /\ staged = FirstBody
  /\ cfg = StartConfig
  /\ armed = FirstBody.interval
  /\ left = 0
  /\ \E fd \in {0, FirstBody.tcp} : tcp = [fd |-> fd, on |-> FirstBody.tcp # 0]
  /\ flow \in {Closed} \cup
       (IF FirstBody.flow THEN {[fd |-> TRUE, on |-> TRUE, join |-> FirstBody.join]} ELSE {})
  /\ probe = "none"
  /\ seen = 0 /\ hupAt = 0

(***************************************************************************)
(* The environment: signal handlers run between any two steps of the loop  *)
(* thread, and the operator edits the file.                                *)
(***************************************************************************)
Running == pc # "exited"

HupArrives ==
  /\ Running
  /\ gHup' = TRUE
  /\ hupAt' = file.ver
  /\ UNCHANGED <<loop, pc, gStop, file, staged, cfg, timerVars, tcp, flow, probe, seen>>

StopArrives ==
  /\ Running
  /\ gStop' = TRUE
  /\ UNCHANGED <<loop, pc, gHup, file, staged, cfg, timerVars, tcp, flow, probe, seen, hupAt>>

EditFile ==
  /\ Running
  /\ file.ver < MaxEdits
  /\ \E b \in Bodies : file' = [body |-> b, ver |-> file.ver + 1]
  /\ UNCHANGED <<loop, pc, gHup, gStop, staged, cfg, timerVars, tcp, flow, probe, seen, hupAt>>

(* Without a new configuration the libuv timer keeps its repeat; the other *)
(* loop takes the interval from the configuration in every round, and has  *)
(* a look at the control socket after the sample.                          *)
NoReload    == IF loop = "uv" THEN "sample" ELSE "rearm"
AfterSample == IF loop = "uv" THEN "idle" ELSE "serve"

(***************************************************************************)
(* on_timer: stop check, handle_hup, sample and flush, TCP tick.  From     *)
(* handle_hup to the TCP tick the two builds take the same steps.          *)
(***************************************************************************)
(* Mutant: the sample timer does not look at g_stop. *)
SampleTimerNoStop ==
  /\ pc = "idle" /\ loop = "uv"
  /\ pc' = "hup"
  /\ UNCHANGED <<gHup, gStop, envVars, staged, cfg, timerVars, sensorVars, probe, seen>>

SampleTimer ==
  /\ pc = "idle" /\ loop = "uv"
  /\ pc' = IF gStop THEN "stopped" ELSE "hup"
  /\ UNCHANGED <<gHup, gStop, envVars, staged, cfg, timerVars, sensorVars, probe, seen>>

(* Mutant: live probing skips the test of g_hup. *)
HupTestDemoOnly ==
  /\ pc = "hup"
  /\ pc' = IF gHup /\ cfg.demo THEN "clear" ELSE NoReload
  /\ UNCHANGED <<gHup, gStop, envVars, staged, cfg, timerVars, sensorVars, probe, seen>>

(* cpe_agent_hup_take is a test and a store, with a signal possible between. *)
HupTest ==
  /\ pc = "hup"
  /\ pc' = IF gHup THEN "clear" ELSE NoReload
  /\ UNCHANGED <<gHup, gStop, envVars, staged, cfg, timerVars, sensorVars, probe, seen>>

HupClear ==
  /\ pc = "clear"
  /\ gHup' = FALSE
  /\ pc' = "load"
  /\ UNCHANGED <<gStop, envVars, staged, cfg, timerVars, sensorVars, probe, seen>>

(* The file is read; one that does not load or validate changes nothing.   *)
LoadFile ==
  /\ pc = "load"
  /\ staged' = file.body
  /\ seen' = file.ver
  /\ pc' = IF file.body.ok THEN "apply" ELSE NoReload
  /\ UNCHANGED <<gHup, gStop, envVars, cfg, timerVars, sensorVars, probe>>

(* cpe_agent_tcp_open with no socket open: a failure leaves it enabled.    *)
OpenTcp(group) == \E fd \in {0, group} : tcp' = [fd |-> fd, on |-> TRUE]

(* Mutant: an open socket is kept although the group changed. *)
RebindTcpKeepsGroup(b) ==
  IF b.tcp # 0
  THEN IF tcp.fd = 0
       THEN OpenTcp(b.tcp)
       ELSE tcp' = [tcp EXCEPT !.on = TRUE]
  ELSE tcp' = IF cfg.tcp # 0 THEN [fd |-> 0, on |-> FALSE] ELSE tcp

(* NFLOG is closed and opened when it is switched on, changes group or is  *)
(* not open; after an open that fails the next tick tries again.           *)
RebindTcp(b) ==
  IF b.tcp # 0
  THEN IF cfg.tcp # b.tcp \/ tcp.fd = 0
       THEN OpenTcp(b.tcp)
       ELSE tcp' = [tcp EXCEPT !.on = TRUE]
  ELSE tcp' = IF cfg.tcp # 0 THEN [fd |-> 0, on |-> FALSE] ELSE tcp

(* cpe_agent_flow_open: a failure leaves the sensor closed and disabled.   *)
OpenFlow(join) == flow' \in {Closed, [fd |-> TRUE, on |-> TRUE, join |-> join]}

(* The event socket is opened anew only when it is switched on or is not   *)
(* open; the subscription of an open one stays what it was.                *)
RebindFlow(b) ==
  IF b.flow
  THEN IF ~cfg.flow \/ ~flow.fd THEN OpenFlow(b.join)
       ELSE flow' = [flow EXCEPT !.on = TRUE]
  ELSE flow' = IF cfg.flow THEN Closed ELSE flow

Apply ==
  /\ pc = "apply"
  /\ \/ /\ cfg' = staged
        /\ RebindTcp(staged)
        /\ RebindFlow(staged)
        /\ pc' = "rearm"
     \/ /\ pc' = NoReload            \* no memory for the new spool: rejected
        /\ UNCHANGED <<cfg, tcp, flow>>
  /\ UNCHANGED <<gHup, gStop, envVars, staged, timerVars, probe, seen>>

(* Mutants: the flag is cleared after the reload rather than before it;    *)
(* the timer is left as it was.                                            *)
RearmClearsHup ==
  /\ pc = "rearm"
  /\ gHup' = FALSE
  /\ armed' = cfg.interval
  /\ pc' = "sample"
  /\ UNCHANGED <<gStop, envVars, staged, cfg, left, sensorVars, probe, seen>>
RearmTimer ==
  /\ pc = "rearm"
  /\ armed' = cfg.interval
  /\ pc' = "sample"
  /\ UNCHANGED <<gHup, gStop, envVars, staged, cfg, left, sensorVars, probe, seen>>

Sample ==
  /\ pc = "sample"
  /\ probe' = IF cfg.demo THEN "demo" ELSE "live"
  /\ pc' = IF cfg.tcp # 0 THEN "tcp" ELSE AfterSample
  /\ UNCHANGED <<gHup, gStop, envVars, staged, cfg, timerVars, sensorVars, seen>>

(* tcp_poll opens the socket if it is not: at the configured group. *)
PollTcp ==
  IF tcp.on /\ tcp.fd = 0 THEN OpenTcp(cfg.tcp) ELSE tcp' = tcp

TcpTick ==
  /\ pc = "tcp"
  /\ PollTcp
  /\ pc' = AfterSample
  /\ UNCHANGED <<gHup, gStop, envVars, staged, cfg, timerVars, flow, probe, seen>>

(***************************************************************************)
(* on_ipc_timer: stop check, control requests, flow tick.                  *)
(***************************************************************************)
IpcTimer ==
  /\ pc = "idle" /\ loop = "uv"
  /\ pc' = IF gStop THEN "stopped" ELSE "ipc"
  /\ UNCHANGED <<gHup, gStop, envVars, staged, cfg, timerVars, sensorVars, probe, seen>>

(* cpe_agent_flow_tick retries the open while the configuration asks for it. *)
TickFlow ==
  IF ~flow.on /\ cfg.flow THEN OpenFlow(cfg.join) ELSE flow' = flow

(* A request: tcp_poll, flow_tick, or one that touches no sensor. *)
Request ==
  \/ PollTcp /\ UNCHANGED flow
  \/ TickFlow /\ UNCHANGED tcp

IpcServe ==
  /\ pc = "ipc"
  /\ Request
  /\ pc' = IF cfg.flow THEN "flow" ELSE "idle"
  /\ UNCHANGED <<gHup, gStop, envVars, staged, cfg, timerVars, probe, seen>>

FlowTick ==
  /\ pc = "flow"
  /\ TickFlow
  /\ pc' = "idle"
  /\ UNCHANGED <<gHup, gStop, envVars, staged, cfg, timerVars, tcp, probe, seen>>

(***************************************************************************)
(* agent_loop_poll.c: the rounds and their slices.  SIGHUP is looked at    *)
(* only at the top of a round; SIGTERM interrupts a sleep, and the request *)
(* and the flow tick after it are still carried out.                       *)
(***************************************************************************)
Top ==
  /\ pc = "top"
  /\ pc' = IF gStop THEN "stopped" ELSE "hup"
  /\ UNCHANGED <<gHup, gStop, envVars, staged, cfg, timerVars, sensorVars, probe, seen>>

ServeAfterSample ==
  /\ pc = "serve"
  /\ Request
  /\ left' = armed
  /\ pc' = "idle"
  /\ UNCHANGED <<gHup, gStop, envVars, staged, cfg, armed, probe, seen>>

SleepSlice ==
  /\ pc = "idle" /\ loop = "poll"
  /\ left > 0 /\ ~gStop
  /\ left' = left - 1
  /\ pc' = "ipc"
  /\ UNCHANGED <<gHup, gStop, envVars, staged, cfg, armed, sensorVars, probe, seen>>

SliceEnd ==
  /\ pc = "idle" /\ loop = "poll"
  /\ left = 0 \/ gStop
  /\ pc' = "top"
  /\ UNCHANGED <<gHup, gStop, envVars, staged, cfg, timerVars, sensorVars, probe, seen>>

(* The loop was left: run_uv returns and main destroys the agent. *)
Exit ==
  /\ pc = "stopped"
  /\ pc' = "exited"
  /\ tcp' = [tcp EXCEPT !.fd = 0]
  /\ flow' = Closed
  /\ UNCHANGED <<gHup, gStop, envVars, staged, cfg, timerVars, probe, seen>>

OnTimer ==
  \/ SampleTimer \/ HupTest \/ HupClear \/ LoadFile
  \/ Apply \/ RearmTimer \/ Sample \/ TcpTick
OnIpcTimer == IpcTimer \/ IpcServe \/ FlowTick
Rounds == Top \/ ServeAfterSample \/ SleepSlice \/ SliceEnd
Environment == HupArrives \/ StopArrives \/ EditFile

Next == OnTimer \/ OnIpcTimer \/ Rounds \/ Exit \/ Environment

Spec == Init /\ [][Next]_vars
-----------------------------------------------------------------------------
Places == {"idle", "hup", "clear", "load", "apply", "rearm", "sample", "tcp",
           "ipc", "flow", "top", "serve", "stopped", "exited"}

(* Every variable of the loop holds a value of its type.                   *)
TypeOK ==
  /\ loop \in Loops /\ pc \in Places
  /\ gHup \in BOOLEAN /\ gStop \in BOOLEAN
  /\ file \in [body : Bodies, ver : 0..MaxEdits]
  /\ staged \in Body /\ cfg \in Body
  /\ armed \in Nat \ {0} /\ left \in Nat
  /\ tcp \in [fd : Groups, on : BOOLEAN]
  /\ flow \in [fd : BOOLEAN, on : BOOLEAN, join : BOOLEAN]
  /\ probe \in {"none", "demo", "live"}
  /\ seen \in 0..MaxEdits /\ hupAt \in 0..MaxEdits

(* No SIGHUP is lost: when the loop is not in the middle of taking one and *)
(* the flag is down, the file has been read since the last SIGHUP, so the  *)
(* edit the operator signalled is never skipped, even when the signal      *)
(* arrives between the test and the store of hup_take.                     *)
HupNotLost == ~gHup /\ pc # "load" => seen >= hupAt

(* The sensors follow the configuration in force through every reload,     *)
(* failed open and retry: nothing listens when it is switched off, and     *)
(* NFLOG is never bound to a group other than the configured one.          *)
SensorsFollowConfig ==
  /\ tcp.fd \in {0, cfg.tcp}
  /\ cfg.tcp = 0 => ~tcp.on
  /\ flow.fd => cfg.flow
  /\ flow.on = flow.fd

(* Samples are taken at the configured interval once a reload has been     *)
(* carried out, and a reload that failed leaves both as they were, in the  *)
(* build that rearms a timer and in the one that counts slices.            *)
TimerFollowsConfig == pc # "rearm" => armed = cfg.interval

(* Sensors and timer follow one and the same configuration: no order of    *)
(* signals, failed loads, failed opens and retries leaves the one with the *)
(* new configuration and the other with the old.                           *)
LoopFollowsConfig == SensorsFollowConfig /\ TimerFollowsConfig
=============================================================================
