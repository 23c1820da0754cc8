--------------------------- MODULE AgentLoop_proofs ---------------------------
(***************************************************************************)
(* Proofs about AgentLoop, for both builds of the loop, every set of file  *)
(* contents and every number of edits, signals, failed opens and failed    *)
(* reloads; and about HttpPost, the call on which its callbacks wait.      *)
(***************************************************************************)
EXTENDS LoopPosts, HttpPost, TLAPS

(* What was signalled, and what was read, has been written before. *)
FileAhead == file.ver >= hupAt /\ file.ver >= seen

(***************************************************************************)
(* The inductive invariant.  HupNotLost needs FileAhead: reading the file  *)
(* catches up with every SIGHUP so far because the version a SIGHUP stands *)
(* for is never ahead of the file.  The other parts are inductive together *)
(* with the types.                                                         *)
(***************************************************************************)
IndInv == TypeOK /\ FileAhead /\ HupNotLost /\ SensorsFollowConfig /\ TimerFollowsConfig

(* The configurations main can start from are well typed. *)
LEMMA FirstBodyType ==
  ASSUME LoopAssumption
  PROVE  /\ FirstBody \in Body /\ FirstBody \in Bodies /\ Bodies \subseteq Body
         /\ [FirstBody EXCEPT !.demo = FirstBody.demo \/ ForceDemo] \in Body
BY DEF LoopAssumption, Body

TcpState  == [fd : Groups, on : BOOLEAN]
FlowState == [fd : BOOLEAN, on : BOOLEAN, join : BOOLEAN]

(* The states an open or a close may leave a sensor in. *)
LEMMA SensorStates ==
  /\ Closed \in FlowState /\ ~Closed.fd /\ Closed.on = Closed.fd
  /\ \A join \in BOOLEAN :
       LET opened == [fd |-> TRUE, on |-> TRUE, join |-> join]
       IN  opened \in FlowState /\ opened.fd /\ opened.on = opened.fd
  /\ \A g \in Groups, o \in BOOLEAN :
       LET bound == [fd |-> g, on |-> o]
       IN  bound \in TcpState /\ bound.fd = g /\ bound.on = o
<1>1. Closed \in FlowState /\ ~Closed.fd /\ Closed.on = Closed.fd
  BY DEF Closed, FlowState
<1>2. ASSUME NEW join \in BOOLEAN
      PROVE  LET opened == [fd |-> TRUE, on |-> TRUE, join |-> join]
             IN  opened \in FlowState /\ opened.fd /\ opened.on = opened.fd
  BY DEF FlowState
<1>3. ASSUME NEW g \in Groups, NEW o \in BOOLEAN
      PROVE  LET bound == [fd |-> g, on |-> o]
             IN  bound \in TcpState /\ bound.fd = g /\ bound.on = o
  BY DEF TcpState
<1> QED
  BY <1>1, <1>2, <1>3

(* The state in which run_uv starts satisfies the invariant. *)
LEMMA InitIndInv ==
  ASSUME LoopAssumption, Init
  PROVE  IndInv
<1>1. TypeOK
  <2>1. loop \in Loops /\ pc \in Places /\ gHup \in BOOLEAN /\ gStop \in BOOLEAN
    BY DEF Init, Places
  <2>2. /\ file \in [body : Bodies, ver : 0..MaxEdits]
        /\ seen \in 0..MaxEdits /\ hupAt \in 0..MaxEdits
    BY FirstBodyType DEF LoopAssumption, Init
  <2>3. staged \in Body /\ cfg \in Body
    BY FirstBodyType DEF Init, StartConfig
  <2>4. /\ FirstBody.interval \in Nat \ {0} /\ FirstBody.tcp \in Groups
        /\ FirstBody.join \in BOOLEAN
    BY FirstBodyType DEF Body
  <2>5. armed \in Nat \ {0} /\ left \in Nat /\ probe \in {"none", "demo", "live"}
    BY <2>4 DEF Init
  <2>6. tcp \in [fd : Groups, on : BOOLEAN]
    BY <2>4 DEF Init, Groups
  <2>7. flow \in [fd : BOOLEAN, on : BOOLEAN, join : BOOLEAN]
    <3>1. flow = Closed \/ flow = [fd |-> TRUE, on |-> TRUE, join |-> FirstBody.join]
      BY DEF Init
    <3> QED
      BY <2>4, <3>1, SensorStates DEF FlowState
  <2> QED
    BY <2>1, <2>2, <2>3, <2>5, <2>6, <2>7 DEF TypeOK
<1>2. FileAhead /\ HupNotLost
  BY DEF Init, FileAhead, HupNotLost
<1>3. SensorsFollowConfig
  <2>1. /\ FirstBody.tcp \in Groups /\ 0 \in Groups /\ FirstBody.flow \in BOOLEAN
        /\ FirstBody.join \in BOOLEAN /\ cfg.tcp = FirstBody.tcp /\ cfg.flow = FirstBody.flow
    BY FirstBodyType DEF Init, StartConfig, Body, Groups
  <2>2. PICK fd \in {0, FirstBody.tcp} : tcp = [fd |-> fd, on |-> FirstBody.tcp # 0]
    BY DEF Init
  <2>3. tcp.fd = fd /\ tcp.on = (FirstBody.tcp # 0)
    BY <2>2
  <2>4. \/ flow = Closed
        \/ flow = [fd |-> TRUE, on |-> TRUE, join |-> FirstBody.join] /\ FirstBody.flow
    BY DEF Init
  <2>5. (flow.fd => cfg.flow) /\ flow.on = flow.fd
    BY <2>1, <2>4, SensorStates
  <2>6. tcp.fd \in {0, cfg.tcp}
    BY <2>1, <2>2, <2>3
  <2>7. cfg.tcp = 0 => ~tcp.on
    BY <2>1, <2>3
  <2> QED
    BY <2>5, <2>6, <2>7 DEF SensorsFollowConfig
<1>4. TimerFollowsConfig
  BY FirstBodyType DEF Init, StartConfig, TimerFollowsConfig, Body
<1> QED
  BY <1>1, <1>2, <1>3, <1>4 DEF IndInv

(* A reload leaves NFLOG closed or bound to the new group, and off when    *)
(* the new configuration switches it off.                                  *)
LEMMA RebindTcpFollows ==
  ASSUME IndInv, NEW b \in Body, RebindTcp(b)
  PROVE  /\ tcp' \in TcpState
         /\ tcp'.fd \in {0, b.tcp} /\ (b.tcp = 0 => ~tcp'.on)
<1>1. /\ tcp \in TcpState /\ b.tcp \in Groups /\ 0 \in Groups
      /\ tcp.fd \in {0, cfg.tcp} /\ (cfg.tcp = 0 => ~tcp.on)
  BY DEF IndInv, TypeOK, SensorsFollowConfig, Body, Groups, TcpState
<1>2. CASE b.tcp # 0 /\ (cfg.tcp # b.tcp \/ tcp.fd = 0)
  <2>1. PICK fd \in {0, b.tcp} : tcp' = [fd |-> fd, on |-> TRUE]
    BY <1>2 DEF RebindTcp, OpenTcp
  <2>2. fd \in Groups
    BY <1>1
  <2> QED
    BY <1>2, <2>1, <2>2, SensorStates
<1>3. CASE b.tcp # 0 /\ ~(cfg.tcp # b.tcp \/ tcp.fd = 0)
  BY <1>1, <1>3 DEF RebindTcp, TcpState
<1>4. CASE b.tcp = 0 /\ cfg.tcp # 0
  <2>1. tcp' = [fd |-> 0, on |-> FALSE]
    BY <1>4 DEF RebindTcp
  <2> QED
    BY <1>1, <2>1, SensorStates
<1>5. CASE b.tcp = 0 /\ cfg.tcp = 0
  <2>1. tcp' = tcp
    BY <1>5 DEF RebindTcp
  <2> QED
    BY <1>1, <1>5, <2>1
<1> QED
  BY <1>2, <1>3, <1>4, <1>5

(* Opening the conntrack socket leaves it open and enabled, or neither. *)
LEMMA OpenFlowState ==
  ASSUME NEW join \in BOOLEAN, OpenFlow(join)
  PROVE  flow' \in FlowState /\ flow'.on = flow'.fd
<1>1. flow' = Closed \/ flow' = [fd |-> TRUE, on |-> TRUE, join |-> join]
  BY DEF OpenFlow
<1> QED
  BY <1>1, SensorStates

(* A reload leaves the conntrack socket open only if it is wanted. *)
LEMMA RebindFlowFollows ==
  ASSUME IndInv, NEW b \in Body, RebindFlow(b)
  PROVE  flow' \in FlowState /\ (flow'.fd => b.flow) /\ flow'.on = flow'.fd
<1>1. /\ flow \in FlowState
      /\ b.flow \in BOOLEAN /\ b.join \in BOOLEAN /\ cfg.flow \in BOOLEAN
      /\ (flow.fd => cfg.flow) /\ flow.on = flow.fd
  BY DEF IndInv, TypeOK, SensorsFollowConfig, Body, FlowState
<1>2. CASE b.flow /\ (~cfg.flow \/ ~flow.fd)
  <2>1. OpenFlow(b.join)
    BY <1>2 DEF RebindFlow
  <2> QED
    BY <1>1, <1>2, <2>1, OpenFlowState
<1>3. CASE b.flow /\ ~(~cfg.flow \/ ~flow.fd)
  BY <1>1, <1>3 DEF RebindFlow, FlowState
<1>4. CASE ~b.flow /\ cfg.flow
  <2>1. flow' = Closed
    BY <1>4 DEF RebindFlow
  <2> QED
    BY <2>1, SensorStates
<1>5. CASE ~b.flow /\ ~cfg.flow
  <2>1. flow' = flow
    BY <1>5 DEF RebindFlow
  <2> QED
    BY <1>1, <1>5, <2>1
<1> QED
  BY <1>2, <1>3, <1>4, <1>5

(* The retry of tcp_poll binds NFLOG only as it is configured. *)
LEMMA PollTcpFollows ==
  ASSUME IndInv, PollTcp
  PROVE  /\ tcp' \in TcpState
         /\ tcp'.fd \in {0, cfg.tcp} /\ (cfg.tcp = 0 => ~tcp'.on)
<1>1. /\ tcp \in TcpState /\ cfg.tcp \in Groups /\ 0 \in Groups
      /\ tcp.fd \in {0, cfg.tcp} /\ (cfg.tcp = 0 => ~tcp.on)
  BY DEF IndInv, TypeOK, SensorsFollowConfig, Body, Groups, TcpState
<1>2. CASE tcp.on /\ tcp.fd = 0
  <2>1. PICK fd \in {0, cfg.tcp} : tcp' = [fd |-> fd, on |-> TRUE]
    BY <1>2 DEF PollTcp, OpenTcp
  <2>2. fd \in Groups /\ cfg.tcp # 0
    BY <1>1, <1>2
  <2> QED
    BY <2>1, <2>2, SensorStates
<1>3. CASE ~(tcp.on /\ tcp.fd = 0)
  BY <1>1, <1>3 DEF PollTcp
<1> QED
  BY <1>2, <1>3

(* The retry of flow_tick opens conntrack only if it is configured. *)
LEMMA TickFlowFollows ==
  ASSUME IndInv, TickFlow
  PROVE  flow' \in FlowState /\ (flow'.fd => cfg.flow) /\ flow'.on = flow'.fd
<1>1. /\ flow \in FlowState /\ cfg.join \in BOOLEAN
      /\ (flow.fd => cfg.flow) /\ flow.on = flow.fd
  BY DEF IndInv, TypeOK, SensorsFollowConfig, Body, FlowState
<1>2. CASE ~flow.on /\ cfg.flow
  <2>1. OpenFlow(cfg.join)
    BY <1>2 DEF TickFlow
  <2> QED
    BY <1>1, <1>2, <2>1, OpenFlowState
<1>3. CASE ~(~flow.on /\ cfg.flow)
  <2>1. flow' = flow
    BY <1>3 DEF TickFlow
  <2> QED
    BY <1>1, <2>1
<1> QED
  BY <1>2, <1>3

(* Signals and edits, which come at any time, keep the invariant. *)
LEMMA EnvironmentInv ==
  ASSUME LoopAssumption, IndInv, Environment
  PROVE  IndInv'
<1>0. /\ TypeOK /\ file.ver \in Nat /\ seen \in Nat /\ hupAt \in Nat
      /\ file.ver \in 0..MaxEdits /\ MaxEdits \in Nat
      /\ file.ver >= hupAt /\ file.ver >= seen
  BY DEF IndInv, TypeOK, FileAhead, LoopAssumption
<1>1. CASE HupArrives
  <2>1. TypeOK'
    BY <1>0, <1>1 DEF TypeOK, HupArrives, timerVars
  <2>2. FileAhead' /\ HupNotLost'
    BY <1>0, <1>1 DEF FileAhead, HupNotLost, HupArrives
  <2>3. SensorsFollowConfig' /\ TimerFollowsConfig'
    BY <1>1 DEF IndInv, SensorsFollowConfig, TimerFollowsConfig, HupArrives, timerVars
  <2> QED
    BY <2>1, <2>2, <2>3 DEF IndInv
<1>2. CASE StopArrives
  <2>1. TypeOK'
    BY <1>0, <1>2 DEF TypeOK, StopArrives, timerVars
  <2>2. FileAhead' /\ HupNotLost'
    BY <1>2 DEF IndInv, FileAhead, HupNotLost, StopArrives
  <2>3. SensorsFollowConfig' /\ TimerFollowsConfig'
    BY <1>2 DEF IndInv, SensorsFollowConfig, TimerFollowsConfig, StopArrives, timerVars
  <2> QED
    BY <2>1, <2>2, <2>3 DEF IndInv
<1>3. CASE EditFile
  <2>1. PICK b \in Bodies : file' = [body |-> b, ver |-> file.ver + 1]
    BY <1>3 DEF EditFile
  <2>2. file.ver + 1 \in 0..MaxEdits
    BY <1>0, <1>3 DEF EditFile
  <2>3. file' \in [body : Bodies, ver : 0..MaxEdits] /\ file'.ver = file.ver + 1
    BY <2>1, <2>2
  <2>4. TypeOK'
    BY <1>0, <1>3, <2>3 DEF TypeOK, EditFile, timerVars
  <2>5. FileAhead' /\ HupNotLost'
    BY <1>0, <1>3, <2>3 DEF IndInv, FileAhead, HupNotLost, EditFile
  <2>6. SensorsFollowConfig' /\ TimerFollowsConfig'
    BY <1>3 DEF IndInv, SensorsFollowConfig, TimerFollowsConfig, EditFile, timerVars
  <2> QED
    BY <2>4, <2>5, <2>6 DEF IndInv
<1> QED
  BY <1>1, <1>2, <1>3 DEF Environment

(* The steps of the loop that only move on, or record a sample. *)
LEMMA MoveInv ==
  ASSUME IndInv,
         SampleTimer \/ HupTest \/ Sample \/ IpcTimer \/ Top \/ SleepSlice \/ SliceEnd
  PROVE  IndInv'
<1>1. /\ UNCHANGED <<gHup, gStop, envVars, staged, cfg, armed, sensorVars, seen>>
      /\ pc' \in Places \ {"load"} /\ pc \notin {"load", "rearm"}
  BY DEF IndInv, TypeOK, SampleTimer, HupTest, Sample, IpcTimer, Top, SleepSlice, SliceEnd,
         Places, NoReload, AfterSample, timerVars
<1>2. probe' \in {"none", "demo", "live"} /\ left' \in Nat
  BY DEF IndInv, TypeOK, SampleTimer, HupTest, Sample, IpcTimer, Top, SleepSlice, SliceEnd,
         timerVars
<1>3. TypeOK'
  BY <1>1, <1>2 DEF IndInv, TypeOK, envVars, sensorVars
<1>4. FileAhead' /\ HupNotLost'
  BY <1>1 DEF IndInv, FileAhead, HupNotLost, envVars
<1>5. SensorsFollowConfig' /\ TimerFollowsConfig'
  BY <1>1 DEF IndInv, SensorsFollowConfig, TimerFollowsConfig, sensorVars
<1> QED
  BY <1>3, <1>4, <1>5 DEF IndInv

(* Taking the signal and reading the file: between the store of hup_take   *)
(* and the read nothing is owed, and the read pays every debt.             *)
LEMMA ReloadInv ==
  ASSUME LoopAssumption, IndInv, HupClear \/ LoadFile
  PROVE  IndInv'
<1>1. CASE HupClear
  <2>1. TypeOK'
    BY <1>1 DEF IndInv, TypeOK, HupClear, Places, envVars, timerVars, sensorVars
  <2>2. FileAhead' /\ HupNotLost'
    BY <1>1 DEF IndInv, FileAhead, HupNotLost, HupClear, envVars
  <2>3. SensorsFollowConfig' /\ TimerFollowsConfig'
    BY <1>1 DEF IndInv, SensorsFollowConfig, TimerFollowsConfig, HupClear, timerVars, sensorVars
  <2> QED
    BY <2>1, <2>2, <2>3 DEF IndInv
<1>2. CASE LoadFile
  <2>1. /\ file.body \in Body /\ file.ver \in 0..MaxEdits
        /\ seen' = file.ver /\ staged' = file.body
        /\ pc' \in Places \ {"load"} /\ pc = "load"
    BY <1>2, FirstBodyType DEF IndInv, TypeOK, LoadFile, Places, NoReload
  <2>2. TypeOK'
    BY <1>2, <2>1 DEF IndInv, TypeOK, LoadFile, envVars, timerVars, sensorVars
  <2>3. FileAhead' /\ HupNotLost'
    BY <1>2, <2>1 DEF IndInv, FileAhead, HupNotLost, LoadFile, envVars
  <2>4. SensorsFollowConfig' /\ TimerFollowsConfig'
    BY <1>2, <2>1 DEF IndInv, SensorsFollowConfig, TimerFollowsConfig, LoadFile, timerVars, sensorVars
  <2> QED
    BY <2>2, <2>3, <2>4 DEF IndInv
<1> QED
  BY <1>1, <1>2

(* apply_config, carried out or rejected, and the timer after it. *)
LEMMA ApplyInv ==
  ASSUME IndInv, Apply \/ RearmTimer
  PROVE  IndInv'
<1>1. CASE Apply
  <2>0. /\ UNCHANGED <<gHup, gStop, envVars, staged, armed, left, probe, seen>>
        /\ pc = "apply" /\ pc' \in Places \ {"load"} /\ staged \in Body
    BY <1>1 DEF Apply, IndInv, TypeOK, Places, NoReload, timerVars
  <2>1. FileAhead' /\ HupNotLost'
    BY <2>0 DEF IndInv, FileAhead, HupNotLost, envVars
  <2>2. CASE cfg' = staged /\ RebindTcp(staged) /\ RebindFlow(staged) /\ pc' = "rearm"
    <3>1. /\ tcp' \in TcpState
          /\ tcp'.fd \in {0, staged.tcp} /\ (staged.tcp = 0 => ~tcp'.on)
      BY <2>0, <2>2, RebindTcpFollows
    <3>2. /\ flow' \in FlowState
          /\ (flow'.fd => staged.flow) /\ flow'.on = flow'.fd
      BY <2>0, <2>2, RebindFlowFollows
    <3>3. TypeOK'
      BY <2>0, <2>2, <3>1, <3>2 DEF IndInv, TypeOK, envVars, TcpState, FlowState
    <3>4. SensorsFollowConfig' /\ TimerFollowsConfig'
      BY <2>2, <3>1, <3>2 DEF SensorsFollowConfig, TimerFollowsConfig
    <3> QED
      BY <2>1, <3>3, <3>4 DEF IndInv
  <2>3. CASE pc' = NoReload /\ UNCHANGED <<cfg, tcp, flow>>
    <3>1. TypeOK'
      BY <2>0, <2>3 DEF IndInv, TypeOK, envVars
    <3>2. SensorsFollowConfig' /\ TimerFollowsConfig'
      BY <2>0, <2>3 DEF IndInv, SensorsFollowConfig, TimerFollowsConfig
    <3> QED
      BY <2>1, <3>1, <3>2 DEF IndInv
  <2> QED
    BY <1>1, <2>2, <2>3 DEF Apply
<1>2. CASE RearmTimer
  <2>1. /\ UNCHANGED <<gHup, gStop, envVars, staged, cfg, left, sensorVars, probe, seen>>
        /\ pc = "rearm" /\ pc' = "sample" /\ armed' = cfg.interval
        /\ cfg.interval \in Nat \ {0}
    BY <1>2 DEF RearmTimer, IndInv, TypeOK, Body
  <2>2. TypeOK'
    BY <2>1 DEF IndInv, TypeOK, Places, envVars, sensorVars
  <2>3. FileAhead' /\ HupNotLost'
    BY <2>1 DEF IndInv, FileAhead, HupNotLost, envVars
  <2>4. SensorsFollowConfig' /\ TimerFollowsConfig'
    BY <2>1 DEF IndInv, SensorsFollowConfig, TimerFollowsConfig, sensorVars
  <2> QED
    BY <2>2, <2>3, <2>4 DEF IndInv
<1> QED
  BY <1>1, <1>2

(* The ticks that may reopen a sensor, and the exit that closes both. *)
LEMMA SensorInv ==
  ASSUME IndInv, TcpTick \/ IpcServe \/ FlowTick \/ ServeAfterSample \/ Exit
  PROVE  IndInv'
<1>1. /\ UNCHANGED <<gHup, gStop, envVars, staged, cfg, armed, probe, seen>>
      /\ pc' \in Places \ {"load", "rearm"} /\ pc \notin {"load", "rearm"}
      /\ left' \in Nat
  BY DEF IndInv, TypeOK, TcpTick, IpcServe, FlowTick, ServeAfterSample, Exit, Places,
         AfterSample, timerVars
<1>2. /\ tcp' \in TcpState
      /\ tcp'.fd \in {0, cfg.tcp} /\ (cfg.tcp = 0 => ~tcp'.on)
  <2>1. /\ tcp \in TcpState /\ 0 \in Groups
        /\ tcp.fd \in {0, cfg.tcp} /\ (cfg.tcp = 0 => ~tcp.on)
    BY DEF IndInv, TypeOK, SensorsFollowConfig, Groups, TcpState
  <2>2. CASE PollTcp
    BY <2>2, PollTcpFollows
  <2>3. CASE tcp' = tcp
    BY <2>1, <2>3
  <2>4. CASE tcp' = [tcp EXCEPT !.fd = 0]
    BY <2>1, <2>4 DEF TcpState
  <2> QED
    BY <2>2, <2>3, <2>4 DEF TcpTick, IpcServe, Request, FlowTick, ServeAfterSample, Exit
<1>3. flow' \in FlowState /\ (flow'.fd => cfg.flow) /\ flow'.on = flow'.fd
  <2>1. flow \in FlowState /\ (flow.fd => cfg.flow) /\ flow.on = flow.fd
    BY DEF IndInv, TypeOK, SensorsFollowConfig, FlowState
  <2>2. CASE TickFlow
    BY <2>2, TickFlowFollows
  <2>3. CASE flow' = flow
    BY <2>1, <2>3
  <2>4. CASE flow' = Closed
    BY <2>4, SensorStates
  <2> QED
    BY <2>2, <2>3, <2>4 DEF TcpTick, IpcServe, Request, FlowTick, ServeAfterSample, Exit
<1>4. TypeOK'
  BY <1>1, <1>2, <1>3 DEF IndInv, TypeOK, envVars, TcpState, FlowState
<1>5. FileAhead' /\ HupNotLost'
  BY <1>1 DEF IndInv, FileAhead, HupNotLost, envVars
<1>6. SensorsFollowConfig' /\ TimerFollowsConfig'
  BY <1>1, <1>2, <1>3 DEF IndInv, SensorsFollowConfig, TimerFollowsConfig
<1> QED
  BY <1>4, <1>5, <1>6 DEF IndInv

(* Every step of the loop and of its environment keeps the invariant. *)
LEMMA NextIndInv ==
  ASSUME LoopAssumption, IndInv, [Next]_vars
  PROVE  IndInv'
<1>1. CASE OnTimer
  BY <1>1, MoveInv, ReloadInv, ApplyInv, SensorInv DEF OnTimer
<1>2. CASE OnIpcTimer \/ Rounds \/ Exit
  BY <1>2, MoveInv, SensorInv DEF OnIpcTimer, Rounds
<1>3. CASE Environment
  BY <1>3, EnvironmentInv
<1>4. CASE UNCHANGED vars
  <2>1. TypeOK'
    BY <1>4 DEF IndInv, TypeOK, vars
  <2>2. FileAhead' /\ HupNotLost' /\ SensorsFollowConfig' /\ TimerFollowsConfig'
    BY <1>4 DEF IndInv, FileAhead, HupNotLost, SensorsFollowConfig, TimerFollowsConfig, vars
  <2> QED
    BY <2>1, <2>2 DEF IndInv
<1> QED
  BY <1>1, <1>2, <1>3, <1>4 DEF Next

(* The inductive invariant holds throughout every run of the loop.         *)
THEOREM LoopInvariant == Spec => []IndInv
<1>1. Init => IndInv
  BY LoopAssumption, InitIndInv
<1>2. IndInv /\ [Next]_vars => IndInv'
  BY LoopAssumption, NextIndInv
<1> QED
  BY <1>1, <1>2, PTL DEF Spec

(* A loop whose callbacks post takes the steps of the loop: what is proved *)
(* of it here holds with POSTs, of any length, in between.                 *)
THEOREM PostingLoopRuns == PostsSpec => Spec
<1>1. [PostsNext]_postingVars => [Next]_vars
  BY DEF PostsNext, postingVars, ThreadStep, LoopStep, PostEnds, Next
<1> QED
  BY <1>1, PTL DEF PostsSpec, PostsInit, Spec

(* The variables of both builds of the loop keep their types.              *)
THEOREM LoopTypes == Spec => []TypeOK
<1>1. IndInv => TypeOK
  BY DEF IndInv
<1> QED
  BY <1>1, LoopInvariant, PTL

(* hup_take loses no SIGHUP, wherever in the loop it arrives and however   *)
(* many edits and reloads come before it.                                  *)
THEOREM HupNeverLost == Spec => []HupNotLost
<1>1. IndInv => HupNotLost
  BY DEF IndInv
<1> QED
  BY <1>1, LoopInvariant, PTL

(* The netlink sensors follow the configuration in force, for all file     *)
(* contents and through all failures to open them.                         *)
THEOREM SensorsFollow == Spec => []SensorsFollowConfig
<1>1. IndInv => SensorsFollowConfig
  BY DEF IndInv
<1> QED
  BY <1>1, LoopInvariant, PTL

(* The sample timer follows the configured interval.                       *)
THEOREM TimerFollows == Spec => []TimerFollowsConfig
<1>1. IndInv => TimerFollowsConfig
  BY DEF IndInv
<1> QED
  BY <1>1, LoopInvariant, PTL

(* Sensors and timer follow the same configuration.                        *)
THEOREM LoopFollows == Spec => []LoopFollowsConfig
<1>1. SensorsFollowConfig /\ TimerFollowsConfig => LoopFollowsConfig
  BY DEF LoopFollowsConfig
<1> QED
  BY <1>1, SensorsFollow, TimerFollows, PTL

-----------------------------------------------------------------------------
(***************************************************************************)
(* HttpPost, the call in which the flush of a callback blocks: a POST is   *)
(* reported as successful only if the collector stored its body, for both  *)
(* schemes and every number of send calls and of repetitions.              *)
(***************************************************************************)

(***************************************************************************)
(* The inductive invariant.  OkMeansStored speaks of the result alone; a   *)
(* 2xx under way, and a collector that has stored but not yet answered,    *)
(* belong to the POST of the same number as long as the connection lives,  *)
(* and what is left of an earlier connection is reset by the next one.     *)
(***************************************************************************)
Connection ==
  stage \in {"send", "wait"} =>
    /\ code = "2xx" => tries \in stored
    /\ srv = "stored" => tries \in stored

PostInv ==
  /\ PostTypeOK
  /\ inbox + unsent <= Parts
  /\ stage # "idle" => tries > 0 /\ result # "ok"
  /\ Connection
  /\ OkMeansStored

(* Before the first POST nothing was reported and nothing stored. *)
LEMMA InitPost ==
  ASSUME PostAssumption, PostInit
  PROVE  PostInv
  BY DEF PostAssumption, PostInit, NoConnection, PostInv, PostTypeOK, Connection, OkMeansStored

(* A new attempt starts without a result. *)
LEMMA BeginInv ==
  ASSUME PostAssumption, PostInv, Begin
  PROVE  PostInv'
<1>1. PostTypeOK' /\ inbox' + unsent' <= Parts /\ tries' > 0
  BY DEF PostAssumption, PostInv, PostTypeOK, Begin, connVars
<1> QED
  BY <1>1 DEF PostInv, Begin, connVars, Connection, OkMeansStored

(* Giving up leaves the body to the collector, in case it has all of it. *)
LEMMA FailInv ==
  ASSUME PostAssumption, PostInv, stage # "idle", Fail
  PROVE  PostInv'
<1>1. late' \subseteq 1..MaxTries
  BY DEF PostAssumption, PostInv, PostTypeOK, Fail, Abandoned
<1>2. PostTypeOK' /\ inbox' + unsent' <= Parts
  BY <1>1 DEF PostInv, PostTypeOK, Fail, Return, connVars
<1> QED
  BY <1>2 DEF PostInv, Fail, Return, connVars, Connection, OkMeansStored

(* A fresh connection carries nothing of an earlier one. *)
LEMMA ConnectedInv ==
  ASSUME PostAssumption, PostInv, Connected
  PROVE  PostInv'
<1>1. PostTypeOK' /\ inbox' + unsent' <= Parts
  BY DEF PostAssumption, PostInv, PostTypeOK, Connected
<1> QED
  BY <1>1 DEF PostInv, Connected, Connection, OkMeansStored

(* A piece that is sent is no longer left to be sent. *)
LEMMA SendPartInv ==
  ASSUME PostAssumption, PostInv, SendPart
  PROVE  PostInv'
<1>1. unsent \in 0..Parts /\ inbox \in 0..Parts /\ unsent > 0 /\ Parts \in Nat /\ inbox + unsent <= Parts
  BY DEF PostAssumption, PostInv, PostTypeOK, SendPart
<1>2. unsent' \in 0..Parts /\ inbox' \in 0..Parts /\ inbox' + unsent' <= Parts
  BY <1>1 DEF SendPart
<1>3. PostTypeOK'
  BY <1>2 DEF PostInv, PostTypeOK, SendPart
<1> QED
  BY <1>2, <1>3 DEF PostInv, SendPart, Connection, OkMeansStored

(* Every step of http_post keeps the invariant. *)
LEMMA HttpPostInv ==
  ASSUME PostAssumption, PostInv, HttpPost
  PROVE  PostInv'
<1>1. CASE ConnectFails
  <2>1. PostTypeOK' /\ inbox' + unsent' <= Parts
    BY <1>1 DEF PostInv, PostTypeOK, ConnectFails, Return, connVars
  <2> QED
    BY <1>1, <2>1 DEF PostInv, ConnectFails, Return, connVars, Connection, OkMeansStored
<1>2. CASE Connected
  BY <1>2, ConnectedInv
<1>3. CASE SendPart
  BY <1>3, SendPartInv
<1>4. CASE SendReset \/ Timeout \/ ReadEnd
  BY <1>4, FailInv DEF SendReset, Timeout, ReadEnd
<1>5. CASE SendBrokenPipe
  <2>1. CASE scheme = "https"
    BY <1>5, <2>1, FailInv DEF SendBrokenPipe
  <2>2. CASE scheme # "https"
    <3>1. /\ stage = "send" /\ stage' = "killed"
          /\ UNCHANGED <<scheme, connVars, result, tries, late, stored>>
      BY <1>5, <2>2 DEF SendBrokenPipe
    <3>2. PostTypeOK' /\ inbox' + unsent' <= Parts
      BY <3>1 DEF PostInv, PostTypeOK, connVars
    <3> QED
      BY <3>1, <3>2 DEF PostInv, connVars, Connection, OkMeansStored
  <2> QED
    BY <2>1, <2>2
<1>6. CASE SendDone
  <2>1. PostTypeOK' /\ inbox' + unsent' <= Parts
    BY <1>6 DEF PostInv, PostTypeOK, SendDone, connVars
  <2> QED
    BY <1>6, <2>1 DEF PostInv, SendDone, connVars, Connection, OkMeansStored
<1>7. CASE ReadAnswer
  <2>1. CASE StatusOk
    <3>1. /\ stage = "wait" /\ code = "2xx" /\ stage' = "idle" /\ result' = "ok"
          /\ UNCHANGED <<scheme, connVars, tries, late, stored>>
      BY <1>7, <2>1 DEF ReadAnswer, StatusOk, Return
    <3>2. tries \in stored
      BY <3>1 DEF PostInv, Connection
    <3>3. PostTypeOK' /\ inbox' + unsent' <= Parts
      BY <3>1 DEF PostInv, PostTypeOK, connVars
    <3> QED
      BY <3>1, <3>2, <3>3 DEF PostInv, connVars, Connection, OkMeansStored
  <2>2. CASE ~StatusOk
    BY <1>7, <2>2, FailInv DEF ReadAnswer
  <2> QED
    BY <2>1, <2>2
<1> QED
  BY <1>1, <1>2, <1>3, <1>4, <1>5, <1>6, <1>7 DEF HttpPost

(* Every step of the collector keeps the invariant: it answers 2xx only    *)
(* after storing.                                                          *)
LEMMA CollectorInv ==
  ASSUME PostAssumption, PostInv, Collector
  PROVE  PostInv'
<1>1. CASE CollectorStores
  <2>1. stage # "idle" /\ tries \in 1..MaxTries
    BY <1>1 DEF PostAssumption, PostInv, PostTypeOK, CollectorStores, Busy
  <2>2. PostTypeOK' /\ inbox' + unsent' <= Parts
    BY <1>1, <2>1 DEF PostInv, PostTypeOK, CollectorStores
  <2> QED
    BY <1>1, <2>2 DEF PostInv, CollectorStores, Connection, OkMeansStored
<1>2. CASE CollectorAnswers
  <2>1. PostTypeOK' /\ inbox' + unsent' <= Parts
    BY <1>2 DEF PostInv, PostTypeOK, CollectorAnswers
  <2>2. Connection'
    BY <1>2 DEF PostInv, PostTypeOK, Connection, CollectorAnswers, Busy
  <2> QED
    BY <1>2, <2>1, <2>2 DEF PostInv, CollectorAnswers, OkMeansStored
<1>3. CASE CollectorCloses
  <2>1. PostTypeOK' /\ inbox' + unsent' <= Parts
    BY <1>3 DEF PostInv, PostTypeOK, CollectorCloses
  <2> QED
    BY <1>3, <2>1 DEF PostInv, CollectorCloses, Connection, OkMeansStored
<1>4. CASE StoresLate
  <2>1. PostTypeOK' /\ inbox' + unsent' <= Parts
    BY <1>4 DEF PostInv, PostTypeOK, StoresLate, connVars
  <2>2. stored \subseteq stored'
    BY <1>4 DEF StoresLate
  <2> QED
    BY <1>4, <2>1, <2>2 DEF PostInv, StoresLate, connVars, Connection, OkMeansStored
<1> QED
  BY <1>1, <1>2, <1>3, <1>4 DEF Collector

(* The invariant holds in every reachable state: induction over the steps  *)
(* of http_post and of its peer.                                           *)
THEOREM PostInvariant == PostSpec => []PostInv
<1>1. PostInit => PostInv
  BY PostAssumption, InitPost
<1>2. PostInv /\ [PostNext]_postVars => PostInv'
  <2> SUFFICES ASSUME PostInv, [PostNext]_postVars PROVE PostInv'
    OBVIOUS
  <2>1. CASE Begin
    BY <2>1, PostAssumption, BeginInv
  <2>2. CASE HttpPost
    BY <2>2, PostAssumption, HttpPostInv
  <2>3. CASE Collector
    BY <2>3, PostAssumption, CollectorInv
  <2>4. CASE UNCHANGED postVars
    BY <2>4 DEF PostInv, PostTypeOK, Connection, OkMeansStored, postVars, connVars
  <2> QED
    BY <2>1, <2>2, <2>3, <2>4 DEF PostNext
<1> QED
  BY <1>1, <1>2, PTL DEF PostSpec

(* cpe_agent_http_post returns 0 only for a body the collector stored, so  *)
(* emit_flush advances the ring past stored lines only.                    *)
THEOREM OkMeansStoredHolds == PostSpec => []OkMeansStored
<1>1. PostInv => OkMeansStored
  BY DEF PostInv
<1> QED
  BY <1>1, PostInvariant, PTL
=============================================================================
