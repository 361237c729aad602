------------------------- MODULE CommandChain_proofs -------------------------
(***************************************************************************)
(* Theorems about the two ends of the command chain: CommandStream, which  *)
(* carries the planner's trajectories to the drone, for all time-outs and  *)
(* durations, and TaskStage, which decides for a planner that tracks or    *)
(* perches what it is to fly, for any terminals and any way to launch it.  *)
(***************************************************************************)
EXTENDS CommandStream, TaskStage, TLAPS

-----------------------------------------------------------------------------
(* CommandStream.                                                          *)

LEMMA Limits ==
  /\ HeartbeatTimeout \in Nat /\ HeartbeatTimeout > 0
  /\ SilenceTimeout \in Nat /\ SilenceTimeout > 0
  /\ CmdTimeout \in Nat /\ CmdTimeout > 0
BY StreamAssumption

LEMMA Durable ==
  /\ MaxDuration \in Nat
  /\ \A d \in Durations : d \in 1 .. MaxDuration
<1>1. \E d \in Durations : \A e \in Durations : e <= d
  BY StreamAssumption
<1>2. MaxDuration \in Durations /\ \A e \in Durations : e <= MaxDuration
  BY <1>1, Zenon DEF MaxDuration
<1>3. Durations \subseteq Nat \ {0}
  BY StreamAssumption
<1> QED
  BY <1>2, <1>3

LEMMA PosesDiffer == Origin # NoPose /\ NoPose \notin Poses
BY StreamAssumption

LEMMA TypeInit == Init => TypeOK
<1> SUFFICES ASSUME Init PROVE TypeOK
  OBVIOUS
<1>1. traj \in [pose : Poses \cup {NoPose}, left : 0 .. MaxDuration] /\ traj.left = 0
  BY Durable DEF Init, None
<1>2. cmd \in [by : {"nobody", "traj", "hover", "joystick"}, pose : Poses \cup {Origin,
    NoPose}]
  BY DEF Init
<1>3. gone_for \in 0 .. MaxGone + 1 /\ dead_for \in 0 .. MaxDead + 1
  BY Limits, Durable DEF Init, MaxGone, MaxDead
<1>4. cmd.pose = NoPose /\ cmd.by = "nobody"
  BY DEF Init
<1>5. heartbeat_age \in Never .. HeartbeatTimeout + 1 /\ recv_cmd_age \in Never ..
    SilenceTimeout + 1
  BY Limits DEF Init, Never
<1>6. /\ stopped \in BOOLEAN /\ pulled \in BOOLEAN /\ (pulled => stopped)
      /\ stop_msg \in BOOLEAN /\ receive_traj \in BOOLEAN
      /\ station \in BOOLEAN /\ heard \in BOOLEAN /\ stoped \in BOOLEAN
      /\ stop_cmds \in BOOLEAN /\ rival \in BOOLEAN
  BY DEF Init
<1>7. heard => cmd.by # "nobody"
  BY DEF Init
<1> QED
  BY <1>1, <1>2, <1>3, <1>4, <1>5, <1>6, <1>7, Limits DEF Init, TypeOK, Jobs

LEMMA TypeStep == TypeOK /\ [Next]_vars => TypeOK'
<1> SUFFICES ASSUME TypeOK, [Next]_vars PROVE TypeOK'
  OBVIOUS
<1> USE Limits, Durable, PosesDiffer
    DEF TypeOK, None, Never, Trajs, Jobs, MaxGone, MaxDead, plannerVars, serverVars, cmdVars, joyVars, history
<1>1. CASE PublishTraj
  BY <1>1 DEF PublishTraj
<1>2. CASE SwarmCheck
  BY <1>2 DEF SwarmCheck
<1>2a. CASE StopsAgain
  <2>1. mail' = None \/ mail' \in Trajs
    BY <1>2a DEF StopsAgain, CallEmergencyStop
  <2>2. stopped' \in BOOLEAN /\ pulled' \in BOOLEAN /\ (pulled' => stopped')
    BY <1>2a DEF StopsAgain
  <2> QED
    BY <1>2a, <2>1, <2>2 DEF StopsAgain
<1>3. CASE MandatoryStop
  <2>1. mail' = None \/ mail' \in Trajs
    BY <1>3 DEF MandatoryStop, CallEmergencyStop
  <2>2. /\ stopped' \in BOOLEAN /\ pulled' \in BOOLEAN /\ (pulled' => stopped')
        /\ stop_msg' \in BOOLEAN
    BY <1>3 DEF MandatoryStop, Stops
  <2> QED
    BY <1>3, <2>1, <2>2 DEF MandatoryStop, Stops
<1>4. CASE Hang
  BY <1>4 DEF Hang
<1>5. CASE Recover
  BY <1>5 DEF Recover
<1>6. CASE Die
  <2>1. mail' = None \/ mail' \in Trajs
    BY <1>6 DEF Die
  <2>2. stopped' \in BOOLEAN /\ stop_msg' \in BOOLEAN
    BY <1>6 DEF Die
  <2> QED
    BY <1>6, <2>1, <2>2 DEF Die
<1>7. CASE Heartbeat
  BY <1>7 DEF Heartbeat, Beats
<1>8. CASE TrajCallback
  BY <1>8 DEF TrajCallback
<1>9. CASE CmdCallback
  <2>1. /\ cmd' \in [by : {"nobody", "traj", "hover", "joystick"}, pose : Poses \cup {Origin, NoPose}]
        /\ cmd'.pose = NoPose <=> cmd'.by = "nobody"
        /\ heard' => cmd'.by # "nobody"
        /\ last_pos' \in Poses \cup {Origin}
    BY <1>9 DEF CmdCallback, Lost, Samples
  <2>2. receive_traj' \in BOOLEAN /\ heard' \in BOOLEAN /\ rival' \in BOOLEAN
    BY <1>9 DEF CmdCallback, KeepsTraj
  <2>3. cmd_age' \in 0 .. CmdTimeout + 1 /\ due' \subseteq Jobs
    BY <1>9 DEF CmdCallback
  <2> QED
    BY <1>9, <2>1, <2>2, <2>3 DEF CmdCallback
<1>10. ASSUME NEW pressed \in BOOLEAN, Joystick(pressed) PROVE TypeOK'
  BY <1>10 DEF Joystick, Forwards
<1>11. CASE TakeOverLoop
  <2>1. /\ cmd' \in [by : {"nobody", "traj", "hover", "joystick"}, pose : Poses \cup {Origin, NoPose}]
        /\ cmd'.pose = NoPose <=> cmd'.by = "nobody"
        /\ last_cmd' \in Poses \cup {Origin, NoPose}
    <3>1. CASE Drives
      <4>1. last_cmd' \in Poses \cup {Origin}
        BY <1>11, <3>1 DEF TakeOverLoop, StartPos
      <4> QED
        BY <1>11, <3>1, <4>1 DEF TakeOverLoop
    <3>2. CASE ~Drives
      BY <1>11, <3>2 DEF TakeOverLoop
    <3> QED
      BY <3>1, <3>2
  <2>2. cmd_age' \in 0 .. CmdTimeout + 1 /\ overlap' \in Nat
    BY <1>11 DEF TakeOverLoop
  <2>3. stoped' \in BOOLEAN /\ stop_msg' \in BOOLEAN /\ stop_cmds' \in BOOLEAN
    BY <1>11 DEF TakeOverLoop, StopCmds
  <2>4. recv_cmd_age' \in Never .. SilenceTimeout + 1 /\ cur_pos' \in Poses \cup {Origin}
    BY <1>11 DEF TakeOverLoop
  <2>5. due' \subseteq Jobs
    BY <1>11 DEF TakeOverLoop
  <2> QED
    BY <1>11, <2>1, <2>2, <2>3, <2>4, <2>5 DEF TakeOverLoop
<1>12. CASE Tick
  BY <1>12 DEF Tick, Older
<1>13. CASE UNCHANGED vars
  BY <1>13 DEF vars
<1>14. QED
  BY <1>1, <1>2, <1>2a, <1>3, <1>4, <1>5, <1>6, <1>7, <1>8, <1>9, <1>10, <1>11, <1>12, <1>13 DEF Next,
      Planner, Server, TakeOver

-----------------------------------------------------------------------------
\* Who takes over continues from the command the others see: up to a rival's command
\* the joystick's pose is the last one commanded, and before the take-over
\* manual_take_over has read the last command.
PosesAgree ==
  /\ last_cmd # NoPose /\ ~rival => cmd.pose = last_cmd
  /\ last_cmd = NoPose /\ ~heard /\ recv_cmd_age # Never => cur_pos = cmd.pose
  /\ stop_cmds => recv_cmd_age # Never

\* After a turn in which both commanded the joystick is shut out.
OverlapEnds == overlap \in {0, 1} /\ (overlap = 1 => ~stop_cmds)

\* A planner that does not run sends nothing after the tick in which it stopped, and
\* its trajectory, and traj_server's commands with it, come to an end.
TrajEnds ==
  /\ planner = "runs" => gone_for = 0
  /\ gone_for > 0 => mail = None
  /\ planner # "runs" => traj.left = 0 \/ traj.left + gone_for <= MaxDuration
  /\ cmd.by = "traj" => cmd_age > CmdTimeout \/ gone_for <= cmd_age + MaxDuration

\* The heartbeat of a dead planner grows as old as the planner is dead; the first turn
\* of the timer that finds it too old gives up the trajectory.
WatchdogFires ==
  /\ planner # "dead" => dead_for = 0
  /\ dead_for > 0 => mail = None
  /\ heartbeat_age = Never => cmd.by \notin {"traj", "hover"}
  /\ heartbeat_age # Never => Lost \/ dead_for <= heartbeat_age
  /\ dead_for > HeartbeatTimeout + 1 \/ (dead_for = HeartbeatTimeout + 1 /\ "timer" \notin due)
       => heartbeat_age = Never \/ ~receive_traj
  /\ cmd.by \in {"traj", "hover"} =>
       cmd_age > CmdTimeout \/ dead_for <= cmd_age + HeartbeatTimeout + 1

IInv == TypeOK /\ PosesAgree /\ OverlapEnds /\ TrajEnds /\ WatchdogFires

LEMMA InvInit == Init => IInv
<1> SUFFICES ASSUME Init PROVE IInv
  OBVIOUS
<1>1. PosesAgree /\ OverlapEnds
  BY DEF Init, PosesAgree, OverlapEnds, Never
<1>2. TrajEnds /\ WatchdogFires
  BY Limits DEF Init, TrajEnds, WatchdogFires, Never
<1> QED
  BY <1>1, <1>2, TypeInit DEF IInv

LEMMA PosesStep == TypeOK /\ PosesAgree /\ [Next]_vars => PosesAgree'
<1> SUFFICES ASSUME TypeOK, PosesAgree, [Next]_vars PROVE PosesAgree'
  OBVIOUS
<1> USE PosesDiffer, Limits DEF TypeOK, PosesAgree, Never, plannerVars, serverVars, cmdVars,
    joyVars, history
<1>1. CASE CmdCallback
  BY <1>1 DEF CmdCallback, KeepsTraj, Lost, Samples
<1>2. CASE TakeOverLoop
  BY <1>2 DEF TakeOverLoop, Drives, StartPos, StopCmds
<1>3. CASE Tick
  BY <1>3 DEF Tick, Older
<1>4. CASE PublishTraj \/ SwarmCheck \/ StopsAgain \/ MandatoryStop \/ Hang \/ Recover \/ Die \/ Heartbeat \/
           TrajCallback \/ \E pressed \in BOOLEAN : Joystick(pressed) \/ UNCHANGED vars
  BY <1>4 DEF PublishTraj, SwarmCheck, StopsAgain, CallEmergencyStop,
      MandatoryStop, Hang, Recover, Die, Heartbeat,
      TrajCallback, Joystick, vars
<1>5. QED
  BY <1>1, <1>2, <1>3, <1>4 DEF Next, Planner, Server, TakeOver

LEMMA OverlapStep == TypeOK /\ OverlapEnds /\ [Next]_vars => OverlapEnds'
<1> SUFFICES ASSUME TypeOK, OverlapEnds, [Next]_vars PROVE OverlapEnds'
  OBVIOUS
<1> USE Limits DEF TypeOK, OverlapEnds, Never, plannerVars, serverVars, cmdVars, joyVars,
    history
<1>1. CASE TakeOverLoop
  <2>1. CASE Drives /\ heard
    <3>1. overlap' = 1
      BY <1>1, <2>1 DEF TakeOverLoop, Drives
    <3>2. recv_cmd_age' = 0
      BY <1>1, <2>1 DEF TakeOverLoop
    <3>3. ~(recv_cmd_age' > SilenceTimeout)
      BY <3>2
    <3>4. ~stop_cmds'
      BY <1>1, <3>3, Zenon DEF TakeOverLoop, StopCmds
    <3> QED
      BY <3>1, <3>4
  <2>2. CASE ~(Drives /\ heard)
    BY <1>1, <2>2 DEF TakeOverLoop
  <2> QED
    BY <2>1, <2>2
<1>2. CASE Tick
  BY <1>2 DEF Tick, Older
<1>3. CASE PublishTraj \/ SwarmCheck \/ StopsAgain \/ MandatoryStop \/ Hang \/ Recover \/ Die \/ Heartbeat \/
           TrajCallback \/ CmdCallback \/ \E pressed \in BOOLEAN : Joystick(pressed) \/
           UNCHANGED vars
  BY <1>3 DEF PublishTraj, SwarmCheck, StopsAgain, CallEmergencyStop,
      MandatoryStop, Hang, Recover, Die, Heartbeat,
      TrajCallback, CmdCallback, Joystick, vars
<1>4. QED
  BY <1>1, <1>2, <1>3 DEF Next, Planner, Server, TakeOver

LEMMA TrajStep == TypeOK /\ TrajEnds /\ [Next]_vars => TrajEnds'
<1> SUFFICES ASSUME TypeOK, TrajEnds, [Next]_vars PROVE TrajEnds'
  OBVIOUS
<1> USE Limits, Durable DEF TypeOK, TrajEnds, Never, Trajs, None, MaxGone, plannerVars,
    serverVars, cmdVars, joyVars, history
<1>1. CASE Hang
  BY <1>1 DEF Hang
<1>2. CASE Recover
  BY <1>2 DEF Recover
<1>3. CASE Die
  BY <1>3 DEF Die
<1>4. CASE TrajCallback
  BY <1>4 DEF TrajCallback
<1>5. CASE CmdCallback
  BY <1>5 DEF CmdCallback, KeepsTraj, Lost, Samples
<1>6. CASE TakeOverLoop
  BY <1>6 DEF TakeOverLoop, Drives, StartPos, StopCmds
<1>7. CASE Tick
  BY <1>7 DEF Tick, Older
<1>8. CASE PublishTraj \/ SwarmCheck \/ StopsAgain \/ MandatoryStop \/ Heartbeat \/ \E pressed \in BOOLEAN :
           Joystick(pressed) \/ UNCHANGED vars
  BY <1>8 DEF PublishTraj, SwarmCheck, StopsAgain, CallEmergencyStop,
      MandatoryStop, Heartbeat, Joystick, vars
<1>9. QED
  BY <1>1, <1>2, <1>3, <1>4, <1>5, <1>6, <1>7, <1>8 DEF Next, Planner, Server, TakeOver

LEMMA WatchdogStep == TypeOK /\ WatchdogFires /\ [Next]_vars => WatchdogFires'
<1> SUFFICES ASSUME TypeOK, WatchdogFires, [Next]_vars PROVE WatchdogFires'
  OBVIOUS
<1> USE Limits DEF TypeOK, WatchdogFires, Never, Lost, MaxDead, Jobs, plannerVars, serverVars,
    cmdVars, joyVars, history
<1>1. CASE Die
  BY <1>1 DEF Die
<1>2. CASE Heartbeat
  BY <1>2 DEF Heartbeat, Beats
<1>3. CASE TrajCallback
  BY <1>3 DEF TrajCallback
<1>4. CASE CmdCallback
  <2>1. /\ planner' = planner /\ mail' = mail /\ dead_for' = dead_for
        /\ heartbeat_age' = heartbeat_age
        /\ due' = due \ {"timer"}
    BY <1>4 DEF CmdCallback
  <2>2. CASE heartbeat_age = Never \/ ~receive_traj \/ (~Lost /\ ~Samples)
    <3>1. receive_traj' = receive_traj /\ cmd' = cmd /\ cmd_age' = cmd_age
      BY <1>4, <2>2 DEF CmdCallback
    <3> QED
      BY <2>1, <2>2, <3>1
  <2>3. CASE heartbeat_age # Never /\ receive_traj /\ (Lost \/ Samples)
    <3>1. cmd_age' = 0
      BY <1>4, <2>3 DEF CmdCallback
    <3>2. receive_traj' = ~Lost
      BY <1>4, <2>3, Zenon DEF CmdCallback, KeepsTraj, Lost
    <3>3. dead_for <= HeartbeatTimeout + 1
      BY <2>3
    <3>4. Lost => ~receive_traj'
      BY <3>2, Zenon
    <3>5. dead_for = HeartbeatTimeout + 1 => Lost
      BY <2>3
    <3> QED
      BY <2>1, <2>3, <3>1, <3>3, <3>4, <3>5
  <2> QED
    BY <2>2, <2>3
<1>5. CASE TakeOverLoop
  BY <1>5 DEF TakeOverLoop, Drives, StartPos, StopCmds
<1>6. CASE Tick
  BY <1>6 DEF Tick, Older
<1>7. CASE PublishTraj \/ SwarmCheck \/ StopsAgain \/ MandatoryStop \/ Hang \/ Recover \/ \E pressed \in
           BOOLEAN : Joystick(pressed) \/ UNCHANGED vars
  BY <1>7 DEF PublishTraj, SwarmCheck, StopsAgain, CallEmergencyStop,
      MandatoryStop, Hang, Recover, Joystick, vars
<1>8. QED
  BY <1>1, <1>2, <1>3, <1>4, <1>5, <1>6, <1>7 DEF Next, Planner, Server, TakeOver

LEMMA InvStep == IInv /\ [Next]_vars => IInv'
BY TypeStep, PosesStep, OverlapStep, TrajStep, WatchdogStep DEF IInv

LEMMA Invariance == Spec => []IInv
BY InvInit, InvStep, PTL DEF Spec

\* Every variable of the three programs keeps its type, no pose commanded is
\* undefined, and what is queued for manual_take_over was published.
THEOREM TypeCorrect == Spec => []TypeOK
BY Invariance, PTL DEF IInv

\* traj_server and the joystick both command for one turn of the take-over loop at most.
THEOREM OneAtATime == Spec => []OneSource
<1>1. IInv => OneSource
  BY DEF IInv, OverlapEnds, OneSource
<1> QED
  BY <1>1, Invariance, PTL

\* px4_controller is not led by a planner that is dead longer than the time-outs, nor
\* along a trajectory by one that hangs longer than the trajectory lasts.
THEOREM NoGhostFlight == Spec => []NoFlightWithoutPlanner
<1>1. IInv => NoFlightWithoutPlanner
  BY Limits, Durable
     DEF IInv, TypeOK, TrajEnds, WatchdogFires, NoFlightWithoutPlanner, Follows, MaxDead, MaxGone
<1> QED
  BY <1>1, Invariance, PTL

\* The joystick takes over at the pose commanded last.
THEOREM JoystickTakesOverInPlace == Spec => JoystickContinues
<1>1. IInv /\ [Next]_vars =>
        [TakeOverLoop /\ Drives /\ ~heard /\ ~rival => cmd'.pose = cmd.pose]_vars
  <2> SUFFICES ASSUME IInv, TakeOverLoop, Drives, ~heard, ~rival
               PROVE  cmd'.pose = cmd.pose
    OBVIOUS
  <2>1. CASE last_cmd = NoPose
    <3>1. last_cmd' = cur_pos
      BY <2>1 DEF TakeOverLoop, StartPos
    <3>2. cur_pos = cmd.pose
      BY <2>1 DEF IInv, PosesAgree, Drives
    <3> QED
      BY <3>1, <3>2 DEF TakeOverLoop
  <2>2. CASE last_cmd # NoPose
    <3>1. last_cmd' = last_cmd /\ cmd.pose = last_cmd
      BY <2>2 DEF TakeOverLoop, IInv, PosesAgree
    <3> QED
      BY <3>1 DEF TakeOverLoop
  <2> QED
    BY <2>1, <2>2
<1> QED
  BY <1>1, Invariance, PTL DEF Spec, JoystickContinues

-----------------------------------------------------------------------------
(* TaskStage.  Each property holds of a step because of the others before  *)
(* it, so that their conjunction is the inductive invariant.               *)

TaskInv == TaskTypeOK /\ CommitFliesFrozen /\ FliesForItsStage /\ HeldWhileLocked

USE DEF holdVars, stopVars, inputVars, ResetPlannedTaskTargets

\* The trajectory leads to the frozen terminal or, when that is late, past it.
Led == flown' = frozen' \/ (late' /\ flown' \in Later[frozen'])

\* What an attempt aims at belongs to the stage it is made in.
LEMMA TargetsFit ==
  ASSUME TaskTypeOK, NEW t \in PlanTargets
  PROVE  /\ t \in Terminals \cup {Track}
         /\ IF stage = "TRACKING_FOLLOW" THEN t = Track ELSE t \in Terminals
         /\ stage = "PERCHING_COMMIT" /\ frozen # Nothing =>
              t = frozen \/ (late /\ t \in Later[frozen])
BY ValuesDistinct, LaterOK DEF TaskTypeOK, PlanTargets, Aged

\* A success leads to the terminal of the stage and, in the commit, to the frozen one
\* or past it, or freezes it.
LEMMA SuccessFits ==
  ASSUME TaskTypeOK, FliesForItsStage, PlanSucceeds
  PROVE  /\ flown' \in Terminals \cup {Track}
         /\ IF stage = "TRACKING_FOLLOW" THEN flown' = Track ELSE flown' \in Terminals
         /\ stage = "PERCHING_COMMIT" => frozen' # Nothing /\ Led
         /\ stage # "PERCHING_COMMIT" => frozen' = frozen
         /\ frozen' \in Terminals \cup {Nothing}
         /\ late' \in BOOLEAN /\ (late' => frozen' # Nothing)
         /\ latched' \in BOOLEAN /\ triggered' \in BOOLEAN /\ touches' \in BOOLEAN
<1>1. PICK t \in PlanTargets :
        /\ flown' = t
        /\ IF stage = "TRACKING_FOLLOW"
             THEN touches' \in BOOLEAN /\ UNCHANGED <<frozen, latched, late, triggered>>
             ELSE /\ frozen' = FreezeFallback(t) /\ late' = (late /\ frozen # Nothing)
                  /\ latched' = FALSE /\ triggered' = FALSE /\ touches' = FALSE
  BY DEF PlanSucceeds
<1>2. /\ t \in Terminals \cup {Track}
      /\ IF stage = "TRACKING_FOLLOW" THEN t = Track ELSE t \in Terminals
      /\ stage = "PERCHING_COMMIT" /\ frozen # Nothing =>
           t = frozen \/ (late /\ t \in Later[frozen])
  BY TargetsFit
<1>3. CASE stage = "TRACKING_FOLLOW"
  BY <1>1, <1>2, <1>3 DEF TaskTypeOK
<1>4. CASE stage = "PERCHING_COMMIT" /\ frozen = Nothing
  BY <1>1, <1>2, <1>4, ValuesDistinct DEF TaskTypeOK, FreezeFallback, Led
<1>5. CASE stage = "PERCHING_COMMIT" /\ frozen # Nothing
  BY <1>1, <1>2, <1>5, ValuesDistinct DEF TaskTypeOK, FreezeFallback, Led
<1>6. CASE stage \notin {"TRACKING_FOLLOW", "PERCHING_COMMIT"}
  BY <1>1, <1>2, <1>6, ValuesDistinct DEF TaskTypeOK, FreezeFallback
<1> QED
  BY <1>3, <1>4, <1>5, <1>6

LEMMA FailureFits ==
  ASSUME TaskTypeOK, TargetsMove
  PROVE  touches' \in BOOLEAN
BY DEF TaskTypeOK, TargetsMove

\* A transition that latches nothing keeps or forgets the terminal.
LEMMA ChangeFits ==
  ASSUME TaskTypeOK, NEW s \in States, NEW latch \in BOOLEAN, ChangeFSMExecState(s, latch)
  PROVE  /\ exec_state' = s
         /\ frozen' \in {frozen, Nothing} /\ latched' \in BOOLEAN
         /\ late' \in BOOLEAN /\ (late' => frozen' # Nothing)
         /\ s \notin {"WAIT_TARGET", "EMERGENCY_STOP"} => frozen' = frozen
BY DEF TaskTypeOK, ChangeFSMExecState

-----------------------------------------------------------------------------
LEMMA TaskInitInv == TaskInit => TaskInv
BY LaunchesOK, ValuesDistinct
DEF TaskInit, TaskInv, TaskTypeOK, CommitFliesFrozen, FliesForItsStage,
   HeldWhileLocked, States, Stages,
    Standalone, Integrated

LEMMA TaskTypeStep ==
  ASSUME TaskTypeOK, FliesForItsStage, [TaskNext]_taskVars
  PROVE  TaskTypeOK'
<1> USE ValuesDistinct DEF TaskTypeOK, States, Stages, Integrated
<1>1. CASE ExecInit
  BY <1>1, ChangeFits DEF ExecInit
<1>2. CASE ExecWaitTracking
  <2>1. CASE stage = "PERCHING_CONTACT"
    BY <1>2, <2>1 DEF ExecWaitTracking
  <2>2. CASE stage # "PERCHING_CONTACT"
    BY <1>2, <2>2 DEF ExecWaitTracking
  <2> QED BY <2>1, <2>2
<1>3. CASE ExecWaitPerching
  BY <1>3 DEF ExecWaitPerching
<1>4. CASE ExecPlan
  <2>1. CASE PlanSucceeds
    BY <1>4, <2>1, SuccessFits DEF ExecPlan
  <2>2. CASE PlanFails /\ UNCHANGED <<exec_state, flag_escape>>
    <3>1. touches' \in BOOLEAN
      BY <2>2, FailureFits DEF PlanFails
    <3> QED BY <1>4, <2>2, <3>1 DEF ExecPlan, PlanFails
  <2> QED BY <1>4, <2>1, <2>2 DEF ExecPlan
<1>5. CASE ExecTrack
  BY <1>5, ChangeFits DEF ExecTrack
<1>6. CASE ExecEnterApproach
  BY <1>6 DEF ExecEnterApproach, GateOpens, EntryState
<1>7. CASE ExecArrived
  BY <1>7, ChangeFits DEF ExecArrived
<1>8. CASE ExecEnterCommit
  BY <1>8 DEF ExecEnterCommit
<1>9. CASE ExecContact
  <2>1. /\ exec_state' = "WAIT_TARGET" /\ frozen' \in {frozen, Nothing} /\ latched' \in BOOLEAN
        /\ late' \in BOOLEAN /\ (late' => frozen' # Nothing)
    BY <1>9, ChangeFits DEF ExecContact
  <2>2. launch.perching
    BY <1>9 DEF ExecContact
  <2> QED BY <1>9, <2>1, <2>2 DEF ExecContact
<1>10. CASE ExecReplanPerching
  BY <1>10 DEF ExecReplanPerching
<1>11. CASE ExecCallEmergencyStop
  BY <1>11 DEF ExecCallEmergencyStop
<1>12. CASE ExecEscapeEmergency
  BY <1>12 DEF ExecEscapeEmergency
<1>13. CASE SafetyDepthLost
  BY <1>13, ChangeFits DEF SafetyDepthLost
<1>14. CASE SafetyUnsafeSample
  <2>1. CASE PlanSucceeds /\ UNCHANGED exec_state
    BY <1>14, <2>1, SuccessFits DEF SafetyUnsafeSample
  <2>2. CASE PlanFails /\ exec_state' = "REPLAN_TRAJ"
    BY <1>14, <2>2, FailureFits DEF SafetyUnsafeSample, PlanFails
  <2>3. CASE /\ TargetsMove /\ UNCHANGED <<flown, triggered>>
             /\ ChangeFSMExecState("EMERGENCY_STOP", latched)
    BY <1>14, <2>3, FailureFits, ChangeFits DEF SafetyUnsafeSample
  <2> QED BY <1>14, <2>1, <2>2, <2>3 DEF SafetyUnsafeSample
<1>15. CASE PerchingTargetOdomCallback
  BY <1>15 DEF PerchingTargetOdomCallback
<1>16. CASE TrackingReferenceCallback
  BY <1>16 DEF TrackingReferenceCallback
<1>17. CASE PerchingTriggerCallback
  <2>1. UNCHANGED <<launch, exec_state, stage, frozen, late, flown>>
    BY <1>17 DEF PerchingTriggerCallback
  <2>2. /\ lock' = FALSE /\ latched' = FALSE /\ triggered' = TRUE
        /\ UNCHANGED <<touches, have_ref, have_plate, flag_escape, fail_safe, left>>
    BY <1>17 DEF PerchingTriggerCallback
  <2>3. /\ lock' \in BOOLEAN /\ latched' \in BOOLEAN /\ triggered' \in BOOLEAN
        /\ touches' \in BOOLEAN /\ have_ref' \in BOOLEAN /\ have_plate' \in BOOLEAN
        /\ flag_escape' \in BOOLEAN /\ fail_safe' \in BOOLEAN /\ left' \in BOOLEAN
    BY <2>2
  <2> QED BY <2>1, <2>3
<1>18. CASE MandatoryStopCallback
  BY <1>18, ChangeFits DEF MandatoryStopCallback
<1>19. CASE RecvBroadcastPolyTraj
  BY <1>19 DEF RecvBroadcastPolyTraj
<1>19a. CASE PredictionPasses
  BY <1>19a DEF PredictionPasses
<1>20. CASE UNCHANGED taskVars
  BY <1>20 DEF taskVars
<1> QED
  BY <1>1, <1>2, <1>3, <1>4, <1>5, <1>6, <1>7, <1>8, <1>9, <1>10, <1>11, <1>12, <1>13,
     <1>14, <1>15, <1>16, <1>17, <1>18, <1>19, <1>19a, <1>20
  DEF TaskNext, ExecTimer, SafetyTimer, Callbacks

-----------------------------------------------------------------------------
\* Only a success enters EXEC_TRAJ, and while it lasts nothing but a success changes
\* the trajectory or the terminal.
LEMMA EnterExec ==
  ASSUME TaskTypeOK, [TaskNext]_taskVars, exec_state' = "EXEC_TRAJ"
  PROVE  /\ UNCHANGED stage
         /\ PlanSucceeds
            \/ (exec_state = "EXEC_TRAJ" /\ UNCHANGED <<flown, frozen>> /\ (late => late'))
<1>1. ASSUME NEW s \in States, NEW latch, ChangeFSMExecState(s, latch), s # "EXEC_TRAJ"
      PROVE FALSE
  BY <1>1 DEF ChangeFSMExecState
<1>2. ~ExecInit /\ ~ExecTrack /\ ~ExecArrived
  BY <1>1 DEF ExecInit, ExecTrack, ExecArrived, States
<1>3. ~ExecContact /\ ~SafetyDepthLost /\ ~MandatoryStopCallback
  BY <1>1 DEF ExecContact, SafetyDepthLost, MandatoryStopCallback, States
<1>4. ~ExecWaitTracking /\ ~ExecWaitPerching /\ ~ExecEnterApproach /\ ~ExecEnterCommit
  BY DEF ExecWaitTracking, ExecWaitPerching, ExecEnterApproach, ExecEnterCommit,
     EntryState
<1>5. /\ ~ExecReplanPerching /\ ~ExecCallEmergencyStop /\ ~ExecEscapeEmergency
      /\ ~RecvBroadcastPolyTraj
  BY DEF ExecReplanPerching, ExecCallEmergencyStop, ExecEscapeEmergency, RecvBroadcastPolyTraj
<1>6. CASE ExecPlan
  BY <1>6 DEF ExecPlan
<1>7. CASE SafetyUnsafeSample
  <2>1. ~ChangeFSMExecState("EMERGENCY_STOP", latched)
    BY <1>1 DEF States
  <2> QED BY <1>7, <2>1 DEF SafetyUnsafeSample
<1>8. CASE PerchingTargetOdomCallback \/ TrackingReferenceCallback
        \/ PerchingTriggerCallback \/ PredictionPasses
  BY <1>8 DEF PerchingTargetOdomCallback, TrackingReferenceCallback, PerchingTriggerCallback,
     PredictionPasses
<1>9. CASE UNCHANGED taskVars
  BY <1>9 DEF taskVars
<1> QED
  BY <1>2, <1>3, <1>4, <1>5, <1>6, <1>7, <1>8, <1>9 DEF TaskNext, ExecTimer, SafetyTimer,
     Callbacks

LEMMA CommitStep ==
  ASSUME TaskTypeOK, CommitFliesFrozen, FliesForItsStage, [TaskNext]_taskVars
  PROVE  CommitFliesFrozen'
<1> SUFFICES ASSUME exec_state' = "EXEC_TRAJ", stage' = "PERCHING_COMMIT"
             PROVE  frozen' # Nothing /\ Led
  BY DEF CommitFliesFrozen, Led
<1>1. stage = "PERCHING_COMMIT"
  BY EnterExec
<1>2. CASE PlanSucceeds
  BY <1>1, <1>2, SuccessFits
<1>3. CASE exec_state = "EXEC_TRAJ" /\ UNCHANGED <<flown, frozen>> /\ (late => late')
  BY <1>1, <1>3 DEF CommitFliesFrozen, Led
<1> QED
  BY <1>2, <1>3, EnterExec

\* The terminal is kept, forgotten, or frozen in the commit; a stage that may keep
\* one is left for the follow stage only when the terminal is forgotten.
LEMMA TerminalStep ==
  ASSUME TaskTypeOK, FliesForItsStage, [TaskNext]_taskVars
  PROVE  frozen' # Nothing => stage' \in {"PERCHING_COMMIT", "PERCHING_CONTACT"}
<1> DEFINE Goal == frozen' # Nothing => stage' \in {"PERCHING_COMMIT", "PERCHING_CONTACT"}
<1>0. ASSUME frozen' \in {frozen, Nothing}, stage' = stage PROVE Goal
  BY <1>0 DEF FliesForItsStage
<1>1. CASE ExecInit \/ ExecTrack \/ ExecArrived \/ SafetyDepthLost
        \/ MandatoryStopCallback
  BY <1>0, <1>1, ChangeFits DEF ExecInit, ExecTrack, ExecArrived, SafetyDepthLost,
     MandatoryStopCallback, States, TaskTypeOK
<1>2. CASE ExecWaitTracking \/ ExecWaitPerching \/ ExecReplanPerching
        \/ ExecCallEmergencyStop
           \/ ExecEscapeEmergency \/ RecvBroadcastPolyTraj \/ ExecEnterApproach
  BY <1>0, <1>2 DEF ExecWaitTracking, ExecWaitPerching, ExecReplanPerching,
     ExecCallEmergencyStop, ExecEscapeEmergency, RecvBroadcastPolyTraj, ExecEnterApproach
<1>3. CASE ExecEnterCommit \/ ExecContact
  BY <1>3 DEF ExecEnterCommit, ExecContact
<1>4. CASE PlanSucceeds /\ UNCHANGED stage
  <2>1. CASE stage = "PERCHING_COMMIT"
    BY <1>4, <2>1
  <2>2. CASE stage # "PERCHING_COMMIT"
    BY <1>0, <1>4, <2>2, SuccessFits
  <2> QED BY <2>1, <2>2
<1>5. CASE ExecPlan
  BY <1>0, <1>4, <1>5 DEF ExecPlan, PlanFails
<1>6. CASE SafetyUnsafeSample
  BY <1>0, <1>4, <1>6, ChangeFits DEF SafetyUnsafeSample, PlanFails, States, TaskTypeOK
<1>7. CASE PerchingTargetOdomCallback \/ TrackingReferenceCallback
        \/ PerchingTriggerCallback \/ PredictionPasses
  BY <1>0, <1>7 DEF PerchingTargetOdomCallback, TrackingReferenceCallback,
     PerchingTriggerCallback, PredictionPasses
<1>8. CASE UNCHANGED taskVars
  BY <1>0, <1>8 DEF taskVars
<1> QED
  BY <1>1, <1>2, <1>3, <1>5, <1>6, <1>7, <1>8 DEF TaskNext, ExecTimer, SafetyTimer, Callbacks

LEMMA FlightStep ==
  ASSUME TaskTypeOK, FliesForItsStage, [TaskNext]_taskVars
  PROVE  FliesForItsStage'
<1>1. ASSUME exec_state' = "EXEC_TRAJ"
      PROVE  IF stage' = "TRACKING_FOLLOW" THEN flown' = Track ELSE flown' \in Terminals
  <2>1. CASE PlanSucceeds
    BY <1>1, <2>1, SuccessFits, EnterExec
  <2>2. CASE exec_state = "EXEC_TRAJ" /\ UNCHANGED <<flown, frozen>>
    BY <1>1, <2>2, EnterExec DEF FliesForItsStage
  <2> QED BY <1>1, <2>1, <2>2, EnterExec
<1> QED
  BY <1>1, TerminalStep DEF FliesForItsStage

-----------------------------------------------------------------------------
\* A hold is left on a trigger, or broken off; nothing else disturbs it.
LEMMA HeldStep ==
  ASSUME TaskTypeOK, HeldWhileLocked, [TaskNext]_taskVars
  PROVE  HeldWhileLocked'
<1> SUFFICES ASSUME lock', ~left', ~(Standalone /\ launch.auto_start)'
             PROVE  Perched'
  BY DEF HeldWhileLocked
<1>0. ASSUME UNCHANGED <<exec_state, stage, frozen, latched, launch, lock, left>>
      PROVE  Perched'
  BY <1>0 DEF HeldWhileLocked, Perched, Standalone
<1>1. CASE ExecContact
  <2>1. frozen # Nothing /\ stage' = "PERCHING_CONTACT" /\ ChangeFSMExecState("WAIT_TARGET", TRUE)
    BY <1>1 DEF ExecContact, TaskTypeOK
  <2>2. HoldSurvives("WAIT_TARGET")
    BY <2>1 DEF HoldSurvives
  <2> QED BY <2>1, <2>2 DEF ChangeFSMExecState, Perched
<1>2. CASE MandatoryStopCallback \/ RecvBroadcastPolyTraj
  BY <1>2 DEF MandatoryStopCallback, RecvBroadcastPolyTraj
<1>3. CASE PerchingTriggerCallback
  BY <1>3 DEF PerchingTriggerCallback
<1>4. CASE PerchingTargetOdomCallback \/ TrackingReferenceCallback \/ PredictionPasses
  BY <1>0, <1>4 DEF PerchingTargetOdomCallback, TrackingReferenceCallback, PredictionPasses
<1>5. CASE UNCHANGED taskVars
  BY <1>0, <1>5 DEF taskVars
<1>6. \* Every other step but these two starts outside the hold.
  ASSUME exec_state # "WAIT_TARGET", UNCHANGED <<launch, lock, left>>
  PROVE  FALSE
  BY <1>6 DEF HeldWhileLocked, Perched, Standalone
<1>7. CASE ExecWaitTracking
  <2>1. Perched /\ ~left
    BY <1>7 DEF ExecWaitTracking, HeldWhileLocked, Standalone, TaskTypeOK, Perched
  <2>2. triggered
    BY <1>7, <2>1 DEF ExecWaitTracking, Perched, MayRelease
  <2> QED BY <1>7, <2>1, <2>2 DEF ExecWaitTracking, Perched
<1>8. CASE ExecWaitPerching
  <2>1. left \/ triggered \/ launch.auto_start
    BY <1>8 DEF ExecWaitPerching
  <2>2. Standalone /\ UNCHANGED launch
    BY <1>8 DEF ExecWaitPerching
  <2> QED BY <1>8, <2>1, <2>2 DEF ExecWaitPerching, Standalone
<1>9. CASE ExecInit \/ ExecPlan \/ ExecTrack \/ ExecEnterApproach
  BY <1>6, <1>9 DEF ExecInit, ExecPlan, ExecTrack, ExecEnterApproach
<1>10. CASE ExecArrived \/ ExecEnterCommit \/ ExecReplanPerching
  BY <1>6, <1>10 DEF ExecArrived, ExecEnterCommit, ExecReplanPerching, PerchingRuntime
<1>11. CASE ExecCallEmergencyStop \/ ExecEscapeEmergency \/ SafetyDepthLost
         \/ SafetyUnsafeSample
  BY <1>6, <1>11 DEF ExecCallEmergencyStop, ExecEscapeEmergency, SafetyDepthLost,
     SafetyUnsafeSample
<1> QED
  BY <1>1, <1>2, <1>3, <1>4, <1>5, <1>7, <1>8, <1>9, <1>10, <1>11
  DEF TaskNext, ExecTimer, SafetyTimer, Callbacks

LEMMA TaskStep == TaskInv /\ [TaskNext]_taskVars => TaskInv'
BY TaskTypeStep, CommitStep, FlightStep, HeldStep DEF TaskInv

LEMMA TaskInductive == TaskSpec => []TaskInv
BY TaskInitInv, TaskStep, PTL DEF TaskSpec

\* Every variable keeps its type, and no stage is reached of a task the planner was
\* not launched for.
THEOREM TaskTypeCorrect == TaskSpec => []TaskTypeOK
<1>1. TaskInv => TaskTypeOK
  BY DEF TaskInv
<1> QED BY <1>1, TaskInductive, PTL

\* Whoever replans the last metres, the drone flies to the frozen terminal or, once the
\* time that was predicted for has passed, to where the plate's velocity leads it on.
THEOREM FrozenInCommit == TaskSpec => []CommitFliesFrozen
<1>1. TaskInv => CommitFliesFrozen
  BY DEF TaskInv
<1> QED BY <1>1, TaskInductive, PTL

\* The trajectory and the frozen terminal are those of the stage.
THEOREM StageFlight == TaskSpec => []FliesForItsStage
<1>1. TaskInv => FliesForItsStage
  BY DEF TaskInv
<1> QED BY <1>1, TaskInductive, PTL

\* A locked plate carries the drone, unless a trigger, a stop or another drone took
\* it off, or it was launched to perch by itself.
THEOREM HeldLocked == TaskSpec => []HeldWhileLocked
<1>1. TaskInv => HeldWhileLocked
  BY DEF TaskInv
<1> QED BY <1>1, TaskInductive, PTL

=============================================================================
