--------------------------- MODULE ReplanFSM_proofs ---------------------------
(***************************************************************************)
(* Proofs about ReplanFSM for every number of goals, drones, waypoints and *)
(* nested calls.  IInv is the inductive invariant: the safety properties   *)
(* of ReplanFSM and the facts about unfinished emergencies and unfinished  *)
(* starts that they rest on.                                               *)
(***************************************************************************)
EXTENDS ReplanFSM, TLAPS

\* A point some trajectory of the current goal leads to.
ToGoal == {final_goal} \X {"mid", "end"}

\* flag_escape_emergency_ is down only between the handling of an emergency and
\* the end of GEN_NEW_TRAJ, and the stop is flown all that time.
StopPending ==
  \/ Escaped
  \/ /\ ~flag_escape => exec_state \in {"EMERGENCY_STOP", "GEN_NEW_TRAJ"}
     /\ exec_state = "GEN_NEW_TRAJ" => ~flag_escape
     /\ ~flag_escape => flown = StopTraj

\* A mandatory stop turns the fail safe off for good.
MandatoryDisarms ==
  mandatory_stop => ~fail_safe /\ (exec_state = "EMERGENCY_STOP" \/ Escaped)

\* Before the sequential start is over the only emergency is a mandatory one.
Started == DroneId <= 0 \/ have_recv_pre_agent \/ Escaped
StartPending ==
  ~Started =>
    /\ \/ exec_state \in {"INIT", "WAIT_TARGET", "SEQUENTIAL_START"}
       \/ exec_state = "EMERGENCY_STOP" /\ ~fail_safe
    /\ flown \notin Points
    /\ local_traj \notin Points
    /\ local_traj # None => exec_state = "EMERGENCY_STOP"

\* Before there is a target and a trigger the only emergency is one the fail
\* safe does not leave.
Targeted == (have_target /\ have_trigger) \/ "WAIT_TARGET" \in pulled \/ Escaped
TargetPending ==
  ~Targeted =>
    \/ exec_state \in {"INIT", "WAIT_TARGET"}
    \/ exec_state = "EMERGENCY_STOP" /\ ~fail_safe

IInv ==
  /\ TypeOK
  /\ ExecFliesCurrentGoal
  /\ ReplanHasStart
  /\ PreviewIsCurrent
  /\ LocalIsPublished
  /\ StartIsUndisturbed
  /\ StopPending
  /\ MandatoryDisarms
  /\ StartPending
  /\ TargetPending

USE DEF nodeVars, goalVars, trajVars, cacheVars, stopVars, swarmVars

\* Planning aims at a point, whether or not a preview is cached.
LEMMA PlanTargetsArePoints == TypeOK => PlanTargets \subseteq Points
  BY DEF TypeOK, PlanTargets, Points

\* A planning attempt, successful or not, keeps the types of what it writes.
LEMMA PlanAttemptTypes ==
  ASSUME TypeOK, PlanSucceeds \/ PlanFails
  PROVE  /\ pending' \in Points \cup {None}
         /\ local_target_pt' \in Points
         /\ local_traj' \in Points \cup {None, StopTraj}
         /\ flown' \in Points \cup {None, StopTraj}
  BY PlanTargetsArePoints DEF TypeOK, PlanSucceeds, PlanFails

\* planNextWaypoint keeps the types of what it writes.
LEMMA PlanNextWaypointTypes ==
  ASSUME TypeOK, NEW g \in Goals, PlanNextWaypoint(g)
  PROVE  /\ final_goal' \in Goals \cup {NoGoal}
         /\ have_target' \in BOOLEAN
         /\ local_target_pt' \in Points
         /\ local_traj' \in Points \cup {None, StopTraj}
         /\ flown' \in Points \cup {None, StopTraj}
         /\ pending' \in Points \cup {None}
         /\ replan_from_odom' \in BOOLEAN
         /\ exec_state' \in States
         /\ nest' \in Nat
  BY DEF TypeOK, PlanNextWaypoint, WipeLocalTraj, DropPreview, AskPlanFromOdom,
         StateAfterGoal, States

\* A change of state keeps the types of what it writes.
LEMMA ChangeStateTypes ==
  ASSUME TypeOK, NEW s \in States, ChangeFSMExecState(s)
  PROVE  exec_state' \in States /\ pending' \in Points \cup {None}
         /\ replan_from_odom' \in BOOLEAN
  BY DEF TypeOK, ChangeFSMExecState, ResetPlannedTaskTargets

LEMMA TypeStep == TypeOK /\ [Next]_vars => TypeOK'
<1> SUFFICES ASSUME TypeOK, [Next]_vars PROVE TypeOK'
  OBVIOUS
<1>1. ASSUME ExecInit \/ ExecWaitTarget \/ ExecEscapeEmergency PROVE TypeOK'
  BY <1>1, ChangeStateTypes DEF TypeOK, States, ExecInit, ExecWaitTarget, ExecEscapeEmergency
<1>2. ASSUME ExecSequentialStart \/ ExecGenNewTraj \/ ExecReplanTraj PROVE TypeOK'
  BY <1>2, PlanAttemptTypes
  DEF TypeOK, States, ExecSequentialStart, ExecGenNewTraj, ExecReplanTraj, ReArmStop
<1>3. ASSUME ExecModifyGoal PROVE TypeOK'
  BY <1>3, PlanNextWaypointTypes DEF TypeOK, ExecModifyGoal
<1>4. ASSUME ExecNextWaypoint PROVE TypeOK'
  <2>1. Waypoints[wpt_id + 1] \in Goals /\ wpt_id + 1 \in 0 .. Len(Waypoints)
    BY <1>4, ConstantsOK DEF TypeOK, ExecNextWaypoint
  <2> QED BY <1>4, <2>1, PlanNextWaypointTypes DEF TypeOK, ExecNextWaypoint
<1>5. ASSUME ExecArrived PROVE TypeOK'
  <2>1. TargetType = "PRESET_TARGET" => Waypoints[1] \in Goals /\ 1 \in 0 .. Len(Waypoints)
    BY ConstantsOK DEF TypeOK, TargetType
  <2> QED BY <1>5, <2>1, ChangeStateTypes DEF TypeOK, States, ExecArrived, WipeLocalTraj
<1>6. ASSUME ExecDecide PROVE TypeOK'
  BY <1>6, ChangeStateTypes DEF TypeOK, States, ExecDecide, Points
<1>7. ASSUME ExecCallEmergencyStop PROVE TypeOK'
  BY <1>7 DEF TypeOK, ExecCallEmergencyStop, StopHandled, PublishStop, ResetPlannedTaskTargets
<1>8. ASSUME SafetyDepthLost PROVE TypeOK'
  BY <1>8, ChangeStateTypes DEF TypeOK, States, SafetyDepthLost, DisableFailSafe
<1>9. ASSUME SafetyUnsafeSample PROVE TypeOK'
  <2>1. PlanSucceeds \/ PlanFails
    BY <1>9 DEF SafetyUnsafeSample
  <2>2. exec_state' \in States /\ replan_from_odom' \in BOOLEAN
    BY <1>9 DEF TypeOK, States, SafetyUnsafeSample
  <2> QED BY <1>9, <2>1, <2>2, PlanAttemptTypes DEF TypeOK, SafetyUnsafeSample
<1>10. ASSUME OdometryCallback \/ TriggerCallback PROVE TypeOK'
  BY <1>10 DEF TypeOK, OdometryCallback, TriggerCallback
<1>11. ASSUME ReadGivenWpsAndPlan PROVE TypeOK'
  <2>1. Waypoints[1] \in Goals /\ 1 \in 0 .. Len(Waypoints)
    BY <1>11, ConstantsOK DEF TypeOK, TargetType, ReadGivenWpsAndPlan
  <2> QED BY <1>11, <2>1, PlanNextWaypointTypes DEF TypeOK, ReadGivenWpsAndPlan
<1>12. ASSUME LeaveNestedSpin PROVE TypeOK'
  BY <1>12, ChangeStateTypes DEF TypeOK, States, LeaveNestedSpin, LoopWaits
<1>13. ASSUME MandatoryStopCallback PROVE TypeOK'
  BY <1>13, ChangeStateTypes DEF TypeOK, States, MandatoryStopCallback, DisableFailSafe
<1>14. ASSUME RecvBroadcastPolyTraj PROVE TypeOK'
  <2>1. PICK i \in Others : RecvTrajStored(i) \/ RecvTrajFarAway(i)
    BY <1>14 DEF RecvBroadcastPolyTraj
  <2>2. i \in Nat /\ GrowSwarmTraj(i)
    BY <2>1, ConstantsOK DEF RecvTrajStored, RecvTrajFarAway
  <2>3. swarm_size' \in Nat
    BY <2>2 DEF TypeOK, GrowSwarmTraj
  <2>4. CASE RecvTrajStored(i)
    <3>1. exec_state' \in States /\ pulled' \subseteq States
      BY <2>4 DEF TypeOK, States, RecvTrajStored
    <3>2. have_recv_pre_agent' \in BOOLEAN
      BY <2>4 DEF TypeOK, RecvTrajStored, RecvPreAgent
    <3> QED BY <2>1, <2>3, <2>4, <3>1, <3>2 DEF TypeOK, RecvTrajStored
  <2>5. CASE RecvTrajFarAway(i)
    BY <2>1, <2>3, <2>5 DEF TypeOK, RecvTrajFarAway
  <2> QED BY <2>1, <2>4, <2>5
<1>15. ASSUME NEW g \in Goals, WaypointCallback(g) PROVE TypeOK'
  BY <1>15, PlanNextWaypointTypes DEF TypeOK, WaypointCallback, TriggerOnReturn
<1>16. ASSUME UNCHANGED vars PROVE TypeOK'
  BY <1>16 DEF TypeOK, vars
<1> QED
  BY <1>1, <1>2, <1>3, <1>4, <1>5, <1>6, <1>7, <1>8, <1>9, <1>10, <1>11, <1>12, <1>13, <1>14,
     <1>15, <1>16
  DEF Next, ExecTimer, SafetyTimer, Callbacks

\* Without a preview of another goal, planning aims at the current one.
LEMMA PlanAttemptAims ==
  ASSUME TypeOK, PreviewIsCurrent, PlanSucceeds \/ PlanFails
  PROVE  /\ pending' = None
         /\ PlanSucceeds => /\ local_traj' \in ToGoal
                            /\ flown' = local_traj'
                            /\ local_target_pt' = local_traj'
         /\ PlanFails => UNCHANGED <<local_traj, flown>>
  BY DEF TypeOK, PreviewIsCurrent, PlanSucceeds, PlanFails, PlanTargets, ToGoal, Points

LEMMA FliesStep ==
  ASSUME TypeOK, ExecFliesCurrentGoal, PreviewIsCurrent, [Next]_vars
  PROVE  ExecFliesCurrentGoal'
<1> USE DEF ExecFliesCurrentGoal
<1>1. ASSUME ExecSequentialStart \/ ExecGenNewTraj \/ ExecReplanTraj PROVE ExecFliesCurrentGoal'
  BY <1>1, PlanAttemptAims
  DEF ToGoal, ExecSequentialStart, ExecGenNewTraj, ExecReplanTraj
<1>2. ASSUME SafetyUnsafeSample PROVE ExecFliesCurrentGoal'
  BY <1>2, PlanAttemptAims DEF ToGoal, SafetyUnsafeSample, SafetyGuard
<1>3. ASSUME NEW g \in Goals, PlanNextWaypoint(g) PROVE exec_state' # "EXEC_TRAJ"
  BY <1>3 DEF PlanNextWaypoint, StateAfterGoal
<1>4. ASSUME ExecTimer PROVE ExecFliesCurrentGoal'
  <2>1. ASSUME ExecNextWaypoint PROVE Waypoints[wpt_id + 1] \in Goals
    BY <2>1, ConstantsOK DEF TypeOK, ExecNextWaypoint
  <2> QED
    BY <1>1, <1>3, <1>4, <2>1
    DEF ExecTimer, ExecInit, ExecWaitTarget, ExecModifyGoal, ExecNextWaypoint, ExecArrived,
        ExecDecide, ExecCallEmergencyStop, ExecEscapeEmergency, ChangeFSMExecState
<1>5. ASSUME SafetyTimer PROVE ExecFliesCurrentGoal'
  BY <1>2, <1>5 DEF SafetyTimer, SafetyDepthLost, ChangeFSMExecState
<1>6. ASSUME Callbacks PROVE ExecFliesCurrentGoal'
  <2>1. ASSUME ReadGivenWpsAndPlan PROVE Waypoints[1] \in Goals
    BY <2>1, ConstantsOK DEF TypeOK, TargetType, ReadGivenWpsAndPlan
  <2> QED
    BY <1>3, <1>6, <2>1
    DEF Callbacks, OdometryCallback, TriggerCallback, ReadGivenWpsAndPlan, LeaveNestedSpin,
        MandatoryStopCallback, RecvBroadcastPolyTraj, RecvTrajStored, RecvTrajFarAway,
        WaypointCallback, ChangeFSMExecState
<1>7. ASSUME UNCHANGED vars PROVE ExecFliesCurrentGoal'
  BY <1>7 DEF vars
<1> QED BY <1>4, <1>5, <1>6, <1>7 DEF Next

LEMMA PreviewStep ==
  ASSUME TypeOK, PreviewIsCurrent, [Next]_vars
  PROVE  PreviewIsCurrent'
<1> USE DEF PreviewIsCurrent
<1>1. ASSUME PlanSucceeds \/ PlanFails PROVE PreviewIsCurrent'
  BY <1>1 DEF PlanSucceeds, PlanFails
<1>2. ASSUME NEW g, PlanNextWaypoint(g) PROVE PreviewIsCurrent'
  BY <1>2 DEF PlanNextWaypoint, DropPreview
<1>3. ASSUME ExecDecide PROVE PreviewIsCurrent'
  BY <1>3 DEF ExecDecide, ChangeFSMExecState, ResetPlannedTaskTargets
<1>4. ASSUME ExecTimer PROVE PreviewIsCurrent'
  BY <1>1, <1>2, <1>3, <1>4
  DEF ExecTimer, ExecInit, ExecWaitTarget, ExecSequentialStart, ExecGenNewTraj, ExecReplanTraj,
      ExecModifyGoal, ExecNextWaypoint, ExecArrived, ExecCallEmergencyStop,
      ExecEscapeEmergency, ChangeFSMExecState, ResetPlannedTaskTargets
<1>5. ASSUME SafetyTimer PROVE PreviewIsCurrent'
  BY <1>1, <1>5
  DEF SafetyTimer, SafetyDepthLost, SafetyUnsafeSample, ChangeFSMExecState,
      ResetPlannedTaskTargets
<1>6. ASSUME Callbacks PROVE PreviewIsCurrent'
  BY <1>2, <1>6
  DEF Callbacks, OdometryCallback, TriggerCallback, ReadGivenWpsAndPlan, LeaveNestedSpin,
      MandatoryStopCallback, RecvBroadcastPolyTraj, RecvTrajStored, RecvTrajFarAway,
      WaypointCallback, ChangeFSMExecState, ResetPlannedTaskTargets
<1>7. ASSUME UNCHANGED vars PROVE PreviewIsCurrent'
  BY <1>7 DEF vars
<1> QED BY <1>4, <1>5, <1>6, <1>7 DEF Next

LEMMA ReplanStartStep ==
  ASSUME TypeOK, ExecFliesCurrentGoal, ReplanHasStart, [Next]_vars
  PROVE  ReplanHasStart'
<1> USE DEF ReplanHasStart
<1>1. exec_state = "EXEC_TRAJ" => local_traj # None
  BY ValuesDistinct DEF ExecFliesCurrentGoal, TypeOK, Points
<1>2. ASSUME NEW g, PlanNextWaypoint(g) PROVE ReplanHasStart'
  BY <1>2 DEF PlanNextWaypoint, StateAfterGoal, AskPlanFromOdom
<1>3. ASSUME ExecTimer PROVE ReplanHasStart'
  BY <1>1, <1>2, <1>3
  DEF ExecTimer, ExecInit, ExecWaitTarget, ExecSequentialStart, ExecGenNewTraj, ExecReplanTraj,
      ExecModifyGoal, ExecNextWaypoint, ExecArrived, ExecDecide, ExecCallEmergencyStop,
      ExecEscapeEmergency, ChangeFSMExecState, PlanFails
<1>4. ASSUME SafetyTimer PROVE ReplanHasStart'
  BY <1>1, <1>4
  DEF SafetyTimer, SafetyDepthLost, SafetyUnsafeSample, SafetyGuard, ChangeFSMExecState,
      PlanFails
<1>5. ASSUME Callbacks PROVE ReplanHasStart'
  BY <1>1, <1>2, <1>5
  DEF Callbacks, OdometryCallback, TriggerCallback, ReadGivenWpsAndPlan, LeaveNestedSpin,
      MandatoryStopCallback, RecvBroadcastPolyTraj, RecvTrajStored, RecvTrajFarAway,
      WaypointCallback, ChangeFSMExecState
<1>6. ASSUME UNCHANGED vars PROVE ReplanHasStart'
  BY <1>6 DEF vars
<1> QED BY <1>3, <1>4, <1>5, <1>6 DEF Next

LEMMA PublishedStep ==
  ASSUME TypeOK, LocalIsPublished, [Next]_vars
  PROVE  LocalIsPublished'
<1> USE DEF LocalIsPublished
<1>1. ASSUME PlanSucceeds \/ PlanFails PROVE LocalIsPublished'
  BY <1>1 DEF PlanSucceeds, PlanFails
<1>2. ASSUME NEW g, PlanNextWaypoint(g) PROVE LocalIsPublished'
  BY <1>2 DEF PlanNextWaypoint, WipeLocalTraj
<1>3. ASSUME ExecTimer PROVE LocalIsPublished'
  BY <1>1, <1>2, <1>3
  DEF ExecTimer, ExecInit, ExecWaitTarget, ExecSequentialStart, ExecGenNewTraj, ExecReplanTraj,
      ExecModifyGoal, ExecNextWaypoint, ExecArrived, ExecDecide, ExecCallEmergencyStop,
      ExecEscapeEmergency, WipeLocalTraj, PublishStop
<1>4. ASSUME SafetyTimer PROVE LocalIsPublished'
  BY <1>1, <1>4 DEF SafetyTimer, SafetyDepthLost, SafetyUnsafeSample
<1>5. ASSUME Callbacks PROVE LocalIsPublished'
  BY <1>2, <1>5
  DEF Callbacks, OdometryCallback, TriggerCallback, ReadGivenWpsAndPlan, LeaveNestedSpin,
      MandatoryStopCallback, RecvBroadcastPolyTraj, RecvTrajStored, RecvTrajFarAway,
      WaypointCallback
<1>6. ASSUME UNCHANGED vars PROVE LocalIsPublished'
  BY <1>6 DEF vars
<1> QED BY <1>3, <1>4, <1>5, <1>6 DEF Next

LEMMA UndisturbedStep ==
  ASSUME TypeOK, StartIsUndisturbed, [Next]_vars
  PROVE  StartIsUndisturbed'
<1> USE DEF StartIsUndisturbed
<1>1. ASSUME NEW g, PlanNextWaypoint(g), UNCHANGED pulled PROVE StartIsUndisturbed'
  BY <1>1 DEF PlanNextWaypoint, StateAfterGoal, WipeLocalTraj
<1>2. ASSUME ExecTimer PROVE StartIsUndisturbed'
  BY <1>1, <1>2
  DEF ExecTimer, ExecInit, ExecWaitTarget, ExecSequentialStart, ExecGenNewTraj, ExecReplanTraj,
      ExecModifyGoal, ExecNextWaypoint, ExecArrived, ExecDecide, ExecCallEmergencyStop,
      ExecEscapeEmergency, ChangeFSMExecState, WipeLocalTraj, PlanFails, TargetReady
<1>3. ASSUME SafetyTimer PROVE StartIsUndisturbed'
  BY <1>3 DEF SafetyTimer, SafetyDepthLost, SafetyUnsafeSample, SafetyGuard, ChangeFSMExecState
<1>4. ASSUME Callbacks PROVE StartIsUndisturbed'
  BY <1>1, <1>4
  DEF Callbacks, OdometryCallback, TriggerCallback, ReadGivenWpsAndPlan, LeaveNestedSpin,
      MandatoryStopCallback, RecvBroadcastPolyTraj, RecvTrajStored, RecvTrajFarAway,
      WaypointCallback, ChangeFSMExecState
<1>5. ASSUME UNCHANGED vars PROVE StartIsUndisturbed'
  BY <1>5 DEF vars
<1> QED BY <1>2, <1>3, <1>4, <1>5 DEF Next

LEMMA StopStep ==
  ASSUME TypeOK, StopPending, [Next]_vars
  PROVE  StopPending'
<1> USE DEF StopPending
<1>1. ASSUME UNCHANGED pulled PROVE Escaped' <=> Escaped
  BY <1>1 DEF Escaped
<1>2. ASSUME NEW g, PlanNextWaypoint(g), UNCHANGED <<pulled, flag_escape>> PROVE StopPending'
  BY <1>1, <1>2 DEF PlanNextWaypoint, StateAfterGoal
<1>3. ASSUME ExecGenNewTraj PROVE StopPending'
  BY <1>1, <1>3 DEF ExecGenNewTraj, PlanFails, ReArmStop
<1>4. ASSUME ExecCallEmergencyStop PROVE StopPending'
  BY <1>1, <1>4 DEF ExecCallEmergencyStop, PublishStop, StopHandled
<1>5. ASSUME ExecTimer PROVE StopPending'
  BY <1>1, <1>2, <1>3, <1>4, <1>5
  DEF ExecTimer, ExecInit, ExecWaitTarget, ExecSequentialStart, ExecReplanTraj,
      ExecModifyGoal, ExecNextWaypoint, ExecArrived, ExecDecide, ExecEscapeEmergency,
      ChangeFSMExecState
<1>6. ASSUME SafetyTimer PROVE StopPending'
  BY <1>1, <1>6
  DEF SafetyTimer, SafetyDepthLost, SafetyUnsafeSample, SafetyGuard, ChangeFSMExecState
<1>7. ASSUME NEW i, RecvTrajStored(i) PROVE StopPending'
  <2>1. Escaped => Escaped'
    BY <1>7 DEF RecvTrajStored, Escaped
  <2>2. CASE UNCHANGED <<exec_state, pulled>>
    BY <1>1, <1>7, <2>2 DEF RecvTrajStored
  <2>3. CASE /\ exec_state' = "REPLAN_TRAJ"
             /\ pulled' = pulled \cup ({exec_state} \ {"EXEC_TRAJ", "REPLAN_TRAJ"})
    <3>1. exec_state \in {"EMERGENCY_STOP", "GEN_NEW_TRAJ"} => Escaped'
      BY <2>3 DEF Escaped
    <3> QED BY <1>7, <2>1, <2>3, <3>1 DEF RecvTrajStored
  <2> QED BY <1>7, <2>2, <2>3 DEF RecvTrajStored
<1>8. ASSUME Callbacks PROVE StopPending'
  BY <1>1, <1>2, <1>7, <1>8
  DEF Callbacks, OdometryCallback, TriggerCallback, ReadGivenWpsAndPlan, LeaveNestedSpin,
      MandatoryStopCallback, RecvBroadcastPolyTraj, RecvTrajFarAway, WaypointCallback,
      ChangeFSMExecState
<1>9. ASSUME UNCHANGED vars PROVE StopPending'
  BY <1>1, <1>9 DEF vars
<1> QED BY <1>5, <1>6, <1>8, <1>9 DEF Next

LEMMA MandatoryStep ==
  ASSUME TypeOK, MandatoryDisarms, [Next]_vars
  PROVE  MandatoryDisarms'
<1> USE DEF MandatoryDisarms
<1>1. ASSUME UNCHANGED pulled PROVE Escaped' <=> Escaped
  BY <1>1 DEF Escaped
<1>2. ASSUME NEW g, PlanNextWaypoint(g), UNCHANGED <<pulled, stopVars>> PROVE MandatoryDisarms'
  BY <1>1, <1>2 DEF PlanNextWaypoint, StateAfterGoal
<1>3. ASSUME ExecTimer PROVE MandatoryDisarms'
  BY <1>1, <1>2, <1>3
  DEF ExecTimer, ExecInit, ExecWaitTarget, ExecSequentialStart, ExecGenNewTraj, ExecReplanTraj,
      ExecModifyGoal, ExecNextWaypoint, ExecArrived, ExecDecide, ExecCallEmergencyStop,
      ExecEscapeEmergency, ChangeFSMExecState
<1>4. ASSUME SafetyTimer PROVE MandatoryDisarms'
  BY <1>1, <1>4
  DEF SafetyTimer, SafetyDepthLost, SafetyUnsafeSample, SafetyGuard, DisableFailSafe,
      ChangeFSMExecState
<1>5. ASSUME NEW i, RecvTrajStored(i) PROVE MandatoryDisarms'
  <2>1. Escaped => Escaped'
    BY <1>5 DEF RecvTrajStored, Escaped
  <2>2. CASE UNCHANGED <<exec_state, pulled>>
    BY <1>1, <1>5, <2>2 DEF RecvTrajStored
  <2>3. CASE /\ exec_state' = "REPLAN_TRAJ"
             /\ pulled' = pulled \cup ({exec_state} \ {"EXEC_TRAJ", "REPLAN_TRAJ"})
    <3>1. exec_state = "EMERGENCY_STOP" => Escaped'
      BY <2>3 DEF Escaped
    <3> QED BY <1>5, <2>1, <3>1 DEF RecvTrajStored
  <2> QED BY <1>5, <2>2, <2>3 DEF RecvTrajStored
<1>6. ASSUME Callbacks PROVE MandatoryDisarms'
  BY <1>1, <1>2, <1>5, <1>6
  DEF Callbacks, OdometryCallback, TriggerCallback, ReadGivenWpsAndPlan, LeaveNestedSpin,
      MandatoryStopCallback, RecvBroadcastPolyTraj, RecvTrajFarAway, WaypointCallback,
      DisableFailSafe, ChangeFSMExecState
<1>7. ASSUME UNCHANGED vars PROVE MandatoryDisarms'
  BY <1>1, <1>7 DEF vars
<1> QED BY <1>3, <1>4, <1>6, <1>7 DEF Next

LEMMA StartStep ==
  ASSUME TypeOK, ExecFliesCurrentGoal, StartIsUndisturbed, StartPending, [Next]_vars
  PROVE  StartPending'
<1> USE ConstantsOK, ValuesDistinct DEF StartPending
<1>1. ASSUME UNCHANGED <<have_recv_pre_agent, pulled>> PROVE Started' <=> Started
  BY <1>1 DEF Started, Escaped
<1>2. ASSUME NEW g, PlanNextWaypoint(g), UNCHANGED <<have_recv_pre_agent, pulled, fail_safe>>
      PROVE StartPending'
  BY <1>1, <1>2 DEF PlanNextWaypoint, StateAfterGoal, WipeLocalTraj
<1>3. ASSUME ExecSequentialStart PROVE StartPending'
  <2>1. Started
    BY <1>3 DEF ExecSequentialStart, MayStart, Started
  <2> QED BY <1>1, <1>3, <2>1 DEF ExecSequentialStart
<1>4. ASSUME ExecCallEmergencyStop PROVE StartPending'
  BY <1>1, <1>4 DEF ExecCallEmergencyStop, PublishStop
<1>5. ASSUME ExecArrived \/ ExecDecide \/ ExecGenNewTraj \/ ExecReplanTraj
      PROVE StartPending'
  <2>1. Started
    BY <1>5 DEF ExecArrived, ExecDecide, ExecGenNewTraj, ExecReplanTraj
  <2> QED BY <1>1, <1>5, <2>1 DEF ExecArrived, ExecDecide, ExecGenNewTraj, ExecReplanTraj
<1>6. ASSUME ExecTimer PROVE StartPending'
  BY <1>1, <1>2, <1>3, <1>4, <1>5, <1>6
  DEF ExecTimer, ExecInit, ExecWaitTarget, ExecModifyGoal, ExecNextWaypoint,
      ExecEscapeEmergency, ChangeFSMExecState
<1>7. ASSUME SafetyTimer PROVE StartPending'
  <2>1. Started
    BY <1>7 DEF SafetyTimer, SafetyDepthLost, SafetyUnsafeSample, SafetyGuard
  <2> QED BY <1>1, <1>7, <2>1 DEF SafetyTimer, SafetyDepthLost, SafetyUnsafeSample
<1>8. ASSUME NEW i, RecvTrajStored(i) PROVE StartPending'
  <2>1. Started => Started'
    BY <1>8 DEF RecvTrajStored, RecvPreAgent, Started, Escaped
  <2>2. ASSUME UNCHANGED <<exec_state, pulled>> PROVE StartPending'
    BY <1>8, <2>1, <2>2 DEF RecvTrajStored
  <2>3. ASSUME local_traj # None,
               pulled' = pulled \cup ({exec_state} \ {"EXEC_TRAJ", "REPLAN_TRAJ"})
        PROVE  Started'
    <3>1. exec_state = "EMERGENCY_STOP" => Escaped'
      BY <2>3 DEF Escaped
    <3>2. Started' \/ exec_state = "EMERGENCY_STOP"
      BY <2>1, <2>3
    <3> QED BY <3>1, <3>2 DEF Started
  <2> QED BY <1>8, <2>2, <2>3 DEF RecvTrajStored
<1>9. ASSUME NEW i, RecvTrajFarAway(i) PROVE StartPending'
  BY <1>1, <1>9 DEF RecvTrajFarAway
<1>10. ASSUME Callbacks PROVE StartPending'
  BY <1>1, <1>2, <1>8, <1>9, <1>10
  DEF Callbacks, OdometryCallback, TriggerCallback, ReadGivenWpsAndPlan, LeaveNestedSpin,
      MandatoryStopCallback, RecvBroadcastPolyTraj, WaypointCallback, DisableFailSafe,
      ChangeFSMExecState
<1>11. ASSUME UNCHANGED vars PROVE StartPending'
  BY <1>1, <1>11 DEF vars
<1> QED BY <1>6, <1>7, <1>10, <1>11 DEF Next

LEMMA TargetStep ==
  ASSUME TypeOK, StartIsUndisturbed, TargetPending, [Next]_vars
  PROVE  TargetPending'
<1> USE DEF TargetPending
<1>1. ASSUME UNCHANGED <<have_target, have_trigger, pulled>> PROVE Targeted' <=> Targeted
  BY <1>1 DEF Targeted, Escaped
<1>2. ASSUME NEW g, PlanNextWaypoint(g), have_trigger => have_trigger',
             UNCHANGED <<pulled, fail_safe>>
      PROVE TargetPending'
  <2>1. Targeted => Targeted'
    BY <1>2 DEF PlanNextWaypoint, Targeted, Escaped
  <2> QED BY <1>2, <2>1 DEF PlanNextWaypoint, StateAfterGoal
<1>3. ASSUME ExecWaitTarget PROVE TargetPending'
  BY <1>1, <1>3 DEF ExecWaitTarget, TargetReady, Targeted
<1>4. ASSUME ExecTimer PROVE TargetPending'
  BY <1>1, <1>2, <1>3, <1>4
  DEF ExecTimer, ExecInit, ExecSequentialStart, ExecGenNewTraj, ExecReplanTraj,
      ExecModifyGoal, ExecNextWaypoint, ExecArrived, ExecDecide, ExecCallEmergencyStop,
      ExecEscapeEmergency, ChangeFSMExecState
<1>5. ASSUME SafetyTimer PROVE TargetPending'
  BY <1>1, <1>5
  DEF SafetyTimer, SafetyDepthLost, SafetyUnsafeSample, SafetyGuard, ChangeFSMExecState
<1>6. ASSUME NEW i, RecvTrajStored(i) PROVE TargetPending'
  <2>1. Targeted => Targeted'
    BY <1>6 DEF RecvTrajStored, Targeted, Escaped
  <2>2. ASSUME UNCHANGED <<exec_state, pulled>> PROVE TargetPending'
    BY <1>6, <2>1, <2>2 DEF RecvTrajStored
  <2>3. ASSUME local_traj # None,
               pulled' = pulled \cup ({exec_state} \ {"EXEC_TRAJ", "REPLAN_TRAJ"})
        PROVE  Targeted'
    <3>1. exec_state \in {"WAIT_TARGET", "EMERGENCY_STOP"} => Targeted'
      BY <2>3 DEF Targeted, Escaped
    <3>2. exec_state # "INIT"
      BY <2>3 DEF StartIsUndisturbed
    <3> QED BY <2>1, <3>1, <3>2
  <2> QED BY <1>6, <2>2, <2>3 DEF RecvTrajStored
<1>7. ASSUME Callbacks PROVE TargetPending'
  <2>1. ASSUME TriggerCallback \/ LeaveNestedSpin PROVE TargetPending'
    <3>1. Targeted => Targeted'
      BY <2>1 DEF TriggerCallback, LeaveNestedSpin, Targeted, Escaped
    <3> QED BY <2>1, <3>1 DEF TriggerCallback, LeaveNestedSpin
  <2>2. ASSUME NEW g, WaypointCallback(g) PROVE TargetPending'
    <3>1. have_trigger => have_trigger'
      BY <2>2 DEF WaypointCallback, TriggerOnReturn
    <3> QED BY <1>2, <2>2, <3>1 DEF WaypointCallback
  <2> QED
    BY <1>1, <1>2, <1>6, <1>7, <2>1, <2>2
    DEF Callbacks, OdometryCallback, ReadGivenWpsAndPlan, MandatoryStopCallback,
        RecvBroadcastPolyTraj, RecvTrajFarAway, DisableFailSafe, ChangeFSMExecState
<1>8. ASSUME UNCHANGED vars PROVE TargetPending'
  BY <1>1, <1>8 DEF vars
<1> QED BY <1>4, <1>5, <1>7, <1>8 DEF Next

LEMMA InitIInv == Init => IInv
<1> SUFFICES ASSUME Init PROVE IInv
  OBVIOUS
<1>1. TypeOK
  <2>1. local_target_pt \in Points
    BY DEF Init, Points
  <2>2. 0 \in 0 .. Len(Waypoints)
    BY ConstantsOK DEF TypeOK, TargetType
  <2>3. have_trigger \in BOOLEAN /\ fail_safe \in BOOLEAN
    BY ConstantsOK DEF Init
  <2> QED BY <2>1, <2>2, <2>3 DEF Init, TypeOK, States
<1>2. ExecFliesCurrentGoal /\ ReplanHasStart /\ PreviewIsCurrent /\ LocalIsPublished
  BY DEF Init, ExecFliesCurrentGoal, ReplanHasStart, PreviewIsCurrent, LocalIsPublished
<1>3. StartIsUndisturbed /\ StopPending /\ MandatoryDisarms
  BY DEF Init, StartIsUndisturbed, StopPending, MandatoryDisarms
<1>4. StartPending /\ TargetPending
  BY ValuesDistinct DEF Init, StartPending, TargetPending
<1> QED BY <1>1, <1>2, <1>3, <1>4 DEF IInv

LEMMA StepIInv == IInv /\ [Next]_vars => IInv'
  BY TypeStep, FliesStep, ReplanStartStep, PreviewStep, PublishedStep, UndisturbedStep,
     StopStep, MandatoryStep, StartStep, TargetStep
  DEF IInv

THEOREM Inductive == Spec => []IInv
  BY InitIInv, StepIInv, PTL DEF Spec

-----------------------------------------------------------------------------
(* What a reader should know of.                                           *)

\* For every set of goals, drone id, route and depth of nested calls, every
\* variable keeps the type of its C++ member.
THEOREM TypeCorrect == Spec => []TypeOK
<1>1. IInv => TypeOK
  BY DEF IInv
<1> QED BY <1>1, Inductive, PTL

\* EXEC_TRAJ always monitors the trajectory being flown, and it leads to the
\* current goal: changeFSMExecState, the nested spins and the swarm check never
\* leave EXEC_TRAJ with a wiped or stale local trajectory.
THEOREM ExecFlies == Spec => []ExecFliesCurrentGoal
<1>1. IInv => ExecFliesCurrentGoal
  BY DEF IInv
<1> QED BY <1>1, Inductive, PTL

\* planFromLocalTraj never samples a wiped trajectory.
THEOREM ReplanStart == Spec => []ReplanHasStart
<1>1. IInv => ReplanHasStart
  BY DEF IInv
<1> QED BY <1>1, Inductive, PTL

\* A cached preview target never outlives a change of goal.
THEOREM PreviewCurrent == Spec => []PreviewIsCurrent
<1>1. IInv => PreviewIsCurrent
  BY DEF IInv
<1> QED BY <1>1, Inductive, PTL

\* What the planner takes for the trajectory in flight was published last.
THEOREM LocalPublished == Spec => []LocalIsPublished
<1>1. IInv => LocalIsPublished
  BY DEF IInv
<1> QED BY <1>1, Inductive, PTL

\* No swarm message disturbs the start of a drone.
THEOREM StartUndisturbed == Spec => []StartIsUndisturbed
<1>1. IInv => StartIsUndisturbed
  BY DEF IInv
<1> QED BY <1>1, Inductive, PTL

\* A handled emergency stop is flown unless a SWARM_CHECK broke it off.
THEOREM StopFlown == Spec => []StopIsFlown
<1>1. IInv => StopIsFlown
  BY DEF IInv, StopPending, StopIsFlown
<1> QED BY <1>1, Inductive, PTL

\* A mandatory stop is final unless a SWARM_CHECK broke it off.
THEOREM MandatoryFinal == Spec => []MandatoryStopIsFinal
<1>1. IInv => MandatoryStopIsFinal
  BY DEF IInv, MandatoryDisarms, MandatoryStopIsFinal
<1> QED BY <1>1, Inductive, PTL

\* A drone with predecessors starts after it has heard one of them.
THEOREM SequentialStarts == Spec => []SequentialStart
<1>1. IInv => SequentialStart
  BY ConstantsOK DEF IInv, StartPending, Started, SequentialStart
<1> QED BY <1>1, Inductive, PTL

\* The drone flies for an accepted, triggered target.
THEOREM FliesTarget == Spec => []FliesForATarget
<1>1. IInv => FliesForATarget
  BY DEF IInv, TargetPending, Targeted, FliesForATarget
<1> QED BY <1>1, Inductive, PTL

\* The first trajectory after a wipe is planned from odometry.
THEOREM WipedFromOdom == Spec => WipedIsReplannedFromOdom
<1> DEFINE Replan == local_traj = None /\ local_traj' \in Points =>
                       \/ exec_state \in {"SEQUENTIAL_START", "GEN_NEW_TRAJ"}
                       \/ exec_state = "REPLAN_TRAJ" /\ replan_from_odom
<1>1. IInv /\ [Next]_vars => [Replan]_vars
  <2> SUFFICES ASSUME IInv, Next, local_traj = None, local_traj' \in Points PROVE Replan
    BY DEF vars
  <2>1. ASSUME NEW g, PlanNextWaypoint(g) PROVE FALSE
    BY <2>1, ValuesDistinct DEF PlanNextWaypoint, WipeLocalTraj
  <2>2. CASE ExecTimer
    BY <2>1, <2>2, ValuesDistinct
    DEF IInv, ReplanHasStart, ExecTimer, ExecInit, ExecWaitTarget, ExecSequentialStart,
        ExecGenNewTraj, ExecReplanTraj, ExecModifyGoal, ExecNextWaypoint, ExecArrived,
        ExecDecide, ExecCallEmergencyStop, ExecEscapeEmergency, WipeLocalTraj, PublishStop
  <2>3. CASE SafetyTimer
    BY <2>3, ValuesDistinct DEF SafetyTimer, SafetyDepthLost, SafetyUnsafeSample, SafetyGuard
  <2>4. CASE Callbacks
    BY <2>1, <2>4, ValuesDistinct
    DEF Callbacks, OdometryCallback, TriggerCallback, ReadGivenWpsAndPlan, LeaveNestedSpin,
        MandatoryStopCallback, RecvBroadcastPolyTraj, RecvTrajStored, RecvTrajFarAway,
        WaypointCallback
  <2> QED BY <2>2, <2>3, <2>4 DEF Next
<1> QED BY <1>1, Inductive, PTL DEF Spec, WipedIsReplannedFromOdom
==============================================================================
