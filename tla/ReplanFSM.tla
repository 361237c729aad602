------------------------------ MODULE ReplanFSM ------------------------------
(***************************************************************************)
(* The state-to-state runtime of EGOReplanFSM (plan_manage/src/            *)
(* ego_replan_fsm.cpp): the execution state machine run by a 100 Hz timer, *)
(* the 20 Hz safety timer, and the subscriber callbacks.  One node, one    *)
(* thread: callbacks never overlap, but planNextWaypoint spins the         *)
(* callback queue from inside a callback, so every callback can also run   *)
(* nested in an unfinished waypointCallback (variable nest).               *)
(*                                                                         *)
(* Abstractions.  A goal is a model value.  A trajectory is the point it   *)
(* leads to: the pair of the goal it was planned for and "mid" or "end"    *)
(* (whether its local target is the goal itself).  Positions, velocities,  *)
(* clocks and the optimiser are nondeterministic choices of the step that  *)
(* reads them.                                                             *)
(***************************************************************************)
EXTENDS Integers, Sequences

CONSTANTS
  Goals,        \* goal positions a user or a mission file can name
  NoGoal,       \* final_goal_ before any goal was given
  None,         \* no trajectory / no cached preview
  StopTraj,     \* the two-second hover trajectory built by EmergencyStop
  DroneId,      \* planner_manager/drone_id; <= 0 starts without waiting
  Others,       \* ids of the other drones whose trajectories can arrive
  Launches,     \* sets of launch parameters the node may be started with
  Waypoints,    \* the preset route, not used by MANUAL_TARGET
  FailSafe,     \* fsm/fail_safe
  MaxNest       \* bound: nested planNextWaypoint loops explored

ASSUME ConstantsOK ==
  /\ NoGoal \notin Goals
  /\ DroneId \in Int
  /\ Others \subseteq Nat \ {DroneId}
  /\ Waypoints \in Seq(Goals)
  /\ Launches \subseteq [target_type : {"MANUAL_TARGET", "PRESET_TARGET"},
                         realworld   : BOOLEAN]
  /\ \A l \in Launches : l.target_type = "PRESET_TARGET" => Waypoints # <<>>
  /\ FailSafe \in BOOLEAN
  /\ MaxNest \in Nat

States == {"INIT", "WAIT_TARGET", "GEN_NEW_TRAJ", "REPLAN_TRAJ", "EXEC_TRAJ",
           "EMERGENCY_STOP", "SEQUENTIAL_START"}

\* Where a plan can lead: through or up to a goal.
Points == (Goals \cup {NoGoal}) \X {"mid", "end"}

ASSUME ValuesDistinct ==
  None \notin Points /\ StopTraj \notin Points /\ None # StopTraj

VARIABLES
  launch,               \* parameters of this node, never written after init
  exec_state,           \* exec_state_
  have_odom,            \* have_odom_
  have_target,          \* have_target_
  have_trigger,         \* have_trigger_
  final_goal,           \* final_goal_
  local_target_pt,      \* local_target_pt_, set by every planning attempt
  local_traj,           \* traj_.local_traj; None when wiped by setGlobalTraj
  flown,                \* the trajectory last published to traj_server
  pending,              \* pending_state2state_target_selection_
  replan_from_odom,     \* state2state_replan_from_odom_once_
  flag_escape,          \* flag_escape_emergency_
  fail_safe,            \* enable_fail_safe_
  mandatory_stop,       \* mandatory_stop_
  swarm_traj,           \* ids i with swarm_traj[i].drone_id = i
  swarm_size,           \* traj_.swarm_traj.size()
  have_recv_pre_agent,  \* have_recv_pre_agent_
  wpt_id,               \* index of the preset waypoint, from 1; 0: not read
  nest,                 \* unfinished planNextWaypoint loops on the stack
  pulled                \* history: states SWARM_CHECK has pulled the FSM from

nodeVars  == <<launch, have_odom>>
goalVars  == <<have_target, have_trigger, final_goal, wpt_id>>
trajVars  == <<local_target_pt, local_traj, flown>>
cacheVars == <<pending, replan_from_odom>>
stopVars  == <<flag_escape, fail_safe, mandatory_stop>>
swarmVars == <<swarm_traj, swarm_size, have_recv_pre_agent, pulled>>
vars == <<exec_state, nodeVars, nest, goalVars, trajVars, cacheVars, stopVars, swarmVars>>

\* flight_type, and realworld_experiment: start only on a trigger.
TargetType == launch.target_type
RealWorld  == launch.realworld

Init ==
  /\ launch \in Launches
  /\ exec_state = "INIT"
  /\ have_odom = FALSE
  /\ have_target = FALSE
  /\ have_trigger = ~RealWorld
  /\ final_goal = NoGoal
  /\ local_target_pt = <<NoGoal, "mid">>
  /\ local_traj = None
  /\ flown = None
  /\ pending = None
  /\ replan_from_odom = FALSE
  /\ flag_escape = TRUE
  /\ fail_safe = FailSafe
  /\ mandatory_stop = FALSE
  /\ swarm_traj = {}
  /\ swarm_size = 0
  /\ have_recv_pre_agent = FALSE
  /\ wpt_id = 0
  /\ nest = 0
  /\ pulled = {}

-----------------------------------------------------------------------------
(* Helpers every handler is built from.                                    *)

ResetPlannedTaskTargets == pending' = None /\ replan_from_odom' = FALSE

\* Entering WAIT_TARGET or EMERGENCY_STOP forgets every cached plan target.
ChangeFSMExecState(s) ==
  /\ exec_state' = s
  /\ IF s \in {"WAIT_TARGET", "EMERGENCY_STOP"}
       THEN ResetPlannedTaskTargets
       ELSE UNCHANGED cacheVars

\* callCurrentTaskPlan aims at the cached preview if there is one, at a fresh
\* local target of the current goal otherwise (and on every later attempt).
PlanTargets ==
  ({final_goal} \X {"mid", "end"}) \cup (IF pending = None THEN {} ELSE {pending})

\* A successful attempt installs the trajectory, publishes it and broadcasts it.
PlanSucceeds ==
  /\ pending' = None
  /\ \E p \in PlanTargets :
       local_target_pt' = p /\ local_traj' = p /\ flown' = p

\* A failed attempt has already moved local_target_pt_ and dropped the preview.
PlanFails ==
  /\ pending' = None
  /\ local_target_pt' \in PlanTargets
  /\ UNCHANGED <<local_traj, flown>>

TouchTheGoal == local_target_pt = <<final_goal, "end">>

\* SEQUENTIAL_START: wait for the trajectories of the drones before this one.
MayStartMutant == TRUE
MayStart == DroneId <= 0 \/ have_recv_pre_agent

\* WAIT_TARGET is left for a target and a trigger.
TargetReadyMutant == have_target
TargetReady == have_target /\ have_trigger

\* setGlobalTraj: the local trajectory has no duration and id 0 from now on.
WipeLocalTrajMutant == UNCHANGED local_traj
WipeLocalTraj == local_traj' = None

\* EmergencyStop builds the stop trajectory, callEmergencyStop publishes it.
PublishStop == local_traj' = StopTraj /\ flown' = StopTraj

\* flag_escape_emergency_: cleared by every tick in EMERGENCY_STOP ...
StopHandledMutant == UNCHANGED flag_escape
StopHandled == flag_escape' = FALSE

\* ... and set again only by GEN_NEW_TRAJ.
ReArmStopMutant == UNCHANGED flag_escape
ReArmStop == flag_escape' = TRUE

DisableFailSafeMutant == UNCHANGED fail_safe
DisableFailSafe == fail_safe' = FALSE

\* A new goal outside WAIT_TARGET is to be planned from odometry.
AskPlanFromOdomMutant == exec_state = "EXEC_TRAJ"
AskPlanFromOdom == exec_state # "WAIT_TARGET"

\* The state planNextWaypoint leaves when it does not have to wait.
StateAfterGoalMutant == exec_state
StateAfterGoal == IF exec_state = "EXEC_TRAJ" THEN "REPLAN_TRAJ" ELSE exec_state

\* A new goal drops the cached preview.
DropPreviewMutant == UNCHANGED pending
DropPreview == pending' = None

\* planNextWaypoint returns at once in these states and spins in the others.
ReturnsAtOnce == exec_state \in {"WAIT_TARGET", "EXEC_TRAJ"}

\* planNextWaypoint: a new global trajectory wipes the local one.  Outside
\* WAIT_TARGET the call asks for a plan from odometry and, unless a trajectory
\* is being executed, does not return before one is: it spins the queue.
PlanNextWaypoint(g) ==
  /\ final_goal' = g
  /\ have_target' = TRUE
  /\ WipeLocalTraj
  /\ DropPreview
  /\ replan_from_odom' = AskPlanFromOdom
  /\ exec_state' = StateAfterGoal
  /\ nest' = IF ReturnsAtOnce THEN nest ELSE nest + 1
  /\ UNCHANGED <<local_target_pt, flown>>

-----------------------------------------------------------------------------
(* execFSMCallback, one action per case of its switch.  While a nested     *)
(* planNextWaypoint waits for EXEC_TRAJ it looks at the state after every  *)
(* spinOnce, and one spinOnce runs the exec timer at most once: no exec    *)
(* tick finds EXEC_TRAJ with a loop still waiting.                         *)

ExecInit ==
  /\ exec_state = "INIT"
  /\ have_odom
  /\ ChangeFSMExecState("WAIT_TARGET")
  /\ UNCHANGED <<nodeVars, nest, goalVars, trajVars, stopVars, swarmVars>>

ExecWaitTarget ==
  /\ exec_state = "WAIT_TARGET"
  /\ TargetReady
  /\ ChangeFSMExecState("SEQUENTIAL_START")
  /\ UNCHANGED <<nodeVars, nest, goalVars, trajVars, stopVars, swarmVars>>

ExecSequentialStart ==
  /\ exec_state = "SEQUENTIAL_START"
  /\ MayStart
  /\ \/ PlanSucceeds /\ exec_state' = "EXEC_TRAJ"
     \/ PlanFails /\ UNCHANGED exec_state
  /\ UNCHANGED <<nodeVars, nest, goalVars, replan_from_odom, stopVars, swarmVars>>

ExecGenNewTraj ==
  /\ exec_state = "GEN_NEW_TRAJ"
  /\ \/ PlanSucceeds /\ exec_state' = "EXEC_TRAJ" /\ ReArmStop
     \/ PlanFails /\ UNCHANGED <<exec_state, flag_escape>>
  /\ UNCHANGED <<nodeVars, nest, goalVars, replan_from_odom, fail_safe,
                 mandatory_stop, swarmVars>>

\* planFromGlobalTraj when a new target asked for it, planFromLocalTraj (from a
\* sample of the current local trajectory) otherwise.
ExecReplanTraj ==
  /\ exec_state = "REPLAN_TRAJ"
  /\ \/ PlanSucceeds /\ exec_state' = "EXEC_TRAJ" /\ replan_from_odom' = FALSE
     \/ PlanFails /\ UNCHANGED <<exec_state, replan_from_odom>>
  /\ UNCHANGED <<nodeVars, nest, goalVars, stopVars, swarmVars>>

\* mondifyInCollisionFinalGoal: the goal lies in an obstacle, the last free
\* point of the global trajectory becomes the goal.  The rest of the tick finds
\* the local trajectory wiped and only confirms REPLAN_TRAJ.
ExecModifyGoal ==
  /\ exec_state = "EXEC_TRAJ" /\ nest = 0
  /\ \E g \in Goals : PlanNextWaypoint(g)
  /\ UNCHANGED <<nodeVars, have_trigger, wpt_id, stopVars, swarmVars>>

\* PRESET_TARGET, close to a waypoint that is not the last: aim at the next.
ExecNextWaypoint ==
  /\ exec_state = "EXEC_TRAJ" /\ nest = 0
  /\ wpt_id \in 1 .. Len(Waypoints) - 1
  /\ wpt_id' = wpt_id + 1
  /\ PlanNextWaypoint(Waypoints[wpt_id + 1])
  /\ UNCHANGED <<nodeVars, have_trigger, stopVars, swarmVars>>

\* The goal is reached: stop, and with a preset route reload its first waypoint
\* and wait for the next trigger.
ExecArrived ==
  /\ exec_state = "EXEC_TRAJ" /\ nest = 0
  /\ TouchTheGoal
  /\ have_trigger' = FALSE
  /\ IF TargetType = "PRESET_TARGET"
       THEN /\ wpt_id' = 1
            /\ final_goal' = Waypoints[1]
            /\ have_target' = TRUE
            /\ WipeLocalTraj
       ELSE /\ have_target' = FALSE
            /\ UNCHANGED <<wpt_id, final_goal, local_traj>>
  /\ ChangeFSMExecState("WAIT_TARGET")
  /\ UNCHANGED <<nodeVars, nest, local_target_pt, flown, stopVars, swarmVars>>

\* evaluateStateToStateDecision on a valid trajectory and what the tick does
\* with it: a mandatory stop first, else (when the replan interval has passed)
\* an immediate replan or a successor with the previewed target cached.
ExecDecide ==
  /\ exec_state = "EXEC_TRAJ" /\ nest = 0
  /\ IF mandatory_stop /\ local_traj # None
       THEN ChangeFSMExecState("EMERGENCY_STOP")
       ELSE /\ exec_state' = "REPLAN_TRAJ"
            /\ \/ pending' = None
               \/ /\ local_target_pt[2] # "end"
                  /\ pending' \in {final_goal} \X {"mid", "end"}
            /\ UNCHANGED replan_from_odom
  /\ UNCHANGED <<nodeVars, nest, goalVars, trajVars, stopVars, swarmVars>>

\* First tick in EMERGENCY_STOP: publish the stop trajectory.
ExecCallEmergencyStop ==
  /\ exec_state = "EMERGENCY_STOP"
  /\ flag_escape
  /\ StopHandled
  /\ PublishStop
  /\ ResetPlannedTaskTargets
  /\ UNCHANGED <<exec_state, nodeVars, nest, goalVars, local_target_pt, fail_safe,
                 mandatory_stop, swarmVars>>

\* Later ticks: once the drone is slow, the fail safe plans again.
ExecEscapeEmergency ==
  /\ exec_state = "EMERGENCY_STOP"
  /\ ~flag_escape
  /\ fail_safe
  /\ ChangeFSMExecState("GEN_NEW_TRAJ")
  /\ UNCHANGED <<nodeVars, nest, goalVars, trajVars, stopVars, swarmVars>>

-----------------------------------------------------------------------------
(* checkCollisionCallback: nothing is checked outside EXEC_TRAJ.           *)

SafetyGuard == exec_state = "EXEC_TRAJ" /\ local_traj # None

SafetyDepthLost ==
  /\ SafetyGuard
  /\ DisableFailSafe
  /\ ChangeFSMExecState("EMERGENCY_STOP")
  /\ UNCHANGED <<nodeVars, nest, goalVars, trajVars, flag_escape, mandatory_stop, swarmVars>>

\* A sample of the trajectory is unsafe and a replan is not throttled: replan
\* at once; if that fails, stop when the collision is near and retry otherwise.
SafetyUnsafeSample ==
  /\ SafetyGuard
  /\ \/ PlanSucceeds /\ UNCHANGED <<exec_state, replan_from_odom>>
     \/ PlanFails /\ exec_state' = "EMERGENCY_STOP" /\ replan_from_odom' = FALSE
     \/ PlanFails /\ exec_state' = "REPLAN_TRAJ" /\ UNCHANGED replan_from_odom
  /\ UNCHANGED <<nodeVars, nest, goalVars, stopVars, swarmVars>>

-----------------------------------------------------------------------------
(* Subscriber callbacks.                                                   *)

OdometryCallback ==
  /\ ~have_odom
  /\ have_odom' = TRUE
  /\ UNCHANGED <<launch, exec_state, nest, goalVars, trajVars, cacheVars, stopVars, swarmVars>>

TriggerCallback ==
  /\ TargetType = "PRESET_TARGET"
  /\ have_trigger' = TRUE
  /\ UNCHANGED <<exec_state, nodeVars, nest, have_target, final_goal, wpt_id, trajVars,
                 cacheVars, stopVars, swarmVars>>

\* have_trigger_ is only set when planNextWaypoint returns.
TriggerOnReturnMutant == UNCHANGED have_trigger
TriggerOnReturn == have_trigger' = (have_trigger \/ nest' = nest)

WaypointCallback(g) ==
  /\ TargetType = "MANUAL_TARGET"
  /\ ReturnsAtOnce \/ nest < MaxNest
  /\ PlanNextWaypoint(g)
  /\ TriggerOnReturn
  /\ UNCHANGED <<nodeVars, wpt_id, stopVars, swarmVars>>

\* init, two seconds after start: the first waypoint of the preset route.
ReadGivenWpsAndPlan ==
  /\ TargetType = "PRESET_TARGET"
  /\ wpt_id = 0
  /\ ReturnsAtOnce \/ nest < MaxNest
  /\ wpt_id' = 1
  /\ PlanNextWaypoint(Waypoints[1])
  /\ UNCHANGED <<nodeVars, have_trigger, stopVars, swarmVars>>

LoopWaits == nest > 0

\* The innermost nested loop sees EXEC_TRAJ, asks for a replan and returns.
LeaveNestedSpin ==
  /\ LoopWaits
  /\ exec_state = "EXEC_TRAJ"
  /\ nest' = nest - 1
  /\ ChangeFSMExecState("REPLAN_TRAJ")
  /\ have_trigger' = (have_trigger \/ TargetType = "MANUAL_TARGET")
  /\ UNCHANGED <<nodeVars, have_target, final_goal, wpt_id, trajVars, stopVars, swarmVars>>

MandatoryStopCallback ==
  /\ mandatory_stop' = TRUE
  /\ DisableFailSafe
  /\ ChangeFSMExecState("EMERGENCY_STOP")
  /\ UNCHANGED <<nodeVars, nest, goalVars, trajVars, flag_escape, swarmVars>>

\* have_recv_pre_agent_: the loop over the lower ids sets the flag at the first
\* id it finds, so drone 0 is all it asks for once the table is long enough.
RecvPreAgent ==
  have_recv_pre_agent' = (have_recv_pre_agent \/
                          (DroneId > 0 /\ swarm_size' >= DroneId /\ 0 \in swarm_traj'))

GrowSwarmTraj(i) == swarm_size' = IF i < swarm_size THEN swarm_size ELSE i + 1

\* A trajectory that passes near this drone, or any while the predecessors are
\* unknown, is stored; a conflict with the local one asks for a replan whatever
\* the state.  The conflict window is empty when the local one was wiped.
RecvTrajStored(i) ==
  /\ swarm_traj' = swarm_traj \cup {i}
  /\ GrowSwarmTraj(i)
  /\ RecvPreAgent
  /\ \/ UNCHANGED <<exec_state, pulled>>
     \/ /\ local_traj # None
        /\ exec_state' = "REPLAN_TRAJ"
        /\ pulled' = pulled \cup ({exec_state} \ {"EXEC_TRAJ", "REPLAN_TRAJ"})
  /\ UNCHANGED <<nodeVars, nest, goalVars, trajVars, cacheVars, stopVars>>

\* A trajectory that stays far away is forgotten.
RecvTrajFarAway(i) ==
  /\ have_recv_pre_agent
  /\ swarm_traj' = swarm_traj \ {i}
  /\ GrowSwarmTraj(i)
  /\ UNCHANGED <<exec_state, nodeVars, nest, goalVars, trajVars, cacheVars, stopVars,
                 have_recv_pre_agent, pulled>>

-----------------------------------------------------------------------------
ExecTimer ==
  \/ ExecInit \/ ExecWaitTarget \/ ExecSequentialStart \/ ExecGenNewTraj
  \/ ExecReplanTraj \/ ExecModifyGoal \/ ExecNextWaypoint \/ ExecArrived
  \/ ExecDecide \/ ExecCallEmergencyStop \/ ExecEscapeEmergency

SafetyTimer == SafetyDepthLost \/ SafetyUnsafeSample

RecvBroadcastPolyTraj == \E i \in Others : RecvTrajStored(i) \/ RecvTrajFarAway(i)

Callbacks ==
  \/ OdometryCallback \/ TriggerCallback \/ ReadGivenWpsAndPlan \/ LeaveNestedSpin
  \/ MandatoryStopCallback \/ RecvBroadcastPolyTraj
  \/ \E g \in Goals : WaypointCallback(g)

Next == ExecTimer \/ SafetyTimer \/ Callbacks

Spec == Init /\ [][Next]_vars

\* The exec timer and the nested loops run for ever on the spinning thread.
\* PlanProgress and StopProgress are assumptions about the world: a solver that
\* is tried again and again succeeds at some time, a stopped drone gets slow.
TimerProgress == WF_vars(ExecInit) /\ WF_vars(ExecWaitTarget) /\ WF_vars(ExecCallEmergencyStop)
                 /\ WF_vars(LeaveNestedSpin) /\ WF_vars(OdometryCallback)
PlanProgress == SF_vars(exec_state' = "EXEC_TRAJ" /\
                        (ExecSequentialStart \/ ExecGenNewTraj \/ ExecReplanTraj))
StopProgress == WF_vars(ExecEscapeEmergency)

FairSpec == Spec /\ TimerProgress /\ PlanProgress /\ StopProgress

-----------------------------------------------------------------------------
(* Properties.                                                             *)

\* Every variable keeps the type its C++ member has.
TypeOK ==
  /\ launch \in Launches
  /\ exec_state \in States
  /\ have_odom \in BOOLEAN /\ have_target \in BOOLEAN /\ have_trigger \in BOOLEAN
  /\ final_goal \in Goals \cup {NoGoal}
  /\ local_target_pt \in Points
  /\ local_traj \in Points \cup {None, StopTraj}
  /\ flown \in Points \cup {None, StopTraj}
  /\ pending \in Points \cup {None}
  /\ replan_from_odom \in BOOLEAN
  /\ flag_escape \in BOOLEAN /\ fail_safe \in BOOLEAN /\ mandatory_stop \in BOOLEAN
  /\ swarm_traj \subseteq Others
  /\ swarm_size \in Nat
  /\ have_recv_pre_agent \in BOOLEAN
  /\ wpt_id \in 0 .. Len(Waypoints)
  /\ nest \in Nat
  /\ pulled \subseteq States

\* While EXEC_TRAJ monitors local_traj, the drone flies exactly that trajectory
\* and it leads to the current goal: no goal, swarm message or emergency that
\* interleaves with planning leaves EXEC_TRAJ watching something else.
ExecFliesCurrentGoal ==
  exec_state = "EXEC_TRAJ" =>
    /\ local_traj \in {final_goal} \X {"mid", "end"}
    /\ flown = local_traj
    /\ local_target_pt = local_traj

\* planFromLocalTraj never samples a trajectory that setGlobalTraj has wiped:
\* whoever enters REPLAN_TRAJ without a local trajectory asked for a plan from
\* odometry, and no reset in between forgets it.
ReplanHasStart ==
  exec_state = "REPLAN_TRAJ" => replan_from_odom \/ local_traj # None

\* A cached preview target is used by the replan it was made for or dropped:
\* it never outlives a change of goal.
PreviewIsCurrent ==
  pending # None => exec_state = "REPLAN_TRAJ" /\ pending[1] = final_goal

\* The planner's idea of the trajectory in flight is what was last published,
\* unless it has none.
LocalIsPublished == local_traj # None => flown = local_traj

\* SEQUENTIAL_START runs with no local trajectory: no swarm message can pull
\* the drone out of the sequential start before its first plan.
StartIsUndisturbed ==
  /\ exec_state \in {"INIT", "SEQUENTIAL_START"} => local_traj = None
  /\ exec_state = "WAIT_TARGET" /\ have_target => local_traj = None
  /\ pulled \cap {"INIT", "SEQUENTIAL_START"} = {}

\* Once an emergency stop has been handled the drone flies the stop trajectory
\* until the fail safe plans again; the only way round it is a SWARM_CHECK that
\* pulled the FSM out of EMERGENCY_STOP or GEN_NEW_TRAJ at some time, after
\* which flag_escape_emergency_ stays false and no later stop is published.
Escaped == pulled \cap {"EMERGENCY_STOP", "GEN_NEW_TRAJ"} # {}
StopIsFlown ==
  exec_state = "EMERGENCY_STOP" /\ ~flag_escape => flown = StopTraj \/ Escaped

\* After a mandatory stop the FSM stays in EMERGENCY_STOP whatever goals,
\* triggers and odometry arrive, unless a SWARM_CHECK pulls it out.
MandatoryStopIsFinal ==
  mandatory_stop => exec_state = "EMERGENCY_STOP" \/ Escaped

\* A drone with predecessors flies a planned trajectory only after hearing one
\* of them, unless a SWARM_CHECK pulled it out of an emergency stop.
SequentialStart ==
  DroneId > 0 /\ flown \in Points => have_recv_pre_agent \/ Escaped

\* The drone flies on without an accepted target and a trigger (a preset route
\* that ended waits for the next one) only if a SWARM_CHECK pulled it out of
\* WAIT_TARGET or out of an emergency stop.
FliesForATarget ==
  exec_state \in {"SEQUENTIAL_START", "GEN_NEW_TRAJ", "REPLAN_TRAJ", "EXEC_TRAJ"} =>
    (have_target /\ have_trigger) \/ "WAIT_TARGET" \in pulled \/ Escaped

\* A goal that wipes the local trajectory is planned from odometry: the first
\* trajectory published afterwards comes from planFromGlobalTraj, never from a
\* sample of the trajectory that was wiped.
WipedIsReplannedFromOdom ==
  [][local_traj = None /\ local_traj' \in Points =>
       exec_state \in {"SEQUENTIAL_START", "GEN_NEW_TRAJ"} \/
       (exec_state = "REPLAN_TRAJ" /\ replan_from_odom)]_vars

\* Every accepted goal is flown to, replaced by another goal, reached already,
\* or given up for an emergency stop.
GoalIsServed ==
  \A g \in Goals :
    (final_goal = g /\ have_target /\ (have_trigger \/ TargetType = "MANUAL_TARGET")) ~>
      \/ final_goal # g \/ ~have_target \/ exec_state = "EMERGENCY_STOP"
      \/ exec_state = "SEQUENTIAL_START" /\ ~MayStart
      \/ flown \in {g} \X {"mid", "end"}

\* An emergency with the fail safe on ends: the drone plans again or a
\* mandatory stop or lost depth turns the fail safe off.
EmergencyIsEscaped ==
  (exec_state = "EMERGENCY_STOP" /\ fail_safe) ~>
    (~fail_safe \/ exec_state \in {"EXEC_TRAJ", "REPLAN_TRAJ", "WAIT_TARGET"})

=============================================================================
