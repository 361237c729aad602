------------------------------ MODULE TaskStage ------------------------------
(***************************************************************************)
(* EGOReplanFSM (plan_manage/src/ego_replan_fsm.cpp) launched to track a   *)
(* target, to perch on a plate, or to track the plate and perch on it: the *)
(* execution states of ReplanFSM and, across them, the runtime stage of    *)
(* the task, the terminal frozen for the last metres, the contact hold and *)
(* the lock that keeps the plate still.                                    *)
(*                                                                         *)
(* Abstractions.  A terminal is where and how a trajectory meets the plate *)
(* as it was predicted once, a model value; the live provider can build    *)
(* any.  A trajectory is the terminal it leads to.  Positions, speeds, the *)
(* gates on them, clocks and the optimiser are choices of the step that    *)
(* reads them.  perching_round_active_ is read in WAIT_TARGET alone, which *)
(* every entry clears it for, and active_perching_terminal_ is the         *)
(* terminal last planned for: neither is a variable.  Of the age of the    *)
(* frozen terminal only this is kept: whether the time it was predicted    *)
(* for has passed, after which a replan in the commit moves the plate, and *)
(* the terminal with it, along the plate's velocity.                       *)
(*                                                                         *)
(* TaskInit, TaskNext and so on have their prefix because the theorems are *)
(* in one module with those of CommandStream.                              *)
(***************************************************************************)
CONSTANTS
  Terminals,  \* what the perching target provider can build
  Later,      \* Later[t]: where t may be led on by the plate's velocity
  Nothing,    \* no terminal, no trajectory
  Track,      \* a trajectory that follows the tracking reference
  Stop,       \* the stop trajectory
  Launches    \* the sets of parameters the planner may be launched with

ASSUME LaunchesOK ==
  /\ Launches \subseteq [tracking : BOOLEAN, perching : BOOLEAN, auto_start : BOOLEAN]
  /\ \A l \in Launches : l.tracking \/ l.perching

ASSUME LaterOK == Later \in [Terminals -> SUBSET Terminals]

ASSUME ValuesDistinct ==
  /\ {Nothing, Track, Stop} \cap Terminals = {}
  /\ Nothing # Track /\ Nothing # Stop /\ Track # Stop

VARIABLES
  launch,       \* use_tracking_task_, use_perching_task_, perching_auto_start_
  exec_state,   \* exec_state_
  stage,        \* task_runtime_stage_
  frozen,       \* frozen_perching_terminal_, Nothing while have_frozen_... is false
  latched,      \* perching_contact_latched_
  late,         \* more than prediction_time has passed since frozen_perching_wall_time_
  triggered,    \* perching_triggered_
  lock,         \* the last message on perching_lock_pub_
  flown,        \* the trajectory last published
  touches,      \* local_target_pt_ is final_goal_
  have_ref,     \* have_tracking_ref_
  have_plate,   \* have_perching_target_odom_
  flag_escape,  \* flag_escape_emergency_
  fail_safe,    \* enable_fail_safe_
  left          \* history: since the last contact the hold was not made, left on a
                \* trigger, or broken off by a stop or a SWARM_CHECK

holdVars  == <<frozen, latched, late>>
stopVars  == <<flag_escape, fail_safe>>
inputVars == <<launch, have_ref, have_plate>>
taskVars == <<exec_state, stage, holdVars, triggered, lock, flown, touches, inputVars,
              stopVars, left>>

States == {"INIT", "WAIT_TARGET", "GEN_NEW_TRAJ", "REPLAN_TRAJ", "EXEC_TRAJ",
           "EMERGENCY_STOP", "SEQUENTIAL_START"}
Stages == {"TRACKING_FOLLOW", "PERCHING_APPROACH", "PERCHING_COMMIT", "PERCHING_CONTACT"}

Integrated == launch.tracking /\ launch.perching
Standalone == launch.perching /\ ~launch.tracking

\* initialTaskRuntimeStage, and the unlock message init publishes.
TaskInit ==
  /\ launch \in Launches
  /\ exec_state = "INIT"
  /\ stage = IF Standalone THEN "PERCHING_COMMIT" ELSE "TRACKING_FOLLOW"
  /\ frozen = Nothing /\ latched = FALSE /\ late = FALSE /\ triggered = FALSE /\ lock = FALSE
  /\ flown = Nothing /\ touches = FALSE
  /\ have_ref = FALSE /\ have_plate = FALSE
  /\ flag_escape = TRUE /\ fail_safe \in BOOLEAN
  /\ left = FALSE

-----------------------------------------------------------------------------
(* Helpers every handler is built from.                                    *)

ResetPlannedTaskTargets == frozen' = Nothing /\ latched' = FALSE /\ late' = FALSE

\* Entering WAIT_TARGET or EMERGENCY_STOP forgets the round, but not its stage; a
\* contact that was latched on a frozen terminal survives into WAIT_TARGET, without
\* the time it was frozen at.
HoldSurvivesMutant(s) == FALSE
HoldSurvives(s) ==
  s = "WAIT_TARGET" /\ stage' = "PERCHING_CONTACT" /\ frozen # Nothing

ChangeFSMExecState(s, latch) ==
  /\ exec_state' = s
  /\ IF s \in {"WAIT_TARGET", "EMERGENCY_STOP"} /\ ~(latch /\ HoldSurvives(s))
       THEN ResetPlannedTaskTargets
       ELSE frozen' = frozen /\ latched' = latch /\ late' = (late /\ s # "WAIT_TARGET")

\* The frozen terminal as a replan takes it: its age comes off prediction_time, and
\* when nothing is left of that, the plate is moved on, and the terminal with it.
Aged == IF late THEN Later[frozen] ELSE {frozen}

\* What callCurrentTaskPlan aims at: the frozen terminal in PERCHING_COMMIT, what
\* the provider builds in every other perching stage, PERCHING_CONTACT included.
PlanTargets ==
  IF stage = "TRACKING_FOLLOW" THEN {t \in {Track} : have_ref}
  ELSE IF stage = "PERCHING_COMMIT" /\ frozen # Nothing THEN Aged
  ELSE {t \in Terminals : have_plate}

\* The first success of a standalone commit, or of one that a stop interrupted, has
\* no frozen terminal yet and freezes its own.
FreezeFallbackMutant(t) == frozen
FreezeFallback(t) == IF stage = "PERCHING_COMMIT" /\ frozen = Nothing THEN t ELSE frozen

\* An attempt that gets a target sets the local target, also if it fails.
TargetsMove == touches' \in (IF stage = "TRACKING_FOLLOW" THEN BOOLEAN ELSE {touches, FALSE})

\* A successful attempt is published.  A perching one consumes the trigger, and its
\* local target is the approach anchor, never the goal.
PlanSucceeds ==
  \E t \in PlanTargets :
    /\ flown' = t
    /\ IF stage = "TRACKING_FOLLOW"
         THEN /\ touches' \in BOOLEAN
              /\ UNCHANGED <<holdVars, triggered>>
         ELSE /\ frozen' = FreezeFallback(t)
              /\ late' = (late /\ frozen # Nothing)
              /\ latched' = FALSE /\ triggered' = FALSE /\ touches' = FALSE

PlanFails ==
  /\ TargetsMove
  /\ UNCHANGED <<flown, holdVars, triggered>>

-----------------------------------------------------------------------------
(* execFSMCallback, one action per case of its switch.                     *)

ExecInit ==
  /\ exec_state = "INIT"
  /\ UNCHANGED stage
  /\ ChangeFSMExecState("WAIT_TARGET", latched)
  /\ UNCHANGED <<triggered, lock, flown, touches, inputVars, stopVars, left>>

\* shouldReleasePerchingContactHold: a latched contact waits for a trigger.
MayRelease == ~latched \/ triggered

\* With a tracking task: a contact hold is released into tracking (and may find the
\* target at rest); any other stage leaves as soon as the target moves.
ExecWaitTracking ==
  /\ exec_state = "WAIT_TARGET" /\ launch.tracking /\ have_ref
  /\ IF stage = "PERCHING_CONTACT"
       THEN /\ MayRelease
            /\ stage' = "TRACKING_FOLLOW"
            /\ frozen' = Nothing /\ late' = FALSE
            /\ left' = (left \/ triggered)
            /\ exec_state' \in {"WAIT_TARGET", "SEQUENTIAL_START"}
       ELSE /\ exec_state' = "SEQUENTIAL_START"
            /\ UNCHANGED <<stage, frozen, late, left>>
  /\ UNCHANGED <<latched, triggered, lock, flown, touches, inputVars, stopVars>>

\* Perching alone looks neither at the stage nor at the latch.
ExecWaitPerching ==
  /\ exec_state = "WAIT_TARGET" /\ Standalone
  /\ have_plate
  /\ launch.auto_start \/ triggered
  /\ exec_state' = "SEQUENTIAL_START"
  /\ left' = (left \/ triggered)
  /\ UNCHANGED <<stage, holdVars, triggered, lock, flown, touches, inputVars, stopVars>>

\* SEQUENTIAL_START, GEN_NEW_TRAJ and REPLAN_TRAJ.
ExecPlan ==
  /\ exec_state \in {"SEQUENTIAL_START", "GEN_NEW_TRAJ", "REPLAN_TRAJ"}
  /\ \/ /\ PlanSucceeds
        /\ exec_state' = "EXEC_TRAJ"
        /\ flag_escape' = (flag_escape \/ exec_state = "GEN_NEW_TRAJ")
     \/ PlanFails /\ UNCHANGED <<exec_state, flag_escape>>
  /\ UNCHANGED <<stage, lock, inputVars, fail_safe, left>>

\* EXEC_TRAJ while tracking: settle near a target at rest, or replan.
ExecTrack ==
  /\ exec_state = "EXEC_TRAJ" /\ stage = "TRACKING_FOLLOW"
  /\ UNCHANGED stage
  /\ \E s \in {"WAIT_TARGET", "REPLAN_TRAJ"} : ChangeFSMExecState(s, latched)
  /\ UNCHANGED <<triggered, lock, flown, touches, inputVars, stopVars, left>>

\* The gate to the approach is open; no trigger is asked for.
GateOpens == Integrated /\ have_ref /\ have_plate

\* The approach is planned before anything is flown in its stage.
EntryStateMutant == "EXEC_TRAJ"
EntryState == "REPLAN_TRAJ"
ExecEnterApproach ==
  /\ exec_state = "EXEC_TRAJ" /\ stage = "TRACKING_FOLLOW"
  /\ GateOpens
  /\ stage' = "PERCHING_APPROACH"
  /\ exec_state' = EntryState
  /\ ResetPlannedTaskTargets
  /\ UNCHANGED <<triggered, lock, flown, touches, inputVars, stopVars, left>>

PerchingRuntime == exec_state = "EXEC_TRAJ" /\ stage # "TRACKING_FOLLOW"

\* The end of the trajectory, after a tracking reference has moved local target and
\* goal together: the round ends like a flight to a goal, before contact is tested.
ExecArrived ==
  /\ PerchingRuntime /\ touches
  /\ UNCHANGED stage
  /\ ChangeFSMExecState("WAIT_TARGET", latched)
  /\ UNCHANGED <<triggered, lock, flown, touches, inputVars, stopVars, left>>

\* The commit gate is stable or the terminal near: freeze what the provider builds.
ExecEnterCommit ==
  /\ PerchingRuntime /\ stage = "PERCHING_APPROACH"
  /\ frozen' \in Terminals /\ late' = FALSE
  /\ stage' = "PERCHING_COMMIT"
  /\ exec_state' = "REPLAN_TRAJ"
  /\ UNCHANGED <<latched, triggered, lock, flown, touches, inputVars, stopVars, left>>

\* The frozen terminal (without one, the terminal planned for) is reached.  It is
\* tested as it was frozen, although a late replan has led the drone further.
ExecContact ==
  /\ PerchingRuntime /\ stage \in {"PERCHING_COMMIT", "PERCHING_CONTACT"}
  /\ stage' = "PERCHING_CONTACT"
  /\ lock' = TRUE
  /\ left' = (frozen = Nothing)
  /\ ChangeFSMExecState("WAIT_TARGET", TRUE)
  /\ UNCHANGED <<triggered, flown, touches, inputVars, stopVars>>

\* A successor during the approach, a safety replan in every perching stage.
ExecReplanPerching ==
  /\ PerchingRuntime
  /\ exec_state' = "REPLAN_TRAJ"
  /\ UNCHANGED <<stage, holdVars, triggered, lock, flown, touches, inputVars, stopVars, left>>

ExecCallEmergencyStop ==
  /\ exec_state = "EMERGENCY_STOP" /\ flag_escape
  /\ ResetPlannedTaskTargets
  /\ flown' = Stop
  /\ flag_escape' = FALSE
  /\ UNCHANGED <<exec_state, stage, triggered, lock, touches, inputVars, fail_safe, left>>

ExecEscapeEmergency ==
  /\ exec_state = "EMERGENCY_STOP" /\ ~flag_escape /\ fail_safe
  /\ exec_state' = "GEN_NEW_TRAJ"
  /\ UNCHANGED <<stage, holdVars, triggered, lock, flown, touches, inputVars, stopVars, left>>

-----------------------------------------------------------------------------
(* The safety timer and the subscriber callbacks.                          *)

SafetyDepthLost ==
  /\ exec_state = "EXEC_TRAJ"
  /\ UNCHANGED stage
  /\ ChangeFSMExecState("EMERGENCY_STOP", latched)
  /\ fail_safe' = FALSE
  /\ UNCHANGED <<triggered, lock, flown, touches, inputVars, flag_escape, left>>

\* Replan at once; if that fails, stop when the collision is near.
SafetyUnsafeSample ==
  /\ exec_state = "EXEC_TRAJ"
  /\ UNCHANGED stage
  /\ \/ PlanSucceeds /\ UNCHANGED exec_state
     \/ PlanFails /\ exec_state' = "REPLAN_TRAJ"
     \/ /\ TargetsMove /\ UNCHANGED <<flown, triggered>>
        /\ ChangeFSMExecState("EMERGENCY_STOP", latched)
  /\ UNCHANGED <<lock, inputVars, stopVars, left>>

PerchingTargetOdomCallback ==
  /\ launch.perching /\ ~have_plate
  /\ have_plate' = TRUE
  /\ UNCHANGED <<exec_state, stage, holdVars, triggered, lock, flown, touches, launch,
                 have_ref, stopVars, left>>

\* Also in a perching stage: local target and goal become the target's position.
TrackingReferenceCallback ==
  /\ launch.tracking
  /\ have_ref' = TRUE /\ touches' = TRUE
  /\ UNCHANGED <<exec_state, stage, holdVars, triggered, lock, flown, launch, have_plate,
                 stopVars, left>>

\* Every trigger unlocks the plate, whatever the drone is doing.
PerchingTriggerCallback ==
  /\ launch.perching
  /\ lock' = FALSE
  /\ latched' = FALSE /\ triggered' = TRUE
  /\ UNCHANGED <<exec_state, stage, frozen, late, flown, touches, inputVars, stopVars, left>>

MandatoryStopCallback ==
  /\ UNCHANGED stage
  /\ ChangeFSMExecState("EMERGENCY_STOP", latched)
  /\ fail_safe' = FALSE
  /\ left' = TRUE
  /\ UNCHANGED <<triggered, lock, flown, touches, inputVars, flag_escape>>

\* Another drone's trajectory conflicts with the one flown.
RecvBroadcastPolyTraj ==
  /\ flown # Nothing
  /\ exec_state' = "REPLAN_TRAJ"
  /\ left' = TRUE
  /\ UNCHANGED <<stage, holdVars, triggered, lock, flown, touches, inputVars, stopVars>>

\* The clock passes the time the frozen terminal was predicted for.
PredictionPasses ==
  /\ stage = "PERCHING_COMMIT" /\ frozen # Nothing /\ ~late
  /\ late' = TRUE
  /\ UNCHANGED <<exec_state, stage, frozen, latched, triggered, lock, flown, touches, inputVars,
                 stopVars, left>>

-----------------------------------------------------------------------------
ExecTimer ==
  \/ ExecInit \/ ExecWaitTracking \/ ExecWaitPerching \/ ExecPlan \/ ExecTrack
  \/ ExecEnterApproach \/ ExecArrived \/ ExecEnterCommit \/ ExecContact
  \/ ExecReplanPerching \/ ExecCallEmergencyStop \/ ExecEscapeEmergency

SafetyTimer == SafetyDepthLost \/ SafetyUnsafeSample

Callbacks ==
  \/ PerchingTargetOdomCallback \/ TrackingReferenceCallback \/ PerchingTriggerCallback
  \/ MandatoryStopCallback \/ RecvBroadcastPolyTraj

TaskNext == ExecTimer \/ SafetyTimer \/ Callbacks \/ PredictionPasses

TaskSpec == TaskInit /\ [][TaskNext]_taskVars

-----------------------------------------------------------------------------
(* Properties.                                                             *)

\* Every variable keeps the type its C++ member has, and a stage belongs to a task
\* the planner was launched for.
TaskTypeOK ==
  /\ launch \in Launches
  /\ exec_state \in States /\ stage \in Stages
  /\ stage = "TRACKING_FOLLOW" => launch.tracking
  /\ stage # "TRACKING_FOLLOW" => launch.perching
  /\ stage = "PERCHING_APPROACH" => Integrated
  /\ frozen \in Terminals \cup {Nothing}
  /\ flown \in Terminals \cup {Nothing, Track, Stop}
  /\ late \in BOOLEAN /\ (late => frozen # Nothing)
  /\ latched \in BOOLEAN /\ triggered \in BOOLEAN /\ lock \in BOOLEAN /\ touches \in BOOLEAN
  /\ have_ref \in BOOLEAN /\ have_plate \in BOOLEAN
  /\ flag_escape \in BOOLEAN /\ fail_safe \in BOOLEAN /\ left \in BOOLEAN

\* In the last metres the drone flies to the terminal that was frozen, whoever
\* replans (the exec timer, the safety timer, an emergency stop that was escaped), and
\* to nothing the provider built since.  Once the time it was predicted for has passed
\* it may be led on along the plate's velocity; contact is still tested at the place
\* that was frozen, so that until then it is tested where the drone is led.
CommitFliesFrozen ==
  exec_state = "EXEC_TRAJ" /\ stage = "PERCHING_COMMIT" =>
    frozen # Nothing /\ (flown = frozen \/ (late /\ flown \in Later[frozen]))

\* A trajectory that is executed belongs to the stage: no tracking trajectory is
\* taken for an approach, and no perching trajectory is followed as tracking.  A
\* frozen terminal belongs to the round that froze it.
FliesForItsStage ==
  /\ exec_state = "EXEC_TRAJ" =>
       IF stage = "TRACKING_FOLLOW" THEN flown = Track ELSE flown \in Terminals
  /\ frozen # Nothing => stage \in {"PERCHING_COMMIT", "PERCHING_CONTACT"}

\* The drone waits on the plate with the terminal it has reached kept for the hold.
Perched ==
  exec_state = "WAIT_TARGET" /\ stage = "PERCHING_CONTACT" /\ latched /\ frozen # Nothing

\* While the plate is locked the drone is perched on it, unless it left on a trigger
\* queued before the contact, or was stopped or pulled out by another drone.  A
\* planner launched to perch alone and to start by itself does not hold at all.
HeldWhileLocked == lock => Perched \/ left \/ (Standalone /\ launch.auto_start)

=============================================================================
