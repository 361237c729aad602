---------------------------- MODULE CommandStream ----------------------------
(***************************************************************************)
(* Who commands the drone: traj_server samples the planner's trajectories  *)
(* into /position_cmd as long as the planner's heartbeat lasts, and        *)
(* manual_take_over publishes to the same topic once the pilot of the      *)
(* ground station has stopped the planner and the planner's commands have  *)
(* ceased.  px4_controller follows whatever came last, while it is fresh.  *)
(*                                                                         *)
(* Abstractions.  A command is who published it and the pose it commands,  *)
(* up to what the sticks added.  A trajectory is the pose it is about and  *)
(* how long it still lasts.  Time passes in ticks of a common length; the  *)
(* 100 Hz timer of traj_server and the loop of manual_take_over run, and   *)
(* trajectories arrive, before the next tick.  Heartbeats may be late.     *)
(***************************************************************************)
EXTENDS Integers

CONSTANTS
  Poses,             \* what trajectories can be about
  Origin,            \* last_pos_ and cur_drone_pos before any command: all zero
  NoPose,            \* no pose
  HeartbeatTimeout,  \* traj_server/heartbeat_timeout, in ticks
  SilenceTimeout,    \* TIME_OUT of manual_take_over
  CmdTimeout,        \* msg_timeout.cmd of px4_controller
  Durations          \* how long trajectories last, the stop trajectory too

ASSUME StreamAssumption ==
  /\ Origin \notin Poses /\ NoPose \notin Poses \cup {Origin}
  /\ {HeartbeatTimeout, SilenceTimeout, CmdTimeout} \subseteq Nat \ {0}
  /\ Durations \subseteq Nat \ {0} /\ \E d \in Durations : \A e \in Durations : e <= d

VARIABLES
  planner,        \* the planner's process: "runs", "hangs" (its FSM) or "dead"
  stopped,        \* mandatory_stop_ of the planner
  pulled,         \* SWARM_CHECK took the stopped planner out of EMERGENCY_STOP
  stop_msg,       \* a mandatory stop on its way to the planner
  mail,           \* a trajectory on its way to traj_server, [pose, left] or None
  heartbeat_age,  \* time since heartbeat_time_; Never before the first
  receive_traj,   \* receive_traj_
  traj,           \* the trajectory traj_server samples, [pose, left]
  last_pos,       \* last_pos_
  cmd,            \* the last command published, [by, pose]
  cmd_age,        \* time since then
  station,        \* flag_mandatory_stoped_ of the ground station
  joy,            \* joystick messages queued for the take-over loop
  heard,          \* commands of traj_server queued for the take-over loop
  stoped,         \* flag_mandatory_stoped_
  recv_cmd_age,   \* time since recv_cmd_time_; Never while flag_recv_cmd_ is false
  stop_cmds,      \* flag_planner_stop_cmds_
  cur_pos,        \* cur_drone_pos, up to commands of the joystick itself
  last_cmd,       \* the static last_cmd, NoPose while have_last_cmd is false
  due,            \* what still has to run before the next tick
  gone_for,       \* history: time since the planner's FSM stopped running
  dead_for,       \* history: time since the planner died
  overlap,        \* history: turns of the take-over loop in which both commanded
  rival           \* history: traj_server commanded after the joystick had

None == [pose |-> NoPose, left |-> 0]
Never == -1

plannerVars == <<planner, stopped, pulled, stop_msg, mail>>
serverVars  == <<heartbeat_age, receive_traj, traj, last_pos>>
cmdVars     == <<cmd, cmd_age>>
joyVars     == <<station, joy, heard, stoped, recv_cmd_age, stop_cmds, cur_pos, last_cmd>>
history     == <<gone_for, dead_for, overlap, rival>>
vars == <<plannerVars, serverVars, cmdVars, joyVars, due, history>>

Jobs == {"timer", "loop"}

Init ==
  /\ planner = "runs" /\ stopped = FALSE /\ pulled = FALSE /\ stop_msg = FALSE /\ mail = None
  /\ heartbeat_age = Never /\ receive_traj = FALSE /\ traj = None /\ last_pos = Origin
  /\ cmd = [by |-> "nobody", pose |-> NoPose] /\ cmd_age = 0
  /\ station = FALSE /\ joy = "none" /\ heard = FALSE
  /\ stoped = FALSE /\ recv_cmd_age = Never /\ stop_cmds = FALSE
  /\ cur_pos = Origin /\ last_cmd = NoPose
  /\ due = Jobs
  /\ gone_for = 0 /\ dead_for = 0 /\ overlap = 0 /\ rival = FALSE

-----------------------------------------------------------------------------
(* The planner: its FSM, and the heartbeat thread that does not depend on  *)
(* the FSM.                                                                *)

Trajs == [pose : Poses, left : Durations]

\* A new trajectory, or an emergency stop of the planner's own.  A planner that was
\* pulled out of its stop goes on replanning without hearing of anybody: REPLAN_TRAJ
\* knows no stop, and neither does the runtime of tracking and perching.
PublishTraj ==
  /\ planner = "runs" /\ (stopped => pulled) /\ mail = None
  /\ mail' \in Trajs
  /\ UNCHANGED <<planner, stopped, pulled, stop_msg, serverVars, cmdVars, joyVars, due, history>>

\* Another drone's trajectory pulls the planner out of a mandatory stop (SWARM_CHECK).
SwarmCheck ==
  /\ planner = "runs" /\ stopped /\ ~pulled
  /\ pulled' = TRUE
  /\ UNCHANGED <<planner, stopped, stop_msg, mail, serverVars, cmdVars, joyVars, due, history>>

\* The first tick in EMERGENCY_STOP: nothing is published when an earlier stop was
\* published, or broken off, and flag_escape_emergency_ is still false.
CallEmergencyStop == mail' \in {None} \cup Trajs

\* evaluateStateToStateDecision finds the mandatory stop again, as soon as the planner
\* is in EXEC_TRAJ; only the flight from state to state asks it.
StopsAgain ==
  /\ planner = "runs" /\ pulled /\ mail = None
  /\ pulled' = FALSE
  /\ CallEmergencyStop
  /\ UNCHANGED <<planner, stopped, stop_msg, serverVars, cmdVars, joyVars, due, history>>

\* mandatoryStopCallback and the tick after it; in EMERGENCY_STOP already, that tick
\* does nothing.
StopsMutant == UNCHANGED stopped
Stops == stopped' = TRUE
MandatoryStop ==
  /\ planner = "runs" /\ stop_msg /\ mail = None
  /\ stop_msg' = FALSE
  /\ Stops /\ pulled' = FALSE
  /\ IF stopped /\ ~pulled THEN UNCHANGED mail ELSE CallEmergencyStop
  /\ UNCHANGED <<planner, serverVars, cmdVars, joyVars, due, history>>

Hang ==
  /\ planner = "runs" /\ planner' = "hangs"
  /\ UNCHANGED <<stopped, pulled, stop_msg, mail, serverVars, cmdVars, joyVars, due, history>>

Recover ==
  /\ planner = "hangs" /\ planner' = "runs"
  /\ gone_for' = 0
  /\ UNCHANGED <<stopped, pulled, stop_msg, mail, serverVars, cmdVars, joyVars, due, dead_for,
                 overlap, rival>>

\* What it has not yet delivered may be lost.
Die ==
  /\ planner # "dead" /\ planner' = "dead"
  /\ mail' \in {mail, None} /\ stop_msg' = FALSE
  /\ UNCHANGED <<stopped, pulled, serverVars, cmdVars, joyVars, due, history>>

Beats == {"runs", "hangs"}
Heartbeat ==
  /\ planner \in Beats
  /\ heartbeat_age' = 0
  /\ UNCHANGED <<plannerVars, receive_traj, traj, last_pos, cmdVars, joyVars, due, history>>

-----------------------------------------------------------------------------
(* traj_server.                                                            *)

\* polyTrajCallback and perchingTrajCallback.
TrajCallback ==
  /\ mail # None
  /\ traj' = mail /\ receive_traj' = TRUE
  /\ mail' = None
  /\ UNCHANGED <<planner, stopped, pulled, stop_msg, heartbeat_age, last_pos, cmdVars, joyVars, due,
                 history>>

Lost == heartbeat_age > HeartbeatTimeout

\* The watchdog gives the trajectory up for good.
KeepsTrajMutant == TRUE
KeepsTraj == ~Lost

Samples == traj.left > 0

\* cmdCallback.  In the tick that finds the heartbeat lost the hover command is
\* followed at once by a sample of the trajectory, if that has not ended.
CmdCallback ==
  /\ IF heartbeat_age = Never \/ ~receive_traj \/ (~Lost /\ ~Samples)
       THEN UNCHANGED <<receive_traj, last_pos, cmdVars, heard, rival>>
       ELSE /\ receive_traj' = KeepsTraj
            /\ IF Samples THEN cmd' = [by |-> "traj", pose |-> traj.pose] /\ last_pos' = traj.pose
                          ELSE cmd' = [by |-> "hover", pose |-> last_pos] /\ UNCHANGED last_pos
            /\ cmd_age' = 0
            /\ heard' = TRUE
            /\ rival' = (rival \/ last_cmd # NoPose)
  /\ due' = due \ {"timer"}
  /\ UNCHANGED <<plannerVars, heartbeat_age, traj, station, joy, stoped, recv_cmd_age, stop_cmds,
                 cur_pos, last_cmd, gone_for, dead_for, overlap>>

-----------------------------------------------------------------------------
(* The ground station and manual_take_over.                                *)

\* The station forwards the joystick from the first time one of the four buttons
\* is pressed.
Forwards == station'
Joystick(pressed) ==
  /\ station' = (station \/ pressed)
  /\ joy' = IF ~Forwards THEN joy ELSE IF pressed \/ joy = "pressed" THEN "pressed" ELSE "moved"
  /\ UNCHANGED <<plannerVars, serverVars, cmdVars, heard, stoped, recv_cmd_age, stop_cmds,
                 cur_pos, last_cmd, due, history>>

\* joy_sub_cb moves the drone when the pilot has stopped the planner and the last
\* turn of the loop found its commands missing.
Drives == joy # "none" /\ (stoped \/ joy = "pressed") /\ stop_cmds

\* The pose the sticks move: taken over once, whether the callback of a command
\* queued in the same turn runs before or after.
StartPosMutant == {NoPose}
StartPos == {cur_pos} \cup (IF heard THEN {cmd.pose} ELSE {})

\* The flag follows the planner in both directions.
StopCmdsMutant == stop_cmds \/ recv_cmd_age' > SilenceTimeout
StopCmds == recv_cmd_age' > SilenceTimeout

\* One turn: spinOnce runs the queued callbacks, then the main loop looks at the age
\* of the last command and sleeps.
TakeOverLoop ==
  /\ stoped' = (stoped \/ joy = "pressed")
  /\ stop_msg' = (stop_msg \/ (joy = "pressed" /\ planner # "dead"))
  /\ IF Drives
       THEN /\ last_cmd' \in (IF last_cmd = NoPose THEN StartPos ELSE {last_cmd})
            /\ cmd' = [by |-> "joystick", pose |-> last_cmd'] /\ cmd_age' = 0
            /\ overlap' = IF heard THEN overlap + 1 ELSE 0
       ELSE /\ overlap' = 0
            /\ UNCHANGED <<last_cmd, cmdVars>>
  /\ recv_cmd_age' = IF heard THEN 0 ELSE recv_cmd_age
  /\ cur_pos' = IF heard THEN cmd.pose ELSE cur_pos
  /\ stop_cmds' = StopCmds
  /\ joy' = "none" /\ heard' = FALSE
  /\ due' = due \ {"loop"}
  /\ UNCHANGED <<planner, stopped, pulled, mail, serverVars, station, gone_for, dead_for, rival>>

-----------------------------------------------------------------------------
\* An age that has passed every test there is stops growing.
Older(age, limit) == IF age = Never \/ age > limit THEN age ELSE age + 1

MaxDuration == CHOOSE d \in Durations : \A e \in Durations : e <= d
MaxGone == MaxDuration + CmdTimeout
MaxDead == HeartbeatTimeout + CmdTimeout + 1

Tick ==
  /\ due = {} /\ mail = None
  /\ due' = Jobs
  /\ heartbeat_age' = Older(heartbeat_age, HeartbeatTimeout)
  /\ recv_cmd_age' = Older(recv_cmd_age, SilenceTimeout)
  /\ cmd_age' = Older(cmd_age, CmdTimeout)
  /\ traj' = [traj EXCEPT !.left = IF @ = 0 THEN 0 ELSE @ - 1]
  /\ gone_for' = IF planner = "runs" THEN 0 ELSE Older(gone_for, MaxGone)
  /\ dead_for' = IF planner = "dead" THEN Older(dead_for, MaxDead) ELSE 0
  /\ UNCHANGED <<plannerVars, receive_traj, last_pos, cmd, station, joy, heard, stoped,
                 stop_cmds, cur_pos, last_cmd, overlap, rival>>

Planner ==
  \/ PublishTraj \/ SwarmCheck \/ StopsAgain \/ MandatoryStop
  \/ Hang \/ Recover \/ Die \/ Heartbeat
Server == TrajCallback \/ CmdCallback
TakeOver == TakeOverLoop \/ \E pressed \in BOOLEAN : Joystick(pressed)

Next == Planner \/ Server \/ TakeOver \/ Tick

Spec == Init /\ [][Next]_vars

\* The nodes have their turn, and then time passes.
Turn ==
  \/ "timer" \in due /\ CmdCallback
  \/ "loop" \in due /\ TakeOverLoop
  \/ Tick

\* The nodes run and time passes; the planner gets to a mandatory stop if it runs
\* again and again; the joystick repeats its state (autorepeat_rate), so that a
\* station that forwards keeps the take-over loop supplied.
FairSpec ==
  /\ Spec
  /\ WF_vars(Turn)
  /\ WF_vars(TrajCallback)
  /\ WF_vars(joy = "none" /\ Joystick(FALSE))
  /\ SF_vars(MandatoryStop)

-----------------------------------------------------------------------------
(* Properties.                                                             *)

TypeOK ==
  /\ planner \in {"runs", "hangs", "dead"}
  /\ stopped \in BOOLEAN /\ pulled \in BOOLEAN /\ (pulled => stopped)
  /\ stop_msg \in BOOLEAN /\ receive_traj \in BOOLEAN
  /\ station \in BOOLEAN /\ heard \in BOOLEAN /\ stoped \in BOOLEAN /\ stop_cmds \in BOOLEAN
  /\ mail = None \/ mail \in Trajs
  /\ traj \in [pose : Poses \cup {NoPose}, left : 0 .. MaxDuration]
  /\ traj.left > 0 => traj.pose # NoPose
  /\ heartbeat_age \in Never .. HeartbeatTimeout + 1
  /\ recv_cmd_age \in Never .. SilenceTimeout + 1
  /\ cmd_age \in 0 .. CmdTimeout + 1
  /\ cmd \in [by : {"nobody", "traj", "hover", "joystick"}, pose : Poses \cup {Origin, NoPose}]
  /\ cmd.pose = NoPose <=> cmd.by = "nobody"
  /\ heard => cmd.by # "nobody"
  /\ joy \in {"none", "moved", "pressed"}
  /\ last_pos \in Poses \cup {Origin} /\ cur_pos \in Poses \cup {Origin}
  /\ last_cmd \in Poses \cup {Origin, NoPose}
  /\ due \subseteq Jobs
  /\ gone_for \in 0 .. MaxGone + 1 /\ dead_for \in 0 .. MaxDead + 1
  /\ overlap \in Nat /\ rival \in BOOLEAN

\* The joystick and traj_server command the drone together during one turn of the
\* take-over loop at most: the flag that lets the joystick through is as old as that
\* turn, so a planner that resumes is noticed in the next.
OneSource == overlap <= 1

\* px4_controller follows the last command while it is fresh.
Follows(publishers) == cmd.by \in publishers /\ cmd_age <= CmdTimeout

\* A dead planner is followed no longer than the two time-outs, although the command
\* published last, in the tick of the watchdog, is a sample of the trajectory.  A
\* planner that only hangs keeps its heartbeat; the end of its trajectory stops the
\* drone.
NoFlightWithoutPlanner ==
  /\ Follows({"traj", "hover"}) => dead_for <= MaxDead
  /\ Follows({"traj"}) => gone_for <= MaxGone

\* The joystick moves the drone from the pose commanded last, whoever commanded it,
\* unless traj_server has commanded since the joystick first did: the pose is kept in
\* a static, and a second take-over continues the first.
JoystickContinues ==
  [][TakeOverLoop /\ Drives /\ ~heard /\ ~rival => cmd'.pose = cmd.pose]_vars

\* A pilot who has stopped a planner that commanded the drone gets it, whether the
\* planner obeys, hangs or dies, unless another drone pulls the running planner out of
\* its stop: then it may command the drone for ever, although nothing more is heard of
\* the swarm.  A pilot who goes on pressing the buttons gets the drone for good once no
\* other drone interferes any more.
PilotTakesOver ==
  /\ (stoped /\ recv_cmd_age # Never) ~> (cmd.by = "joystick" \/ (pulled /\ planner = "runs"))
  /\ <>[][~SwarmCheck]_vars /\ []<>stop_msg /\ <>(recv_cmd_age # Never)
       => <>[](cmd.by = "joystick")

=============================================================================
