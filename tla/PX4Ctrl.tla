------------------------------- MODULE PX4Ctrl -------------------------------
(***************************************************************************)
(* PX4CtrlFSM (controller/px4_controller): the 100 Hz state machine that   *)
(* decides whether the pilot, a hover pose, the trajectory commands or an  *)
(* automatic take-off or landing drives the flight controller (FCU).       *)
(*                                                                         *)
(* Abstractions.  Odometry says whether the drone stands on the ground and *)
(* a speed class: in the air a take-off may or may not have reached its    *)
(* height.  A message is fresh until its time-out passes; the RC switches  *)
(* are Booleans.  des and requests are what this step, when it is a tick,  *)
(* steers by and asks of the outside world.  The gains, the thrust model   *)
(* and the attitude messages are left out.  The take-off branch runs       *)
(* callbacks before it arms, so it is two steps; other ticks are one.      *)
(***************************************************************************)
CONSTANTS
  Launches,  \* the sets of parameters the node may be launched with
  Speeds     \* bound: the speed classes that odometry reports

ASSUME PX4Assumption ==
  /\ Launches \subseteq [no_RC : BOOLEAN, auto_hover_on_start : BOOLEAN,
                         enable : BOOLEAN, enable_auto_arm : BOOLEAN]
  /\ Speeds \subseteq {"still", "slow", "fast"}  \* up to 0.1, up to 3, above 3 m/s
  /\ "still" \in Speeds

VARIABLES
  param,       \* Parameter_t, read once
  state,       \* state
  spinning,    \* process() runs callbacks in the take-off branch (lines 87-91)
  rc,          \* the switches in the last RC message, [mode, gear, reboot]
  is_command_mode, enter_hover_mode, enter_command_mode, toggle_reboot,  \* rc_data
  odom,        \* odom_data, [ground, speed]
  odom_fresh, cmd_fresh,  \* odom_is_received, cmd_is_received
  order,       \* takeoff_land_data: the command of a triggered one
  landed, spun_up, trigger,  \* takeoff_land: landed, whether MOTORS_SPEEDUP_TIME
               \* passed since a take-off was toggled, delay_trigger
  fcu,         \* the flight controller, [armed, mode]
  seen,        \* state_data.current_state: the last State message
  before,      \* state_data.state_before_offboard.mode
  des,         \* where the desired state of this tick comes from
  requests,    \* what this tick asks of the outside world (arm: and is granted)
  hover_set,   \* history: hover_pose was set since AUTO_HOVER was entered
  refused      \* history: the last request to leave OFFBOARD was refused

rc_data == <<rc, is_command_mode, enter_hover_mode, enter_command_mode, toggle_reboot>>
inputs == <<odom, odom_fresh, cmd_fresh>>
takeoff_land == <<landed, spun_up, trigger>>
vars == <<param, state, spinning, rc_data, inputs, order, takeoff_land, fcu, seen, before, des,
          requests, hover_set, refused>>

States == {"MANUAL_CTRL", "AUTO_HOVER", "CMD_CTRL", "AUTO_TAKEOFF", "AUTO_LAND"}
Modes == {"MANUAL", "OFFBOARD"}      \* MANUAL stands for every mode but OFFBOARD

no_RC == param.no_RC

is_hover_mode == no_RC \/ rc.mode

Init ==
  /\ param \in Launches
  /\ state = "MANUAL_CTRL" /\ spinning = FALSE
  /\ rc \in [mode : BOOLEAN, gear : BOOLEAN, reboot : BOOLEAN]
  /\ no_RC => rc = [mode |-> FALSE, gear |-> FALSE, reboot |-> FALSE]
  /\ is_command_mode = (no_RC \/ ~rc.mode \/ rc.gear)
  /\ enter_hover_mode = FALSE /\ enter_command_mode = FALSE /\ toggle_reboot = FALSE
  /\ odom = [ground |-> TRUE, speed |-> "still"] /\ odom_fresh = FALSE
  /\ cmd_fresh = FALSE
  /\ order = "none"
  /\ landed = TRUE /\ spun_up = FALSE /\ trigger = "none"
  /\ fcu = [armed |-> FALSE, mode |-> "MANUAL"] /\ seen = fcu
  /\ before = "" /\ des = "none" /\ requests = {}
  /\ hover_set = FALSE /\ refused = FALSE

-----------------------------------------------------------------------------
(* The callbacks, run by spinOnce between two ticks or in the take-off     *)
(* branch, and what happens outside meanwhile.                             *)

Quiet ==
  /\ des' = "none" /\ requests' = {}
  /\ UNCHANGED <<param, state, spinning, before, hover_set, refused>>

\* RC_Data_t::feed.  Edges that are not consumed are overwritten.
FeedRC ==
  /\ ~no_RC
  /\ rc' \in [mode : BOOLEAN, gear : BOOLEAN, reboot : BOOLEAN]
  /\ enter_hover_mode' = (~rc.mode /\ rc'.mode)
  /\ IF rc'.mode
       THEN /\ enter_command_mode' = (~rc.gear /\ rc'.gear)
            /\ is_command_mode' = rc'.gear
       ELSE UNCHANGED <<enter_command_mode, is_command_mode>>
  /\ toggle_reboot' = (~rc'.mode /\ ~is_command_mode' /\ ~rc.reboot /\ rc'.reboot)
  /\ Quiet /\ UNCHANGED <<inputs, order, takeoff_land, fcu, seen>>

FeedOdom ==
  /\ odom_fresh' = TRUE
  /\ odom' \in [ground : BOOLEAN, speed : Speeds]
  /\ odom.ground /\ ~fcu.armed => odom'.ground
  /\ Quiet /\ UNCHANGED <<rc_data, cmd_fresh, order, takeoff_land, fcu, seen>>

FeedCmd ==
  /\ ~cmd_fresh /\ cmd_fresh' = TRUE
  /\ Quiet /\ UNCHANGED <<rc_data, odom, odom_fresh, order, takeoff_land, fcu, seen>>

TimesOut ==
  /\ \/ odom_fresh /\ odom_fresh' = FALSE /\ UNCHANGED cmd_fresh
     \/ cmd_fresh /\ cmd_fresh' = FALSE /\ UNCHANGED odom_fresh
  /\ Quiet /\ UNCHANGED <<rc_data, odom, order, takeoff_land, fcu, seen>>

FeedTakeoffLand ==
  /\ order' \in {"TAKEOFF", "LAND"}
  /\ Quiet /\ UNCHANGED <<rc_data, inputs, takeoff_land, fcu, seen>>

FeedState ==
  /\ seen' = fcu
  /\ Quiet /\ UNCHANGED <<rc_data, inputs, order, takeoff_land, fcu>>

\* MOTORS_SPEEDUP_TIME and DELAY_TRIGGER_TIME pass.
TimePasses ==
  /\ \/ state = "AUTO_TAKEOFF" /\ ~spinning /\ spun_up' = TRUE /\ UNCHANGED trigger
     \/ trigger = "waiting" /\ trigger' = "due" /\ UNCHANGED spun_up
  /\ Quiet /\ UNCHANGED <<rc_data, inputs, order, landed, fcu, seen>>

\* The pilot arms, disarms on the ground or takes the FCU out of OFFBOARD.
Pilot ==
  /\ \/ fcu' = [fcu EXCEPT !.mode = "MANUAL"]
     \/ fcu.mode = "MANUAL" /\ odom.ground /\ fcu' = [fcu EXCEPT !.armed = ~@]
  /\ Quiet /\ UNCHANGED <<rc_data, inputs, order, takeoff_land, seen>>

Callback ==
  \/ FeedRC \/ FeedOdom \/ FeedCmd \/ TimesOut \/ FeedTakeoffLand \/ FeedState
  \/ TimePasses \/ Pilot

-----------------------------------------------------------------------------
(* What the branches of process() share.                                   *)

\* toggle_offboard_mode; the FCU may refuse and nobody looks at the result.
ModeBeforeMutant == seen.mode
ModeBefore == IF seen.mode = "OFFBOARD" THEN "MANUAL" ELSE seen.mode

EnterOffboard ==
  /\ before' = ModeBefore
  /\ fcu' \in {fcu, [fcu EXCEPT !.mode = "OFFBOARD"]}
  /\ refused' = FALSE

LeaveOffboard(armed) ==
  /\ refused' \in BOOLEAN
  /\ fcu' = [armed |-> armed, mode |-> IF refused' THEN fcu.mode ELSE before]
  /\ UNCHANGED before

sameFCU == <<fcu, before, refused>>

Goto(s) == state' = s /\ hover_set' = (hover_set /\ s = state)

\* set_hov_with_odom is called on every way into AUTO_HOVER.
SetsHoverPoseMutant == {"MANUAL_CTRL", "CMD_CTRL", "AUTO_TAKEOFF"}
SetsHoverPose == {"MANUAL_CTRL", "CMD_CTRL", "AUTO_TAKEOFF", "AUTO_LAND"}
GotoHover == state' = "AUTO_HOVER" /\ hover_set' = (state \in SetsHoverPose)

\* land_detector.  It takes a drone that stays still for three seconds, half a
\* metre above where it is told to be, to stand on the ground.
Resets(s) == spinning \/ (state = "MANUAL_CTRL" /\ s \in {"AUTO_HOVER", "AUTO_TAKEOFF"})
Detected == odom = [ground |-> TRUE, speed |-> "still"] /\ des' \in {"hover", "cmd", "descend"}
LandDetector ==
  landed' \in IF state' = "MANUAL_CTRL" /\ ~seen.armed THEN {TRUE}
             ELSE IF Resets(state') THEN {FALSE}
             ELSE IF landed THEN {TRUE}
             ELSE {FALSE, Detected}

\* What follows the switch of process().
EndTick ==
  /\ LandDetector
  /\ enter_hover_mode' = FALSE /\ enter_command_mode' = FALSE /\ toggle_reboot' = FALSE
  /\ order' = "none"
  /\ spinning' = FALSE
  /\ UNCHANGED <<param, rc, is_command_mode, inputs, seen>>

\* The reboot test at the end of MANUAL_CTRL, with the FCU as the tick left it.
RebootIfAsked(now, asked) ==
  IF toggle_reboot /\ ~seen.armed
    THEN fcu' = [armed |-> FALSE, mode |-> "MANUAL"] /\ requests' = asked \cup {"reboot"}
    ELSE fcu' = now /\ requests' = asked

-----------------------------------------------------------------------------
(* MANUAL_CTRL.                                                            *)

Manual == state = "MANUAL_CTRL"
HoversOnStart == no_RC /\ param.auto_hover_on_start /\ odom_fresh
HoverAccepted == odom_fresh /\ ~cmd_fresh /\ odom.speed # "fast"
TakeoffAsked == param.enable /\ order = "TAKEOFF"
TakeoffAccepted == odom_fresh /\ ~cmd_fresh /\ odom.speed = "still" /\ landed

ManualToHover ==
  /\ Manual /\ (HoversOnStart \/ (enter_hover_mode /\ HoverAccepted))
  /\ GotoHover /\ EnterOffboard
  /\ des' = "odom" /\ requests' = {}
  /\ UNCHANGED <<spun_up, trigger>>
  /\ EndTick

\* A rejection ends the branch before the reboot test.
ManualRejects ==
  /\ Manual /\ ~HoversOnStart
  /\ \/ enter_hover_mode /\ ~HoverAccepted
     \/ ~enter_hover_mode /\ TakeoffAsked /\ ~TakeoffAccepted
  /\ Goto("MANUAL_CTRL")
  /\ des' = "odom" /\ requests' = {}
  /\ UNCHANGED <<sameFCU, spun_up, trigger>>
  /\ EndTick

ManualStays ==
  /\ Manual /\ ~HoversOnStart /\ ~enter_hover_mode /\ ~TakeoffAsked
  /\ Goto("MANUAL_CTRL")
  /\ RebootIfAsked(fcu, {})
  /\ des' = "odom"
  /\ UNCHANGED <<before, refused, spun_up, trigger>>
  /\ EndTick

\* Up to the loop that runs the callbacks.
TakeoffBegins ==
  /\ Manual /\ ~HoversOnStart /\ ~enter_hover_mode /\ TakeoffAsked /\ TakeoffAccepted
  /\ Goto("AUTO_TAKEOFF") /\ EnterOffboard
  /\ spinning' = TRUE
  /\ des' = "none" /\ requests' = {}
  /\ UNCHANGED <<param, rc_data, inputs, order, takeoff_land, seen>>

\* From the arming on.
TakeoffArms ==
  /\ spinning
  /\ \E granted \in {FALSE, param.enable_auto_arm} :
       RebootIfAsked([fcu EXCEPT !.armed = @ \/ granted], IF granted THEN {"arm"} ELSE {})
  /\ spun_up' = FALSE /\ Goto("AUTO_TAKEOFF")
  /\ des' = "odom"
  /\ UNCHANGED <<before, refused, trigger>>
  /\ EndTick

-----------------------------------------------------------------------------
(* AUTO_HOVER, CMD_CTRL, AUTO_TAKEOFF and AUTO_LAND.                       *)

ReleasedStatesMutant == {"AUTO_HOVER", "AUTO_LAND"}
ReleasedStates == {"AUTO_HOVER", "CMD_CTRL", "AUTO_LAND"}
MustRelease == ~is_hover_mode \/ ~odom_fresh
Keeps(s) == state = s /\ ~(s \in ReleasedStates /\ MustRelease)

Release ==
  /\ state \in ReleasedStates /\ MustRelease
  /\ Goto("MANUAL_CTRL") /\ LeaveOffboard(fcu.armed)
  /\ des' = "odom" /\ requests' = {}
  /\ UNCHANGED <<spun_up, trigger>>
  /\ EndTick

\* Without the FCU in OFFBOARD the command is neither followed nor the hover pose.
HoverToCmd ==
  /\ Keeps("AUTO_HOVER") /\ is_command_mode /\ cmd_fresh
  /\ IF seen.mode = "OFFBOARD" THEN Goto("CMD_CTRL") /\ des' = "cmd"
                               ELSE Goto("AUTO_HOVER") /\ des' = "odom"
  /\ requests' = {}
  /\ UNCHANGED <<sameFCU, spun_up, trigger>>
  /\ EndTick

HoverToLand ==
  /\ Keeps("AUTO_HOVER") /\ ~(is_command_mode /\ cmd_fresh) /\ order = "LAND"
  /\ Goto("AUTO_LAND")
  /\ des' = "odom" /\ requests' = {}
  /\ UNCHANGED <<sameFCU, spun_up, trigger>>
  /\ EndTick

Hover ==
  /\ Keeps("AUTO_HOVER") /\ ~(is_command_mode /\ cmd_fresh) /\ order # "LAND"
  /\ IF enter_command_mode \/ trigger = "due"
       THEN trigger' = "none" /\ requests' = {"trigger"}
       ELSE UNCHANGED trigger /\ requests' = {}
  /\ Goto("AUTO_HOVER") /\ des' = "hover"
  /\ UNCHANGED <<sameFCU, spun_up>>
  /\ EndTick

CmdAllowedMutant == is_command_mode \/ no_RC
CmdAllowed == (is_command_mode \/ no_RC) /\ cmd_fresh
FollowCmd ==
  /\ Keeps("CMD_CTRL") /\ CmdAllowed
  /\ Goto("CMD_CTRL") /\ des' = "cmd" /\ requests' = {}
  /\ UNCHANGED <<sameFCU, spun_up, trigger>>
  /\ EndTick

CmdToHover ==
  /\ Keeps("CMD_CTRL") /\ ~CmdAllowed
  /\ GotoHover /\ des' = "hover" /\ requests' = {}
  /\ UNCHANGED <<sameFCU, spun_up, trigger>>
  /\ EndTick

\* Neither the switches nor the age of the odometry end a take-off.
Takeoff ==
  /\ state = "AUTO_TAKEOFF"
  /\ Goto("AUTO_TAKEOFF") /\ des' = (IF spun_up THEN "climb" ELSE "speed_up")
  /\ requests' = {}
  /\ UNCHANGED <<sameFCU, spun_up, trigger>>
  /\ EndTick

TakeoffToHover ==
  /\ state = "AUTO_TAKEOFF" /\ spun_up /\ ~odom.ground
  /\ GotoHover /\ des' = "odom" /\ trigger' = "waiting"
  /\ requests' = {} /\ spun_up' = FALSE
  /\ UNCHANGED sameFCU
  /\ EndTick

LandToHover ==
  /\ Keeps("AUTO_LAND") /\ ~no_RC /\ ~is_command_mode
  /\ GotoHover /\ des' = "hover" /\ requests' = {}
  /\ UNCHANGED <<sameFCU, spun_up, trigger>>
  /\ EndTick

Landing == Keeps("AUTO_LAND") /\ (no_RC \/ is_command_mode)

Descend ==
  /\ Landing /\ ~landed
  /\ Goto("AUTO_LAND") /\ des' = "descend" /\ requests' = {}
  /\ UNCHANGED <<sameFCU, spun_up, trigger>>
  /\ EndTick

\* With the motors idling; once a second, on the ground, the FCU is asked to disarm.
Idle ==
  /\ Landing /\ landed
  /\ \/ Goto("AUTO_LAND") /\ requests' = {} /\ UNCHANGED sameFCU
     \/ /\ odom.ground /\ requests' = {"disarm"}
        /\ \/ Goto("AUTO_LAND") /\ UNCHANGED sameFCU
           \/ Goto("MANUAL_CTRL") /\ LeaveOffboard(FALSE)
  /\ des' = "idle"
  /\ UNCHANGED <<spun_up, trigger>>
  /\ EndTick

Process ==
  IF spinning THEN TakeoffArms
  ELSE \/ ManualToHover \/ ManualRejects \/ ManualStays \/ TakeoffBegins
       \/ Release \/ HoverToCmd \/ HoverToLand \/ Hover \/ FollowCmd \/ CmdToHover
       \/ Takeoff \/ TakeoffToHover \/ LandToHover \/ Descend \/ Idle

Next == Callback \/ Process

Spec == Init /\ [][Next]_vars

\* The main loop ticks for ever.
FairSpec == Spec /\ WF_vars(Process)

-----------------------------------------------------------------------------
(* Properties.                                                             *)

TypeOK ==
  /\ param \in Launches
  /\ state \in States /\ spinning \in BOOLEAN
  /\ rc \in [mode : BOOLEAN, gear : BOOLEAN, reboot : BOOLEAN]
  /\ {is_command_mode, enter_hover_mode, enter_command_mode, toggle_reboot} \subseteq BOOLEAN
  /\ odom \in [ground : BOOLEAN, speed : Speeds]
  /\ {odom_fresh, cmd_fresh} \subseteq BOOLEAN
  /\ order \in {"none", "TAKEOFF", "LAND"}
  /\ landed \in BOOLEAN /\ spun_up \in BOOLEAN
  /\ trigger \in {"none", "waiting", "due"}
  /\ fcu \in [armed : BOOLEAN, mode : Modes] /\ seen \in [armed : BOOLEAN, mode : Modes]
  /\ before \in {"", "MANUAL"}
  /\ des \in {"none", "odom", "hover", "cmd", "speed_up", "climb", "descend", "idle"}
  /\ requests \subseteq {"arm", "disarm", "reboot", "trigger"}
  /\ hover_set \in BOOLEAN /\ refused \in BOOLEAN

\* A trajectory command is followed only while odometry and commands are fresh and
\* the last RC message has both switches on, although not every message updates
\* is_command_mode.
PilotAllows ==
  [][Process /\ des' = "cmd" =>
       odom_fresh /\ cmd_fresh /\ (no_RC \/ (rc.mode /\ rc.gear))]_vars

\* The drone never flies to a hover pose left over from an earlier hover.
HoverPoseIsFresh == des = "hover" => hover_set

\* In MANUAL_CTRL the FCU is not left in OFFBOARD, where nobody would fly the
\* drone, unless it refused to leave.
ManualIsReleased == state = "MANUAL_CTRL" /\ fcu.mode = "OFFBOARD" => refused

\* land_detector: once the motors are asked for by a take-off, the drone does not
\* count as landed, whatever the flag said when it began; otherwise a landing right
\* after it would let the motors idle.
TakeoffIsFlight == state = "AUTO_TAKEOFF" /\ ~spinning => ~landed

\* A pilot who leaves the hover switch off gets the drone, unless it is taking off.
PilotGetsDrone == []<>(is_hover_mode \/ state \in {"MANUAL_CTRL", "AUTO_TAKEOFF"})

\* When the commands stop for good, the drone stops following them.
SilenceEndsCmd == []<>(cmd_fresh \/ state # "CMD_CTRL")

\* PX4CtrlFSM.cpp:79, "Reject AUTO_TAKEOFF. Land detector says drone is not landed.":
\* a take-off starts on the ground.
TakeoffFromGround == [][state' = "AUTO_TAKEOFF" /\ state # state' => odom.ground]_vars

=============================================================================
