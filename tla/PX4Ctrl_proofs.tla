---------------------------- MODULE PX4Ctrl_proofs ----------------------------
(***************************************************************************)
(* Proofs about PX4Ctrl for every parameter of the launch files and every  *)
(* set of speed classes.  IInv is the inductive invariant: the safety      *)
(* properties of PX4Ctrl and what the FSM remembers of the RC switches, of *)
(* the mode it left and of the take-off it is in.                          *)
(***************************************************************************)
EXTENDS PX4Ctrl, TLAPS

\* Every state but MANUAL_CTRL was entered through toggle_offboard_mode(true).
KnowsModeBefore == state # "MANUAL_CTRL" => before = "MANUAL"

\* Every way into AUTO_HOVER set the hover pose.
HoverIsSet == state = "AUTO_HOVER" => hover_set

\* The callbacks of the take-off branch run in AUTO_TAKEOFF.
SpinsInTakeoff == spinning => state = "AUTO_TAKEOFF"

\* is_command_mode is the gear of the last message whenever that message had the
\* hover switch on.
GearIsHeard == no_RC \/ (rc.mode => is_command_mode = rc.gear)

IInv ==
  /\ TypeOK
  /\ HoverPoseIsFresh
  /\ ManualIsReleased
  /\ TakeoffIsFlight
  /\ KnowsModeBefore
  /\ HoverIsSet
  /\ SpinsInTakeoff
  /\ GearIsHeard

USE DEF no_RC, rc_data, inputs, takeoff_land, sameFCU

\* The initial states satisfy the invariant.
LEMMA InitInv == Init => IInv
  <1> SUFFICES ASSUME Init PROVE IInv
    OBVIOUS
  <1>1. TypeOK
    BY PX4Assumption DEF Init, TypeOK, States, Modes
  <1> QED
    BY <1>1 DEF Init, IInv, HoverPoseIsFresh, ManualIsReleased, TakeoffIsFlight,
       KnowsModeBefore, HoverIsSet, SpinsInTakeoff, GearIsHeard

\* The part of TypeOK that callbacks leave alone.
QuietTypes ==
  /\ param \in Launches
  /\ state \in States /\ spinning \in BOOLEAN
  /\ before \in {"", "MANUAL"}
  /\ des \in {"none", "odom", "hover", "cmd", "speed_up", "climb", "descend", "idle"}
  /\ requests \subseteq {"arm", "disarm", "reboot", "trigger"}
  /\ hover_set \in BOOLEAN /\ refused \in BOOLEAN

\* The part of TypeOK that they change, and which a tick does not.
InputTypes ==
  /\ rc \in [mode : BOOLEAN, gear : BOOLEAN, reboot : BOOLEAN]
  /\ {is_command_mode, enter_hover_mode, enter_command_mode, toggle_reboot} \subseteq BOOLEAN
  /\ odom \in [ground : BOOLEAN, speed : Speeds]
  /\ {odom_fresh, cmd_fresh} \subseteq BOOLEAN
  /\ order \in {"none", "TAKEOFF", "LAND"}
  /\ landed \in BOOLEAN /\ spun_up \in BOOLEAN
  /\ trigger \in {"none", "waiting", "due"}
  /\ fcu \in [armed : BOOLEAN, mode : Modes] /\ seen \in [armed : BOOLEAN, mode : Modes]

LEMMA SplitTypes == TypeOK <=> QuietTypes /\ InputTypes
  BY DEF TypeOK, QuietTypes, InputTypes

LEMMA CallbackTypes ==
  ASSUME TypeOK, Quiet, InputTypes'
  PROVE  TypeOK'
  <1>1. QuietTypes'
    BY SplitTypes DEF QuietTypes, Quiet
  <1> QED
    BY <1>1 DEF TypeOK, QuietTypes, InputTypes

\* A callback never drives the drone, and what it writes the invariant allows.
LEMMA CallbackInv ==
  ASSUME IInv, Callback
  PROVE  IInv'
  <1> USE DEF Quiet
  <1>t. TypeOK /\ InputTypes
    BY SplitTypes DEF IInv
  <1>f. CASE FeedRC
    <2>1. TypeOK'
      <3>1. InputTypes'
        BY <1>t, <1>f DEF InputTypes, FeedRC
      <3> QED
        BY <1>t, <1>f, <3>1, CallbackTypes DEF FeedRC
    <2>2. GearIsHeard'
      BY <1>f DEF GearIsHeard, FeedRC
    <2> QED
      BY <1>f, <2>1, <2>2 DEF FeedRC, IInv, HoverPoseIsFresh, ManualIsReleased,
         TakeoffIsFlight, KnowsModeBefore, HoverIsSet, SpinsInTakeoff
  <1>p. CASE Pilot
    <2>1. fcu' \in [armed : BOOLEAN, mode : Modes] /\ fcu'.mode \in {fcu.mode, "MANUAL"}
      BY <1>t, <1>p DEF InputTypes, Pilot, Modes
    <2>2. TypeOK'
      <3>1. InputTypes'
        BY <1>t, <1>p, <2>1 DEF InputTypes, Pilot
      <3> QED
        BY <1>t, <1>p, <3>1, CallbackTypes DEF Pilot
    <2> QED
      BY <1>p, <2>1, <2>2 DEF Pilot, IInv, HoverPoseIsFresh, ManualIsReleased,
         TakeoffIsFlight, KnowsModeBefore, HoverIsSet, SpinsInTakeoff, GearIsHeard
  <1>o. CASE FeedOdom \/ FeedCmd \/ TimesOut \/ FeedTakeoffLand \/ FeedState \/ TimePasses
    <2>1. TypeOK'
      <3>1. InputTypes'
        BY <1>t, <1>o DEF InputTypes, FeedOdom, FeedCmd, TimesOut, FeedTakeoffLand,
           FeedState, TimePasses
      <3> QED
        BY <1>t, <1>o, <3>1, CallbackTypes DEF FeedOdom, FeedCmd, TimesOut,
           FeedTakeoffLand, FeedState, TimePasses
    <2> QED
      BY <1>o, <2>1 DEF FeedOdom, FeedCmd, TimesOut, FeedTakeoffLand, FeedState, TimePasses,
         IInv, HoverPoseIsFresh, ManualIsReleased, TakeoffIsFlight, KnowsModeBefore,
         HoverIsSet, SpinsInTakeoff, GearIsHeard
  <1> QED
    BY <1>f, <1>p, <1>o DEF Callback

\* What the end of a tick leaves behind.
LEMMA EndTickInv ==
  ASSUME TypeOK, EndTick
  PROVE  /\ param' = param /\ rc' = rc /\ is_command_mode' = is_command_mode /\ seen' = seen
         /\ odom' = odom /\ odom_fresh' = odom_fresh /\ cmd_fresh' = cmd_fresh
         /\ {is_command_mode', enter_hover_mode', enter_command_mode', toggle_reboot'}
              \subseteq BOOLEAN
         /\ order' = "none" /\ spinning' = FALSE /\ landed' \in BOOLEAN
  BY DEF TypeOK, EndTick, LandDetector, Detected

\* What a tick must do of its own to keep the invariant.
TickKeeps ==
  /\ state' \in States
  /\ des' \in {"odom", "hover", "cmd", "speed_up", "climb", "descend", "idle"}
  /\ requests' \subseteq {"arm", "disarm", "reboot", "trigger"}
  /\ spun_up' \in BOOLEAN /\ trigger' \in {"none", "waiting", "due"}
  /\ fcu' \in [armed : BOOLEAN, mode : Modes]
  /\ before' \in {"", "MANUAL"}
  /\ hover_set' \in BOOLEAN /\ refused' \in BOOLEAN
  /\ HoverPoseIsFresh' /\ ManualIsReleased' /\ KnowsModeBefore' /\ HoverIsSet'
  /\ state' = "AUTO_TAKEOFF" =>
       /\ des' \notin {"hover", "cmd", "descend"}
       /\ spinning \/ state = "MANUAL_CTRL" \/ state = "AUTO_TAKEOFF"

LEMMA TickInv ==
  ASSUME IInv, EndTick, TickKeeps
  PROVE  IInv'
  <1>1. TypeOK'
    BY EndTickInv DEF IInv, TypeOK, TickKeeps
  <1>2. GearIsHeard'
    BY EndTickInv DEF IInv, GearIsHeard
  <1>3. SpinsInTakeoff'
    BY EndTickInv DEF IInv, SpinsInTakeoff
  <1>4. TakeoffIsFlight'
    BY DEF IInv, TypeOK, TakeoffIsFlight, TickKeeps, EndTick, LandDetector, Resets, Detected
  <1> QED
    BY <1>1, <1>2, <1>3, <1>4 DEF IInv, TickKeeps

\* The mode a hover or a take-off leaves for, and the FCU it may get.
LEMMA EnterOffboardTypes ==
  ASSUME TypeOK, EnterOffboard
  PROVE  before' = "MANUAL" /\ fcu' \in [armed : BOOLEAN, mode : Modes] /\ refused' = FALSE
  BY DEF TypeOK, EnterOffboard, ModeBefore, Modes

\* Leaving OFFBOARD for the mode before it ends OFFBOARD, unless it is refused.
LEMMA LeaveOffboardReleases ==
  ASSUME TypeOK, before = "MANUAL", NEW armed \in BOOLEAN, LeaveOffboard(armed)
  PROVE  /\ before' = before /\ refused' \in BOOLEAN
         /\ fcu' \in [armed : BOOLEAN, mode : Modes]
         /\ fcu'.mode = "OFFBOARD" => refused'
  BY DEF TypeOK, LeaveOffboard, Modes

\* A reboot leaves the FCU disarmed and out of OFFBOARD; else it stays as it was.
LEMMA RebootTypes ==
  ASSUME NEW now \in [armed : BOOLEAN, mode : Modes], NEW asked \in SUBSET {"arm"},
         RebootIfAsked(now, asked)
  PROVE  /\ fcu' \in [armed : BOOLEAN, mode : Modes]
         /\ fcu'.mode \in {now.mode, "MANUAL"}
         /\ requests' \subseteq {"arm", "disarm", "reboot", "trigger"}
  <1>1. CASE toggle_reboot /\ ~seen.armed
    <2>1. fcu' = [armed |-> FALSE, mode |-> "MANUAL"] /\ requests' = asked \cup {"reboot"}
      BY <1>1 DEF RebootIfAsked
    <2> QED
      BY <2>1 DEF Modes
  <1>2. CASE ~(toggle_reboot /\ ~seen.armed)
    <2>1. fcu' = now /\ requests' = asked
      BY <1>2 DEF RebootIfAsked
    <2> QED
      BY <2>1
  <1> QED
    BY <1>1, <1>2

\* Every tick keeps the invariant.
LEMMA ProcessInv ==
  ASSUME IInv, Process
  PROVE  IInv'
  <1> DEFINE FCUs == [armed : BOOLEAN, mode : Modes]
  <1>t. TypeOK /\ KnowsModeBefore
    BY DEF IInv
  <1> USE DEF Goto, GotoHover
  <1>arms. CASE TakeoffArms
    <2>1. PICK granted \in BOOLEAN :
            RebootIfAsked([fcu EXCEPT !.armed = @ \/ granted], IF granted THEN {"arm"} ELSE {})
      <3>1. param.enable_auto_arm \in BOOLEAN
        BY <1>t, PX4Assumption DEF TypeOK
      <3> QED
        BY <1>arms, <3>1 DEF TakeoffArms
    <2>2. fcu \in FCUs
      BY <1>t DEF TypeOK
    <2>3. [fcu EXCEPT !.armed = @ \/ granted] \in FCUs
      BY <2>2
    <2>4. fcu' \in FCUs /\ requests' \subseteq {"arm", "disarm", "reboot", "trigger"}
      BY <2>1, <2>3, RebootTypes
    <2>5. TickKeeps
      BY <1>t, <1>arms, <2>4 DEF TickKeeps, TakeoffArms, TypeOK, States, IInv,
         HoverPoseIsFresh, ManualIsReleased, KnowsModeBefore, HoverIsSet, SpinsInTakeoff
    <2> QED
      BY <1>arms, <2>5, TickInv DEF TakeoffArms
  <1>begins. CASE TakeoffBegins
    <2>1. before' = "MANUAL" /\ fcu' \in FCUs /\ refused' = FALSE
      BY <1>t, <1>begins, EnterOffboardTypes DEF TakeoffBegins
    <2>2. TypeOK'
      BY <1>t, <1>begins, <2>1 DEF TakeoffBegins, TypeOK, States
    <2> QED
      BY <1>t, <1>begins, <2>1, <2>2 DEF TakeoffBegins, IInv, HoverPoseIsFresh,
         ManualIsReleased, TakeoffIsFlight, KnowsModeBefore, HoverIsSet, SpinsInTakeoff,
         GearIsHeard
  <1>toHover. CASE ManualToHover
    <2>1. before' = "MANUAL" /\ fcu' \in FCUs /\ refused' = FALSE
      BY <1>t, <1>toHover, EnterOffboardTypes DEF ManualToHover
    <2>2. TickKeeps
      BY <1>t, <1>toHover, <2>1 DEF ManualToHover, TickKeeps, TypeOK, States, Manual,
         SetsHoverPose, HoverPoseIsFresh, ManualIsReleased, KnowsModeBefore, HoverIsSet
    <2> QED
      BY <1>toHover, <2>2, TickInv DEF ManualToHover
  <1>stays. CASE ManualStays
    <2>1. /\ fcu' \in FCUs /\ fcu'.mode \in {fcu.mode, "MANUAL"}
          /\ requests' \subseteq {"arm", "disarm", "reboot", "trigger"}
      BY <1>t, <1>stays, RebootTypes DEF ManualStays, TypeOK
    <2>2. TickKeeps
      BY <1>t, <1>stays, <2>1 DEF ManualStays, TickKeeps, TypeOK, States, Manual, IInv,
         HoverPoseIsFresh, ManualIsReleased, KnowsModeBefore, HoverIsSet
    <2> QED
      BY <1>stays, <2>2, TickInv DEF ManualStays
  <1>leaves. CASE Release \/ (Idle /\ state' = "MANUAL_CTRL")
    <2>1. /\ state \in {"AUTO_HOVER", "CMD_CTRL", "AUTO_LAND"} /\ before = "MANUAL"
          /\ \E armed \in BOOLEAN : LeaveOffboard(armed)
      <3>1. fcu.armed \in BOOLEAN
        BY <1>t DEF TypeOK
      <3> QED
        BY <1>t, <1>leaves, <3>1 DEF Release, Idle, Landing, Keeps, ReleasedStates,
           KnowsModeBefore
    <2>2. /\ before' = before /\ refused' \in BOOLEAN /\ fcu' \in FCUs
          /\ fcu'.mode = "OFFBOARD" => refused'
      BY <1>t, <2>1, LeaveOffboardReleases
    <2>3. TickKeeps
      BY <1>t, <1>leaves, <2>1, <2>2 DEF Release, Idle, TickKeeps, TypeOK, States,
         HoverPoseIsFresh, ManualIsReleased, KnowsModeBefore, HoverIsSet
    <2> QED
      BY <1>leaves, <2>3, TickInv DEF Release, Idle
  <1>hovers. CASE HoverToCmd \/ HoverToLand \/ Hover
    <2>1. TickKeeps
      BY <1>t, <1>hovers DEF HoverToCmd, HoverToLand, Hover, Keeps, IInv,
         TickKeeps, TypeOK, States, HoverPoseIsFresh, ManualIsReleased, KnowsModeBefore,
         HoverIsSet
    <2> QED
      BY <1>hovers, <2>1, TickInv DEF HoverToCmd, HoverToLand, Hover
  <1>others. CASE \/ ManualRejects \/ FollowCmd \/ CmdToHover \/ Takeoff \/ TakeoffToHover
                  \/ LandToHover \/ Descend \/ (Idle /\ state' # "MANUAL_CTRL")
    <2>1. TickKeeps
      BY <1>t, <1>others DEF ManualRejects, FollowCmd, CmdToHover, Takeoff, TakeoffToHover,
         LandToHover, Descend, Idle, Landing, Manual, Keeps, SetsHoverPose, IInv,
         TickKeeps, TypeOK, States, HoverPoseIsFresh, ManualIsReleased, KnowsModeBefore,
         HoverIsSet
    <2> QED
      BY <1>others, <2>1, TickInv DEF ManualRejects, FollowCmd, CmdToHover, Takeoff,
         TakeoffToHover, LandToHover, Descend, Idle
  <1> QED
    BY <1>arms, <1>begins, <1>toHover, <1>stays, <1>leaves, <1>hovers, <1>others DEF Process

-----------------------------------------------------------------------------

\* IInv is an inductive invariant of the controller.
THEOREM Inductive == Spec => []IInv
  <1>1. IInv /\ UNCHANGED vars => IInv'
    <2> SUFFICES ASSUME IInv, UNCHANGED vars PROVE IInv'
      OBVIOUS
    <2>1. QuietTypes /\ InputTypes
      BY SplitTypes DEF IInv
    <2>2. QuietTypes'
      BY <2>1 DEF vars, QuietTypes
    <2>3. InputTypes'
      BY <2>1 DEF vars, InputTypes
    <2>4. TypeOK'
      BY <2>2, <2>3 DEF TypeOK, QuietTypes, InputTypes
    <2> QED
      BY <2>4 DEF vars, IInv, HoverPoseIsFresh, ManualIsReleased, TakeoffIsFlight,
         KnowsModeBefore, HoverIsSet, SpinsInTakeoff, GearIsHeard
  <1>2. IInv /\ [Next]_vars => IInv'
    BY <1>1, CallbackInv, ProcessInv DEF Next
  <1> QED
    BY InitInv, <1>2, PTL DEF Spec

\* The variables keep their types.
THEOREM TypeCorrect == Spec => []TypeOK
  BY Inductive, PTL DEF IInv

\* The drone never flies to a hover pose of an earlier hover.
THEOREM FreshHover == Spec => []HoverPoseIsFresh
  BY Inductive, PTL DEF IInv

\* MANUAL_CTRL leaves the FCU in OFFBOARD only when it refused to leave.
THEOREM Released == Spec => []ManualIsReleased
  BY Inductive, PTL DEF IInv

\* A drone that takes off does not count as landed.
THEOREM Flying == Spec => []TakeoffIsFlight
  BY Inductive, PTL DEF IInv

\* A command is followed only while both switches, the odometry and the commands
\* allow it.
THEOREM Allowed == Spec => PilotAllows
  <1>1. ASSUME IInv, Process, des' = "cmd"
        PROVE  odom_fresh /\ cmd_fresh /\ (no_RC \/ (rc.mode /\ rc.gear))
    <2>1. HoverToCmd \/ FollowCmd
      BY <1>1 DEF Process, TakeoffArms, ManualToHover, ManualRejects, ManualStays,
         TakeoffBegins, Release, HoverToLand, Hover, CmdToHover, Takeoff, TakeoffToHover,
         LandToHover, Descend, Idle
    <2>2. odom_fresh /\ cmd_fresh /\ (no_RC \/ rc.mode) /\ (is_command_mode \/ no_RC)
      BY <2>1 DEF HoverToCmd, FollowCmd, Keeps, MustRelease, is_hover_mode, ReleasedStates,
         CmdAllowed
    <2> QED
      BY <1>1, <2>2 DEF IInv, GearIsHeard
  <1> QED
    BY <1>1, Inductive, PTL DEF PilotAllows

=============================================================================
