# Formal model of General_Planner

TLA+ models of the planner and flight-control code of this repository, checked with
TLC on small instances and proved with TLAPS for every value of the constants.
Paths below are relative to `src/` of the repository. Abbreviations:

| | |
|---|---|
| `F` | `planner/plan_manage/src/ego_replan_fsm.cpp` |
| `PM` | `planner/plan_manage/src/planner_manager.cpp` |
| `TS` | `planner/plan_manage/src/traj_server.cpp` |
| `MT` | `Utils/manual_take_over/src/manual_take_over.cpp` |
| `HPP` | `planner/swarm_bridge/include/reliable_bridge.hpp` |
| `X` | `controller/px4_controller/src/PX4CtrlFSM.cpp` |
| `GM`, `GMH` | `planner/plan_env/src/grid_map.cpp`, `include/plan_env/grid_map.h` |
| `AS` | `planner/path_searching/src/dyn_a_star.cpp` |
| `PO` | `planner/traj_opt/src/poly_traj_optimizer.cpp` |

## 1. The system

A drone runs a few ROS nodes. Goals enter at `/goal` or come from a preset route; the
planner node plans short trajectories, sends them to `traj_server`, which samples them
into `/position_cmd`; `px4_controller` turns commands into attitude and thrust for the
PX4 flight controller (FCU), unless the pilot or an automatic take-off or landing has
the drone. In a swarm every planned trajectory is broadcast to the other drones through
the bridge nodes.

| component | state it keeps | operations | interacts with | hard to get right |
|---|---|---|---|---|
| `EGOReplanFSM` (`F`) | execution state, goal, local and global trajectory, cached preview target, emergency flags, what it knows of the swarm | 100 Hz `execFSMCallback`, 20 Hz `checkCollisionCallback`, subscribers for odometry, goal, trigger, mandatory stop, swarm trajectories; a heartbeat thread | planner manager (synchronous calls), `traj_server` (trajectory topics), other drones | `planNextWaypoint` spins the callback queue from inside a callback; SWARM_CHECK changes the state from anywhere; several flags are cleared in one state and set in another |
| swarm exchange (`F` 3504–3607, `plan_container.hpp`, `planner_manager.cpp` 2377–2403) | per drone, one entry per other drone | broadcast, receive, store, drop, check collision | every planner of the swarm | messages lost, late, repeated and overtaking; planning at the same time; restarts; sequential start |
| `ReliableBridge` (`HPP`) | one queue, mutex, condition variable, socket and thread per device | `send_msg_to_one`, `send_msg_to_all`, transport threads, receive threads, `register_callback` | bridge nodes, ZeroMQ | unlocked reads, wait without a predicate, blocking send, broken connections |
| `PX4CtrlFSM` (`X`, `input.cpp`) | control state, RC edges, take-off and landing flags, last FCU state | 100 Hz `process`, one `feed` per topic, `land_detector` | pilot's RC, FCU services, odometry, `/position_cmd` | callbacks run in the middle of a tick; edges consumed late; stale flags; refused mode changes |
| command stream (`TS`, heartbeat thread `F` 338–352, `MT`, `ground_station.cpp`) | current trajectory, heartbeat age, joystick flags, ages of commands | heartbeat watchdog, 100 Hz command timer, take-over loop | planner, `px4_controller`, the pilot | three publishers of one topic, time-outs racing late messages, flags recomputed only now and then |
| perching and tracking runtime (`F`, `runtime/`) | stage, frozen terminal, contact latch, trigger, plate lock | stage transitions in `execFSMCallback`, target providers | the same FSM, its two timers | every entry of `WAIT_TARGET` forgets a round; the stage is handed over between two plans; three ways to replan |
| grid map (`GM`, `GMH`) | two ring buffers of different lengths, their origins and the window's bounds | depth images, point clouds, fading, moving the window | planner engine, A*, optimiser read it | index arithmetic in both directions, counts that must balance over many moves |
| A* (`AS`) | a pool of nodes that is never cleaned, the number of the search, the queue | `AstarSearch`, `getPath` | optimiser, grid map | nodes of earlier searches, keys changed inside the heap |
| trajectory checks (`PO` 2541–3037) | constraint points with base points and flags | fine check before and after, rough check during the optimisation | A*, grid map, L-BFGS | short gaps, ends of the checked part, segments that overlap or are merged |
| planner engine, compiler, tasks, frontend, solver, optimiser | none between calls, except failure counters | one synchronous `plan` | planner manager | numerics; fallbacks when a corridor fails |
| controllers, simulators, visualisers, message definitions | – | – | – | numeric or display only |

`PROJECT.json` lists every component with its status.

### What makes each component correct

* FSM: `EXEC_TRAJ` watches the trajectory that is flown and that leads to the current
  goal; no replan starts in a trajectory that is gone; stops are flown and mandatory
  stops are final; nothing flies without a target and a trigger; goals are served.
* Swarm: a drone that holds what another drone flies is clear of it; knowledge is never
  replaced by older knowledge; dropping far trajectories is harmless; the sequential
  start begins with drone 0 and reaches everybody.
* Bridge: messages of one device arrive in order, none lost or doubled while the device
  is up; queues are bounded; the ROS thread is never blocked by a device.
* PX4 controller: commands are followed only as long as the pilot, the odometry and the
  command stream allow it; the pilot gets the drone when he takes it; hover poses and
  the landed flag are fresh; MANUAL_CTRL does not keep the FCU in OFFBOARD.
* Command stream: one source commands the drone; a planner that is gone is not followed
  for long; the joystick moves the drone from where it is; the pilot gets it in the end,
  unless another drone pulls the planner out of its stop.
* Perching: the last metres lead to the frozen terminal, or, once the time it was predicted
  for has passed, on along the plate's velocity; no trajectory is flown under the
  rules of another stage; the drone is held while the plate is locked.
* Grid map: what the planner reads is the inflation of the obstacles in the window, and an
  obstacle stays where it was seen until it is seen free, fades or is left behind.
* A*: a path is free and connected, a search that fails had no way, every search ends.
* Trajectory checks: every obstacle the trajectory leaves is cut out, and every point of a
  reported segment has something that pushes it out.

## 2. Modules

| module | models | state and actions |
|---|---|---|
| `ReplanFSM` | state-to-state runtime of `EGOReplanFSM`, one drone | one variable per member (`exec_state`, `final_goal`, `local_traj`, `pending`, `flag_escape`, ...); `Exec*` are the cases of `execFSMCallback`, `Safety*` the outcomes of `checkCollisionCallback`, the rest one action per subscriber; `nest` counts unfinished `planNextWaypoint` loops |
| `SwarmTraj` | the exchange of trajectories among all drones | `swarm_traj[i][j]` is entry `j` of drone `i`; `Receive` is `RecvBroadcastPolyTrajCallback` (`Store`, `Drop`); the drone's own FSM is reduced to the steps that plan, publish or forget a trajectory, new goals and mandatory stops in any state among them |
| `ReliableBridge` | ROS thread, transport and receive threads of the bridge | `caller.pc` and `thread[d]` are program counters; a step ends at every unlocked read, lock, wait, notify and blocking send |
| `FifoLink` | what the bridge promises for one device | three counters; implemented by `ReliableBridge` (property `StrictOrder`) |
| `PX4Ctrl` | `PX4CtrlFSM::process` and the `feed` functions | one action per branch of `process`; the take-off branch, which runs callbacks before it arms, is two (`TakeoffBegins`, `TakeoffArms`) |
| `CommandStream` | heartbeat thread, `traj_server`, ground station, `manual_take_over`, and the freshness test of `px4_controller` | ages instead of time stamps; `CmdCallback` is the 100 Hz timer with its watchdog, `TakeOverLoop` one turn of the take-over loop with its queued callbacks; the planner hangs, recovers, dies, is stopped, or is pulled out of its stop by a SWARM_CHECK, after which it publishes by itself (`pulled`) until it finds the stop again (`StopsAgain`) or the pilot repeats it |
| `TaskStage` | the tracking and perching runtime of `EGOReplanFSM` | `stage`, `frozen`, `late`, `latched`, `triggered`, `lock`; the cases of `execFSMCallback` across the stages, the safety timer, the clock passing the frozen terminal's prediction time (`PredictionPasses`, `late`), and the callbacks that change a stage; launched to track, to perch, or for both |
| `GridMap` | the two ring buffers of the map | `occupied` and `inflate` over addresses (vectors of residues), `origin` and `inf_origin`, which lag behind `center`; `CloudCallback`, `UpdateOccupancyCallback` and `FadingCallback`, each with the whole of `moveRingBuffer` |
| `ObstacleMap` | what the occupancy buffer promises | the set of obstacles, without rings and addresses; implemented by `GridMap` (property `ImplementsObstacleMap`) |
| `AStar` | `AStar::AstarSearch` | `node[c]` is a `GridNode`, `rounds_` the number of the search, `openSet_` the queue; one action per way a search begins, goes on and ends |
| `ConstraintSegments` | `finelyCheckAndSetConstraintPoints` and `roughlyCheckConstraintPoints` | `scan` holds the flags of the loop over samples, `segment_ids` what it cuts, `guides` how many base points each constraint point has; `Found`, `SearchErr`, `Fails`, `Erases` are the answers of A*, `NextSegment` assigns the base points |
| `*_proofs` | theorems about the module they extend | |
| `MC*` | launches, places, terminals, flights and pools for TLC | |

`ReplanFSM` and `SwarmTraj` are two views of the same class: the first has every
transition of one drone and an unknown swarm (any trajectory may arrive at any time),
the second has the whole swarm and only those transitions the others can notice.
`TaskStage` is the same class again, launched for the other tasks; the states are those of
`ReplanFSM`, the goal logic is replaced by the stages. `CommandStream` takes from the
FSM what leaves the process (trajectories, a stop trajectory the first time, SWARM_CHECK)
and from `PX4Ctrl` that a command is followed while it is fresh; `PX4Ctrl` sees the planner
only as commands that are fresh or not. `AStar` reads a map as a set of occupied cells, and
`ConstraintSegments` reads A* as a search that finds a path or does not.

### Abstractions

* Positions, velocities and optimisation results are nondeterministic choices of the
  step that reads them. A trajectory is the point it leads to (`ReplanFSM`) or the set of
  places it passes (`SwarmTraj`); two trajectories meet when the first two thirds of one
  (`Early`) and the other share a place, as in `checkCollision`.
* Time is "a time-out may pass now" (`TimesOut`, `TimePasses`), `start_time` is a counter
  of the sender.
* `PX4Ctrl`: odometry is ground contact and a speed class; every FCU mode but OFFBOARD is
  "MANUAL"; the FCU may refuse a mode change.
* `SwarmTraj` keeps every broadcast for ever; a lost message is one never received, a
  repeated one is received twice. Nothing forces a broadcast to be received that was sent
  before its receiver restarted (see fairness). A sender in `Ordered` is heard over the TCP
  bridge. `TakeOffs` are the placements the drones may start from.
* `CommandStream`: a command is who published it and the pose it is about, up to what the
  sticks added; time is counted in ticks of a common length, and both loops run between two
  ticks. A pulled planner may publish any trajectory at any time: whether it is in
  REPLAN_TRAJ, EXEC_TRAJ or flies another task is not told apart.
* `TaskStage`: a terminal is a model value, the live provider may build any; speeds,
  gates, clocks and the solver are choices. `F` 2448–2492 takes the time since the freeze
  off the frozen prediction time and, when nothing is left, moves the plate, terminal and
  anchor along the plate's velocity: `Later[t]` is the set of terminals this can make of
  `t`, and `late` says that it does. The frozen terminal itself stays as it was, and contact
  is tested against it (`F` 781–796). `perching_round_active_` is read only where it
  is cleared, and `active_perching_terminal_` is the one last planned for: neither is a
  variable. `left` remembers why a hold was given up.
* `GridMap`: log-odds are above or below the threshold; which voxels a ray or a fading pass
  changes is a choice; the camera may be anywhere at the next message. `strayed` remembers
  that a message has written to the voxel of another place, `was_reset` that the emergency
  reset of `changeInfBuf` ran.
* `AStar`: the heap is ordered by `fScore`, but `fScore` is lowered while a node waits in
  it, so any waiting node may be the next; heuristics and the walk of an occupied end point
  out of its obstacle are left out. Costs are integers.
* `ConstraintSegments`: a piece has any number of samples; what A* returns and where its
  path meets the plane through a point are choices; base points are counted up to two.

## 3. What the runs check

| run | instance | shows |
|---|---|---|
| `fsm_flights` | drone 3 of a swarm, flown from `/goal` or along a route of two waypoints that waits for a trigger, drones 0–2 heard at any time, two nested loops | eight state properties of the FSM and its liveness, `GoalIsServed` and `EmergencyIsEscaped` |
| `bridge_two` | two failing devices, `Queue_size` 1, three messages and one | `Conservation`, `StrictOrder` (the refinement of `FifoLink`), `NextSendFlushes`, `CallerReturns` |
| `bridge_wake` | one device that does not fail | violation: see findings |
| `swarm_pair` | two drones on a line of three places, taking off from (1, 2) or (3, 1), two trajectories each, both may be stopped, drone 1 restarts | `HeldIsClear`, `BelievesNewest`, `NeverOlder`, `DropIsHarmless`, `StartPropagates` |
| `px4_both` | a drone with a remote control, automatic take-off and arming, and one without that hovers on start | `HoverPoseIsFresh`, `ManualIsReleased`, `PilotAllows`, `PilotGetsDrone`, `SilenceEndsCmd` |
| `px4_takeoff` | as `px4_both`, with the remote control | violation: see findings |
| `command_stream` | one pose besides the origin, time-outs of one tick, trajectories of four | `OneSource`, `NoFlightWithoutPlanner`, `JoystickContinues`, `PilotTakesOver` |
| `task_stages` | three terminals along the plate's way, every combination of tasks and auto start | `CommitFliesFrozen`, `FliesForItsStage`, `HeldWhileLocked` |
| `map_window` | one axis, a window of four voxels, an inflation of one, the camera up to three voxels away | `InflationExact`, `SettledIsExact`, `ImplementsObstacleMap` (the refinement of `ObstacleMap`: obstacles stay where they were seen, and appear nowhere else, however the rings turn) |
| `map_fading` | the same, one voxel per message | violation: see findings |
| `astar` | a pool of 5 × 4 cells, four maps, two searches | `PathIsClear`, `NoCircle`, `GivenUpIsCut`, `SearchReturns` |
| `segments` | six constraint points, up to three segments | `ObstaclesAreCut`, `SegmentsArePushed` |

The properties, in words, stand in front of each definition. The ones with exceptions
name exactly what the code lets happen: `StopIsFlown`, `MandatoryStopIsFinal`,
`SequentialStart` and `FliesForATarget` hold up to a SWARM_CHECK that pulled the FSM out
of `EMERGENCY_STOP`, `GEN_NEW_TRAJ` or `WAIT_TARGET` (variable `pulled`, `F` 3591–3592
tests no state). After such a pull `flag_escape_emergency_` stays false, a later stop is
not published, and a mandatory stop does not hold. `HeldWhileLocked` excludes a planner
that perches alone with auto start (`F` 524), `InflationExact` a map that has booked
something on the wrong voxel, `FinelyCut` the obstacle the checked part ends in and the
last piece behind another segment.

### Bounds and why they are enough

* `MaxNest` 2: a loop nested in a loop is the first case where two unfinished calls see
  the same `EXEC_TRAJ`; a third adds nothing but depth. The theorems hold for any depth.
* Two goals: the current and another. Drones 0–2 below drone 3: one predecessor that is
  drone 0, one that is not, and one next to it.
* Bridge: `QueueSize` 1 and `PipeCap` 1 are passed by three messages, so a full queue, a
  full pipe and a stranded message happen; two devices are enough for one that blocks and
  one that must not be blocked.
* Swarm: places 1 and 3 of a line of three are far, 2 is near both, and a trajectory stays
  where it is or goes on to the next place; two trajectories per
  drone (`MaxStamp`) are enough to be late, repeated, dropped and replaced. Every drone's
  start waits for drone 0 only, so two drones show how the start propagates. Of the
  two take-off placements one has drone 1 ahead of drone 0 and near, the other behind and far. `Restarts` and
  `Stopped` name who may restart and be stopped; the theorems hold for any number of drones,
  any paths (head-on ones too), any restarts and any stops.
* PX4: `Speeds` has one class that passes each test and one that fails it; all other state
  is finite in the code. The switches are complete.
* Command stream: ages stop growing once they have passed every test there is, so short
  time-outs show every order of their expiry; a trajectory of four ticks outlasts all of
  them. The pose of the trajectories and the origin are the two a command can confuse;
  `JoystickTakesOverInPlace` is proved for any set of poses.
* Task stages: three terminals along a line, each leading on to the next: the frozen one,
  where a late replan leads, and one that neither is; nothing is bounded.
* Map: with a range of two and an inflation of one the rings have four and six voxels, and
  a camera within `Reach` 3 of the origin jumps up to six: part of the window is left, or
  all of it, and addresses wrap in both directions. At most two voxels change per message:
  two obstacles whose inflations overlap. A map that has booked something on the wrong voxel is not
  followed further (`CONSTRAINT Followed`); nothing is claimed for it.
* A*: six inner cells with a wall, a wall with a gap and single blocks make searches that
  succeed around corners, that fail, and that meet the nodes of a search in another map.
  `MaxSearches` 2 ends the run (deadlock is off for that reason). One end lies on the rim of
  the pool, where no path leads.
* Segments: `Cols` 6 has two segments with a shared point, a piece between them and a part
  behind two thirds. What earlier optimisations left in the constraint points is a base
  point or a flag for all of them or for none.

### Fairness

* `ReplanFSM`: the timers and the nested loops run as long as the node spins (weak
  fairness of the exec actions without a choice). Two assumptions are about the world, not
  the code: a solver tried for ever succeeds some time (`PlanProgress`, strong, because
  goals and stops interrupt the attempts), a stopping drone gets slow (`StopProgress`).
  Goals, swarm messages, stops and the safety timer have no fairness.
* `ReliableBridge`: threads run (weak fairness); a blocking send to a device that is up
  again and again gets through (strong); devices connect and read. Sending, spurious
  wake-ups, interruptions and failures have no fairness.
* `SwarmTraj`: a drone that may start plans again until it succeeds (strong: what it knows
  may change in between). A broadcast reaches, once, the drones whose planners run when it
  is sent (weak, for the broadcasts of each sender newer than what was heard): this is what
  the TCP bridge does while the device is up, and an assumption about the radio for UDP.
  Nothing sent before a restart counts (`missed`): `F` 3515 drops what is older than 10 s and
  no transport sends it again. `StartPropagates` therefore asks that drone 0, and a drone
  from the predecessor on, broadcast after the last restart of the one that waits; without
  that TLC finds drone 1, restarted after drone 0's last broadcast, waiting for ever.
* `PX4Ctrl`: only the 100 Hz tick (`Process`). No message, pilot or time-out is forced.
* `CommandStream`: both loops have their turn, then time goes on, and a trajectory is
  delivered (weak); a joystick repeats its state (`autorepeat_rate` of the joy node); a
  planner that runs again and again gets to a mandatory stop that is queued (strong). No
  heartbeat is forced, and hanging, dying, recovering, SWARM_CHECK and `StopsAgain` are not
  either. `PilotTakesOver` has two parts. One press gets the pilot the drone, whether the
  planner obeys, hangs or dies, unless a running planner was pulled out of its stop: one
  SWARM_CHECK is enough for it to command for ever, even when the swarm is silent
  afterwards. A pilot who keeps pressing gets the drone for good once no SWARM_CHECK comes
  any more. TLC refutes the property when any of these premises is dropped.
* `AStar`: the loop runs (weak); the time limit is not relied upon.
* `TaskStage`, `GridMap` and `ConstraintSegments` state no fairness.

## 4. What is proved

For every value of the constants, under the named assumptions in the modules
(`ConstantsOK`, `ValuesDistinct`, `BridgeAssumption`, `SwarmAssumption`, `PX4Assumption`,
`StreamAssumption`, `LaunchesOK`, `LaterOK`, `GridAssumption`, `PoolAssumption`, `ColsAssumption`):

* `ReplanFSM_proofs`: type correctness and all nine state properties of the FSM, and
  the action property `WipedIsReplannedFromOdom`. The invariant adds four facts the
  properties do not contain: `StopPending` (flag_escape is down only between the handling
  of a stop and the end of GEN_NEW_TRAJ, and the stop is flown all that time),
  `MandatoryDisarms`, and `StartPending` and `TargetPending` (before the first start, or
  without target and trigger, the only emergency is one the fail safe does not leave).
* `ReliableBridge_proofs`: type correctness, `Conservation`, `QueueBounded`, and that the
  bridge implements `FifoLink` for every device (`StrictOrder`). The invariant says that
  queue and pipe hold consecutive numbers (`InOrder`), that send and pop find a message
  (`QueueHasFront`), and that the room tested before a push is still there
  (`RoomForPush`: only the ROS thread pushes).
* `SwarmTraj_proofs`: type correctness, `HeldIsClear`, `DroneZeroFirst`, `NeverOlder`,
  `DropIsHarmless`, `BelievesNewest`, for any number of drones and any geometry that
  satisfies `SwarmAssumption` (a trajectory is no longer than the horizon within which
  others are kept). The invariant says that a stamp names one broadcast and all that is
  held or flown was sent (`Integrity`), that a drone in EXEC_TRAJ is clear of *everything*
  it holds, current or not (`KnownIsClear`), and who has heard drone 0 (`HeardFirst`). A
  mandatory stop makes an exception of the last: the stop trajectory is one to fly before
  anybody was heard, and a message that meets it makes the drone replan.
* `PX4Ctrl_proofs`: type correctness, `HoverPoseIsFresh`, `ManualIsReleased`,
  `TakeoffIsFlight`, `PilotAllows`, for every combination of launch parameters. The
  invariant adds that the mode before OFFBOARD is known outside MANUAL_CTRL, that hover
  sets its pose, that callbacks inside a tick run in AUTO_TAKEOFF only, and that
  `is_command_mode` is the gear switch of the last message with the hover switch on.
* `CommandChain_proofs`, the two ends of the command chain in one module. Of
  `CommandStream`: type correctness, `OneSource`, `NoFlightWithoutPlanner`,
  `JoystickContinues`. The invariants say where the pose of the last command is known
  (`PosesAgree`), that two turns of the loop with both sources would need a flag that the
  first turn has taken back (`OverlapEnds`), and how the age of a command, of the heartbeat
  and of a planner that is gone bound each other (`TrajEnds`, `WatchdogFires`). Of
  `TaskStage`, whose definitions carry the prefix `Task` where both modules have one of the
  name: type correctness, `CommitFliesFrozen`, `FliesForItsStage`, `HeldWhileLocked`. `CommitFliesFrozen`
  holds for any `Later`, whose only assumption (`LaterOK`) is that a terminal becomes
  terminals; beyond the frozen one it allows what a late replan makes of it and nothing else. Their
  conjunction is inductive: a trajectory fits its stage because what a plan aims at is chosen
  by the stage it is made in, and the states that hand a stage over forget what was frozen.
* `GridMap_proofs`: type correctness, `InflationExact`, `SettledIsExact`, and that the rings
  implement `ObstacleMap` (`Implements`), for any number of axes, any range and inflation and any flight. A residue names a voxel of a window
  uniquely, moving the window keeps the residues, and every message adds or removes whole
  voxels, so the second buffer is always the inflation of the first; counts stay below the
  flag because `GridAssumption` bounds the inflated neighbourhood, as `initMap` does. The
  refinement maps the addresses of the first buffer to the voxels of the window: a message
  gives up the rows its camera leaves behind (`KeptIsKept`) and then changes the voxels it saw
  and no other (`SeenIsObserved`), fading forgets one, all else stutters.
* `AStar_proofs`: type correctness, `PathIsClear`, `NoCircle`, `GivenUpIsCut`, for a pool of
  any dimension and size, any maps and any order in which the queue yields its nodes. The
  invariant looks only at nodes stamped with the running search whose cell is free: each but
  the start was reached from a node that is done and nearer, nodes wait once as long as they
  are open, and the neighbours of a done node are stamped.
* `ConstraintSegments_proofs`: type correctness, `ObstaclesAreCut`, `SegmentsArePushed`, for
  every number of constraint points and of segments and every pattern of samples. The
  invariant of the scan says what each combination of its flags means (`Scanned`): where the
  obstacle in sight or just left is cut, that an open segment is one `last_occ` or the pending
  end stands for, that ends without a begin occur in the last piece only; `Sorted` keeps the
  list in order through merges and erasures, and `Assigned` keeps the parted segments apart.
  Type correctness has a consequence for the code: the test for negative `in_id` and `out_id`
  ("Should not happen!") never applies. The model writes the loops over segments and
  points (parting, filling in the neighbour's base point) as what they do to each entry, so
  no induction over data is needed.

Some facts are proved without a run of their own: the type invariants (`TypeCorrect` of
each module), `WipedIsReplannedFromOdom`, `LocalIsPublished`, `QueueBounded`,
`TakeoffIsFlight`, `DroneZeroFirst`. Every invariant and every action property that a run
checks has a theorem, and both refinements are proved.

Only model-checked: the nine liveness properties (`GoalIsServed`, `EmergencyIsEscaped`,
`NextSendFlushes`, `CallerReturns`, `StartPropagates`, `PilotGetsDrone`, `SilenceEndsCmd`,
`PilotTakesOver`, `SearchReturns`), because fairness and ENABLED are beyond the prover; and
the three findings, which are counterexamples.

## 5. Findings

* **A lost notification strands a message** (`bridge_wake`, `HPP` 80). `wait` has no
  predicate; a message queued while the thread is not in `wait` stays until another send.
* **Take-off accepted in the air** (`px4_takeoff`, `X` 299). `landed` is reset only when
  MANUAL_CTRL is left for AUTO_HOVER or AUTO_TAKEOFF; a drone armed and flown by hand
  still counts as landed. The same flag lets an AUTO_LAND idle the motors (`X` 222).
* **Fading takes an obstacle from the wrong place** (`map_fading`, `GM` 772).
  `moveRingBuffer` brings the origins into the bounds of the update before; until the next
  update `BufIdx2GlobalIdx` turns addresses that came in into voxels one window away, and
  `fadingCallback` lowers the counts there. A count becomes negative, and the emergency
  reset empties the whole map (`GMH` 346–352).

Smaller remarks, from reading the code for the models, without a run: a bridge queue holds one message more than `Queue_size`
(`HPP` 399 tests `>` before the push; `QueueBounded` states the real bound). A negative
`drone_id` does not mean "no received trajectories" (`plan_container.hpp` 39): it also
marks a drone whose last trajectory was far (`F` 3606). Drone 0 never sets
`have_recv_pre_agent_`, so it never drops. `trajectory_leaves_corridor` in
`checkCollisionCallback` is never set (`F` 1072). `checkCollision` returns early while
`start_time` is below 1e9 (`planner_manager.cpp` 2379), which is always so under
simulated time, and does not look at the last third of the drone's own trajectory.
AUTO_TAKEOFF is left neither by the hover switch nor by lost odometry. Perching
trajectories are not broadcast to the swarm.

* `PX4CtrlFSM`: the take-off branch runs callbacks, arms, and falls through to the reboot
  test (`X` 102), which reads the armed flag of the last State message: a reboot edge received
  meanwhile reboots the FCU in the tick that armed it. A delayed take-off trigger is kept
  (`X` 144); the age of the RC messages is never looked at (`X` 113).
* `traj_server`: the hover pose is zero before the first sample (`TS` 331); the watchdog
  gives the trajectory up for good, also if the heartbeat returns (`TS` 330); the two
  trajectory topics are not ordered against each other (`TS` 178).
* `EGOReplanFSM`: one SWARM_CHECK takes a planner out of a mandatory stop (`F` 3592), and
  nothing in REPLAN_TRAJ, the safety timer or the tracking and perching runtime looks at
  `mandatory_stop_` again; only the state-to-state decision does (`F` 1625). After the
  prediction time a replan of the commit leads along the plate's velocity (`F` 2463), while
  contact is tested where the terminal was frozen (`F` 781).
  A far trajectory is not sent again when its sender comes near (`F` 3562).
  A perching trigger received in flight is kept (`F` 3136) until a perching plan succeeds
  (`F` 2870). A second standalone round is tested against the terminal of the first
  (`F` 781). A tracking reference in the middle of a perching makes the local target the goal (`F` 3484). With auto start
  `WAIT_TARGET` leaves the hold at once (`F` 524), while `F` 823 logs that it holds and
  `single_drone_perching.launch` starts that way.
* `ReliableBridge` drops messages that arrive before `register_callback` (`HPP` 131).
* Grid map: a point on the upper face of the window counts as inside (`GMH` 506) but is
  booked in the lowest row; fading can take the inflation of an obstacle that is still
  there; the origins stay behind as long as no image or cloud arrives.
* A*: `inf = 1 >> 20` is zero, which does no harm because every score is set before it is
  read; an end on the rim of the pool is never reached; a path need not be the shortest.
* Trajectory checks: when the checked part ends inside an obstacle the fine check answers
  `OBS_FREE` and the optimiser takes the trajectory (`PO` 1253), while the rough check calls
  the same situation an error (`PO` 2907). A constraint point two segments share before
  they are parted, (1, 3) and (2, 3) for instance, can get two base points, and `distinctiveTrajs` gives up with "Should not
  be happen!" (`PO` 3162–3166). Three obstacles in one piece can leave an inverted segment such
  as (3, 2), whose `direction` is then read although it is empty (`PO` 3236). `intersection_point`
  is read uninitialised once an earlier point had an intersection (`PO` 2747). The rough check
  skips the second point behind a segment (`PO` 2912) and rebounds even when no A* search
  succeeded (`PO` 3032).

## 6. Not modelled

* Controllers, optimiser costs, corridors, guide paths, ray casting and the simulators are
  floating-point computations: neither tool says anything useful about them.
* Around the models: `distinctiveTrajs` and the restart loop of `optimizeTrajectory`; the
  distance field, virtual walls and depth time-out of the grid map; jump point search and
  the visible region graph; the bridge nodes and `traj2odom`, which only forward frames.
* The constructor of `ReliableBridge` starts threads while it still grows the vectors they
  index (`HPP` 296), and `StopThread` cancels threads it does not join: data races at start
  and shutdown the model leaves out.
* `checkCollision` by the clock: start times below 1e9 and the last third of a trajectory
  (`PM` 2379) are abstracted by `Early`.
* How long the old trajectory stays clear while `REPLAN_TRAJ` fails again and again (`F` 1054):
  it depends on metres and seconds.
* RC loss is detected by the FCU, not by this code.

## 7. What could come next

1. `distinctiveTrajs` as the reader of what `ConstraintSegments` leaves: which of its
   "should not happen" cases the segments reach.
2. The failure counters and corridor fallbacks of `planner_engine.cpp`.
3. Each drone of `SwarmTraj` refined by `ReplanFSM` (a mapping on `exec_state` and the
   trajectories), and `ReplanFSM` with `TaskStage` in one module.
