------------------------------ MODULE SwarmTraj ------------------------------
(***************************************************************************)
(* How the drones of a swarm learn of each other's trajectories and keep   *)
(* clear of them: every planned trajectory is broadcast, and               *)
(* RecvBroadcastPolyTrajCallback (plan_manage/src/ego_replan_fsm.cpp)      *)
(* stores, drops or reacts to what arrives.  The rest of each drone's      *)
(* state machine is ReplanFSM; here only the steps that plan, publish or   *)
(* forget a trajectory are kept.                                           *)
(*                                                                         *)
(* Abstractions.  A trajectory is a model value with the set of places it  *)
(* passes (Along) and those of its first two thirds (Early), so that two   *)
(* trajectories meet when those sets do.  start_time is a counter of the   *)
(* sender.  For the safety properties the network may deliver a broadcast  *)
(* at any time and again; one that is lost or too old for the ten-second   *)
(* test is one that never arrives.  What FairSpec counts on is less: a     *)
(* broadcast reaches, once, the drones whose planners run when it is sent. *)
(***************************************************************************)
EXTENDS Integers

CONSTANTS
  NumDrones,
  Places,
  Paths,
  Along,     \* Along[p]: the places of the constraint points of p
  Early,     \* Early[p]: those within the first two thirds of p
  HoverAt,   \* HoverAt[x]: the stop trajectory at x
  TakeOffs,  \* the placements of the drones when they are started
  Near,      \* Near[x]: the places within 4/3 of the planning horizon of x
  NoPath,
  Ordered,   \* senders heard in order and once (bridge_node_tcp), not by datagrams
  Restarts,  \* drones whose planner may restart
  Stopped,   \* drones that may be sent a mandatory stop
  MaxStamp   \* bound: trajectories published per drone

Drones == 0 .. NumDrones - 1

ASSUME SwarmAssumption ==
  /\ NumDrones \in Nat \ {0}
  /\ Along \in [Paths -> SUBSET Places]
  /\ Early \in [Paths -> SUBSET Places]
  /\ \A p \in Paths : Early[p] \subseteq Along[p]
  /\ HoverAt \in [Places -> Paths]
  /\ \A x \in Places : Along[HoverAt[x]] = {x}
  /\ TakeOffs \subseteq [Drones -> Places]
  /\ Near \in [Places -> SUBSET Places]
  /\ \A p \in Paths : \A x, y \in Along[p] : y \in Near[x]  \* no longer than the horizon
  /\ NoPath \notin Paths
  /\ Ordered \subseteq Drones /\ Restarts \subseteq Drones /\ Stopped \subseteq Drones
  /\ MaxStamp \in Nat

VARIABLES
  exec_state,  \* exec_state_ of each drone
  place,       \* odom_pos_
  local,       \* traj_.local_traj, [stamp, path]; path NoPath when wiped
  stamp,       \* the sender's clock: start_time of its last trajectory
  swarm_traj,  \* swarm_traj[i][j] of drone i, [id, stamp, path]
  pre_agent,   \* have_recv_pre_agent_
  mandatory_stop,  \* mandatory_stop_
  sent,        \* every trajectory ever broadcast, [from, stamp, path]
  heard,       \* history: the newest trajectory of j that reached i since i started
  missed       \* history: the clock of j when i last restarted, until i hears j again

vars == <<exec_state, place, local, stamp, swarm_traj, pre_agent, mandatory_stop, sent, heard,
          missed>>

States == {"WAIT_TARGET", "SEQUENTIAL_START", "EXEC_TRAJ", "REPLAN_TRAJ",
           "EMERGENCY_STOP", "GEN_NEW_TRAJ"}

Blank == [id |-> -1, stamp |-> 0, path |-> NoPath]
NoTraj == [stamp |-> 0, path |-> NoPath]

Init ==
  /\ exec_state = [i \in Drones |-> "WAIT_TARGET"]
  /\ place \in TakeOffs
  /\ local = [i \in Drones |-> NoTraj]
  /\ stamp = [i \in Drones |-> 0]
  /\ swarm_traj = [i \in Drones |-> [j \in Drones |-> Blank]]
  /\ pre_agent = [i \in Drones |-> FALSE]
  /\ mandatory_stop = [i \in Drones |-> FALSE]
  /\ sent = {}
  /\ heard = [i \in Drones |-> [j \in Drones |-> NoTraj]]
  /\ missed = [i \in Drones |-> [j \in Drones |-> 0]]

-----------------------------------------------------------------------------
\* p passes too close to q within the part of p that is checked.
Meets(p, q) == p # NoPath /\ q # NoPath /\ Early[p] \cap Along[q] # {}

\* The optimiser accepts p only when it keeps clear of every trajectory known.
ClearOf(i, p) ==
  \A j \in Drones : swarm_traj[i][j].id >= 0 => ~Meets(p, swarm_traj[i][j].path)

\* A trajectory of drone i is installed, published and broadcast.
Publish(i, p) ==
  /\ stamp[i] < MaxStamp
  /\ stamp' = [stamp EXCEPT ![i] = @ + 1]
  /\ local' = [local EXCEPT ![i] = [stamp |-> stamp'[i], path |-> p]]
  /\ sent' = sent \cup {[from |-> i, stamp |-> stamp'[i], path |-> p]}

Goto(i, s) == exec_state' = [exec_state EXCEPT ![i] = s]

\* A plan starts where the drone is; a failed attempt changes nothing here.
PlanSucceeds(i) ==
  /\ \E p \in Paths : place[i] \in Along[p] /\ ClearOf(i, p) /\ Publish(i, p)
  /\ Goto(i, "EXEC_TRAJ")

\* SEQUENTIAL_START: only drone 0 starts without having heard a predecessor.
MayStart(i) == i = 0 \/ pre_agent[i]

knowledge == <<swarm_traj, pre_agent, heard, missed>>

-----------------------------------------------------------------------------
(* The state machine of drone i, as far as the swarm can see it.           *)

\* A new global trajectory wipes the local one, whatever the state.
NewGoal(i) ==
  /\ exec_state' = [exec_state EXCEPT ![i] = IF @ = "EXEC_TRAJ" THEN "REPLAN_TRAJ" ELSE @]
  /\ local' = [local EXCEPT ![i].path = NoPath]
  /\ UNCHANGED <<place, stamp, sent, mandatory_stop, knowledge>>

\* WAIT_TARGET is left when the target is ready, of a goal or of a moving tracking target.
WaitTarget(i) ==
  /\ exec_state[i] = "WAIT_TARGET"
  /\ Goto(i, "SEQUENTIAL_START")
  /\ UNCHANGED <<place, local, stamp, sent, mandatory_stop, knowledge>>

Start(i) ==
  /\ exec_state[i] = "SEQUENTIAL_START" /\ MayStart(i)
  /\ PlanSucceeds(i)
  /\ UNCHANGED <<place, mandatory_stop, knowledge>>

Replan(i) ==
  /\ exec_state[i] \in {"REPLAN_TRAJ", "GEN_NEW_TRAJ"}
  /\ PlanSucceeds(i)
  /\ UNCHANGED <<place, mandatory_stop, knowledge>>

\* evaluateStateToStateDecision replans now and then, unless a mandatory stop is on;
\* planNextWaypoint, which waited for EXEC_TRAJ, replans at once.
Decide(i) ==
  /\ exec_state[i] = "EXEC_TRAJ"
  /\ \/ Goto(i, "REPLAN_TRAJ")
     \/ mandatory_stop[i] /\ Goto(i, "EMERGENCY_STOP")
  /\ UNCHANGED <<place, local, stamp, sent, mandatory_stop, knowledge>>

\* The safety timer finds an unsafe sample, of an obstacle or of another drone.
Unsafe(i) ==
  /\ exec_state[i] = "EXEC_TRAJ"
  /\ \/ PlanSucceeds(i)
     \/ \E s \in {"EMERGENCY_STOP", "REPLAN_TRAJ"} : Goto(i, s) /\ UNCHANGED <<local, stamp, sent>>
  /\ UNCHANGED <<place, mandatory_stop, knowledge>>

\* mandatoryStopCallback, in any state; it also turns the fail safe off.
MandatoryStop(i) ==
  /\ i \in Stopped
  /\ mandatory_stop' = [mandatory_stop EXCEPT ![i] = TRUE]
  /\ Goto(i, "EMERGENCY_STOP")
  /\ UNCHANGED <<place, local, stamp, sent, knowledge>>

\* callEmergencyStop, once per emergency unless flag_escape_emergency_ is stale, see
\* ReplanFSM.
CallEmergencyStop(i) ==
  /\ exec_state[i] = "EMERGENCY_STOP"
  /\ Publish(i, HoverAt[place[i]])
  /\ UNCHANGED <<exec_state, place, mandatory_stop, knowledge>>

\* The fail safe, once the drone is slow.
EscapeEmergency(i) ==
  /\ exec_state[i] = "EMERGENCY_STOP" /\ ~mandatory_stop[i]
  /\ Goto(i, "GEN_NEW_TRAJ")
  /\ UNCHANGED <<place, local, stamp, sent, mandatory_stop, knowledge>>

\* The goal is reached; a preset route begins again with its first waypoint.
Arrive(i) ==
  /\ exec_state[i] = "EXEC_TRAJ" /\ Goto(i, "WAIT_TARGET")
  /\ local' = [local EXCEPT ![i].path = NoPath] \/ UNCHANGED local
  /\ UNCHANGED <<place, stamp, sent, mandatory_stop, knowledge>>

\* traj_server flies the last trajectory published, whatever became of local_traj.
Fly(i) ==
  /\ \E m \in sent : /\ m.from = i /\ m.stamp = stamp[i]
                     /\ \E x \in Along[m.path] : place' = [place EXCEPT ![i] = x]
  /\ UNCHANGED <<exec_state, local, stamp, sent, mandatory_stop, knowledge>>

\* The planner of drone i is started again; the wall clock goes on.
Restart(i) ==
  /\ i \in Restarts
  /\ Goto(i, "WAIT_TARGET")
  /\ local' = [local EXCEPT ![i] = NoTraj]
  /\ swarm_traj' = [swarm_traj EXCEPT ![i] = [j \in Drones |-> Blank]]
  /\ pre_agent' = [pre_agent EXCEPT ![i] = FALSE]
  /\ mandatory_stop' = [mandatory_stop EXCEPT ![i] = FALSE]
  /\ heard' = [heard EXCEPT ![i] = [j \in Drones |-> NoTraj]]
  /\ missed' = [missed EXCEPT ![i] = [j \in Drones |-> IF j = i THEN 0 ELSE stamp[j]]]
  /\ UNCHANGED <<place, stamp, sent>>

-----------------------------------------------------------------------------
(* RecvBroadcastPolyTrajCallback.                                          *)

\* An older trajectory, or the same one again, is ignored.
IsNewerMutant(i, m) == m.stamp # swarm_traj[i][m.from].stamp
IsNewer(i, m) == m.stamp > swarm_traj[i][m.from].stamp

FarAwayMutant(i, p) == \E x \in Along[p] : x \notin Near[place[i]]
FarAway(i, p) == Along[p] \cap Near[place[i]] = {}

\* While the predecessors are unknown even a far trajectory is stored.
KeepsMutant(i, p) == ~FarAway(i, p)
Keeps(i, p) == ~FarAway(i, p) \/ ~pre_agent[i]

\* A stored trajectory that meets the local one asks for a replan.
CheckCollisionMutant(i, p) == UNCHANGED exec_state
CheckCollision(i, p) ==
  exec_state' = IF Meets(local[i].path, p)
                  THEN [exec_state EXCEPT ![i] = "REPLAN_TRAJ"] ELSE exec_state

\* A trajectory that is dropped leaves its predecessor's time stamp in place.
ForgetMutant(t) == t
Forget(t) == [t EXCEPT !.id = -1]

\* The vector swarm_traj of drone i has an entry for drone i - 1.
LongEnough(i) == \E j \in Drones : j >= i - 1 /\ swarm_traj'[i][j].stamp > 0

\* The loop over the lower ids is content with drone 0.
RecvPreAgent(i) ==
  pre_agent' =
    [pre_agent EXCEPT ![i] = @ \/ (i > 0 /\ LongEnough(i) /\ swarm_traj'[i][0].id = 0)]

\* The index recv_id, which becomes the drone_id of the entry.
RecvId(m) == m.from

Store(i, m) ==
  /\ Keeps(i, m.path)
  /\ swarm_traj' = [swarm_traj EXCEPT ![i][m.from] =
                      [id |-> RecvId(m), stamp |-> m.stamp, path |-> m.path]]
  /\ CheckCollision(i, m.path)
  /\ RecvPreAgent(i)

Drop(i, m) ==
  /\ ~Keeps(i, m.path)
  /\ swarm_traj' = [swarm_traj EXCEPT ![i][m.from] = Forget(@)]
  /\ UNCHANGED <<exec_state, pre_agent>>

Receive(i, m) ==
  /\ m.from # i
  /\ m.from \in Ordered => m.stamp > heard[i][m.from].stamp
  /\ IsNewer(i, m)
  /\ Store(i, m) \/ Drop(i, m)
  /\ heard' = IF m.stamp > heard[i][m.from].stamp
                THEN [heard EXCEPT ![i][m.from] = [stamp |-> m.stamp, path |-> m.path]]
                ELSE heard
  /\ missed' = [missed EXCEPT ![i][m.from] = IF m.stamp > @ THEN 0 ELSE @]
  /\ UNCHANGED <<place, local, stamp, mandatory_stop, sent>>

-----------------------------------------------------------------------------
Drone(i) ==
  \/ NewGoal(i) \/ WaitTarget(i) \/ Start(i) \/ Replan(i) \/ Decide(i) \/ Unsafe(i)
  \/ MandatoryStop(i) \/ CallEmergencyStop(i) \/ EscapeEmergency(i) \/ Arrive(i)
  \/ Fly(i) \/ Restart(i)

Next == \E i \in Drones : Drone(i) \/ \E m \in sent : Receive(i, m)

Spec == Init /\ [][Next]_vars

\* A broadcast of j that was sent since i started and has not reached it, nor a newer one.
Awaited(i, j) ==
  {m \in sent : m.from = j /\ m.stamp > missed[i][j] /\ m.stamp > heard[i][j].stamp}

\* A drone that may start keeps trying until the optimiser succeeds, and a planner that
\* goes on running hears what is broadcast meanwhile, once.
FairSpec ==
  /\ Spec
  /\ \A i \in Drones :
       /\ SF_vars(Start(i))
       /\ \A j \in Drones \ {i} : WF_vars(\E m \in Awaited(i, j) : Receive(i, m))

-----------------------------------------------------------------------------
(* Properties.                                                             *)

\* The fields keep the type of the C++ members; the drone_id of an entry is its
\* index in swarm_traj or -1.
TypeOK ==
  /\ exec_state \in [Drones -> States]
  /\ place \in [Drones -> Places]
  /\ local \in [Drones -> [stamp : Nat, path : Paths \cup {NoPath}]]
  /\ stamp \in [Drones -> Nat]
  /\ swarm_traj \in [Drones -> [Drones ->
                      [id : Drones \cup {-1}, stamp : Nat, path : Paths \cup {NoPath}]]]
  /\ \A i, j \in Drones : swarm_traj[i][j].id \in {j, -1}
  /\ pre_agent \in [Drones -> BOOLEAN] /\ mandatory_stop \in [Drones -> BOOLEAN]
  /\ sent \subseteq [from : Drones, stamp : Nat, path : Paths]
  /\ heard \in [Drones -> [Drones -> [stamp : Nat, path : Paths \cup {NoPath}]]]
  /\ missed \in [Drones -> [Drones -> Nat]]

\* The trajectory j flies was heard by i and not dropped.
Holds(i, j) ==
  local[j].path # NoPath /\ swarm_traj[i][j].id = j /\ swarm_traj[i][j].stamp = local[j].stamp

\* A drone in EXEC_TRAJ that holds the trajectory another drone flies does not
\* meet it, in whatever order the two planned, broadcast, restarted and heard of
\* each other: it replanned when the message came or planned around it.
HeldIsClear ==
  \A i, j \in Drones :
    exec_state[i] = "EXEC_TRAJ" /\ i # j /\ Holds(i, j) => ~Meets(local[i].path, local[j].path)

\* What is held about another drone never goes back in time, although messages
\* are repeated and overtake each other, until the planner restarts.
NeverOlder ==
  [][\A i, j \in Drones :
       swarm_traj[i][j].stamp <= swarm_traj'[i][j].stamp \/ heard'[i][j] = NoTraj]_vars

\* Over the ordered transport a drone believes in nothing but the newest
\* trajectory that reached it.  (Over UDP an older one that arrives after a far
\* one was dropped is believed: the drop kept the old time stamp.)
BelievesNewest ==
  \A i \in Drones, j \in Ordered :
    swarm_traj[i][j].id = j => swarm_traj[i][j].stamp = heard[i][j].stamp

\* Dropping a far trajectory is harmless: as long as the drone is on its own
\* trajectory, no longer than the horizon, the dropped one does not meet it.
DropIsHarmless ==
  [][\A i, j \in Drones :
       /\ heard'[i][j] # heard[i][j]
       /\ swarm_traj'[i][j].id = -1
       /\ exec_state[i] = "EXEC_TRAJ"
       /\ place[i] \in Along[local[i].path]
       => ~Meets(local[i].path, heard'[i][j].path)]_vars

\* Nobody flies before drone 0 has broadcast, and a drone that restarted waits
\* until it hears drone 0 again.  Only a mandatory stop gives a drone a trajectory
\* earlier, to hover on, and a drone that meets it can then start it off.
DroneZeroFirst ==
  \A i \in Drones \ {0} : local[i].path # NoPath => heard[i][0] # NoTraj \/ mandatory_stop[i]

\* When drone 0 and the drone before it (or a later one) broadcast a trajectory after the
\* planner of a drone started, and not only before, then the drone, given a goal, starts,
\* however far away they are, unless a trajectory it knows leaves it no way out.
HasWayOut(i) == \E p \in Paths : place[i] \in Along[p] /\ ClearOf(i, p)
Announces(j, i) == stamp[j] > missed[i][j]
StartPropagates ==
  \A i \in Drones :
    (/\ exec_state[i] = "SEQUENTIAL_START" /\ stamp[i] < MaxStamp
     /\ Announces(0, i) /\ \E j \in Drones : j >= i - 1 /\ Announces(j, i)) ~>
      (exec_state[i] # "SEQUENTIAL_START" \/ ~HasWayOut(i))

=============================================================================
