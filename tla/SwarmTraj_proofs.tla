--------------------------- MODULE SwarmTraj_proofs ---------------------------
(***************************************************************************)
(* Proofs about SwarmTraj for every number of drones, every set of places  *)
(* and trajectories and every network that repeats, reorders or loses      *)
(* broadcasts.  The inductive invariant ties what a drone holds to what    *)
(* was sent (Integrity), keeps a drone in EXEC_TRAJ clear of all it holds  *)
(* (KnownIsClear) and remembers who has heard drone 0 (HeardFirst).        *)
(***************************************************************************)
EXTENDS SwarmTraj, TLAPS

\* A broadcast is identified by its sender and its time stamp, and what a drone
\* flies or holds about another is a broadcast.
Stamped == \A m \in sent : m.stamp \in 1 .. stamp[m.from]
Unique == \A m, n \in sent : m.from = n.from /\ m.stamp = n.stamp => m.path = n.path
LocalIsSent == \A i \in Drones : local[i].path # NoPath =>
  \E m \in sent : m.from = i /\ m.stamp = local[i].stamp /\ m.path = local[i].path
HeldIsSent == \A i, j \in Drones : swarm_traj[i][j].id # -1 =>
  \E m \in sent : /\ m.from = j /\ m.stamp = swarm_traj[i][j].stamp
                  /\ m.path = swarm_traj[i][j].path
Integrity == Stamped /\ Unique /\ LocalIsSent /\ HeldIsSent

KnownIsClear ==
  \A i, j \in Drones : exec_state[i] = "EXEC_TRAJ" /\ swarm_traj[i][j].id # -1 =>
    ~Meets(local[i].path, swarm_traj[i][j].path)

\* A drone other than 0 that left SEQUENTIAL_START heard drone 0 before, or was
\* sent a mandatory stop.
Launched(i) ==
  local[i].path # NoPath \/ exec_state[i] \notin {"WAIT_TARGET", "SEQUENTIAL_START"}
HeardFirst ==
  /\ \A i, j \in Drones : swarm_traj[i][j].id # -1 => heard[i][j].stamp # 0
  /\ \A i \in Drones : pre_agent[i] => heard[i][0].stamp # 0
  /\ \A i \in Drones \ {0} : Launched(i) => pre_agent[i] \/ mandatory_stop[i]

IInv == TypeOK /\ Integrity /\ KnownIsClear /\ HeardFirst

LocalTrajs == [stamp : Nat, path : Paths \cup {NoPath}]
SwarmTrajs == [id : Drones \cup {-1}, stamp : Nat, path : Paths \cup {NoPath}]

LEMMA DronesAreNat == Drones \subseteq Nat /\ 0 \in Drones /\ -1 \notin Drones
BY SwarmAssumption DEF Drones

-----------------------------------------------------------------------------
(* What the steps do, one drone at a time.                                 *)

\* Publishing changes one trajectory and one stamp and adds one message.
LEMMA PublishEffect ==
  ASSUME TypeOK, NEW i \in Drones, NEW p \in Paths, Publish(i, p)
  PROVE  /\ stamp' \in [Drones -> Nat] /\ stamp'[i] = stamp[i] + 1
         /\ \A k \in Drones : k # i => stamp'[k] = stamp[k]
         /\ local' \in [Drones -> LocalTrajs]
         /\ local'[i].stamp = stamp[i] + 1 /\ local'[i].path = p
         /\ \A k \in Drones : k # i => local'[k] = local[k]
         /\ sent' = sent \cup {[from |-> i, stamp |-> stamp[i] + 1, path |-> p]}
         /\ sent' \subseteq [from : Drones, stamp : Nat, path : Paths]
<1>0. /\ stamp \in [Drones -> Nat] /\ local \in [Drones -> LocalTrajs]
      /\ sent \subseteq [from : Drones, stamp : Nat, path : Paths]
  BY DEF TypeOK, LocalTrajs
<1>1. stamp' = [stamp EXCEPT ![i] = stamp[i] + 1]
  BY DEF Publish
<1>2. stamp'[i] = stamp[i] + 1 /\ \A k \in Drones : k # i => stamp'[k] = stamp[k]
  BY <1>0, <1>1
<1>3. stamp[i] \in Nat /\ stamp[i] + 1 \in Nat
  BY <1>0
<1>4. stamp' \in [Drones -> Nat]
  BY <1>0, <1>1, <1>3
<1>5. local' = [local EXCEPT ![i] = [stamp |-> stamp[i] + 1, path |-> p]]
  BY <1>2 DEF Publish
<1>6. [stamp |-> stamp[i] + 1, path |-> p] \in LocalTrajs
  BY <1>3 DEF LocalTrajs
<1>7. local' \in [Drones -> LocalTrajs] /\ local'[i] = [stamp |-> stamp[i] + 1, path |-> p]
      /\ \A k \in Drones : k # i => local'[k] = local[k]
  BY <1>0, <1>5, <1>6
<1>8. sent' = sent \cup {[from |-> i, stamp |-> stamp[i] + 1, path |-> p]}
  BY <1>2 DEF Publish
<1>9. sent' \subseteq [from : Drones, stamp : Nat, path : Paths]
  BY <1>0, <1>3, <1>8
<1> QED BY <1>2, <1>4, <1>7, <1>8, <1>9

\* A message changes what its receiver knows about its sender and nothing else.
LEMMA ReceiveEffect ==
  ASSUME TypeOK, NEW i \in Drones, NEW m \in sent, Receive(i, m)
  PROVE  /\ m \in [from : Drones, stamp : Nat, path : Paths]
         /\ m.stamp > swarm_traj[i][m.from].stamp
         /\ \A a, b \in Drones : a # i \/ b # m.from =>
              swarm_traj'[a][b] = swarm_traj[a][b] /\ heard'[a][b] = heard[a][b]
         /\ \/ heard'[i][m.from] = [stamp |-> m.stamp, path |-> m.path]
            \/ heard'[i][m.from] = heard[i][m.from] /\ heard[i][m.from].stamp >= m.stamp
         /\ Store(i, m) \/ Drop(i, m)
<1>1. m \in [from : Drones, stamp : Nat, path : Paths]
  BY DEF TypeOK
<1>2. m.from \in Drones /\ m.stamp > swarm_traj[i][m.from].stamp
  BY <1>1 DEF Receive, IsNewer
<1>3. /\ heard \in [Drones -> [Drones -> LocalTrajs]]
      /\ swarm_traj \in [Drones -> [Drones -> SwarmTrajs]]
  BY DEF TypeOK, LocalTrajs, SwarmTrajs
<1>4. heard[i][m.from].stamp \in Nat /\ m.stamp \in Nat
  BY <1>1, <1>2, <1>3 DEF LocalTrajs
<1>5. \/ heard' = [heard EXCEPT ![i][m.from] = [stamp |-> m.stamp, path |-> m.path]]
      \/ heard' = heard /\ ~(m.stamp > heard[i][m.from].stamp)
  BY DEF Receive
<1>6. /\ \A a, b \in Drones : a # i \/ b # m.from => heard'[a][b] = heard[a][b]
      /\ \/ heard'[i][m.from] = [stamp |-> m.stamp, path |-> m.path]
         \/ heard'[i][m.from] = heard[i][m.from] /\ ~(m.stamp > heard[i][m.from].stamp)
  BY <1>2, <1>3, <1>5
<1>7. Store(i, m) \/ Drop(i, m)
  BY DEF Receive
<1>8. \E r : swarm_traj' = [swarm_traj EXCEPT ![i][m.from] = r]
  BY <1>7 DEF Store, Drop
<1>9. \A a, b \in Drones : a # i \/ b # m.from => swarm_traj'[a][b] = swarm_traj[a][b]
  BY <1>2, <1>3, <1>8
<1>10. ~(m.stamp > heard[i][m.from].stamp) => heard[i][m.from].stamp >= m.stamp
  BY <1>4
<1> QED BY <1>1, <1>2, <1>6, <1>7, <1>9, <1>10

LEMMA StoreEffect ==
  ASSUME TypeOK, NEW i \in Drones, NEW m \in [from : Drones, stamp : Nat, path : Paths],
         Store(i, m)
  PROVE  /\ swarm_traj' \in [Drones -> [Drones -> SwarmTrajs]]
         /\ swarm_traj'[i][m.from] = [id |-> m.from, stamp |-> m.stamp, path |-> m.path]
         /\ exec_state' \in [Drones -> States] /\ pre_agent' \in [Drones -> BOOLEAN]
         /\ \A a \in Drones : a # i =>
              exec_state'[a] = exec_state[a] /\ pre_agent'[a] = pre_agent[a]
         /\ exec_state'[i] = IF Meets(local[i].path, m.path) THEN "REPLAN_TRAJ" ELSE exec_state[i]
         /\ pre_agent[i] => pre_agent'[i]
         /\ pre_agent'[i] => pre_agent[i] \/ swarm_traj'[i][0].id = 0
<1>1. /\ swarm_traj \in [Drones -> [Drones -> SwarmTrajs]]
      /\ exec_state \in [Drones -> States] /\ pre_agent \in [Drones -> BOOLEAN]
  BY DEF TypeOK, SwarmTrajs
<1>2. m.from \in Drones /\ [id |-> m.from, stamp |-> m.stamp, path |-> m.path] \in SwarmTrajs
  BY DEF SwarmTrajs
<1>3. swarm_traj' =
        [swarm_traj EXCEPT ![i][m.from] = [id |-> m.from, stamp |-> m.stamp, path |-> m.path]]
  BY DEF Store, RecvId
<1>4. /\ swarm_traj' \in [Drones -> [Drones -> SwarmTrajs]]
      /\ swarm_traj'[i][m.from] = [id |-> m.from, stamp |-> m.stamp, path |-> m.path]
  BY <1>1, <1>2, <1>3
<1>5. /\ exec_state' \in [Drones -> States]
      /\ \A a \in Drones : a # i => exec_state'[a] = exec_state[a]
      /\ exec_state'[i] = IF Meets(local[i].path, m.path) THEN "REPLAN_TRAJ" ELSE exec_state[i]
  BY <1>1 DEF Store, CheckCollision, States
<1>6. PICK b \in BOOLEAN : /\ pre_agent' = [pre_agent EXCEPT ![i] = pre_agent[i] \/ b]
                           /\ b => swarm_traj'[i][0].id = 0
  <2>1. PICK b \in BOOLEAN : b = (i > 0 /\ LongEnough(i) /\ swarm_traj'[i][0].id = 0)
    OBVIOUS
  <2> QED BY <2>1, Zenon DEF Store, RecvPreAgent
<1>7. /\ pre_agent' \in [Drones -> BOOLEAN]
      /\ \A a \in Drones : a # i => pre_agent'[a] = pre_agent[a]
      /\ pre_agent'[i] = (pre_agent[i] \/ b)
  BY <1>1, <1>6
<1> QED BY <1>4, <1>5, <1>6, <1>7

LEMMA DropEffect ==
  ASSUME TypeOK, NEW i \in Drones, NEW m \in [from : Drones, stamp : Nat, path : Paths],
         Drop(i, m)
  PROVE  /\ swarm_traj' \in [Drones -> [Drones -> SwarmTrajs]]
         /\ swarm_traj'[i][m.from].id = -1
         /\ swarm_traj'[i][m.from].stamp = swarm_traj[i][m.from].stamp
         /\ exec_state' = exec_state /\ pre_agent' = pre_agent
         /\ FarAway(i, m.path)
<1>1. m.from \in Drones /\ swarm_traj \in [Drones -> [Drones -> SwarmTrajs]]
  BY DEF TypeOK, SwarmTrajs
<1> DEFINE r == swarm_traj[i][m.from]
           s == [r EXCEPT !.id = -1]
<1>2. r \in SwarmTrajs
  BY <1>1
<1>3. s \in SwarmTrajs /\ s.id = -1 /\ s.stamp = r.stamp
  BY <1>2 DEF SwarmTrajs
<1>4. swarm_traj' = [swarm_traj EXCEPT ![i][m.from] = s]
  BY DEF Drop, Forget
<1>5. swarm_traj' \in [Drones -> [Drones -> SwarmTrajs]] /\ swarm_traj'[i][m.from] = s
  <2> HIDE DEF s, r
  <2> QED BY <1>1, <1>3, <1>4
<1>6. exec_state' = exec_state /\ pre_agent' = pre_agent /\ FarAway(i, m.path)
  BY DEF Drop, Keeps
<1> QED BY <1>3, <1>5, <1>6

-----------------------------------------------------------------------------
(* The invariant is preserved, by kind of step.                            *)

\* Drone i publishes p and goes to s.
LEMMA PublishKeeps ==
  ASSUME IInv, NEW i \in Drones, NEW p \in Paths, Publish(i, p),
         NEW s \in States, Goto(i, s), UNCHANGED place, UNCHANGED knowledge,
         s = "EXEC_TRAJ" => ClearOf(i, p),
         UNCHANGED mandatory_stop, i # 0 => pre_agent[i] \/ mandatory_stop[i]
  PROVE  IInv'
<1> DEFINE new == [from |-> i, stamp |-> stamp[i] + 1, path |-> p]
<1>1. TypeOK /\ Integrity /\ KnownIsClear /\ HeardFirst
  BY DEF IInv
<1>2. /\ stamp' \in [Drones -> Nat] /\ stamp'[i] = stamp[i] + 1
      /\ \A k \in Drones : k # i => stamp'[k] = stamp[k]
      /\ local' \in [Drones -> LocalTrajs]
      /\ local'[i].stamp = stamp[i] + 1 /\ local'[i].path = p
      /\ \A k \in Drones : k # i => local'[k] = local[k]
      /\ sent' = sent \cup {new}
      /\ sent' \subseteq [from : Drones, stamp : Nat, path : Paths]
  BY <1>1, PublishEffect
<1>3. /\ swarm_traj' = swarm_traj /\ pre_agent' = pre_agent /\ heard' = heard /\ place' = place
      /\ missed' = missed
  BY DEF knowledge
<1>4. /\ exec_state' \in [Drones -> States] /\ exec_state'[i] = s
      /\ \A k \in Drones : k # i => exec_state'[k] = exec_state[k]
  BY <1>1 DEF TypeOK, Goto
<1>5. TypeOK'
  BY <1>1, <1>2, <1>3, <1>4 DEF TypeOK, LocalTrajs
<1>6. /\ stamp \in [Drones -> Nat] /\ stamp[i] \in Nat
      /\ sent \subseteq [from : Drones, stamp : Nat, path : Paths]
      /\ new.from = i /\ new.stamp = stamp[i] + 1 /\ new.path = p
  BY <1>1 DEF TypeOK
<1>7. Integrity'
  <2>1. Stamped'
    <3>1. \A m \in sent : m.stamp \in 1 .. stamp'[m.from]
      <4> TAKE m \in sent
      <4>1. m.stamp \in 1 .. stamp[m.from] /\ m.from \in Drones
        BY <1>1, <1>6 DEF Integrity, Stamped
      <4>2. stamp[m.from] \in Nat /\ stamp'[m.from] \in Nat /\ stamp[m.from] <= stamp'[m.from]
        BY <4>1, <1>2, <1>6
      <4> QED BY <4>1, <4>2
    <3>2. new.stamp \in 1 .. stamp'[new.from]
      BY <1>2, <1>6
    <3> QED BY <3>1, <3>2, <1>2 DEF Stamped
  <2>2. Unique'
    <3>1. \A m \in sent : m.from = i => m.stamp # new.stamp
      <4> TAKE m \in sent
      <4> HAVE m.from = i
      <4>1. m.stamp \in 1 .. stamp[i]
        BY <1>1 DEF Integrity, Stamped
      <4> QED BY <4>1, <1>6
    <3>2. \A m, n \in sent : m.from = n.from /\ m.stamp = n.stamp => m.path = n.path
      BY <1>1 DEF Integrity, Unique
    <3> HIDE DEF new
    <3>3. \A m, n \in sent \cup {new} :
            m.from = n.from /\ m.stamp = n.stamp => m.path = n.path
      BY <3>1, <3>2, <1>6
    <3> QED BY <3>3, <1>2 DEF Unique
  <2>3. LocalIsSent'
    <3> SUFFICES ASSUME NEW k \in Drones, local'[k].path # NoPath
                 PROVE  \E m \in sent' : /\ m.from = k /\ m.stamp = local'[k].stamp
                                         /\ m.path = local'[k].path
      BY DEF LocalIsSent
    <3>1. CASE k = i
      <4> HIDE DEF new
      <4>1. new \in sent'
        BY <1>2
      <4> QED BY <3>1, <4>1, <1>2, <1>6
    <3>2. CASE k # i
      BY <3>2, <1>1, <1>2 DEF Integrity, LocalIsSent
    <3> QED BY <3>1, <3>2
  <2>4. HeldIsSent'
    BY <1>1, <1>2, <1>3 DEF Integrity, HeldIsSent
  <2> QED BY <2>1, <2>2, <2>3, <2>4 DEF Integrity
<1>8. KnownIsClear'
  <2> SUFFICES ASSUME NEW a \in Drones, NEW b \in Drones,
                      exec_state'[a] = "EXEC_TRAJ", swarm_traj[a][b].id # -1
               PROVE  ~Meets(local'[a].path, swarm_traj[a][b].path)
    BY <1>3 DEF KnownIsClear, Meets
  <2>1. CASE a # i
    BY <2>1, <1>1, <1>2, <1>4 DEF KnownIsClear
  <2>2. CASE a = i
    <3>1. ClearOf(i, p)
      BY <2>2, <1>4
    <3>2. swarm_traj[i][b].id >= 0
      BY <2>2, <1>1, DronesAreNat DEF TypeOK
    <3> QED BY <2>2, <3>1, <3>2, <1>2 DEF ClearOf
  <2> QED BY <2>1, <2>2
<1>9. HeardFirst'
  BY <1>1, <1>2, <1>3, <1>4 DEF HeardFirst, Launched
<1> QED BY <1>5, <1>7, <1>8, <1>9 DEF IInv

\* Drone i goes to a state other than EXEC_TRAJ without publishing; its local
\* trajectory may be wiped.
LEMMA GotoKeeps ==
  ASSUME IInv, NEW i \in Drones, NEW s \in States, s # "EXEC_TRAJ", Goto(i, s),
         UNCHANGED <<place, stamp, sent>>, UNCHANGED knowledge,
         local' = local \/ local' = [local EXCEPT ![i].path = NoPath],
         mandatory_stop' \in [Drones -> BOOLEAN],
         \A k \in Drones : mandatory_stop[k] => mandatory_stop'[k],
         \/ i = 0 \/ pre_agent[i] \/ mandatory_stop'[i]
         \/ ~Launched(i) /\ s \in {"WAIT_TARGET", "SEQUENTIAL_START"}
  PROVE  IInv'
<1>1. TypeOK /\ Integrity /\ KnownIsClear /\ HeardFirst
  BY DEF IInv
<1>2. /\ swarm_traj' = swarm_traj /\ pre_agent' = pre_agent /\ heard' = heard
      /\ place' = place /\ stamp' = stamp /\ sent' = sent /\ missed' = missed
  BY DEF knowledge
<1>3. /\ exec_state' \in [Drones -> States] /\ exec_state'[i] = s
      /\ \A k \in Drones : k # i => exec_state'[k] = exec_state[k]
  BY <1>1 DEF TypeOK, Goto
<1>4. /\ local' \in [Drones -> LocalTrajs]
      /\ \A k \in Drones : k # i => local'[k] = local[k]
      /\ local'[i] = local[i] \/ local'[i].path = NoPath
  <2>1. local \in [Drones -> LocalTrajs]
    BY <1>1 DEF TypeOK, LocalTrajs
  <2>2. CASE local' = local
    BY <2>1, <2>2
  <2>3. CASE local' = [local EXCEPT ![i].path = NoPath]
    <3> DEFINE w == [local[i] EXCEPT !.path = NoPath]
    <3>1. w \in LocalTrajs /\ w.path = NoPath
      BY <2>1 DEF LocalTrajs
    <3>2. local' = [local EXCEPT ![i] = w]
      BY <2>3
    <3> HIDE DEF w
    <3> QED BY <3>1, <3>2, <2>1
  <2> QED BY <2>2, <2>3
<1>5. TypeOK'
  BY <1>1, <1>2, <1>3, <1>4 DEF TypeOK, LocalTrajs
<1>6. \A k \in Drones : local'[k].path # NoPath => local'[k] = local[k]
  BY <1>4
<1>7. Integrity'
  BY <1>1, <1>2, <1>6 DEF Integrity, Stamped, Unique, LocalIsSent, HeldIsSent
<1>8. KnownIsClear'
  BY <1>1, <1>2, <1>3, <1>4 DEF KnownIsClear, Meets
<1>9. HeardFirst'
  BY <1>1, <1>2, <1>3, <1>4 DEF HeardFirst, Launched
<1> QED BY <1>5, <1>7, <1>8, <1>9 DEF IInv

LEMMA FlyKeeps ==
  ASSUME IInv, NEW i \in Drones, Fly(i)
  PROVE  IInv'
<1>1. TypeOK /\ Integrity /\ KnownIsClear /\ HeardFirst
  BY DEF IInv
<1>2. /\ exec_state' = exec_state /\ local' = local /\ stamp' = stamp /\ sent' = sent
      /\ swarm_traj' = swarm_traj /\ pre_agent' = pre_agent /\ heard' = heard
      /\ mandatory_stop' = mandatory_stop /\ missed' = missed
  BY DEF Fly, knowledge
<1>3. place' \in [Drones -> Places]
  <2>1. PICK m \in sent : \E x \in Along[m.path] : place' = [place EXCEPT ![i] = x]
    BY DEF Fly
  <2>2. m.path \in Paths
    BY <1>1 DEF TypeOK
  <2>3. Along[m.path] \subseteq Places
    BY <2>2, SwarmAssumption
  <2> QED BY <1>1, <2>1, <2>3 DEF TypeOK
<1>4. TypeOK'
  BY <1>1, <1>2, <1>3 DEF TypeOK
<1>5. Integrity'
  BY <1>1, <1>2 DEF Integrity, Stamped, Unique, LocalIsSent, HeldIsSent
<1>6. KnownIsClear' /\ HeardFirst'
  BY <1>1, <1>2 DEF KnownIsClear, HeardFirst, Launched, Meets
<1> QED BY <1>4, <1>5, <1>6 DEF IInv

LEMMA RestartKeeps ==
  ASSUME IInv, NEW i \in Drones, Restart(i)
  PROVE  IInv'
<1> DEFINE blanks == [j \in Drones |-> Blank]
           noTrajs == [j \in Drones |-> NoTraj]
           clocks == [j \in Drones |-> IF j = i THEN 0 ELSE stamp[j]]
<1>1. TypeOK /\ Integrity /\ KnownIsClear /\ HeardFirst
  BY DEF IInv
<1>2. place' = place /\ stamp' = stamp /\ sent' = sent
  BY DEF Restart
<1>3. /\ exec_state' \in [Drones -> States] /\ exec_state'[i] = "WAIT_TARGET"
      /\ \A k \in Drones : k # i => exec_state'[k] = exec_state[k]
  BY <1>1 DEF TypeOK, Restart, Goto, States
<1>4. NoTraj \in LocalTrajs /\ Blank \in SwarmTrajs /\ Blank.id = -1 /\ NoTraj.path = NoPath
  BY DEF NoTraj, Blank, LocalTrajs, SwarmTrajs
<1>5. /\ local' \in [Drones -> LocalTrajs] /\ local'[i] = NoTraj
      /\ \A k \in Drones : k # i => local'[k] = local[k]
  <2>1. local \in [Drones -> LocalTrajs]
    BY <1>1 DEF TypeOK, LocalTrajs
  <2> QED BY <2>1, <1>4 DEF Restart
<1>6. /\ swarm_traj' \in [Drones -> [Drones -> SwarmTrajs]]
      /\ \A j \in Drones : swarm_traj'[i][j] = Blank
      /\ \A k \in Drones : k # i => swarm_traj'[k] = swarm_traj[k]
  <2>1. swarm_traj \in [Drones -> [Drones -> SwarmTrajs]]
    BY <1>1 DEF TypeOK, SwarmTrajs
  <2>2. blanks \in [Drones -> SwarmTrajs] /\ \A j \in Drones : blanks[j] = Blank
    BY <1>4
  <2>3. swarm_traj' = [swarm_traj EXCEPT ![i] = blanks]
    BY DEF Restart
  <2> HIDE DEF blanks
  <2> QED BY <2>1, <2>2, <2>3
<1>7. /\ heard' \in [Drones -> [Drones -> LocalTrajs]]
      /\ \A k \in Drones : k # i => heard'[k] = heard[k]
  <2>1. heard \in [Drones -> [Drones -> LocalTrajs]]
    BY <1>1 DEF TypeOK, LocalTrajs
  <2>2. noTrajs \in [Drones -> LocalTrajs]
    BY <1>4
  <2>3. heard' = [heard EXCEPT ![i] = noTrajs]
    BY DEF Restart
  <2> HIDE DEF noTrajs
  <2> QED BY <2>1, <2>2, <2>3
<1>8. /\ pre_agent' \in [Drones -> BOOLEAN] /\ ~pre_agent'[i]
      /\ \A k \in Drones : k # i => pre_agent'[k] = pre_agent[k]
  BY <1>1 DEF TypeOK, Restart
<1>8a. /\ mandatory_stop' \in [Drones -> BOOLEAN]
       /\ \A k \in Drones : k # i => mandatory_stop'[k] = mandatory_stop[k]
  BY <1>1 DEF TypeOK, Restart
<1>8b. missed' \in [Drones -> [Drones -> Nat]]
  <2>1. missed \in [Drones -> [Drones -> Nat]] /\ clocks \in [Drones -> Nat]
    BY <1>1 DEF TypeOK
  <2>2. missed' = [missed EXCEPT ![i] = clocks]
    BY DEF Restart
  <2> HIDE DEF clocks
  <2> QED BY <2>1, <2>2
<1>9. \A a, b \in Drones : swarm_traj'[a][b].id \in {b, -1}
  BY <1>1, <1>4, <1>6 DEF TypeOK
<1>10. TypeOK'
  BY <1>1, <1>2, <1>3, <1>5, <1>6, <1>7, <1>8, <1>8a, <1>8b, <1>9
     DEF TypeOK, LocalTrajs, SwarmTrajs
<1>11. Integrity'
  BY <1>1, <1>2, <1>4, <1>5, <1>6 DEF Integrity, Stamped, Unique, LocalIsSent, HeldIsSent
<1>12. KnownIsClear'
  <2> SUFFICES ASSUME NEW a \in Drones, NEW b \in Drones,
                      exec_state'[a] = "EXEC_TRAJ", swarm_traj'[a][b].id # -1
               PROVE  ~Meets(local'[a].path, swarm_traj'[a][b].path)
    BY DEF KnownIsClear, Meets
  <2>1. a # i
    BY <1>3
  <2> QED BY <2>1, <1>1, <1>3, <1>5, <1>6 DEF KnownIsClear
<1>13. HeardFirst'
  <2>1. \A a, b \in Drones : swarm_traj'[a][b].id # -1 => heard'[a][b].stamp # 0
    BY <1>1, <1>4, <1>6, <1>7 DEF HeardFirst
  <2>2. \A a \in Drones : pre_agent'[a] => heard'[a][0].stamp # 0
    BY <1>1, <1>7, <1>8 DEF HeardFirst
  <2>3. \A a \in Drones \ {0} : Launched(a)' => pre_agent'[a] \/ mandatory_stop'[a]
    BY <1>1, <1>3, <1>4, <1>5, <1>8, <1>8a DEF HeardFirst, Launched
  <2> QED BY <2>1, <2>2, <2>3 DEF HeardFirst
<1> QED BY <1>10, <1>11, <1>12, <1>13 DEF IInv

LEMMA ReceiveKeeps ==
  ASSUME IInv, NEW i \in Drones, NEW m \in sent, Receive(i, m)
  PROVE  IInv'
<1> DEFINE j == m.from
           MsgTraj == [stamp |-> m.stamp, path |-> m.path]
<1>1. TypeOK /\ Integrity /\ KnownIsClear /\ HeardFirst
  BY DEF IInv
<1>2. /\ m \in [from : Drones, stamp : Nat, path : Paths]
      /\ m.stamp > swarm_traj[i][j].stamp
      /\ \A a, b \in Drones : a # i \/ b # j =>
           swarm_traj'[a][b] = swarm_traj[a][b] /\ heard'[a][b] = heard[a][b]
      /\ \/ heard'[i][j] = MsgTraj
         \/ heard'[i][j] = heard[i][j] /\ heard[i][j].stamp >= m.stamp
      /\ Store(i, m) \/ Drop(i, m)
  BY <1>1, ReceiveEffect
<1>3. /\ place' = place /\ local' = local /\ stamp' = stamp /\ sent' = sent
      /\ mandatory_stop' = mandatory_stop
  BY DEF Receive
<1>4. j \in Drones /\ m.stamp \in Nat /\ m.stamp # 0
  <2>1. m.stamp \in 1 .. stamp[m.from]
    BY <1>1 DEF Integrity, Stamped
  <2> QED BY <1>2, <2>1
<1>5. heard' \in [Drones -> [Drones -> LocalTrajs]] /\ heard'[i][j].stamp # 0
  <2>1. heard \in [Drones -> [Drones -> LocalTrajs]]
    BY <1>1 DEF TypeOK, LocalTrajs
  <2>2. MsgTraj \in LocalTrajs /\ MsgTraj.stamp # 0
    BY <1>2, <1>4 DEF LocalTrajs
  <2>3. heard' = heard \/ heard' = [heard EXCEPT ![i][j] = MsgTraj]
    BY DEF Receive
  <2>4. heard' \in [Drones -> [Drones -> LocalTrajs]]
    <3> HIDE DEF j, MsgTraj
    <3> QED BY <2>1, <2>2, <2>3, <1>4
  <2>5. heard[i][j].stamp \in Nat
    BY <2>1, <1>4 DEF LocalTrajs
  <2>6. heard[i][j].stamp >= m.stamp => heard[i][j].stamp # 0
    BY <2>5, <1>4
  <2> QED BY <1>2, <2>2, <2>4, <2>6
<1>6. \A a, b \in Drones : heard[a][b].stamp # 0 => heard'[a][b].stamp # 0
  BY <1>2, <1>5
<1>6a. missed' \in [Drones -> [Drones -> Nat]]
  <2> DEFINE k == IF m.stamp > missed[i][j] THEN 0 ELSE missed[i][j]
  <2>1. missed \in [Drones -> [Drones -> Nat]] /\ k \in Nat
    BY <1>1, <1>4 DEF TypeOK
  <2>2. missed' = [missed EXCEPT ![i][j] = k]
    BY DEF Receive
  <2> HIDE DEF k, j
  <2> QED BY <2>1, <2>2, <1>4
<1>7. CASE Store(i, m)
  <2>1. /\ swarm_traj' \in [Drones -> [Drones -> SwarmTrajs]]
        /\ swarm_traj'[i][j] = [id |-> j, stamp |-> m.stamp, path |-> m.path]
        /\ exec_state' \in [Drones -> States] /\ pre_agent' \in [Drones -> BOOLEAN]
        /\ \A a \in Drones : a # i =>
             exec_state'[a] = exec_state[a] /\ pre_agent'[a] = pre_agent[a]
        /\ exec_state'[i] =
             IF Meets(local[i].path, m.path) THEN "REPLAN_TRAJ" ELSE exec_state[i]
        /\ pre_agent[i] => pre_agent'[i]
        /\ pre_agent'[i] => pre_agent[i] \/ swarm_traj'[i][0].id = 0
    BY <1>1, <1>2, <1>7, StoreEffect
  <2>2. swarm_traj'[i][j].id = j /\ swarm_traj'[i][j].stamp = m.stamp
        /\ swarm_traj'[i][j].path = m.path
    BY <2>1
  <2>3. \A a, b \in Drones : swarm_traj'[a][b].id \in {b, -1}
    BY <1>1, <1>2, <2>2 DEF TypeOK
  <2>4. TypeOK'
    BY <1>1, <1>3, <1>5, <1>6a, <2>1, <2>3 DEF TypeOK, LocalTrajs, SwarmTrajs
  <2>5. HeldIsSent'
    <3> SUFFICES ASSUME NEW a \in Drones, NEW b \in Drones, swarm_traj'[a][b].id # -1
                 PROVE  \E n \in sent : /\ n.from = b /\ n.stamp = swarm_traj'[a][b].stamp
                                        /\ n.path = swarm_traj'[a][b].path
      BY <1>3 DEF HeldIsSent
    <3>1. CASE a = i /\ b = j
      BY <3>1, <2>2
    <3>2. CASE a # i \/ b # j
      BY <3>2, <1>1, <1>2 DEF Integrity, HeldIsSent
    <3> QED BY <3>1, <3>2
  <2>6. Integrity'
    BY <1>1, <1>3, <2>5 DEF Integrity, Stamped, Unique, LocalIsSent
  <2>7. KnownIsClear'
    <3> SUFFICES ASSUME NEW a \in Drones, NEW b \in Drones,
                        exec_state'[a] = "EXEC_TRAJ", swarm_traj'[a][b].id # -1
                 PROVE  ~Meets(local[a].path, swarm_traj'[a][b].path)
      BY <1>3 DEF KnownIsClear, Meets
    <3>1. exec_state[a] = "EXEC_TRAJ" /\ (a = i => ~Meets(local[i].path, m.path))
      BY <2>1
    <3>2. CASE a = i /\ b = j
      BY <3>1, <3>2, <2>2
    <3>3. CASE a # i \/ b # j
      BY <3>1, <3>3, <1>1, <1>2 DEF KnownIsClear
    <3> QED BY <3>2, <3>3
  <2>8. HeardFirst'
    <3>1. \A a, b \in Drones : swarm_traj'[a][b].id # -1 => heard'[a][b].stamp # 0
      BY <1>1, <1>2, <1>5, <1>6 DEF HeardFirst
    <3>2. \A a \in Drones : pre_agent'[a] => heard'[a][0].stamp # 0
      BY <1>1, <1>6, <2>1, <3>1, DronesAreNat DEF HeardFirst
    <3>3. \A a \in Drones \ {0} : Launched(a)' => pre_agent'[a] \/ mandatory_stop'[a]
      <4> SUFFICES ASSUME NEW a \in Drones \ {0}, Launched(a)'
                   PROVE  pre_agent'[a] \/ mandatory_stop'[a]
        OBVIOUS
      <4>1. pre_agent[a] => pre_agent'[a]
        BY <2>1
      <4>2. Launched(a)
        BY <1>3, <2>1 DEF Launched, Meets
      <4> QED BY <4>1, <4>2, <1>1, <1>3 DEF HeardFirst
    <3> QED BY <3>1, <3>2, <3>3 DEF HeardFirst
  <2> QED BY <2>4, <2>6, <2>7, <2>8 DEF IInv
<1>8. CASE Drop(i, m)
  <2>1. /\ swarm_traj' \in [Drones -> [Drones -> SwarmTrajs]]
        /\ swarm_traj'[i][j].id = -1
        /\ exec_state' = exec_state /\ pre_agent' = pre_agent
    BY <1>1, <1>2, <1>8, DropEffect
  <2>2. \A a, b \in Drones : swarm_traj'[a][b].id # -1 => swarm_traj'[a][b] = swarm_traj[a][b]
    BY <1>2, <2>1
  <2>3. \A a, b \in Drones : swarm_traj'[a][b].id \in {b, -1}
    BY <1>1, <2>2 DEF TypeOK
  <2>4. TypeOK'
    BY <1>1, <1>3, <1>5, <1>6a, <2>1, <2>3 DEF TypeOK, LocalTrajs, SwarmTrajs
  <2>5. Integrity'
    BY <1>1, <1>3, <2>2 DEF Integrity, Stamped, Unique, LocalIsSent, HeldIsSent
  <2>6. KnownIsClear'
    <3> SUFFICES ASSUME NEW a \in Drones, NEW b \in Drones,
                        exec_state[a] = "EXEC_TRAJ", swarm_traj'[a][b].id # -1
                 PROVE  ~Meets(local[a].path, swarm_traj'[a][b].path)
      BY <1>3, <2>1 DEF KnownIsClear, Meets
    <3> QED BY <1>1, <2>2 DEF KnownIsClear
  <2>7. HeardFirst'
    <3>1. \A a, b \in Drones : swarm_traj'[a][b].id # -1 => heard'[a][b].stamp # 0
      BY <1>1, <1>6, <2>2 DEF HeardFirst
    <3>2. \A a \in Drones : pre_agent'[a] => heard'[a][0].stamp # 0
      BY <1>1, <1>6, <2>1, DronesAreNat DEF HeardFirst
    <3>3. \A a \in Drones \ {0} : Launched(a)' => pre_agent'[a] \/ mandatory_stop'[a]
      BY <1>1, <1>3, <2>1 DEF HeardFirst, Launched
    <3> QED BY <3>1, <3>2, <3>3 DEF HeardFirst
  <2> QED BY <2>4, <2>5, <2>6, <2>7 DEF IInv
<1> QED BY <1>2, <1>7, <1>8

-----------------------------------------------------------------------------
(* The inductive invariant.                                                *)

LEMMA InitIInv == Init => IInv
<1> SUFFICES ASSUME Init PROVE IInv
  OBVIOUS
<1>1. NoTraj \in LocalTrajs /\ Blank \in SwarmTrajs /\ Blank.id = -1 /\ NoTraj.path = NoPath
  BY DEF NoTraj, Blank, LocalTrajs, SwarmTrajs
<1>2. /\ \A a \in Drones : local[a] = NoTraj /\ exec_state[a] = "WAIT_TARGET" /\ ~pre_agent[a]
      /\ \A a, b \in Drones : swarm_traj[a][b] = Blank
      /\ sent = {}
  BY DEF Init
<1>3. TypeOK
  BY <1>1, <1>2, SwarmAssumption DEF Init, TypeOK, States, LocalTrajs, SwarmTrajs
<1>4. Integrity /\ KnownIsClear
  BY <1>1, <1>2 DEF Integrity, Stamped, Unique, LocalIsSent, HeldIsSent, KnownIsClear
<1>5. HeardFirst
  BY <1>1, <1>2 DEF HeardFirst, Launched
<1> QED BY <1>3, <1>4, <1>5 DEF IInv

LEMMA StepIInv == IInv /\ [Next]_vars => IInv'
<1> SUFFICES ASSUME IInv, [Next]_vars PROVE IInv'
  OBVIOUS
<1>1. CASE UNCHANGED vars
  <2>1. TypeOK'
    BY <1>1 DEF vars, IInv, TypeOK
  <2>2. Integrity'
    BY <1>1 DEF vars, IInv, Integrity, Stamped, Unique, LocalIsSent, HeldIsSent
  <2>3. KnownIsClear' /\ HeardFirst'
    BY <1>1 DEF vars, IInv, KnownIsClear, HeardFirst, Launched, Meets
  <2> QED BY <2>1, <2>2, <2>3 DEF IInv
<1>2. CASE Next
  <2>1. PICK i \in Drones : Drone(i) \/ \E m \in sent : Receive(i, m)
    BY <1>2 DEF Next
  <2>2. /\ TypeOK
        /\ \/ i = 0 \/ pre_agent[i] \/ mandatory_stop[i]
           \/ ~Launched(i) /\ exec_state[i] \in {"WAIT_TARGET", "SEQUENTIAL_START"}
    BY DEF IInv, HeardFirst, Launched
  <2>3. ASSUME UNCHANGED mandatory_stop
        PROVE  /\ mandatory_stop' \in [Drones -> BOOLEAN]
               /\ \A k \in Drones : mandatory_stop[k] => mandatory_stop'[k]
    BY <2>2, <2>3 DEF TypeOK
  <2>4. ASSUME PlanSucceeds(i), UNCHANGED place, UNCHANGED knowledge,
               UNCHANGED mandatory_stop, i # 0 => pre_agent[i] \/ mandatory_stop[i]
        PROVE  IInv'
    <3>1. PICK p \in Paths : ClearOf(i, p) /\ Publish(i, p)
      BY <2>4 DEF PlanSucceeds
    <3>2. Goto(i, "EXEC_TRAJ") /\ "EXEC_TRAJ" \in States
      BY <2>4 DEF PlanSucceeds, States
    <3> QED BY <2>4, <3>1, <3>2, PublishKeeps
  <2>4a. ASSUME NEW s \in States, s # "EXEC_TRAJ", Goto(i, s),
                UNCHANGED <<place, stamp, sent>>, UNCHANGED knowledge, UNCHANGED mandatory_stop,
                local' = local \/ local' = [local EXCEPT ![i].path = NoPath],
                \/ exec_state[i] \notin {"WAIT_TARGET", "SEQUENTIAL_START"}
                \/ s \in {"WAIT_TARGET", "SEQUENTIAL_START"}
         PROVE  IInv'
    <3>1. \/ i = 0 \/ pre_agent[i] \/ mandatory_stop'[i]
          \/ ~Launched(i) /\ s \in {"WAIT_TARGET", "SEQUENTIAL_START"}
      BY <2>2, <2>4a
    <3> QED BY <2>3, <2>4a, <3>1, GotoKeeps
  <2>5. CASE NewGoal(i)
    <3> DEFINE s == IF exec_state[i] = "EXEC_TRAJ" THEN "REPLAN_TRAJ" ELSE exec_state[i]
    <3>1. Goto(i, s) /\ s \in States /\ s # "EXEC_TRAJ"
      BY <2>2, <2>5 DEF NewGoal, Goto, States, TypeOK
    <3>2. /\ UNCHANGED <<place, stamp, sent>> /\ UNCHANGED knowledge /\ UNCHANGED mandatory_stop
          /\ local' = [local EXCEPT ![i].path = NoPath]
      BY <2>5 DEF NewGoal
    <3> QED BY <3>1, <3>2, <2>4a
  <2>5a. CASE WaitTarget(i)
    BY <2>5a, <2>4a DEF WaitTarget, States
  <2>6. CASE Start(i)
    BY <2>4, <2>6 DEF Start, MayStart
  <2>7. CASE Replan(i)
    BY <2>2, <2>4, <2>7 DEF Replan
  <2>8. CASE Decide(i)
    <3>1. PICK s \in {"EMERGENCY_STOP", "REPLAN_TRAJ"} : Goto(i, s)
      BY <2>8 DEF Decide
    <3>2. s \in States /\ s # "EXEC_TRAJ"
      BY DEF States
    <3>3. /\ UNCHANGED <<place, stamp, sent>> /\ UNCHANGED knowledge /\ UNCHANGED mandatory_stop
          /\ local' = local /\ exec_state[i] = "EXEC_TRAJ"
      BY <2>8 DEF Decide
    <3> QED BY <3>1, <3>2, <3>3, <2>4a
  <2>9. CASE Unsafe(i)
    <3>1. /\ UNCHANGED place /\ UNCHANGED knowledge /\ UNCHANGED mandatory_stop
          /\ exec_state[i] = "EXEC_TRAJ" /\ (i # 0 => pre_agent[i] \/ mandatory_stop[i])
      BY <2>2, <2>9 DEF Unsafe
    <3>2. CASE PlanSucceeds(i)
      BY <2>4, <3>1, <3>2
    <3>3. CASE \E s \in {"EMERGENCY_STOP", "REPLAN_TRAJ"} :
                 Goto(i, s) /\ UNCHANGED <<local, stamp, sent>>
      <4>1. PICK s \in {"EMERGENCY_STOP", "REPLAN_TRAJ"} :
              Goto(i, s) /\ UNCHANGED <<local, stamp, sent>>
        BY <3>3
      <4>2. s \in States /\ s # "EXEC_TRAJ"
        BY DEF States
      <4> QED BY <3>1, <4>1, <4>2, <2>4a
    <3> QED BY <2>9, <3>2, <3>3 DEF Unsafe
  <2>10. CASE MandatoryStop(i)
    <3>1. /\ UNCHANGED <<place, stamp, sent>> /\ UNCHANGED knowledge /\ local' = local
          /\ Goto(i, "EMERGENCY_STOP") /\ "EMERGENCY_STOP" \in States
      BY <2>10 DEF MandatoryStop, States
    <3>2. /\ mandatory_stop' \in [Drones -> BOOLEAN] /\ mandatory_stop'[i]
          /\ \A k \in Drones : mandatory_stop[k] => mandatory_stop'[k]
      BY <2>2, <2>10 DEF MandatoryStop, TypeOK
    <3> QED BY <3>1, <3>2, GotoKeeps
  <2>10a. CASE CallEmergencyStop(i)
    <3>1. /\ UNCHANGED place /\ UNCHANGED knowledge /\ UNCHANGED mandatory_stop
          /\ Publish(i, HoverAt[place[i]])
          /\ exec_state' = exec_state /\ exec_state[i] = "EMERGENCY_STOP"
      BY <2>10a DEF CallEmergencyStop
    <3>2. HoverAt[place[i]] \in Paths
      BY <2>2, SwarmAssumption DEF TypeOK
    <3>3. Goto(i, "EMERGENCY_STOP") /\ "EMERGENCY_STOP" \in States
      BY <2>2, <3>1 DEF Goto, States, TypeOK
    <3>4. i # 0 => pre_agent[i] \/ mandatory_stop[i]
      BY <2>2, <3>1
    <3> QED BY <3>1, <3>2, <3>3, <3>4, PublishKeeps
  <2>10b. CASE EscapeEmergency(i)
    BY <2>10b, <2>4a DEF EscapeEmergency, States
  <2>11. CASE Arrive(i)
    BY <2>11, <2>4a DEF Arrive, States
  <2>12. CASE Fly(i)
    BY <2>12, FlyKeeps
  <2>13. CASE Restart(i)
    BY <2>13, RestartKeeps
  <2>14. CASE \E m \in sent : Receive(i, m)
    BY <2>14, ReceiveKeeps
  <2> QED BY <2>1, <2>5, <2>5a, <2>6, <2>7, <2>8, <2>9, <2>10, <2>10a, <2>10b, <2>11, <2>12,
             <2>13, <2>14 DEF Drone
<1> QED BY <1>1, <1>2

\* IInv, the four parts above, holds in every reachable state.
THEOREM Inductive == Spec => []IInv
BY InitIInv, StepIInv, PTL DEF Spec

\* The fields of every drone's tables keep their types, and an entry of
\* swarm_traj carries its own index or -1.
THEOREM TypeCorrect == Spec => []TypeOK
<1>1. IInv => TypeOK
  BY DEF IInv
<1> QED BY <1>1, Inductive, PTL

\* A drone in EXEC_TRAJ keeps clear of the trajectory another drone flies when it
\* holds that trajectory.
THEOREM HeldClear == Spec => []HeldIsClear
<1>1. IInv => HeldIsClear
  <2> SUFFICES ASSUME IInv, NEW i \in Drones, NEW j \in Drones,
                      exec_state[i] = "EXEC_TRAJ", Holds(i, j)
               PROVE  ~Meets(local[i].path, local[j].path)
    BY DEF HeldIsClear
  <2>1. swarm_traj[i][j].id # -1 /\ local[j].path # NoPath
        /\ swarm_traj[i][j].stamp = local[j].stamp
    BY DronesAreNat DEF Holds
  <2>2. PICK m \in sent : /\ m.from = j /\ m.stamp = local[j].stamp
                          /\ m.path = swarm_traj[i][j].path
    BY <2>1 DEF IInv, Integrity, HeldIsSent
  <2>3. PICK n \in sent : n.from = j /\ n.stamp = local[j].stamp /\ n.path = local[j].path
    BY <2>1 DEF IInv, Integrity, LocalIsSent
  <2>4. swarm_traj[i][j].path = local[j].path
    BY <2>2, <2>3 DEF IInv, Integrity, Unique
  <2> QED BY <2>1, <2>4 DEF IInv, KnownIsClear
<1> QED BY <1>1, Inductive, PTL

\* No drone but 0 has a trajectory to fly before it has heard drone 0, unless a
\* mandatory stop gave it one to hover on.
THEOREM ZeroFirst == Spec => []DroneZeroFirst
<1>1. IInv => DroneZeroFirst
  BY DronesAreNat DEF IInv, HeardFirst, Launched, DroneZeroFirst, NoTraj
<1> QED BY <1>1, Inductive, PTL

\* What is held of another drone never goes back in time, whatever the network
\* repeats or reorders, until the planner restarts.
THEOREM NeverGoesBack == Spec => NeverOlder
<1> DEFINE Fresher == \A i, j \in Drones :
             swarm_traj[i][j].stamp <= swarm_traj'[i][j].stamp \/ heard'[i][j] = NoTraj
<1>1. IInv /\ [Next]_vars => [Fresher]_vars
  <2> SUFFICES ASSUME IInv, Next PROVE Fresher
    BY DEF vars
  <2>0. /\ TypeOK
        /\ \A a, b \in Drones : swarm_traj[a][b].stamp \in Nat
        /\ heard \in [Drones -> [Drones -> LocalTrajs]]
    BY DEF IInv, TypeOK, LocalTrajs
  <2>1. PICK i \in Drones : Drone(i) \/ \E m \in sent : Receive(i, m)
    BY DEF Next
  <2>2. CASE swarm_traj' = swarm_traj
    BY <2>0, <2>2
  <2>3. CASE Restart(i)
    <3>1. /\ \A a, b \in Drones : a # i => swarm_traj'[a][b] = swarm_traj[a][b]
          /\ \A b \in Drones : heard'[i][b] = NoTraj
      BY <2>0, <2>3 DEF Restart, IInv, TypeOK
    <3> QED BY <2>0, <3>1
  <2>4. CASE \E m \in sent : Receive(i, m)
    <3>1. PICK m \in sent : Receive(i, m)
      BY <2>4
    <3>2. /\ m \in [from : Drones, stamp : Nat, path : Paths]
          /\ m.stamp > swarm_traj[i][m.from].stamp
          /\ \A a, b \in Drones : a # i \/ b # m.from =>
               swarm_traj'[a][b] = swarm_traj[a][b] /\ heard'[a][b] = heard[a][b]
          /\ Store(i, m) \/ Drop(i, m)
      BY <3>1, <2>0, ReceiveEffect
    <3>3. m.from \in Drones /\ m.stamp \in Nat
      BY <3>2
    <3>4. \/ swarm_traj'[i][m.from].stamp = m.stamp
          \/ swarm_traj'[i][m.from].stamp = swarm_traj[i][m.from].stamp
      <4>1. CASE Store(i, m)
        <5>1. swarm_traj'[i][m.from] = [id |-> m.from, stamp |-> m.stamp, path |-> m.path]
          BY <2>0, <3>2, <4>1, StoreEffect
        <5> QED BY <5>1
      <4>2. CASE Drop(i, m)
        BY <2>0, <3>2, <4>2, DropEffect
      <4> QED BY <3>2, <4>1, <4>2
    <3>5. swarm_traj[i][m.from].stamp <= swarm_traj'[i][m.from].stamp
      BY <2>0, <3>2, <3>3, <3>4
    <3> QED BY <2>0, <3>2, <3>5
  <2> QED BY <2>1, <2>2, <2>3, <2>4
          DEF Drone, NewGoal, WaitTarget, Start, Replan, Decide, Unsafe, MandatoryStop,
              CallEmergencyStop, EscapeEmergency, Arrive, Fly, knowledge
<1> QED BY <1>1, Inductive, PTL DEF Spec, NeverOlder

\* A trajectory that is dropped as too far away does not meet the one the drone
\* flies.
THEOREM DropHarmless == Spec => DropIsHarmless
<1> DEFINE Harmless == \A i, j \in Drones :
             /\ heard'[i][j] # heard[i][j]
             /\ swarm_traj'[i][j].id = -1
             /\ exec_state[i] = "EXEC_TRAJ"
             /\ place[i] \in Along[local[i].path]
             => ~Meets(local[i].path, heard'[i][j].path)
<1>1. IInv /\ [Next]_vars => [Harmless]_vars
  <2> SUFFICES ASSUME IInv, Next, NEW i \in Drones, NEW j \in Drones,
                      heard'[i][j] # heard[i][j], swarm_traj'[i][j].id = -1,
                      place[i] \in Along[local[i].path]
               PROVE  ~Meets(local[i].path, heard'[i][j].path)
    BY DEF vars
  <2>0. TypeOK /\ heard \in [Drones -> [Drones -> LocalTrajs]]
        /\ local \in [Drones -> LocalTrajs]
    BY DEF IInv, TypeOK, LocalTrajs
  <2>1. PICK k \in Drones : Drone(k) \/ \E m \in sent : Receive(k, m)
    BY DEF Next
  <2>2. CASE heard' = heard
    BY <2>2
  <2>3. CASE Restart(k)
    <3>1. heard'[i][j] = heard[i][j] \/ heard'[i][j] = NoTraj
      BY <2>0, <2>3 DEF Restart
    <3> QED BY <3>1 DEF NoTraj, Meets
  <2>4. CASE \E m \in sent : Receive(k, m)
    <3>1. PICK m \in sent : Receive(k, m)
      BY <2>4
    <3>2. /\ m \in [from : Drones, stamp : Nat, path : Paths]
          /\ \A a, b \in Drones : a # k \/ b # m.from => heard'[a][b] = heard[a][b]
          /\ \/ heard'[k][m.from] = [stamp |-> m.stamp, path |-> m.path]
             \/ heard'[k][m.from] = heard[k][m.from]
          /\ Store(k, m) \/ Drop(k, m)
      BY <3>1, ReceiveEffect DEF IInv
    <3>3. k = i /\ m.from = j /\ heard'[i][j].path = m.path
      BY <3>2
    <3>4. ~Store(k, m)
      <4> SUFFICES ASSUME Store(k, m) PROVE FALSE
        OBVIOUS
      <4>1. swarm_traj'[k][m.from] = [id |-> m.from, stamp |-> m.stamp, path |-> m.path]
        BY <2>0, <3>2, StoreEffect
      <4>2. m.from = -1
        BY <3>3, <4>1
      <4> QED BY <3>3, <4>2, DronesAreNat
    <3>5. FarAway(i, m.path)
      BY <2>0, <3>2, <3>3, <3>4, DropEffect
    <3>6. CASE local[i].path \in Paths
      <4>1. /\ Early[local[i].path] \subseteq Along[local[i].path]
            /\ \A y \in Along[local[i].path] : y \in Near[place[i]]
        BY <3>6, SwarmAssumption
      <4> QED BY <3>3, <3>5, <4>1 DEF FarAway, Meets
    <3>7. CASE local[i].path = NoPath
      BY <3>7 DEF Meets
    <3> QED BY <2>0, <3>6, <3>7 DEF LocalTrajs
  <2> QED BY <2>1, <2>2, <2>3, <2>4
          DEF Drone, NewGoal, WaitTarget, Start, Replan, Decide, Unsafe, MandatoryStop,
              CallEmergencyStop, EscapeEmergency, Arrive, Fly, knowledge
<1> QED BY <1>1, Inductive, PTL DEF Spec, DropIsHarmless

\* Nobody believes in anything of a sender heard in order but the newest trajectory
\* that reached it.
THEOREM OrderedIsNewest == Spec => []BelievesNewest
<1>1. Init => BelievesNewest
  BY DronesAreNat, SwarmAssumption DEF Init, BelievesNewest, Blank
<1>2. IInv /\ BelievesNewest /\ [Next]_vars => BelievesNewest'
  <2> SUFFICES ASSUME IInv, BelievesNewest, [Next]_vars,
                      NEW i \in Drones, NEW j \in Ordered, swarm_traj'[i][j].id = j
               PROVE  swarm_traj'[i][j].stamp = heard'[i][j].stamp
    BY DEF BelievesNewest
  <2>0. /\ TypeOK /\ swarm_traj \in [Drones -> [Drones -> SwarmTrajs]]
        /\ heard \in [Drones -> [Drones -> LocalTrajs]]
        /\ j \in Drones
    BY SwarmAssumption DEF IInv, TypeOK, LocalTrajs, SwarmTrajs
  <2>1. CASE swarm_traj' = swarm_traj /\ heard' = heard
    BY <2>1 DEF BelievesNewest
  <2>2. ASSUME NEW k \in Drones, Restart(k)
        PROVE  swarm_traj'[i][j].stamp = heard'[i][j].stamp
    <3>1. CASE k = i
      <4>1. swarm_traj'[i][j] = Blank
        BY <2>0, <2>2, <3>1 DEF Restart
      <4> QED BY <2>0, <4>1, DronesAreNat DEF Blank
    <3>2. CASE k # i
      <4>1. swarm_traj'[i] = swarm_traj[i] /\ heard'[i] = heard[i]
        BY <2>0, <2>2, <3>2 DEF Restart
      <4> QED BY <4>1 DEF BelievesNewest
    <3> QED BY <3>1, <3>2
  <2>3. ASSUME NEW k \in Drones, NEW m \in sent, Receive(k, m)
        PROVE  swarm_traj'[i][j].stamp = heard'[i][j].stamp
    <3>1. /\ m \in [from : Drones, stamp : Nat, path : Paths]
          /\ \A a, b \in Drones : a # k \/ b # m.from =>
               swarm_traj'[a][b] = swarm_traj[a][b] /\ heard'[a][b] = heard[a][b]
          /\ Store(k, m) \/ Drop(k, m)
      BY <2>0, <2>3, ReceiveEffect
    <3>2. CASE k = i /\ m.from = j
      <4>0. heard' = [heard EXCEPT ![k][m.from] = [stamp |-> m.stamp, path |-> m.path]]
        BY <2>3, <3>2 DEF Receive
      <4>1. Store(k, m)
        BY <2>0, <3>1, <3>2, DropEffect, DronesAreNat
      <4>2. swarm_traj'[k][m.from] = [id |-> m.from, stamp |-> m.stamp, path |-> m.path]
        BY <2>0, <3>1, <4>1, StoreEffect
      <4>3. heard'[k][m.from] = [stamp |-> m.stamp, path |-> m.path]
        BY <2>0, <3>1, <4>0
      <4> QED BY <3>2, <4>2, <4>3
    <3>3. CASE k # i \/ m.from # j
      BY <2>0, <3>1, <3>3 DEF BelievesNewest
    <3> QED BY <3>2, <3>3
  <2> QED
    BY <2>1, <2>2, <2>3
    DEF Next, vars, Drone, NewGoal, WaitTarget, Start, Replan, Decide, Unsafe, MandatoryStop,
        CallEmergencyStop, EscapeEmergency, Arrive, Fly, knowledge
<1> QED BY <1>1, <1>2, Inductive, PTL DEF Spec

=============================================================================
