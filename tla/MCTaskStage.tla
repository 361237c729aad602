----------------------------- MODULE MCTaskStage -----------------------------
(* Three terminals along the way of a plate, which leads a frozen one on to    *)
(* the next, and every task a planner can be launched for.                     *)
EXTENDS TaskStage

CONSTANTS t1, t2, t3

MCTerminals == {t1, t2, t3}
AlongThePlate ==
  [t \in MCTerminals |-> CASE t = t1 -> {t2} [] t = t2 -> {t3} [] t = t3 -> {t3}]
AllTasks ==
  {l \in [tracking : BOOLEAN, perching : BOOLEAN, auto_start : BOOLEAN] :
     l.tracking \/ l.perching}
==============================================================================
