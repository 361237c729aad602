-------------------------- MODULE MCReliableBridge --------------------------
(* Instances of ReliableBridge for TLC: how many messages each device gets. *)
EXTENDS ReliableBridge

ThreeAndOne == <<3, 1>>
Two == <<2>>
=============================================================================
