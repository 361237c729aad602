------------------------------ MODULE FifoLink ------------------------------
(***************************************************************************)
(* What reliable_bridge.hpp promises for one device ("It can guarantee the *)
(* data transfer to the device in the strict order"): messages accepted by *)
(* send_msg_to_one are numbered, and the callbacks of the device see them  *)
(* in that order, each at most once, and without a gap as long as the      *)
(* device did not fail.                                                    *)
(***************************************************************************)
EXTENDS Naturals

VARIABLES
  accepted,  \* messages send_msg_to_one returned 0 for
  last,      \* number of the last message a callback has seen
  lossy      \* the device failed, or was not listening, at some time

vars == <<accepted, last, lossy>>

Init == accepted = 0 /\ last = 0 /\ lossy = FALSE

Accept == accepted' = accepted + 1 /\ UNCHANGED <<last, lossy>>

Deliver ==
  /\ last' \in last + 1 .. accepted
  /\ lossy \/ last' = last + 1
  /\ UNCHANGED <<accepted, lossy>>

Fail == lossy' = TRUE /\ UNCHANGED <<accepted, last>>

Next == Accept \/ Deliver \/ Fail

Spec == Init /\ [][Next]_vars

=============================================================================
