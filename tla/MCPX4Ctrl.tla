---------------------------- MODULE MCPX4Ctrl ----------------------------
(* Instances of PX4Ctrl for TLC: flown with and without a remote control.  *)
EXTENDS PX4Ctrl

RemoteControl ==
  [no_RC |-> FALSE, auto_hover_on_start |-> FALSE, enable |-> TRUE, enable_auto_arm |-> TRUE]
NoRemoteControl ==
  [no_RC |-> TRUE, auto_hover_on_start |-> TRUE, enable |-> TRUE, enable_auto_arm |-> TRUE]

Both == {RemoteControl, NoRemoteControl}
Piloted == {RemoteControl}
===========================================================================
