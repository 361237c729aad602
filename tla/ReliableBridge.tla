--------------------------- MODULE ReliableBridge ---------------------------
(***************************************************************************)
(* ReliableBridge (swarm_bridge/include/reliable_bridge.hpp): the ROS      *)
(* thread queues messages for every other device, one transport thread per *)
(* device drains its queue into a ZeroMQ push socket, and the receiving    *)
(* process runs one receive thread per device.                             *)
(*                                                                         *)
(* Abstractions.  Device i is the one with index i in id_list.  A message  *)
(* for a device is its number among those accepted for that device.  A     *)
(* step ends where another thread can tell the difference: at the unlocked *)
(* reads of the queue, at every lock of sender_mutex, at wait, notify_all  *)
(* and the blocking send.  The socket pair (net) is a bounded FIFO pipe    *)
(* whose content is lost when the connection is.                           *)
(***************************************************************************)
EXTENDS Integers, Sequences

CONSTANTS
  NumDevices,   \* devices in id_list once this one is removed
  QueueSize,    \* Queue_size
  PipeCap,      \* messages ZeroMQ holds before send blocks
  DevicesFail,  \* whether connections break and devices restart
  MaxMsgs       \* bound: messages accepted for each device

ASSUME BridgeAssumption ==
  /\ NumDevices \in Nat \ {0}
  /\ QueueSize \in Nat
  /\ PipeCap \in Nat \ {0}
  /\ DevicesFail \in BOOLEAN

ASSUME BoundAssumption == MaxMsgs \in [1 .. NumDevices -> Nat]

Devices == 1 .. NumDevices

VARIABLES
  caller,      \* where the ROS thread is in send_msg_to_one, [pc, at, upto]
  buffer,      \* send_data
  thread,      \* where each transport_msg_thread is
  net,         \* messages inside ZeroMQ and TCP
  connected,   \* the receiver of the device is connected to our sender
  registered,  \* the device has registered its callbacks
  accepted,    \* messages accepted for the device
  last,        \* number of the last message its callback has seen
  lossy        \* history: a message for the device was lost

vars == <<caller, buffer, thread, net, connected, registered, accepted, last, lossy>>

remote == <<connected, registered, last, lossy>>

Init ==
  /\ caller = [pc |-> "idle", at |-> 0, upto |-> 0]
  /\ buffer = [d \in Devices |-> <<>>]
  /\ thread = [d \in Devices |-> "lock"]
  /\ net = [d \in Devices |-> <<>>]
  /\ connected = [d \in Devices |-> FALSE]
  /\ registered = [d \in Devices |-> FALSE]
  /\ accepted = [d \in Devices |-> 0]
  /\ last = [d \in Devices |-> 0]
  /\ lossy = [d \in Devices |-> FALSE]

-----------------------------------------------------------------------------
(* The ROS thread: send_msg_to_one(d) visits device d, send_msg_to_all     *)
(* visits every device in turn.                                            *)

\* The unlocked test before a message is queued.
IsFull(d) == Len(buffer[d]) > QueueSize

\* Where the transport thread keeps sender_mutex from one step to the next:
\* wait gives it up, line 82 releases it before the queue is drained, and the
\* pop holds it for one step only.
KeepsMutexMutant == {"check", "send"}
KeepsMutex == {}

VisitNext ==
  caller' = IF caller.at = caller.upto
              THEN [pc |-> "idle", at |-> 0, upto |-> 0]
              ELSE [caller EXCEPT !.pc = "full", !.at = @ + 1]

SendMsg(first, upto) ==
  /\ caller.pc = "idle"
  /\ \A d \in first .. upto : accepted[d] < MaxMsgs[d]
  /\ caller' = [pc |-> "full", at |-> first, upto |-> upto]
  /\ UNCHANGED <<buffer, thread, net, accepted, remote>>

TestFull ==
  /\ caller.pc = "full"
  /\ IF IsFull(caller.at) THEN VisitNext ELSE caller' = [caller EXCEPT !.pc = "push"]
  /\ UNCHANGED <<buffer, thread, net, accepted, remote>>

Push ==
  LET d == caller.at IN
  /\ caller.pc = "push"
  /\ thread[d] \notin KeepsMutex
  /\ accepted' = [accepted EXCEPT ![d] = @ + 1]
  /\ buffer' = [buffer EXCEPT ![d] = Append(@, accepted'[d])]
  /\ caller' = [caller EXCEPT !.pc = "notify"]
  /\ UNCHANGED <<thread, net, remote>>

\* A notification wakes the thread if it waits and is lost otherwise.
Notify ==
  LET d == caller.at IN
  /\ caller.pc = "notify"
  /\ thread' = [thread EXCEPT ![d] = IF @ = "waiting" THEN "check" ELSE @]
  /\ VisitNext
  /\ UNCHANGED <<buffer, net, accepted, remote>>

-----------------------------------------------------------------------------
(* transport_msg_thread(d).  wait has no predicate: it waits even when the *)
(* queue holds messages, and may also return spuriously.                   *)

At(d, pc) == thread[d] = pc
Goto(d, pc) == thread' = [thread EXCEPT ![d] = pc]

Wait(d) ==
  /\ At(d, "lock") /\ Goto(d, "waiting")
  /\ UNCHANGED <<caller, buffer, net, accepted, remote>>

SpuriousWakeup(d) ==
  /\ At(d, "waiting") /\ Goto(d, "check")
  /\ UNCHANGED <<caller, buffer, net, accepted, remote>>

TestEmpty(d) ==
  /\ At(d, "check")
  /\ Goto(d, IF buffer[d] = <<>> THEN "lock" ELSE "send")
  /\ UNCHANGED <<caller, buffer, net, accepted, remote>>

\* Blocks while the device is not connected or the pipe is full.
AfterSendMutant == "check"
AfterSend == "pop"

Send(d) ==
  /\ At(d, "send")
  /\ connected[d] /\ Len(net[d]) < PipeCap
  /\ net' = [net EXCEPT ![d] = Append(@, Head(buffer[d]))]
  /\ Goto(d, AfterSend)
  /\ UNCHANGED <<caller, buffer, accepted, remote>>

\* send returns false when it was interrupted: the message stays in front.
AfterInterruptMutant == "pop"
AfterInterrupt == "check"

SendInterrupted(d) ==
  /\ At(d, "send") /\ Goto(d, AfterInterrupt)
  /\ UNCHANGED <<caller, buffer, net, accepted, remote>>

\* The queue is drained until it is empty before the thread waits again.
AfterPopMutant == "lock"
AfterPop == "check"

PopFront(d) ==
  /\ At(d, "pop")
  /\ buffer' = [buffer EXCEPT ![d] = Tail(@)]
  /\ Goto(d, AfterPop)
  /\ UNCHANGED <<caller, net, accepted, remote>>

-----------------------------------------------------------------------------
(* The device: its constructor connects, callbacks are registered later.   *)

Connect(d) ==
  /\ ~connected[d]
  /\ connected' = [connected EXCEPT ![d] = TRUE]
  /\ UNCHANGED <<caller, buffer, thread, net, registered, accepted, last, lossy>>

RegisterCallback(d) ==
  /\ connected[d] /\ ~registered[d]
  /\ registered' = [registered EXCEPT ![d] = TRUE]
  /\ UNCHANGED <<caller, buffer, thread, net, connected, accepted, last, lossy>>

\* recv_thread: a message of a topic without a callback is dropped.
Receive(d) ==
  /\ connected[d] /\ net[d] # <<>>
  /\ net' = [net EXCEPT ![d] = Tail(@)]
  /\ IF registered[d]
       THEN last' = [last EXCEPT ![d] = Head(net[d])] /\ UNCHANGED lossy
       ELSE lossy' = [lossy EXCEPT ![d] = TRUE] /\ UNCHANGED last
  /\ UNCHANGED <<caller, buffer, thread, connected, registered, accepted>>

\* The connection breaks; the device may have restarted without its callbacks.
Disconnect(d) ==
  /\ DevicesFail /\ connected[d]
  /\ connected' = [connected EXCEPT ![d] = FALSE]
  /\ \/ UNCHANGED registered
     \/ registered' = [registered EXCEPT ![d] = FALSE]
  /\ net' = [net EXCEPT ![d] = <<>>]
  /\ lossy' = [lossy EXCEPT ![d] = TRUE]
  /\ UNCHANGED <<caller, buffer, thread, accepted, last>>

-----------------------------------------------------------------------------
Caller ==
  \/ \E d \in Devices : SendMsg(d, d)
  \/ SendMsg(1, NumDevices)
  \/ TestFull \/ Push \/ Notify

Transport(d) ==
  \/ Wait(d) \/ SpuriousWakeup(d) \/ TestEmpty(d) \/ Send(d) \/ SendInterrupted(d)
  \/ PopFront(d)

Device(d) == Connect(d) \/ RegisterCallback(d) \/ Receive(d) \/ Disconnect(d)

Next == Caller \/ \E d \in Devices : Transport(d) \/ Device(d)

Spec == Init /\ [][Next]_vars

\* The threads run; a device that is up listens.  Nothing obliges the ROS thread
\* to send, the library to wake a waiting thread spuriously or an interrupted
\* send to be interrupted again.
FairSpec ==
  /\ Spec
  /\ WF_vars(TestFull \/ Push \/ Notify)
  /\ \A d \in Devices :
       /\ WF_vars(Wait(d) \/ TestEmpty(d) \/ PopFront(d))
       /\ SF_vars(Send(d))
       /\ WF_vars(Connect(d)) /\ WF_vars(RegisterCallback(d)) /\ WF_vars(Receive(d))

-----------------------------------------------------------------------------
(* Properties.                                                             *)

TypeOK ==
  /\ caller \in [pc : {"idle", "full", "push", "notify"}, at : 0 .. NumDevices,
                 upto : 0 .. NumDevices]
  /\ caller.pc # "idle" => caller.at \in Devices /\ caller.at <= caller.upto
  /\ buffer \in [Devices -> Seq(Nat)]
  /\ thread \in [Devices -> {"lock", "waiting", "check", "send", "pop"}]
  /\ net \in [Devices -> Seq(Nat)]
  /\ connected \in [Devices -> BOOLEAN]
  /\ registered \in [Devices -> BOOLEAN]
  /\ accepted \in [Devices -> Nat]
  /\ last \in [Devices -> Nat]
  /\ lossy \in [Devices -> BOOLEAN]

\* The message in front of the queue has been sent and is yet to be popped.
FrontSent(d) == IF thread[d] = "pop" THEN 1 ELSE 0

\* How many of the accepted messages have been given to ZeroMQ.
Sent(d) == accepted[d] - Len(buffer[d]) + FrontSent(d)

\* No message is lost or doubled between send_msg_to_one and the callback of a
\* device that never failed: all that left the queue was seen or is on its way,
\* although front, send and pop_front are three separate steps.
Conservation ==
  \A d \in Devices :
    ~lossy[d] => last[d] + Len(net[d]) = Sent(d)

\* The unlocked test lets the queue of a device that is down grow to one message
\* more than Queue_size, and no further.
QueueBounded == \A d \in Devices : Len(buffer[d]) <= QueueSize + 1

\* "It has a queue for sending data asynchronously": a send returns to the ROS
\* thread although devices are down, never connect or stop reading.
CallerReturns == (caller.pc # "idle") ~> (caller.pc = "idle")

\* A message whose notification finds the transport thread waiting is sent, and
\* with it everything stranded before it, unless the connection breaks.
NextSendFlushes ==
  \A d \in Devices : \A n \in 1 .. MaxMsgs[d] :
    (caller.pc = "notify" /\ caller.at = d /\ thread[d] = "waiting" /\ accepted[d] = n) ~>
      (Sent(d) >= n \/ ~connected[d])

\* Each device sees the accepted messages in strict order.
Link(d) == INSTANCE FifoLink WITH accepted <- accepted[d], last <- last[d], lossy <- lossy[d]
StrictOrder ==
  /\ \A d \in Devices : Link(d)!Init
  /\ [][\A d \in Devices : [Link(d)!Next]_(Link(d)!vars)]_vars

\* reliable_bridge.hpp:375, "This function will push the data in queue and the
\* send thread will send the data immediately": what was accepted for a device
\* that does not fail is sent.
SentImmediately ==
  \A d \in Devices : \A n \in 1 .. MaxMsgs[d] : (accepted[d] >= n) ~> (Sent(d) >= n)

=============================================================================
