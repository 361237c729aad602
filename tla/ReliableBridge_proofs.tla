------------------------ MODULE ReliableBridge_proofs ------------------------
(***************************************************************************)
(* Proofs about ReliableBridge for every number of devices, queue size and *)
(* pipe capacity.  The inductive invariant says that queue and pipe hold   *)
(* consecutive numbers: the queue ends at the last message accepted, the   *)
(* pipe at the last one sent.                                              *)
(***************************************************************************)
EXTENDS ReliableBridge, TLAPS

USE BridgeAssumption DEF Devices, remote

\* s holds consecutive numbers and ends at n.
Run(s, n) == \A i \in 1 .. Len(s) : s[i] = n - Len(s) + i

LEMMA RunAppend ==
  ASSUME NEW s \in Seq(Nat), NEW n \in Nat, Run(s, n)
  PROVE  /\ Append(s, n + 1) \in Seq(Nat)
         /\ Len(Append(s, n + 1)) = Len(s) + 1
         /\ Run(Append(s, n + 1), n + 1)
  BY DEF Run

LEMMA RunTail ==
  ASSUME NEW s \in Seq(Nat), NEW n \in Int, Run(s, n), s # <<>>
  PROVE  /\ Tail(s) \in Seq(Nat)
         /\ Len(Tail(s)) = Len(s) - 1
         /\ Head(s) \in Nat
         /\ Head(s) = n - Len(s) + 1
         /\ Run(Tail(s), n)
  BY DEF Run

\* The thread sends and pops only what is there.
QueueHasFront == \A d \in Devices : thread[d] \in {"send", "pop"} => buffer[d] # <<>>

\* Queue and pipe hold consecutive messages; nothing in the pipe was seen.
InOrder ==
  \A d \in Devices :
    /\ Run(buffer[d], accepted[d])
    /\ Run(net[d], Sent(d))
    /\ last[d] + Len(net[d]) <= Sent(d)
    /\ ~lossy[d] => last[d] + Len(net[d]) = Sent(d)

\* The test of the size holds until the push, only the ROS thread pushes.
RoomForPush ==
  /\ \A d \in Devices : Len(buffer[d]) <= QueueSize + 1
  /\ caller.pc = "push" => Len(buffer[caller.at]) <= QueueSize

IInv == TypeOK /\ QueueHasFront /\ InOrder /\ RoomForPush

LEMMA SentIsNat ==
  ASSUME TypeOK, QueueHasFront, NEW d \in Devices
  PROVE  Sent(d) \in Int
  BY DEF TypeOK, Sent, FrontSent

-----------------------------------------------------------------------------
(* Types.                                                                  *)

LEMMA TypeInit == Init => TypeOK
  BY DEF Init, TypeOK

\* Visiting the next device keeps the caller's record well formed.
LEMMA VisitTypes ==
  ASSUME TypeOK, caller.pc # "idle", VisitNext
  PROVE  /\ caller' \in [pc : {"idle", "full", "push", "notify"}, at : 0 .. NumDevices,
                         upto : 0 .. NumDevices]
         /\ caller'.pc # "idle" => caller'.at \in Devices /\ caller'.at <= caller'.upto
         /\ caller'.pc # "push"
<1>1. CASE caller.at = caller.upto
  BY <1>1 DEF TypeOK, VisitNext
<1>2. CASE caller.at # caller.upto
  <2>0. caller.at \in 1 .. NumDevices /\ caller.upto \in 0 .. NumDevices
         /\ caller.at <= caller.upto
    BY DEF TypeOK
  <2>1. caller.at + 1 \in Devices /\ caller.at + 1 <= caller.upto
    BY <1>2, <2>0
  <2>2. caller' = [pc |-> "full", at |-> caller.at + 1, upto |-> caller.upto]
    BY <1>2 DEF TypeOK, VisitNext
  <2> QED BY <2>1, <2>2 DEF TypeOK
<1> QED BY <1>1, <1>2

LEMMA TypeStep == TypeOK /\ QueueHasFront /\ [Next]_vars => TypeOK'
<1> SUFFICES ASSUME TypeOK, QueueHasFront, [Next]_vars PROVE TypeOK'
  OBVIOUS
<1>1. ASSUME NEW f \in Devices, NEW u \in Devices, f <= u, SendMsg(f, u) PROVE TypeOK'
  <2>1. caller' \in [pc : {"idle", "full", "push", "notify"}, at : 0 .. NumDevices,
                     upto : 0 .. NumDevices]
    BY <1>1 DEF SendMsg
  <2>2. caller'.at \in Devices /\ caller'.at <= caller'.upto
    BY <1>1 DEF SendMsg
  <2> QED BY <1>1, <2>1, <2>2 DEF TypeOK, SendMsg
<1>2. ASSUME TestFull PROVE TypeOK'
  <2>1. CASE IsFull(caller.at)
    BY <1>2, <2>1, VisitTypes DEF TypeOK, TestFull
  <2>2. CASE ~IsFull(caller.at)
    BY <1>2, <2>2 DEF TypeOK, TestFull
  <2> QED BY <2>1, <2>2
<1>3. ASSUME Push PROVE TypeOK'
  <2>1. caller.at \in Devices
    BY <1>3 DEF TypeOK, Push
  <2>2. accepted' \in [Devices -> Nat]
    BY <1>3, <2>1 DEF TypeOK, Push
  <2>3. buffer' \in [Devices -> Seq(Nat)]
    BY <1>3, <2>1, <2>2 DEF TypeOK, Push
  <2> QED BY <1>3, <2>1, <2>2, <2>3 DEF TypeOK, Push
<1>4. ASSUME Notify PROVE TypeOK'
  BY <1>4, VisitTypes DEF TypeOK, Notify
<1>5. ASSUME NEW d \in Devices,
             Wait(d) \/ SpuriousWakeup(d) \/ TestEmpty(d) \/ SendInterrupted(d)
      PROVE  TypeOK'
  BY <1>5 DEF TypeOK, Wait, SpuriousWakeup, TestEmpty, SendInterrupted, AfterInterrupt, Goto
<1>6. ASSUME NEW d \in Devices, Send(d) PROVE TypeOK'
  <2>1. buffer[d] \in Seq(Nat) /\ buffer[d] # <<>> /\ net[d] \in Seq(Nat)
    BY <1>6 DEF TypeOK, QueueHasFront, Send, At
  <2>2. Append(net[d], Head(buffer[d])) \in Seq(Nat)
    BY <2>1
  <2>3. net' \in [Devices -> Seq(Nat)]
    BY <1>6, <2>2 DEF TypeOK, Send
  <2>4. thread' \in [Devices -> {"lock", "waiting", "check", "send", "pop"}]
    BY <1>6 DEF TypeOK, Send, Goto, AfterSend
  <2> QED BY <1>6, <2>3, <2>4 DEF TypeOK, Send
<1>7. ASSUME NEW d \in Devices, PopFront(d) PROVE TypeOK'
  <2>1. Tail(buffer[d]) \in Seq(Nat)
    BY <1>7 DEF TypeOK, QueueHasFront, PopFront, At
  <2> QED BY <1>7, <2>1 DEF TypeOK, PopFront, Goto, AfterPop
<1>8. ASSUME NEW d \in Devices, Connect(d) \/ RegisterCallback(d) \/ Disconnect(d)
      PROVE  TypeOK'
  <2>1. net' \in [Devices -> Seq(Nat)]
    <3>1. <<>> \in Seq(Nat)
      OBVIOUS
    <3>2. net' = net \/ net' = [net EXCEPT ![d] = <<>>]
      BY <1>8 DEF Connect, RegisterCallback, Disconnect
    <3> QED BY <3>1, <3>2 DEF TypeOK
  <2>2. /\ connected' \in [Devices -> BOOLEAN]
        /\ registered' \in [Devices -> BOOLEAN]
        /\ lossy' \in [Devices -> BOOLEAN]
    BY <1>8 DEF TypeOK, Connect, RegisterCallback, Disconnect
  <2> QED BY <1>8, <2>1, <2>2 DEF TypeOK, Connect, RegisterCallback, Disconnect
<1>9. ASSUME NEW d \in Devices, Receive(d) PROVE TypeOK'
  <2>1. net[d] \in Seq(Nat) /\ net[d] # <<>>
    BY <1>9 DEF TypeOK, Receive
  <2>2. Head(net[d]) \in Nat /\ Tail(net[d]) \in Seq(Nat)
    BY <2>1
  <2> QED BY <1>9, <2>2 DEF TypeOK, Receive
<1>10. ASSUME UNCHANGED vars PROVE TypeOK'
  BY <1>10 DEF TypeOK, vars
<1> QED
  BY <1>1, <1>2, <1>3, <1>4, <1>5, <1>6, <1>7, <1>8, <1>9, <1>10
  DEF Next, Caller, Transport, Device

-----------------------------------------------------------------------------
(* The parts of the inductive invariant.                                   *)

LEMMA FrontStep == ASSUME TypeOK, QueueHasFront, [Next]_vars PROVE QueueHasFront'
<1> USE DEF QueueHasFront
<1>1. ASSUME Push PROVE QueueHasFront'
  <2>1. caller.at \in Devices /\ accepted' \in [Devices -> Nat]
    BY <1>1 DEF TypeOK, Push
  <2>2. buffer'[caller.at] = Append(buffer[caller.at], accepted'[caller.at])
    BY <1>1, <2>1 DEF TypeOK, Push
  <2>3. buffer'[caller.at] # <<>>
    <3>1. buffer[caller.at] \in Seq(Nat) /\ accepted'[caller.at] \in Nat
      BY <2>1 DEF TypeOK
    <3> QED BY <2>2, <3>1
  <2>4. \A d \in Devices : d # caller.at => buffer'[d] = buffer[d]
    BY <1>1 DEF TypeOK, Push
  <2> QED BY <1>1, <2>3, <2>4 DEF Push
<1>2. ASSUME Caller PROVE QueueHasFront'
  BY <1>1, <1>2 DEF TypeOK, Caller, SendMsg, TestFull, Notify
<1>3. ASSUME NEW d \in Devices, Transport(d) PROVE QueueHasFront'
  BY <1>3
  DEF TypeOK, Transport, Wait, SpuriousWakeup, TestEmpty, Send, SendInterrupted, AfterInterrupt, PopFront,
      At, Goto, AfterSend, AfterPop
<1>4. ASSUME NEW d \in Devices, Device(d) PROVE QueueHasFront'
  BY <1>4 DEF Device, Connect, RegisterCallback, Receive, Disconnect
<1>5. ASSUME UNCHANGED vars PROVE QueueHasFront'
  BY <1>5 DEF vars
<1> QED BY <1>2, <1>3, <1>4, <1>5 DEF Next

\* The part of InOrder that is about one device, and what it depends on.
DeviceInOrder(d) ==
  /\ Run(buffer[d], accepted[d])
  /\ Run(net[d], Sent(d))
  /\ last[d] + Len(net[d]) <= Sent(d)
  /\ ~lossy[d] => last[d] + Len(net[d]) = Sent(d)

LEMMA OthersKeepOrder ==
  ASSUME NEW d \in Devices, DeviceInOrder(d),
         FrontSent(d)' = FrontSent(d),
         buffer'[d] = buffer[d], net'[d] = net[d], accepted'[d] = accepted[d],
         last'[d] = last[d], lossy'[d] = lossy[d]
  PROVE  DeviceInOrder(d)'
  BY DEF DeviceInOrder, Sent, Run

LEMMA InOrderStep ==
  ASSUME TypeOK, TypeOK', QueueHasFront, InOrder, [Next]_vars
  PROVE  InOrder'
<1> SUFFICES ASSUME NEW e \in Devices PROVE DeviceInOrder(e)'
  BY DEF InOrder, DeviceInOrder
<1>0. DeviceInOrder(e)
  BY DEF InOrder, DeviceInOrder
<1>1. ASSUME buffer'[e] = buffer[e], net'[e] = net[e], accepted'[e] = accepted[e],
             last'[e] = last[e], lossy'[e] = lossy[e], FrontSent(e)' = FrontSent(e)
      PROVE  DeviceInOrder(e)'
  BY <1>0, <1>1, OthersKeepOrder
<1>2. ASSUME UNCHANGED <<buffer, thread, net, accepted, last, lossy>> PROVE DeviceInOrder(e)'
  BY <1>1, <1>2 DEF FrontSent
<1>3. ASSUME Push PROVE DeviceInOrder(e)'
  <2>1. FrontSent(e)' = FrontSent(e) /\ net' = net /\ last' = last /\ lossy' = lossy
    BY <1>3 DEF Push, FrontSent
  <2>2. CASE e # caller.at
    <3>1. buffer'[e] = buffer[e] /\ accepted'[e] = accepted[e]
      BY <1>3, <2>2 DEF TypeOK, Push
    <3> QED BY <1>1, <2>1, <3>1
  <2>3. CASE e = caller.at
    <3>1. accepted'[e] = accepted[e] + 1 /\ accepted[e] \in Nat
      BY <1>3, <2>3 DEF TypeOK, Push
    <3>2. buffer'[e] = Append(buffer[e], accepted[e] + 1) /\ buffer[e] \in Seq(Nat)
      BY <1>3, <2>3, <3>1 DEF TypeOK, Push
    <3>3. Run(buffer[e], accepted[e])
      BY <1>0 DEF DeviceInOrder
    <3>4. Run(buffer'[e], accepted'[e]) /\ Len(buffer'[e]) = Len(buffer[e]) + 1
      BY <3>1, <3>2, <3>3, RunAppend
    <3>5. Sent(e)' = Sent(e)
      <4>1. FrontSent(e) \in {0, 1} /\ Len(buffer[e]) \in Nat
        BY <3>2 DEF FrontSent
      <4>2. accepted'[e] - Len(buffer'[e]) + FrontSent(e)'
              = accepted[e] - Len(buffer[e]) + FrontSent(e)
        BY <2>1, <3>1, <3>4, <4>1
      <4> QED BY <4>2 DEF Sent
    <3>6. net'[e] = net[e] /\ last'[e] = last[e] /\ lossy'[e] = lossy[e]
      BY <2>1
    <3> QED BY <1>0, <3>4, <3>5, <3>6 DEF DeviceInOrder, Run
  <2> QED BY <2>2, <2>3
<1>4. ASSUME Notify PROVE DeviceInOrder(e)'
  <2>1. FrontSent(e)' = FrontSent(e)
    BY <1>4 DEF TypeOK, Notify, FrontSent
  <2> QED BY <1>1, <1>4, <2>1 DEF Notify
<1>5. ASSUME NEW d \in Devices,
             Wait(d) \/ SpuriousWakeup(d) \/ TestEmpty(d) \/ SendInterrupted(d)
      PROVE  DeviceInOrder(e)'
  <2>1. FrontSent(e)' = FrontSent(e)
    BY <1>5
    DEF TypeOK, Wait, SpuriousWakeup, TestEmpty, SendInterrupted, AfterInterrupt, At, Goto, FrontSent
  <2> QED BY <1>1, <1>5, <2>1 DEF Wait, SpuriousWakeup, TestEmpty, SendInterrupted, AfterInterrupt
<1>6. ASSUME NEW d \in Devices, Send(d) PROVE DeviceInOrder(e)'
  <2>1. UNCHANGED <<buffer, accepted, last, lossy>>
    BY <1>6 DEF Send
  <2>2. CASE e # d
    <3>1. FrontSent(e)' = FrontSent(e) /\ net'[e] = net[e]
      BY <1>6, <2>2 DEF TypeOK, Send, Goto, FrontSent
    <3> QED BY <1>1, <2>1, <3>1
  <2>3. CASE e = d
    <3>1. thread[e] = "send" /\ thread'[e] = "pop"
      BY <1>6, <2>3 DEF TypeOK, Send, At, Goto, AfterSend
    <3>2. FrontSent(e) = 0 /\ FrontSent(e)' = 1
      BY <3>1 DEF FrontSent
    <3>3. buffer[e] \in Seq(Nat) /\ buffer[e] # <<>> /\ net[e] \in Seq(Nat)
          /\ accepted[e] \in Nat /\ last[e] \in Nat
      BY <3>1 DEF TypeOK, QueueHasFront
    <3>4. Run(buffer[e], accepted[e])
      BY <1>0 DEF DeviceInOrder
    <3>5. Head(buffer[e]) = accepted[e] - Len(buffer[e]) + 1 /\ Head(buffer[e]) \in Nat
      BY <3>3, <3>4, RunTail
    <3>6. Sent(e) = accepted[e] - Len(buffer[e]) /\ Sent(e)' = Sent(e) + 1
      BY <2>1, <3>2, <3>3 DEF Sent
    <3>7. Sent(e) \in Nat
      BY <1>0, <3>3, <3>6 DEF DeviceInOrder
    <3>8. net'[e] = Append(net[e], Sent(e) + 1)
      BY <1>6, <2>3, <3>5, <3>6 DEF TypeOK, Send
    <3>9. Run(net'[e], Sent(e) + 1) /\ Len(net'[e]) = Len(net[e]) + 1
      BY <1>0, <3>3, <3>7, <3>8, RunAppend DEF DeviceInOrder
    <3>10. Run(net[e], Sent(e))' /\ Run(buffer[e], accepted[e])'
      BY <2>1, <3>4, <3>6, <3>9 DEF Run
    <3>11. (last[e] + Len(net[e]) <= Sent(e))'
      BY <1>0, <2>1, <3>3, <3>6, <3>7, <3>9 DEF DeviceInOrder
    <3>12. (~lossy[e] => last[e] + Len(net[e]) = Sent(e))'
      BY <1>0, <2>1, <3>3, <3>6, <3>7, <3>9 DEF DeviceInOrder
    <3> QED BY <3>10, <3>11, <3>12 DEF DeviceInOrder
  <2> QED BY <2>2, <2>3
<1>7. ASSUME NEW d \in Devices, PopFront(d) PROVE DeviceInOrder(e)'
  <2>1. UNCHANGED <<net, accepted, last, lossy>>
    BY <1>7 DEF PopFront
  <2>2. CASE e # d
    <3>1. FrontSent(e)' = FrontSent(e) /\ buffer'[e] = buffer[e]
      BY <1>7, <2>2 DEF TypeOK, PopFront, Goto, FrontSent
    <3> QED BY <1>1, <2>1, <3>1
  <2>3. CASE e = d
    <3>1. thread[e] = "pop" /\ thread'[e] = "check"
      BY <1>7, <2>3 DEF TypeOK, PopFront, At, Goto, AfterPop
    <3>2. FrontSent(e) = 1 /\ FrontSent(e)' = 0
      BY <3>1 DEF FrontSent
    <3>3. buffer[e] \in Seq(Nat) /\ buffer[e] # <<>> /\ accepted[e] \in Nat
      BY <3>1 DEF TypeOK, QueueHasFront
    <3>4. buffer'[e] = Tail(buffer[e])
      BY <1>7, <2>3 DEF TypeOK, PopFront
    <3>5. Run(buffer[e], accepted[e])
      BY <1>0 DEF DeviceInOrder
    <3>6. Run(buffer'[e], accepted[e]) /\ Len(buffer'[e]) = Len(buffer[e]) - 1
      BY <3>3, <3>4, <3>5, RunTail
    <3>7. Sent(e)' = Sent(e)
      BY <2>1, <3>2, <3>3, <3>6 DEF Sent
    <3> QED BY <1>0, <2>1, <3>6, <3>7 DEF DeviceInOrder, Run
  <2> QED BY <2>2, <2>3
<1>8. ASSUME NEW d \in Devices, Receive(d) PROVE DeviceInOrder(e)'
  <2>1. UNCHANGED <<buffer, thread, accepted>>
    BY <1>8 DEF Receive
  <2>2. FrontSent(e)' = FrontSent(e)
    BY <2>1 DEF FrontSent
  <2>3. CASE e # d
    <3>1. net'[e] = net[e] /\ last'[e] = last[e] /\ lossy'[e] = lossy[e]
      BY <1>8, <2>3 DEF TypeOK, Receive
    <3> QED BY <1>1, <2>1, <2>2, <3>1
  <2>4. CASE e = d
    <3>1. net[e] \in Seq(Nat) /\ net[e] # <<>> /\ buffer[e] \in Seq(Nat)
          /\ accepted[e] \in Nat /\ last[e] \in Nat
      BY <1>8, <2>4 DEF TypeOK, Receive
    <3>2. net'[e] = Tail(net[e])
      BY <1>8, <2>4 DEF TypeOK, Receive
    <3>3. Sent(e)' = Sent(e) /\ Sent(e) \in Int
      BY <2>1, <2>2, <3>1 DEF Sent, FrontSent
    <3>4. Run(net[e], Sent(e))
      BY <1>0 DEF DeviceInOrder
    <3>5. /\ Run(net'[e], Sent(e)) /\ Len(net'[e]) = Len(net[e]) - 1
          /\ Head(net[e]) = Sent(e) - Len(net[e]) + 1
      BY <3>1, <3>2, <3>3, <3>4, RunTail
    <3>6. \/ last'[e] = Head(net[e]) /\ lossy'[e] = lossy[e]
          \/ last'[e] = last[e] /\ lossy'[e] = TRUE
      BY <1>8, <2>4 DEF TypeOK, Receive
    <3>7. Run(net[e], Sent(e))' /\ Run(buffer[e], accepted[e])'
      BY <1>0, <2>1, <3>3, <3>5 DEF DeviceInOrder, Run
    <3>8. Len(net[e]) \in Nat
      BY <3>1
    <3>9. CASE last'[e] = Head(net[e]) /\ lossy'[e] = lossy[e]
      <4>1. last'[e] + Len(net'[e]) = Sent(e)
        BY <3>3, <3>5, <3>8, <3>9
      <4>2. last'[e] + Len(net'[e]) = Sent(e)'
        BY <3>3, <4>1
      <4>3. (last[e] + Len(net[e]) <= Sent(e))'
        BY <3>3, <4>2
      <4> QED BY <3>7, <4>2, <4>3 DEF DeviceInOrder
    <3>10. CASE last'[e] = last[e] /\ lossy'[e] = TRUE
      <4>1. last[e] + Len(net[e]) <= Sent(e)
        BY <1>0 DEF DeviceInOrder
      <4>2. last'[e] + Len(net'[e]) <= Sent(e)
        BY <3>1, <3>3, <3>5, <3>8, <3>10, <4>1
      <4>3. (last[e] + Len(net[e]) <= Sent(e))'
        BY <3>3, <4>2
      <4> QED BY <3>7, <3>10, <4>3 DEF DeviceInOrder
    <3> QED BY <3>6, <3>9, <3>10
  <2> QED BY <2>3, <2>4
<1>9. ASSUME NEW d \in Devices, Disconnect(d) PROVE DeviceInOrder(e)'
  <2>1. UNCHANGED <<buffer, thread, accepted, last>>
    BY <1>9 DEF Disconnect
  <2>2. FrontSent(e)' = FrontSent(e)
    BY <2>1 DEF FrontSent
  <2>3. CASE e # d
    <3>1. net'[e] = net[e] /\ lossy'[e] = lossy[e]
      BY <1>9, <2>3 DEF TypeOK, Disconnect
    <3> QED BY <1>1, <2>1, <2>2, <3>1
  <2>4. CASE e = d
    <3>1. net'[e] = <<>> /\ lossy'[e] = TRUE
      BY <1>9, <2>4 DEF TypeOK, Disconnect
    <3>2. /\ Len(net'[e]) = 0 /\ Len(net[e]) \in Nat /\ last[e] \in Nat
          /\ buffer[e] \in Seq(Nat) /\ accepted[e] \in Nat
      BY <3>1 DEF TypeOK
    <3>3. Sent(e)' = Sent(e) /\ Sent(e) \in Int
      BY <2>1, <2>2, <3>2 DEF Sent, FrontSent
    <3>4. Run(net[e], Sent(e))' /\ Run(buffer[e], accepted[e])'
      BY <1>0, <2>1, <3>2 DEF DeviceInOrder, Run
    <3>5. (last[e] + Len(net[e]) <= Sent(e))'
      BY <1>0, <2>1, <3>2, <3>3 DEF DeviceInOrder
    <3> QED BY <3>1, <3>4, <3>5 DEF DeviceInOrder
  <2> QED BY <2>3, <2>4
<1> QED
  BY <1>2, <1>3, <1>4, <1>5, <1>6, <1>7, <1>8, <1>9
  DEF Next, Caller, Transport, Device, SendMsg, TestFull, Connect, RegisterCallback, vars

LEMMA RoomStep ==
  ASSUME TypeOK, TypeOK', QueueHasFront, RoomForPush, [Next]_vars
  PROVE  RoomForPush'
<1>1. ASSUME NEW f \in Devices, NEW u \in Devices, SendMsg(f, u) PROVE RoomForPush'
  BY <1>1 DEF RoomForPush, SendMsg
<1>2. ASSUME TestFull PROVE RoomForPush'
  <2>1. UNCHANGED buffer
    BY <1>2 DEF TestFull
  <2>2. CASE IsFull(caller.at)
    BY <1>2, <2>1, <2>2, VisitTypes DEF RoomForPush, TestFull
  <2>3. CASE ~IsFull(caller.at)
    <3>1. caller'.at = caller.at /\ caller.at \in Devices
      BY <1>2, <2>3 DEF TypeOK, TestFull
    <3>2. buffer[caller.at] \in Seq(Nat)
      BY <3>1 DEF TypeOK
    <3>3. Len(buffer[caller.at]) <= QueueSize
      BY <2>3, <3>2 DEF IsFull
    <3> QED BY <2>1, <3>1, <3>3 DEF RoomForPush
  <2> QED BY <2>2, <2>3
<1>3. ASSUME Push PROVE RoomForPush'
  <2>1. caller.at \in Devices /\ caller'.pc = "notify"
    BY <1>3 DEF TypeOK, Push
  <2>2. buffer[caller.at] \in Seq(Nat) /\ accepted'[caller.at] \in Nat
    BY <2>1 DEF TypeOK
  <2>3. buffer'[caller.at] = Append(buffer[caller.at], accepted'[caller.at])
    BY <1>3, <2>1 DEF TypeOK, Push
  <2>4. Len(buffer'[caller.at]) = Len(buffer[caller.at]) + 1
    BY <2>2, <2>3
  <2>5. Len(buffer[caller.at]) <= QueueSize
    BY <1>3 DEF RoomForPush, Push
  <2>6. Len(buffer'[caller.at]) <= QueueSize + 1
    BY <2>2, <2>4, <2>5
  <2>7. ASSUME NEW d \in Devices, d # caller.at PROVE buffer'[d] = buffer[d]
    BY <1>3, <2>7 DEF TypeOK, Push
  <2> QED BY <2>1, <2>6, <2>7 DEF RoomForPush
<1>4. ASSUME Notify PROVE RoomForPush'
  BY <1>4, VisitTypes DEF RoomForPush, Notify
<1>5. ASSUME NEW d \in Devices, PopFront(d) PROVE RoomForPush'
  <2>1. buffer[d] \in Seq(Nat) /\ buffer[d] # <<>>
    BY <1>5 DEF TypeOK, QueueHasFront, PopFront, At
  <2>2. Len(Tail(buffer[d])) = Len(buffer[d]) - 1 /\ Len(buffer[d]) \in Nat
    BY <2>1
  <2>3. buffer' = [buffer EXCEPT ![d] = Tail(buffer[d])] /\ caller' = caller
    BY <1>5 DEF PopFront
  <2>4. ASSUME NEW e \in Devices PROVE Len(buffer'[e]) <= Len(buffer[e])
    <3>1. CASE e = d
      <4>1. buffer'[e] = Tail(buffer[d])
        BY <2>3, <3>1 DEF TypeOK
      <4> QED BY <2>2, <3>1, <4>1
    <3>2. CASE e # d
      <4>1. buffer'[e] = buffer[e] /\ buffer[e] \in Seq(Nat)
        BY <2>3, <3>2 DEF TypeOK
      <4> QED BY <4>1
    <3> QED BY <3>1, <3>2
  <2>5. ASSUME NEW e \in Devices, NEW n \in Nat, Len(buffer[e]) <= n
        PROVE  Len(buffer'[e]) <= n
    <3>1. Len(buffer[e]) \in Nat /\ Len(buffer'[e]) \in Nat
      BY DEF TypeOK
    <3> QED BY <2>4, <2>5, <3>1
  <2>6. caller.pc = "push" => caller.at \in Devices
    BY DEF TypeOK
  <2> QED BY <2>3, <2>5, <2>6 DEF RoomForPush
<1>6. ASSUME UNCHANGED <<caller, buffer>> PROVE RoomForPush'
  BY <1>6 DEF RoomForPush
<1> QED
  BY <1>1, <1>2, <1>3, <1>4, <1>5, <1>6
  DEF Next, Caller, Transport, Device, Wait, SpuriousWakeup, TestEmpty, Send, SendInterrupted, AfterInterrupt,
      Connect, RegisterCallback, Receive, Disconnect, vars

LEMMA InitIInv == Init => IInv
<1> SUFFICES ASSUME Init PROVE IInv
  OBVIOUS
<1>1. ASSUME NEW d \in Devices PROVE DeviceInOrder(d)
  <2>1. accepted[d] = 0 /\ last[d] = 0 /\ FrontSent(d) = 0
    BY DEF Init, FrontSent
  <2>2. Len(buffer[d]) = 0 /\ Len(net[d]) = 0
    <3>1. Len(<<>>) = 0
      OBVIOUS
    <3>2. buffer[d] = <<>> /\ net[d] = <<>>
      BY DEF Init
    <3> QED BY <3>1, <3>2, Zenon
  <2>3. Sent(d) = 0
    BY <2>1, <2>2 DEF Sent
  <2>4. Run(buffer[d], accepted[d]) /\ Run(net[d], Sent(d))
    BY <2>2 DEF Run
  <2> QED BY <2>1, <2>2, <2>3, <2>4 DEF DeviceInOrder
<1>2. InOrder
  BY <1>1 DEF InOrder, DeviceInOrder
<1>3. QueueHasFront /\ RoomForPush
  BY DEF Init, QueueHasFront, RoomForPush
<1> QED BY <1>2, <1>3, TypeInit DEF IInv

LEMMA StepIInv == IInv /\ [Next]_vars => IInv'
<1> SUFFICES ASSUME IInv, [Next]_vars PROVE IInv'
  OBVIOUS
<1>1. TypeOK'
  BY TypeStep DEF IInv
<1> QED BY <1>1, FrontStep, InOrderStep, RoomStep DEF IInv

\* The inductive invariant holds in every reachable state.
THEOREM Inductive == Spec => []IInv
  BY InitIInv, StepIInv, PTL DEF Spec

\* Every variable keeps its type, and the caller never leaves id_list.
THEOREM TypeCorrect == Spec => []TypeOK
<1>1. IInv => TypeOK
  BY DEF IInv
<1> QED BY <1>1, Inductive, PTL

\* Nothing accepted for a device that never failed is lost or doubled on its way
\* from send_msg_to_one to the callback.
THEOREM NothingLost == Spec => []Conservation
<1>1. IInv => Conservation
  BY DEF IInv, InOrder, Conservation
<1> QED BY <1>1, Inductive, PTL

\* The queue of a device never holds more than Queue_size + 1 messages.
THEOREM BoundedQueue == Spec => []QueueBounded
<1>1. IInv => QueueBounded
  BY DEF IInv, RoomForPush, QueueBounded
<1> QED BY <1>1, Inductive, PTL

-----------------------------------------------------------------------------
(* Every device is a FifoLink.                                             *)

LEMMA StepIsLinkStep ==
  ASSUME IInv, IInv', [Next]_vars, NEW e \in Devices
  PROVE  [Link(e)!Next]_(Link(e)!vars)
<1> USE DEF Link!Next, Link!vars, Link!Accept, Link!Deliver, Link!Fail
<1>0. TypeOK /\ TypeOK' /\ QueueHasFront /\ DeviceInOrder(e)
  BY DEF IInv, InOrder, DeviceInOrder
<1>1. ASSUME accepted'[e] = accepted[e], last'[e] = last[e], lossy'[e] = lossy[e]
      PROVE  [Link(e)!Next]_(Link(e)!vars)
  BY <1>1
<1>2. ASSUME Push PROVE [Link(e)!Next]_(Link(e)!vars)
  <2>1. accepted'[e] = accepted[e] \/ accepted'[e] = accepted[e] + 1
    BY <1>0, <1>2 DEF TypeOK, Push
  <2> QED BY <1>2, <2>1 DEF Push
<1>3. ASSUME NEW d \in Devices, Receive(d) PROVE [Link(e)!Next]_(Link(e)!vars)
  <2>1. CASE e # d
    <3>1. last'[e] = last[e] /\ lossy'[e] = lossy[e] /\ accepted'[e] = accepted[e]
      BY <1>0, <1>3, <2>1 DEF TypeOK, Receive
    <3> QED BY <1>1, <3>1
  <2>2. CASE e = d /\ ~registered[d]
    <3>1. last'[e] = last[e] /\ lossy'[e] = TRUE /\ accepted'[e] = accepted[e]
      BY <1>0, <1>3, <2>2 DEF TypeOK, Receive
    <3> QED BY <3>1
  <2>3. CASE e = d /\ registered[d]
    <3>1. /\ last'[e] = Head(net[e]) /\ lossy'[e] = lossy[e] /\ accepted'[e] = accepted[e]
          /\ net[e] # <<>>
      BY <1>0, <1>3, <2>3 DEF TypeOK, Receive
    <3>2. /\ net[e] \in Seq(Nat) /\ buffer[e] \in Seq(Nat)
          /\ accepted[e] \in Nat /\ last[e] \in Nat /\ last'[e] \in Nat
      BY <1>0 DEF TypeOK
    <3>3. Len(net[e]) \in Nat \ {0} /\ Len(buffer[e]) \in Nat
      BY <3>1, <3>2
    <3>4. Sent(e) <= accepted[e] /\ Sent(e) \in Int
      <4>1. CASE thread[e] = "pop"
        <5>1. buffer[e] # <<>>
          BY <1>0, <4>1 DEF QueueHasFront
        <5>2. Len(buffer[e]) >= 1
          BY <3>2, <5>1
        <5> QED BY <3>2, <3>3, <4>1, <5>2 DEF Sent, FrontSent
      <4>2. CASE thread[e] # "pop"
        BY <3>2, <3>3, <4>2 DEF Sent, FrontSent
      <4> QED BY <4>1, <4>2
    <3>5. last'[e] = Sent(e) - Len(net[e]) + 1
      BY <1>0, <3>1, <3>2, <3>4, RunTail DEF DeviceInOrder
    <3>6. last[e] + Len(net[e]) <= Sent(e)
      BY <1>0 DEF DeviceInOrder
    <3>7. ~lossy[e] => last[e] + Len(net[e]) = Sent(e)
      BY <1>0 DEF DeviceInOrder
    <3>8. last'[e] \in last[e] + 1 .. accepted[e]
      BY <3>2, <3>3, <3>4, <3>5, <3>6
    <3>9. ~lossy[e] => last'[e] = last[e] + 1
      BY <3>2, <3>3, <3>4, <3>5, <3>7
    <3> QED BY <3>1, <3>8, <3>9
  <2> QED BY <2>1, <2>2, <2>3
<1>4. ASSUME NEW d \in Devices, Disconnect(d) PROVE [Link(e)!Next]_(Link(e)!vars)
  <2>1. lossy'[e] = lossy[e] \/ lossy'[e] = TRUE
    BY <1>0, <1>4 DEF TypeOK, Disconnect
  <2> QED BY <1>4, <2>1 DEF Disconnect
<1>5. ASSUME UNCHANGED <<accepted, last, lossy>> PROVE [Link(e)!Next]_(Link(e)!vars)
  BY <1>1, <1>5
<1> QED
  BY <1>2, <1>3, <1>4, <1>5
  DEF Next, Caller, Transport, Device, SendMsg, TestFull, Notify, Wait, SpuriousWakeup,
      TestEmpty, Send, SendInterrupted, AfterInterrupt, PopFront, Connect, RegisterCallback, vars

\* Whatever fails, each device sees the accepted messages in strict order.
THEOREM InStrictOrder == Spec => StrictOrder
<1>1. Init => \A d \in Devices : Link(d)!Init
  BY DEF Init, Link!Init
<1>2. IInv /\ IInv' /\ [Next]_vars => [\A d \in Devices : [Link(d)!Next]_(Link(d)!vars)]_vars
  BY StepIsLinkStep
<1> QED BY <1>1, <1>2, Inductive, PTL DEF Spec, StrictOrder

=============================================================================
