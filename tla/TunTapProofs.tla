---------------------------- MODULE TunTapProofs ----------------------------
(***************************************************************************)
(* A tun or tap device is not deleted under its users, and a session reads *)
(* its own packets, for every number of programs and stack threads.        *)
(***************************************************************************)
EXTENDS TunTap, FiniteSetTheorems, TLAPS

Entered == {u \in Users : pc[u] \notin {"out", "gate"}}

\* Each kind of thread stays in its own part of the code, and if_output() has
\* packets left while it loops.
PcInv ==
    /\ \A u \in Users : pc[u] \in UserStates
    /\ \A s \in Stack : pc[s] \in StackStates
    /\ \A s \in Stack : pc[s] \in {"check", "enqueue"} => burst[s] >= 1

\* The gate counts the threads behind it, and the ticket number does too.
GateInv == population = Cardinality(Entered) /\ ticket_number = population

\* Whoever closes the device holds its lock until the interface is gone.
CloseInv ==
    /\ lock # NULL => pc[lock] = "closing"
    /\ \A u \in Users : pc[u] = "closing" => lock = u
    /\ ifp = "attached" <=> open
    /\ ifp = "detaching" <=> lock # NULL

\* A deleted device is closed.  A detached one has no if_output() in progress.
DeviceInv ==
    /\ ~device => ifp = "none"
    /\ waits /\ (ifp = "none" \/ (ifp = "detaching" /\ interface_detached))
         => \A s \in Stack : pc[s] = "out"

IInv == TypeOK /\ PcInv /\ GateInv /\ CloseInv /\ DeviceInv /\ InterfaceAlive /\ OwnPackets

LEMMA InitIInv == Init => IInv
<1> SUFFICES ASSUME Init PROVE IInv  OBVIOUS
<1>0. /\ mapped \in BOOLEAN /\ device \in BOOLEAN /\ open \in BOOLEAN /\ block_io \in BOOLEAN
      /\ up \in BOOLEAN /\ interface_detached \in BOOLEAN /\ selecting \in BOOLEAN
      /\ refused \in BOOLEAN /\ waits \in BOOLEAN
  BY Zenon DEF Init, ManagerInit, InterfaceInit
<1>a. TypeOK
  BY <1>0 DEF Init, ManagerInit, InterfaceInit, TypeOK, UserStates, StackStates
<1>b. PcInv  BY DEF Init, ManagerInit, InterfaceInit, PcInv, UserStates, StackStates
<1>c. CloseInv  BY DEF Init, ManagerInit, InterfaceInit, CloseInv
<1>d. DeviceInv /\ InterfaceAlive /\ OwnPackets
  BY DEF Init, ManagerInit, InterfaceInit, DeviceInv, InterfaceAlive, OwnPackets, Inside
<1>1. TypeOK /\ PcInv /\ CloseInv /\ DeviceInv /\ InterfaceAlive /\ OwnPackets
  BY <1>a, <1>b, <1>c, <1>d
<1>2. Entered = {}  BY DEF Entered, Init
<1>3. GateInv  BY <1>2, FS_EmptySet DEF GateInv, Init, ManagerInit
<1>4. QED  BY <1>1, <1>3 DEF IInv

\* The gate's count: only Enter and Exit change who is behind it.
LEMMA EnteredSame ==
    ASSUME IInv, UNCHANGED <<population, ticket_number>>, Entered' = Entered
    PROVE  GateInv'
BY DEF IInv, GateInv

LEMMA EnteredFinite == IsFiniteSet(Entered)
BY FS_Subset, ThreadAssumption DEF Entered

LEMMA EnterCounts == ASSUME IInv, NEW u \in Users, Enter(u) PROVE GateInv'
<1>1. u \notin Entered  BY DEF Enter, Entered
<1>2. Entered' = Entered \cup {u}
  BY SMTT(60) DEF Enter, enter, Entered, Goto, IInv, TypeOK, Calls
<1>3. Cardinality(Entered') = Cardinality(Entered) + 1
  BY <1>1, <1>2, EnteredFinite, FS_AddElement
<1>4. QED  BY <1>3 DEF Enter, enter, GateInv, IInv

LEMMA ExitCounts == ASSUME IInv, NEW u \in Users, Exit(u) PROVE GateInv' /\ population' \in Nat
<1>1. u \in Entered  BY DEF Exit, Entered
<1>2. Entered' = Entered \ {u}
  BY SMTT(60) DEF Exit, exit, Entered, Goto, IInv, TypeOK
<1>3. Cardinality(Entered') = Cardinality(Entered) - 1
  BY <1>1, <1>2, EnteredFinite, FS_RemoveElement
<1>4. IsFiniteSet(Entered')
  BY <1>2, EnteredFinite, FS_RemoveElement
<1>5. Cardinality(Entered') \in Nat  BY <1>4, FS_CardinalityType
<1>6. QED  BY <1>3, <1>5 DEF Exit, exit, GateInv, IInv

LEMMA NoneEntered == ASSUME IInv, population = 0 PROVE \A u \in Users : ~Inside(u)
<1>1. Entered = {}  BY EnteredFinite, FS_EmptySet DEF IInv, GateInv
<1>2. QED  BY <1>1 DEF Entered, Inside

LEMMA TailInSeq == ASSUME NEW S, NEW q \in Seq(S), q # <<>>
                   PROVE  /\ Tail(q) \in Seq(S)
                          /\ \A i \in DOMAIN Tail(q) : i + 1 \in DOMAIN q /\ Tail(q)[i] = q[i + 1]
OBVIOUS

LEMMA AppendInSeq == ASSUME NEW S, NEW q \in Seq(S), NEW x \in S
                     PROVE  /\ Append(q, x) \in Seq(S) /\ Append(q, x) # <<>>
                            /\ \A i \in DOMAIN Append(q, x) :
                                 Append(q, x)[i] = x \/ (i \in DOMAIN q /\ Append(q, x)[i] = q[i])
OBVIOUS

LEMMA OldInSeq == ASSUME NEW S, NEW q \in Seq(S)
                  PROVE  [i \in DOMAIN q |-> "old"] \in Seq({"own", "old"})
OBVIOUS

\* Who is where decides the rest of the invariant.
Rest == TypeOK /\ PcInv /\ CloseInv /\ DeviceInv /\ InterfaceAlive /\ OwnPackets

LEMMA NextIInv == ASSUME IInv, [Next]_vars PROVE IInv'
<1>1. ASSUME NEW u \in Users, Dispatch(u) PROVE IInv'
  <2>0. Entered' = Entered
    BY <1>1, ThreadAssumption, SMTT(60) DEF Dispatch, Entered, IInv, TypeOK, PcInv, UserStates, StackStates, Calls, Goto, Return, gateVars, devVars, ioVars
  <2>1. GateInv'  BY <1>1, <2>0, EnteredSame DEF Dispatch, gateVars
  <2>2. Rest'
    BY <1>1, <2>1, ThreadAssumption
    DEF Dispatch, Rest, GateInv, IInv, TypeOK, PcInv, CloseInv, DeviceInv, InterfaceAlive, OwnPackets, Inside, UserStates, StackStates,
         Calls, Goto, Return, Usable, gateVars, devVars, ioVars
  <2>3. QED  BY <2>1, <2>2 DEF Rest, IInv
<1>2. ASSUME NEW u \in Users, Enter(u) PROVE IInv'
  <2>1. GateInv'  BY <1>2, EnterCounts
  <2>2. Rest'
    BY <1>2, <2>1, ThreadAssumption
    DEF Enter, enter, Rest, GateInv, IInv, TypeOK, PcInv, CloseInv, DeviceInv, InterfaceAlive, OwnPackets, Inside, UserStates, StackStates,
         Calls, Goto, Return, Usable, gateVars, devVars, ioVars
  <2>3. QED  BY <2>1, <2>2 DEF Rest, IInv
<1>3. ASSUME NEW u \in Users, Exit(u) PROVE IInv'
  <2>1. GateInv' /\ population' \in Nat  BY <1>3, ExitCounts
  <2>2. Rest'
    BY <1>3, <2>1, ThreadAssumption
    DEF Exit, exit, Rest, GateInv, IInv, TypeOK, PcInv, CloseInv, DeviceInv, InterfaceAlive, OwnPackets, Inside, UserStates, StackStates,
         Calls, Goto, Return, Usable, gateVars, devVars, ioVars
  <2>3. QED  BY <2>1, <2>2 DEF Rest, IInv
<1>4. ASSUME NEW u \in Users, cdev_open(u) PROVE IInv'
  <2>0. Entered' = Entered
    BY <1>4, ThreadAssumption, SMTT(60) DEF cdev_open, initialize_interface, register_interface, Entered, IInv, TypeOK, PcInv, UserStates, StackStates, Calls, Goto, Return, gateVars, devVars, ioVars
  <2>1. GateInv'  BY <1>4, <2>0, EnteredSame DEF cdev_open, initialize_interface, register_interface, gateVars
  <2>2. open' \in BOOLEAN /\ up' \in BOOLEAN
    BY <1>4, Zenon DEF cdev_open, initialize_interface, register_interface, IInv, TypeOK
  <2>3. TypeOK'
    BY <1>4, <2>2, ThreadAssumption, OldInSeq, SMTT(60) DEF cdev_open, initialize_interface, register_interface, IInv, TypeOK, PcInv, UserStates, StackStates, Calls, Goto, Return, gateVars, devVars, ioVars
  <2>4. PcInv'
    BY <1>4, <2>2, ThreadAssumption, SMTT(60) DEF cdev_open, initialize_interface, register_interface, IInv, TypeOK, PcInv, UserStates, StackStates, Calls, Goto, Return, gateVars, devVars, ioVars
  <2>5. CloseInv'
    BY <1>4, <2>2, ThreadAssumption, SMTT(60) DEF cdev_open, initialize_interface, register_interface, CloseInv, IInv, TypeOK, PcInv, UserStates, StackStates, Calls, Goto, Return, gateVars, devVars, ioVars
  <2>6. DeviceInv'
    BY <1>4, <2>2, ThreadAssumption, OldInSeq, SMTT(60) DEF cdev_open, initialize_interface, register_interface, DeviceInv, CloseInv, InterfaceAlive, Inside, IInv, TypeOK, PcInv, UserStates, StackStates, Calls, Goto, Return, gateVars, devVars, ioVars
  <2>7. InterfaceAlive'
    BY <1>4, <2>2, ThreadAssumption, OldInSeq, SMTT(60) DEF cdev_open, initialize_interface, register_interface, InterfaceAlive, DeviceInv, CloseInv, Inside, IInv, TypeOK, PcInv, UserStates, StackStates, Calls, Goto, Return, gateVars, devVars, ioVars
  <2>8. OwnPackets'
    BY <1>4, <2>2, ThreadAssumption, OldInSeq, SMTT(60) DEF cdev_open, initialize_interface, register_interface, OwnPackets, DeviceInv, CloseInv, Usable, IInv, TypeOK, PcInv, UserStates, StackStates, Calls, Goto, Return, gateVars, devVars, ioVars
  <2>10. QED  BY <2>1, <2>3, <2>4, <2>5, <2>6, <2>7, <2>8 DEF IInv
<1>5. ASSUME NEW u \in Users, cdev_close(u) PROVE IInv'
  <2>0. Entered' = Entered
    BY <1>5, ThreadAssumption, SMTT(60) DEF cdev_close, shutdown_interface, cleanup_interface, unregister_interface, Entered, IInv, TypeOK, PcInv, UserStates, StackStates, Calls, Goto, Return, gateVars, devVars, ioVars
  <2>1. GateInv'  BY <1>5, <2>0, EnteredSame DEF cdev_close, shutdown_interface, cleanup_interface, unregister_interface, gateVars
  <2>2. open' \in BOOLEAN /\ up' \in BOOLEAN /\ interface_detached' \in BOOLEAN
    BY <1>5, Zenon DEF cdev_close, shutdown_interface, cleanup_interface, unregister_interface, IInv, TypeOK
  <2>3. TypeOK'
    BY <1>5, <2>2, ThreadAssumption, SMTT(60) DEF cdev_close, shutdown_interface, cleanup_interface, unregister_interface, IInv, TypeOK, PcInv, UserStates, StackStates, Calls, Goto, Return, gateVars, devVars, ioVars
  <2>4. PcInv'
    BY <1>5, <2>2, ThreadAssumption, SMTT(60) DEF cdev_close, shutdown_interface, cleanup_interface, unregister_interface, IInv, TypeOK, PcInv, UserStates, StackStates, Calls, Goto, Return, gateVars, devVars, ioVars
  <2>5. CloseInv'
    BY <1>5, <2>2, ThreadAssumption, SMTT(60) DEF cdev_close, shutdown_interface, cleanup_interface, unregister_interface, CloseInv, IInv, TypeOK, PcInv, UserStates, StackStates, Calls, Goto, Return, gateVars, devVars, ioVars
  <2>6. DeviceInv'
    BY <1>5, <2>2, ThreadAssumption, SMTT(60) DEF cdev_close, shutdown_interface, cleanup_interface, unregister_interface, DeviceInv, CloseInv, InterfaceAlive, Inside, IInv, TypeOK, PcInv, UserStates, StackStates, Calls, Goto, Return, gateVars, devVars, ioVars
  <2>7. InterfaceAlive'
    BY <1>5, <2>2, ThreadAssumption, SMTT(60) DEF cdev_close, shutdown_interface, cleanup_interface, unregister_interface, InterfaceAlive, DeviceInv, CloseInv, Inside, IInv, TypeOK, PcInv, UserStates, StackStates, Calls, Goto, Return, gateVars, devVars, ioVars
  <2>8. OwnPackets'
    BY <1>5, <2>2, ThreadAssumption, SMTT(60) DEF cdev_close, shutdown_interface, cleanup_interface, unregister_interface, OwnPackets, DeviceInv, CloseInv, Usable, IInv, TypeOK, PcInv, UserStates, StackStates, Calls, Goto, Return, gateVars, devVars, ioVars
  <2>10. QED  BY <2>1, <2>3, <2>4, <2>5, <2>6, <2>7, <2>8 DEF IInv
<1>6. ASSUME NEW u \in Users, CloseEnds(u) PROVE IInv'
  <2>0. Entered' = Entered
    BY <1>6, ThreadAssumption, SMTT(60) DEF CloseEnds, Entered, IInv, TypeOK, PcInv, UserStates, StackStates, Calls, Goto, Return, gateVars, devVars, ioVars, Wakeup, Selwakeup, clear
  <2>1. GateInv'  BY <1>6, <2>0, EnteredSame DEF CloseEnds, gateVars
  <2>2. selecting' \in BOOLEAN /\ refused' \in BOOLEAN
    BY <1>6, Zenon DEF CloseEnds, IInv, TypeOK, Wakeup, Selwakeup, clear
  <2>3. TypeOK'
    BY <1>6, <2>2, ThreadAssumption, SMTT(60) DEF CloseEnds, IInv, TypeOK, PcInv, UserStates, StackStates, Calls, Goto, Return, gateVars, devVars, ioVars, Wakeup, Selwakeup, clear
  <2>4. PcInv'
    BY <1>6, <2>2, ThreadAssumption, SMTT(60) DEF CloseEnds, IInv, TypeOK, PcInv, UserStates, StackStates, Calls, Goto, Return, gateVars, devVars, ioVars, Wakeup, Selwakeup, clear
  <2>5. CloseInv'
    BY <1>6, <2>2, ThreadAssumption, SMTT(60) DEF CloseEnds, CloseInv, IInv, TypeOK, PcInv, UserStates, StackStates, Calls, Goto, Return, gateVars, devVars, ioVars, Wakeup, Selwakeup, clear
  <2>6. DeviceInv'
    BY <1>6, <2>2, ThreadAssumption, SMTT(60) DEF CloseEnds, DeviceInv, CloseInv, InterfaceAlive, Inside, IInv, TypeOK, PcInv, UserStates, StackStates, Calls, Goto, Return, gateVars, devVars, ioVars, Wakeup, Selwakeup, clear
  <2>7. InterfaceAlive'
    BY <1>6, <2>2, ThreadAssumption, SMTT(60) DEF CloseEnds, InterfaceAlive, DeviceInv, CloseInv, Inside, IInv, TypeOK, PcInv, UserStates, StackStates, Calls, Goto, Return, gateVars, devVars, ioVars, Wakeup, Selwakeup, clear
  <2>8. OwnPackets'
    BY <1>6, <2>2, ThreadAssumption, SMTT(60) DEF CloseEnds, OwnPackets, DeviceInv, CloseInv, Usable, IInv, TypeOK, PcInv, UserStates, StackStates, Calls, Goto, Return, gateVars, devVars, ioVars, Wakeup, Selwakeup, clear
  <2>10. QED  BY <2>1, <2>3, <2>4, <2>5, <2>6, <2>7, <2>8 DEF IInv
<1>7. ASSUME NEW u \in Users, cdev_read(u) PROVE IInv'
  <2>0. Entered' = Entered
    BY <1>7, ThreadAssumption, SMTT(60) DEF cdev_read, dequeue, Entered, IInv, TypeOK, PcInv, UserStates, StackStates, Calls, Goto, Return, gateVars, devVars, ioVars
  <2>1. GateInv'  BY <1>7, <2>0, EnteredSame DEF cdev_read, dequeue, gateVars
  <2>2. refused' \in BOOLEAN  BY <1>7, Zenon DEF cdev_read, dequeue, IInv, TypeOK
  <2>3. send_queue' = send_queue \/ (send_queue # <<>> /\ send_queue' = Tail(send_queue))
    BY <1>7, Zenon DEF cdev_read, dequeue
  <2>4. PICK l \in {"exit", "presleep"} : pc' = [pc EXCEPT ![u] = l]
    BY <1>7, Zenon DEF cdev_read, dequeue, Return, Goto
  <2>5. pc[u] \in {"read", "woken"} /\ UNCHANGED <<gateVars, devVars, burst, tag, selecting, waits>>
    BY <1>7, Zenon DEF cdev_read, dequeue
  <2>6. /\ send_queue' \in Seq({"own", "old"})
        /\ \A i \in DOMAIN send_queue' : \E j \in DOMAIN send_queue : send_queue'[i] = send_queue[j]
        /\ send_queue = <<>> => send_queue' = <<>>
    <3>0. send_queue \in Seq({"own", "old"})  BY SMTT(60) DEF IInv, TypeOK
    <3>1. CASE send_queue' = send_queue  BY <3>0, <3>1
    <3>2. CASE send_queue # <<>> /\ send_queue' = Tail(send_queue)
      <4>1. /\ Tail(send_queue) \in Seq({"own", "old"})
            /\ \A i \in DOMAIN Tail(send_queue) :
                 i + 1 \in DOMAIN send_queue /\ Tail(send_queue)[i] = send_queue[i + 1]
        BY <3>0, <3>2, TailInSeq
      <4>2. QED  BY <3>2, <4>1, Zenon
    <3>3. QED  BY <2>3, <3>1, <3>2
  <2>7. Rest'
    BY <2>2, <2>4, <2>5, <2>6, ThreadAssumption
    DEF Rest, IInv, TypeOK, PcInv, CloseInv, DeviceInv, InterfaceAlive, OwnPackets, Inside, UserStates, StackStates,
         Calls, Goto, Return, Usable, gateVars, devVars, ioVars
  <2>8. QED  BY <2>1, <2>7 DEF Rest, IInv
<1>8. ASSUME NEW u \in Users, msleep(u) PROVE IInv'
  <2>0. Entered' = Entered
    BY <1>8, ThreadAssumption, SMTT(60) DEF msleep, Entered, IInv, TypeOK, PcInv, UserStates, StackStates, Calls, Goto, Return, gateVars, devVars, ioVars
  <2>1. GateInv'  BY <1>8, <2>0, EnteredSame DEF msleep, gateVars
  <2>2. Rest'
    BY <1>8, <2>1, ThreadAssumption
    DEF msleep, Rest, GateInv, IInv, TypeOK, PcInv, CloseInv, DeviceInv, InterfaceAlive, OwnPackets, Inside, UserStates, StackStates,
         Calls, Goto, Return, Usable, gateVars, devVars, ioVars
  <2>3. QED  BY <2>1, <2>2 DEF Rest, IInv
<1>9. ASSUME NEW u \in Users, Interrupt(u) PROVE IInv'
  <2>0. Entered' = Entered
    BY <1>9, ThreadAssumption, SMTT(60) DEF Interrupt, Entered, IInv, TypeOK, PcInv, UserStates, StackStates, Calls, Goto, Return, gateVars, devVars, ioVars
  <2>1. GateInv'  BY <1>9, <2>0, EnteredSame DEF Interrupt, gateVars
  <2>2. Rest'
    BY <1>9, <2>1, ThreadAssumption
    DEF Interrupt, Rest, GateInv, IInv, TypeOK, PcInv, CloseInv, DeviceInv, InterfaceAlive, OwnPackets, Inside, UserStates, StackStates,
         Calls, Goto, Return, Usable, gateVars, devVars, ioVars
  <2>3. QED  BY <2>1, <2>2 DEF Rest, IInv
<1>10. ASSUME NEW u \in Users, cdev_write(u) PROVE IInv'
  <2>0. Entered' = Entered
    BY <1>10, ThreadAssumption, SMTT(60) DEF cdev_write, Entered, IInv, TypeOK, PcInv, UserStates, StackStates, Calls, Goto, Return, gateVars, devVars, ioVars
  <2>1. GateInv'  BY <1>10, <2>0, EnteredSame DEF cdev_write, gateVars
  <2>2. Rest'
    BY <1>10, <2>1, ThreadAssumption
    DEF cdev_write, Rest, GateInv, IInv, TypeOK, PcInv, CloseInv, DeviceInv, InterfaceAlive, OwnPackets, Inside, UserStates, StackStates,
         Calls, Goto, Return, Usable, gateVars, devVars, ioVars
  <2>3. QED  BY <2>1, <2>2 DEF Rest, IInv
<1>11. ASSUME NEW u \in Users, cdev_ioctl(u) PROVE IInv'
  <2>0. Entered' = Entered
    BY <1>11, ThreadAssumption, SMTT(60) DEF cdev_ioctl, Entered, IInv, TypeOK, PcInv, UserStates, StackStates, Calls, Goto, Return, gateVars, devVars, ioVars
  <2>1. GateInv'  BY <1>11, <2>0, EnteredSame DEF cdev_ioctl, gateVars
  <2>2. Rest'
    BY <1>11, <2>1, ThreadAssumption
    DEF cdev_ioctl, Rest, GateInv, IInv, TypeOK, PcInv, CloseInv, DeviceInv, InterfaceAlive, OwnPackets, Inside, UserStates, StackStates,
         Calls, Goto, Return, Usable, gateVars, devVars, ioVars
  <2>3. QED  BY <2>1, <2>2 DEF Rest, IInv
<1>12. ASSUME NEW u \in Users, cdev_select(u) PROVE IInv'
  <2>0. Entered' = Entered
    BY <1>12, ThreadAssumption, SMTT(60) DEF cdev_select, Entered, IInv, TypeOK, PcInv, UserStates, StackStates, Calls, Goto, Return, gateVars, devVars, ioVars
  <2>1. GateInv'  BY <1>12, <2>0, EnteredSame DEF cdev_select, gateVars
  <2>2. Rest'
    BY <1>12, <2>1, ThreadAssumption
    DEF cdev_select, Rest, GateInv, IInv, TypeOK, PcInv, CloseInv, DeviceInv, InterfaceAlive, OwnPackets, Inside, UserStates, StackStates,
         Calls, Goto, Return, Usable, gateVars, devVars, ioVars
  <2>3. QED  BY <2>1, <2>2 DEF Rest, IInv
<1>13. ASSUME NEW s \in Stack, Output(s) PROVE IInv'
  <2>0. Entered' = Entered
    BY <1>13, ThreadAssumption, SMTT(60) DEF Output, Entered, IInv, TypeOK, PcInv, UserStates, StackStates, Calls, Goto, Return, gateVars, devVars, ioVars
  <2>1. GateInv'  BY <1>13, <2>0, EnteredSame DEF Output, gateVars
  <2>2. Rest'
    BY <1>13, <2>1, ThreadAssumption
    DEF Output, Rest, GateInv, IInv, TypeOK, PcInv, CloseInv, DeviceInv, InterfaceAlive, OwnPackets, Inside, UserStates, StackStates,
         Calls, Goto, Return, Usable, gateVars, devVars, ioVars
  <2>3. QED  BY <2>1, <2>2 DEF Rest, IInv
<1>14. ASSUME NEW s \in Stack, OutputCheck(s) PROVE IInv'
  <2>0. Entered' = Entered
    BY <1>14, ThreadAssumption, SMTT(60) DEF OutputCheck, Entered, IInv, TypeOK, PcInv, UserStates, StackStates, Calls, Goto, Return, gateVars, devVars, ioVars
  <2>1. GateInv'  BY <1>14, <2>0, EnteredSame DEF OutputCheck, gateVars
  <2>2. Rest'
    BY <1>14, <2>1, ThreadAssumption
    DEF OutputCheck, Rest, GateInv, IInv, TypeOK, PcInv, CloseInv, DeviceInv, InterfaceAlive, OwnPackets, Inside, UserStates, StackStates,
         Calls, Goto, Return, Usable, gateVars, devVars, ioVars
  <2>3. QED  BY <2>1, <2>2 DEF Rest, IInv
<1>15. ASSUME NEW s \in Stack, Enqueue(s) PROVE IInv'
  <2>0. Entered' = Entered
    BY <1>15, ThreadAssumption, SMTT(60) DEF Enqueue, enqueue, Entered, IInv, TypeOK, PcInv, UserStates, StackStates, Calls, Goto, Return, gateVars, devVars, ioVars, full
  <2>1. GateInv'  BY <1>15, <2>0, EnteredSame DEF Enqueue, enqueue, gateVars
  <2>2. refused' \in BOOLEAN  BY <1>15, Zenon DEF Enqueue, enqueue, IInv, TypeOK
  <2>3. \/ send_queue' = send_queue /\ pc' = [pc EXCEPT ![s] = "out"] /\ burst' = burst
        \/ /\ send_queue' = Append(send_queue, tag[s])
           /\ burst' = [burst EXCEPT ![s] = @ - 1]
           /\ pc' = [pc EXCEPT ![s] = IF burst[s] = 1 THEN "wake" ELSE "enqueue"]
    BY <1>15, Zenon DEF Enqueue, enqueue, Goto
  <2>4. pc[s] = "enqueue" /\ lock = NULL /\ UNCHANGED <<gateVars, devVars, tag, selecting, waits>>
    BY <1>15, Zenon DEF Enqueue, enqueue
  <2>5. /\ send_queue' \in Seq({"own", "old"})
        /\ \A i \in DOMAIN send_queue' :
             send_queue'[i] = tag[s] \/ \E j \in DOMAIN send_queue : send_queue'[i] = send_queue[j]
    <3>0. send_queue \in Seq({"own", "old"}) /\ tag[s] \in {"own", "old"}
      BY <1>15, SMTT(60) DEF IInv, TypeOK
    <3>1. /\ Append(send_queue, tag[s]) \in Seq({"own", "old"})
          /\ \A i \in DOMAIN Append(send_queue, tag[s]) :
               \/ Append(send_queue, tag[s])[i] = tag[s]
               \/ i \in DOMAIN send_queue /\ Append(send_queue, tag[s])[i] = send_queue[i]
      BY <3>0, AppendInSeq
    <3>2. QED  BY <2>3, <3>0, <3>1, Zenon
  <2>6. /\ burst' \in [Stack -> Nat]
        /\ \A x \in Stack : pc'[x] \in {"check", "enqueue"} => burst'[x] >= 1
    <3>0. /\ burst \in [Stack -> Nat] /\ burst[s] >= 1
          /\ pc \in [Users \cup Stack -> UserStates \cup StackStates]
          /\ \A x \in Stack : pc[x] \in {"check", "enqueue"} => burst[x] >= 1
      BY <1>15, <2>4, SMTT(60) DEF IInv, TypeOK, PcInv
    <3>1. CASE pc' = [pc EXCEPT ![s] = "out"] /\ burst' = burst
      BY <1>15, <3>0, <3>1
    <3>2. CASE /\ burst' = [burst EXCEPT ![s] = @ - 1]
               /\ pc' = [pc EXCEPT ![s] = IF burst[s] = 1 THEN "wake" ELSE "enqueue"]
      BY <1>15, <3>0, <3>2
    <3>3. QED  BY <2>3, <3>1, <3>2
  <2>7. PICK l \in {"out", "wake", "enqueue"} : pc' = [pc EXCEPT ![s] = l]
    BY <2>3, Zenon
  <2>8. TypeOK' /\ PcInv' /\ CloseInv' /\ DeviceInv' /\ InterfaceAlive'
    BY <2>2, <2>3, <2>4, <2>5, <2>6, <2>7, ThreadAssumption
    DEF IInv, TypeOK, PcInv, CloseInv, DeviceInv, InterfaceAlive, OwnPackets, Inside, UserStates, StackStates,
         Calls, Goto, Return, Usable, gateVars, devVars, ioVars
  <2>9. OwnPackets'
    BY <2>4, <2>5, <2>7, ThreadAssumption, SMTT(60) DEF IInv, TypeOK, PcInv, CloseInv, DeviceInv, InterfaceAlive, OwnPackets, Inside, UserStates, StackStates,
         Calls, Goto, Return, Usable, gateVars, devVars, ioVars
  <2>10. QED  BY <2>1, <2>8, <2>9 DEF IInv
<1>16. ASSUME NEW s \in Stack, OutputWakes(s) PROVE IInv'
  <2>0. Entered' = Entered
    BY <1>16, ThreadAssumption, SMTT(60) DEF OutputWakes, Entered, IInv, TypeOK, PcInv, UserStates, StackStates, Calls, Goto, Return, gateVars, devVars, ioVars, Wakeup, Selwakeup
  <2>1. GateInv'  BY <1>16, <2>0, EnteredSame DEF OutputWakes, gateVars
  <2>2. selecting' \in BOOLEAN /\ refused' \in BOOLEAN
    BY <1>16, Zenon DEF OutputWakes, IInv, TypeOK, Wakeup, Selwakeup
  <2>3. TypeOK'
    BY <1>16, <2>2, ThreadAssumption, SMTT(60) DEF OutputWakes, IInv, TypeOK, PcInv, UserStates, StackStates, Calls, Goto, Return, gateVars, devVars, ioVars, Wakeup, Selwakeup
  <2>4. PcInv'
    BY <1>16, <2>2, ThreadAssumption, SMTT(60) DEF OutputWakes, IInv, TypeOK, PcInv, UserStates, StackStates, Calls, Goto, Return, gateVars, devVars, ioVars, Wakeup, Selwakeup
  <2>5. CloseInv'
    BY <1>16, <2>2, ThreadAssumption, SMTT(60) DEF OutputWakes, CloseInv, IInv, TypeOK, PcInv, UserStates, StackStates, Calls, Goto, Return, gateVars, devVars, ioVars, Wakeup, Selwakeup
  <2>6. DeviceInv'
    BY <1>16, <2>2, ThreadAssumption, SMTT(60) DEF OutputWakes, DeviceInv, CloseInv, InterfaceAlive, Inside, IInv, TypeOK, PcInv, UserStates, StackStates, Calls, Goto, Return, gateVars, devVars, ioVars, Wakeup, Selwakeup
  <2>7. InterfaceAlive'
    BY <1>16, <2>2, ThreadAssumption, SMTT(60) DEF OutputWakes, InterfaceAlive, DeviceInv, CloseInv, Inside, IInv, TypeOK, PcInv, UserStates, StackStates, Calls, Goto, Return, gateVars, devVars, ioVars, Wakeup, Selwakeup
  <2>8. OwnPackets'
    BY <1>16, <2>2, ThreadAssumption, SMTT(60) DEF OutputWakes, OwnPackets, DeviceInv, CloseInv, Usable, IInv, TypeOK, PcInv, UserStates, StackStates, Calls, Goto, Return, gateVars, devVars, ioVars, Wakeup, Selwakeup
  <2>10. QED  BY <2>1, <2>3, <2>4, <2>5, <2>6, <2>7, <2>8 DEF IInv
<1>17. ASSUME if_detached PROVE IInv'
  <2>0. Entered' = Entered
    BY <1>17, ThreadAssumption, SMTT(60) DEF if_detached, Entered, IInv, TypeOK, PcInv, UserStates, StackStates, Calls, Goto, Return, gateVars, devVars, ioVars
  <2>1. GateInv'  BY <1>17, <2>0, EnteredSame DEF if_detached, gateVars
  <2>2. Rest'
    BY <1>17, <2>1, ThreadAssumption
    DEF if_detached, Rest, GateInv, IInv, TypeOK, PcInv, CloseInv, DeviceInv, InterfaceAlive, OwnPackets, Inside, UserStates, StackStates,
         Calls, Goto, Return, Usable, gateVars, devVars, ioVars
  <2>3. QED  BY <2>1, <2>2 DEF Rest, IInv
<1>18. ASSUME SetFlags PROVE IInv'
  <2>0. Entered' = Entered
    BY <1>18, ThreadAssumption, SMTT(60) DEF SetFlags, Entered, IInv, TypeOK, PcInv, UserStates, StackStates, Calls, Goto, Return, gateVars, devVars, ioVars
  <2>1. GateInv'  BY <1>18, <2>0, EnteredSame DEF SetFlags, gateVars
  <2>2. Rest'
    BY <1>18, <2>1, ThreadAssumption
    DEF SetFlags, Rest, GateInv, IInv, TypeOK, PcInv, CloseInv, DeviceInv, InterfaceAlive, OwnPackets, Inside, UserStates, StackStates,
         Calls, Goto, Return, Usable, gateVars, devVars, ioVars
  <2>3. QED  BY <2>1, <2>2 DEF Rest, IInv
<1>19. ASSUME Shutdown PROVE IInv'
  <2>0. Entered' = Entered
    BY <1>19, ThreadAssumption, SMTT(60) DEF Shutdown, Entered, IInv, TypeOK, PcInv, UserStates, StackStates, Calls, Goto, Return, gateVars, devVars, ioVars, MayShutdown, is_anyone_in
  <2>1. GateInv'  BY <1>19, <2>0, EnteredSame DEF Shutdown, gateVars
  <2>2. device' \in BOOLEAN /\ mapped' \in BOOLEAN
    BY <1>19, Zenon DEF Shutdown, IInv, TypeOK, MayShutdown, is_anyone_in
  <2>9. ifp = "none" /\ \A u \in Users : ~Inside(u)
    BY <1>19, NoneEntered DEF Shutdown, MayShutdown, is_anyone_in, IInv, CloseInv, DeviceInv, Inside, TypeOK
  <2>3. TypeOK'
    BY <1>19, <2>2, ThreadAssumption, <2>9, SMTT(60) DEF Shutdown, IInv, TypeOK, PcInv, UserStates, StackStates, Calls, Goto, Return, gateVars, devVars, ioVars, MayShutdown, is_anyone_in
  <2>4. PcInv'
    BY <1>19, <2>2, ThreadAssumption, SMTT(60) DEF Shutdown, IInv, TypeOK, PcInv, UserStates, StackStates, Calls, Goto, Return, gateVars, devVars, ioVars, MayShutdown, is_anyone_in
  <2>5. CloseInv'
    BY <1>19, <2>2, ThreadAssumption, SMTT(60) DEF Shutdown, CloseInv, IInv, TypeOK, PcInv, UserStates, StackStates, Calls, Goto, Return, gateVars, devVars, ioVars, MayShutdown, is_anyone_in
  <2>6. DeviceInv'
    BY <1>19, <2>2, ThreadAssumption, <2>9, SMTT(60) DEF Shutdown, DeviceInv, CloseInv, InterfaceAlive, Inside, IInv, TypeOK, PcInv, UserStates, StackStates, Calls, Goto, Return, gateVars, devVars, ioVars, MayShutdown, is_anyone_in
  <2>7. InterfaceAlive'
    BY <1>19, <2>2, ThreadAssumption, <2>9, SMTT(60) DEF Shutdown, InterfaceAlive, DeviceInv, CloseInv, Inside, IInv, TypeOK, PcInv, UserStates, StackStates, Calls, Goto, Return, gateVars, devVars, ioVars, MayShutdown, is_anyone_in
  <2>8. OwnPackets'
    BY <1>19, <2>2, ThreadAssumption, <2>9, SMTT(60) DEF Shutdown, OwnPackets, DeviceInv, CloseInv, Usable, IInv, TypeOK, PcInv, UserStates, StackStates, Calls, Goto, Return, gateVars, devVars, ioVars, MayShutdown, is_anyone_in
  <2>10. QED  BY <2>1, <2>3, <2>4, <2>5, <2>6, <2>7, <2>8 DEF IInv
<1>20. ASSUME ShutdownWait PROVE IInv'
  <2>0. Entered' = Entered
    BY <1>20, ThreadAssumption, SMTT(60) DEF ShutdownWait, Entered, IInv, TypeOK, PcInv, UserStates, StackStates, Calls, Goto, Return, gateVars, devVars, ioVars
  <2>1. GateInv'  BY <1>20, <2>0, EnteredSame DEF ShutdownWait, gateVars
  <2>2. Rest'
    BY <1>20, <2>1, ThreadAssumption
    DEF ShutdownWait, Rest, GateInv, IInv, TypeOK, PcInv, CloseInv, DeviceInv, InterfaceAlive, OwnPackets, Inside, UserStates, StackStates,
         Calls, Goto, Return, Usable, gateVars, devVars, ioVars
  <2>3. QED  BY <2>1, <2>2 DEF Rest, IInv
<1>21. CASE UNCHANGED vars
  BY <1>21, SMTT(60) DEF IInv, TypeOK, PcInv, CloseInv, DeviceInv, InterfaceAlive, OwnPackets, Inside, UserStates, StackStates,
         Calls, Goto, Return, Usable, gateVars, devVars, ioVars, Rest, GateInv, Entered, vars
<1>22. QED
  BY <1>1, <1>2, <1>3, <1>4, <1>5, <1>6, <1>7, <1>8, <1>9, <1>10, <1>11, <1>12, <1>13, <1>14, <1>15, <1>16, <1>17, <1>18, <1>19, <1>20, <1>21
  DEF Next, UserStep, StackStep

\* The invariant above holds in every state of a device.
THEOREM Invariance == Spec => []IInv
<1>1. QED  BY InitIInv, NextIInv, PTL DEF Spec

\* tuntap_manager::shutdown() never deletes a device that a program, or a stack
\* the kernel waits for, is using, and the ticket number is the number of
\* threads behind the gate.
THEOREM DeviceSafe == Spec => [](InterfaceAlive /\ ticket_number = population)
<1>1. IInv => InterfaceAlive /\ ticket_number = population  BY DEF IInv, GateInv
<1>2. QED  BY <1>1, Invariance, PTL

\* cdev_read() returns only packets of the session of its reader, for any queue
\* size and any bursts.
THEOREM SessionPackets == Spec => []OwnPackets
<1>1. IInv => OwnPackets  BY DEF IInv
<1>2. QED  BY <1>1, Invariance, PTL
=============================================================================
