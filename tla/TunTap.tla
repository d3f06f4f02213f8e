------------------------------- MODULE TunTap -------------------------------
(***************************************************************************)
(* A device of the tun and tap kernel extensions (tuntap/src): programs    *)
(* open, read, write, select and close it, the network stack outputs       *)
(* packets to its interface, and the extension may be unloaded.            *)
(*                                                                         *)
(* A step is what a thread does while it holds the device's "lock" or the  *)
(* manager's gate.  Only cdev_close() keeps the lock across steps, and the *)
(* gate is never held while another thread could notice.                   *)
(*                                                                         *)
(* A packet is "own" while the session of the device it was output to      *)
(* lasts, and "old" when the device is opened again.                       *)
(***************************************************************************)
EXTENDS Integers, Sequences, FiniteSets

CONSTANTS
    Users,      \* threads of programs that use the character device
    Stack,      \* threads of the network stack that output packets
    QueueSize,  \* QUEUE_SIZE
    MaxBurst,   \* the longest list of packets given to if_output()
    NULL

ASSUME SizeAssumption == QueueSize \in Nat \ {0} /\ MaxBurst \in Nat \ {0}
ASSUME ThreadAssumption ==
    /\ NULL \notin Users \cup Stack /\ Users \cap Stack = {}
    /\ IsFiniteSet(Users)

VARIABLES
    mgr,        \* the manager object: "live" or "deleted"
    mapped,     \* mgr_map[dev_major] = mgr
    device,     \* tuntaps[minor] # NULL, the interface object exists
    population, ticket_number,  \* of cdev_gate
    unload,     \* the thread in tuntap_manager::shutdown(): "idle", "wait" or "done"
    old_number,
    lock,       \* the thread in cdev_close() that holds the lock, or NULL
    open, block_io,
    ifp,        \* "none", "attached", or "detaching" after ifnet_detach()
    up,         \* IFF_UP
    interface_detached,
    send_queue,
    selecting,  \* somebody is recorded in rsel
    pc,         \* of each thread
    burst,      \* the packets a stack thread has yet to queue
    tag,        \* the session they belong to: "own" or "old"
    refused,    \* packets are queued whose if_output() ended with ENOBUFS
    waits       \* ifnet_detach() waits for the calls of if_output() (the kernel's choice)

gateVars == <<mgr, mapped, device, population, ticket_number, unload, old_number>>
ioVars == <<send_queue, selecting, burst, tag, refused>>
devVars == <<lock, open, block_io, ifp, up, interface_detached>>
vars == <<gateVars, devVars, ioVars, pc, waits>>

Calls == {"open", "close", "read", "write", "ioctl", "select"}
UserStates == {"out", "gate", "exit", "presleep", "asleep", "woken", "signalled", "closing"} \cup Calls
StackStates == {"out", "check", "enqueue", "wake"}

TypeOK ==
    /\ mgr \in {"live", "deleted"} /\ mapped \in BOOLEAN /\ device \in BOOLEAN
    /\ population \in Nat /\ ticket_number \in Nat /\ old_number \in Nat
    /\ unload \in {"idle", "wait", "done"}
    /\ lock \in Users \cup {NULL} /\ open \in BOOLEAN /\ block_io \in BOOLEAN
    /\ ifp \in {"none", "attached", "detaching"} /\ up \in BOOLEAN
    /\ interface_detached \in BOOLEAN
    /\ send_queue \in Seq({"own", "old"}) /\ selecting \in BOOLEAN
    /\ pc \in [Users \cup Stack -> UserStates \cup StackStates]
    /\ burst \in [Stack -> Nat] /\ tag \in [Stack -> {"own", "old"}]
    /\ refused \in BOOLEAN /\ waits \in BOOLEAN

\* After tuntap_manager::initialize(), which made one device...
ManagerInit ==
    /\ mgr = "live" /\ mapped = TRUE /\ device = TRUE
    /\ population = 0 /\ ticket_number = 0 /\ unload = "idle" /\ old_number = 0

\* ... with the constructor of tuntap_interface.
InterfaceInit ==
    /\ lock = NULL /\ open = FALSE /\ block_io = TRUE
    /\ ifp = "none" /\ up = FALSE /\ interface_detached = FALSE
    /\ send_queue = <<>> /\ selecting = FALSE

Init ==
    /\ ManagerInit /\ InterfaceInit
    /\ pc = [t \in Users \cup Stack |-> "out"]
    /\ burst = [s \in Stack |-> 0] /\ tag = [s \in Stack |-> "own"]
    /\ refused = FALSE /\ waits \in BOOLEAN

Goto(t, l) == pc' = [pc EXCEPT ![t] = l]
Usable == open /\ ifp # "none" /\ up
-----------------------------------------------------------------------------
\* The gate.

\* tuntap_manager::cdev_*(): the switch finds the manager...
Dispatch(u) ==
    /\ pc[u] = "out" /\ mapped
    /\ Goto(u, "gate")
    /\ UNCHANGED <<gateVars, devVars, ioVars, waits>>

\* tt_gate::enter() and tt_gate::exit().
enter == ticket_number' = ticket_number + 1 /\ population' = population + 1
exit == ticket_number' = ticket_number - 1 /\ population' = population - 1

\* ... and do_cdev_*() enters the gate and looks the device up.
Enter(u) ==
    /\ pc[u] = "gate" /\ mgr = "live"
    /\ enter
    /\ \E c \in Calls : Goto(u, IF device THEN c ELSE "exit")
    /\ UNCHANGED <<mgr, mapped, device, unload, old_number, devVars, ioVars, waits>>

Exit(u) ==
    /\ pc[u] = "exit" /\ mgr = "live"
    /\ exit
    /\ Goto(u, "out")
    /\ UNCHANGED <<mgr, mapped, device, unload, old_number, devVars, ioVars, waits>>

\* A slip: the threads behind the gate are not counted.
SlipAnyoneIn == FALSE
is_anyone_in == population # 0
MayShutdown == ~is_anyone_in /\ (device => ~open)

\* tuntap_manager::shutdown(), up to its first sleep: the devices are deleted
\* and the switch is removed.
Shutdown ==
    /\ unload = "idle" /\ MayShutdown
    /\ device' = FALSE /\ mapped' = FALSE
    /\ old_number' = ticket_number
    /\ unload' = "wait"
    /\ UNCHANGED <<mgr, population, ticket_number, devVars, ioVars, pc, waits>>

\* After a sleep: wait on while the ticket number changes, then
\* tun_module_stop() deletes the manager.
ShutdownWait ==
    /\ unload = "wait"
    /\ IF ticket_number # old_number
       THEN /\ old_number' = ticket_number
            /\ UNCHANGED <<mgr, unload>>
       ELSE /\ mgr' = "deleted" /\ unload' = "done"
            /\ UNCHANGED old_number
    /\ UNCHANGED <<mapped, device, population, ticket_number, devVars, ioVars, pc, waits>>
-----------------------------------------------------------------------------
\* The character device.  Every call but close is one step under the lock.

Return(u) == Goto(u, "exit")

\* The interface of a new session: attached, and not up before ifconfig.
register_interface == ifp' = "attached"
initialize_interface == register_interface /\ up' = FALSE

\* ifnet_allocate() and ifnet_attach() may fail.  What is left in the queue or on
\* its way is from another session.
cdev_open(u) ==
    /\ pc[u] = "open" /\ lock = NULL
    /\ \/ /\ ~open
          /\ open' = TRUE /\ initialize_interface
          /\ send_queue' = [i \in DOMAIN send_queue |-> "old"]
          /\ tag' = [s \in Stack |-> "old"]
       \/ UNCHANGED <<open, ifp, up, send_queue, tag>>
    /\ Return(u)
    /\ UNCHANGED <<gateVars, lock, block_io, interface_detached, selecting, burst, refused, waits>>

\* cleanup_interface() marks the interface down and removes its addresses,
\* unregister_interface() asks the kernel to detach it.
cleanup_interface == up' = FALSE
unregister_interface == ifp' = "detaching" /\ interface_detached' = FALSE
shutdown_interface == cleanup_interface /\ unregister_interface

\* cdev_close() up to the wait in unregister_interface(), with the lock held.
cdev_close(u) ==
    /\ pc[u] = "close" /\ lock = NULL
    /\ IF open
       THEN /\ open' = FALSE /\ shutdown_interface
            /\ lock' = u
            /\ Goto(u, "closing")
       ELSE Return(u) /\ UNCHANGED <<open, up, ifp, interface_detached, lock>>
    /\ UNCHANGED <<gateVars, block_io, ioVars, waits>>

\* The kernel's ifnet_detach() comes to its end and calls if_detached().
if_detached ==
    /\ ifp = "detaching" /\ ~interface_detached
    /\ waits => \A s \in Stack : pc[s] = "out"
    /\ interface_detached' = TRUE
    /\ UNCHANGED <<gateVars, lock, open, block_io, ifp, up, ioVars, pc, waits>>

\* selwakeup(&rsel), and a slip that leaves it out.
SlipSelwakeup(recorded) == recorded
Selwakeup(recorded) == FALSE

\* wakeup(this) and selwakeup(&rsel), by thread t on its way to l.
Wakeup(t, l) ==
    /\ pc' = [x \in DOMAIN pc |-> IF x = t THEN l
                                  ELSE IF pc[x] = "asleep" THEN "woken" ELSE pc[x]]
    /\ selecting' = Selwakeup(selecting)

\* tuntap_mbuf_queue::clear(), and a slip that leaves it out.
SlipClear(q) == q
clear(q) == <<>>

\* The rest of cdev_close().
CloseEnds(u) ==
    /\ pc[u] = "closing" /\ interface_detached
    /\ ifp' = "none"
    /\ send_queue' = clear(send_queue)
    /\ refused' = FALSE
    /\ Wakeup(u, "exit")
    /\ lock' = NULL
    /\ UNCHANGED <<gateVars, open, block_io, up, interface_detached, burst, tag, waits>>

dequeue == send_queue' = Tail(send_queue)

\* cdev_read(): from the start, and again after each msleep().
cdev_read(u) ==
    /\ pc[u] \in {"read", "woken"} /\ lock = NULL
    /\ IF ~Usable THEN Return(u) /\ UNCHANGED <<send_queue, refused>>
       ELSE IF send_queue # <<>>
       THEN /\ dequeue
            /\ refused' = (refused /\ Len(send_queue) > 1)
            /\ Return(u)
       ELSE /\ Goto(u, IF block_io THEN "presleep" ELSE "exit")
            /\ UNCHANGED <<send_queue, refused>>
    /\ UNCHANGED <<gateVars, devVars, selecting, burst, tag, waits>>

\* l.unlock(), and only then msleep().
msleep(u) ==
    /\ pc[u] = "presleep"
    /\ Goto(u, "asleep")
    /\ UNCHANGED <<gateVars, devVars, ioVars, waits>>

\* A signal ends the sleep (PCATCH); the error is returned under the lock.
Interrupt(u) ==
    /\ pc[u] = "asleep"
    /\ Goto(u, "signalled")
    /\ UNCHANGED <<gateVars, devVars, ioVars, waits>>

\* cdev_write() gives the packet to the stack or fails; the device stays as it is.
cdev_write(u) ==
    /\ pc[u] \in {"write", "signalled"} /\ lock = NULL
    /\ Return(u)
    /\ UNCHANGED <<gateVars, devVars, ioVars, waits>>

\* FIONBIO; the other requests change nothing that is modelled.
cdev_ioctl(u) ==
    /\ pc[u] = "ioctl" /\ lock = NULL
    /\ block_io' \in BOOLEAN
    /\ Return(u)
    /\ UNCHANGED <<gateVars, lock, open, ifp, up, interface_detached, ioVars, waits>>

cdev_select(u) ==
    /\ pc[u] = "select" /\ lock = NULL
    /\ selecting' = (selecting \/ send_queue = <<>>)
    /\ Return(u)
    /\ UNCHANGED <<gateVars, devVars, send_queue, burst, tag, refused, waits>>
-----------------------------------------------------------------------------
\* The interface.

\* ifconfig up and down.
SetFlags ==
    /\ ifp = "attached"
    /\ up' = ~up
    /\ UNCHANGED <<gateVars, lock, open, block_io, ifp, interface_detached, ioVars, pc, waits>>

\* The stack calls if_output() of an attached interface.
Output(s) ==
    /\ pc[s] = "out" /\ ifp = "attached"
    /\ \E n \in 1..MaxBurst : burst' = [burst EXCEPT ![s] = n]
    /\ tag' = [tag EXCEPT ![s] = "own"]
    /\ Goto(s, "check")
    /\ UNCHANGED <<gateVars, devVars, send_queue, selecting, refused, waits>>

\* if_output() before the loop: no lock.
OutputCheck(s) ==
    /\ pc[s] = "check"
    /\ Goto(s, IF Usable THEN "enqueue" ELSE "out")
    /\ UNCHANGED <<gateVars, devVars, ioVars, waits>>

full == Len(send_queue) = QueueSize
enqueue(pkt) == send_queue' = Append(send_queue, pkt)

\* One turn of the loop; ENOBUFS drops the rest of the list and wakes nobody.
Enqueue(s) ==
    /\ pc[s] = "enqueue" /\ lock = NULL
    /\ IF full
       THEN /\ Goto(s, "out")
            /\ refused' = TRUE
            /\ UNCHANGED <<send_queue, burst>>
       ELSE /\ enqueue(tag[s])
            /\ burst' = [burst EXCEPT ![s] = @ - 1]
            /\ Goto(s, IF burst[s] = 1 THEN "wake" ELSE "enqueue")
            /\ UNCHANGED refused
    /\ UNCHANGED <<gateVars, devVars, selecting, tag, waits>>

OutputWakes(s) ==
    /\ pc[s] = "wake" /\ lock = NULL
    /\ Wakeup(s, "out")
    /\ refused' = FALSE
    /\ UNCHANGED <<gateVars, devVars, send_queue, burst, tag, waits>>
-----------------------------------------------------------------------------
UserStep(u) ==
    \/ Dispatch(u) \/ Enter(u) \/ Exit(u)
    \/ cdev_open(u) \/ cdev_close(u) \/ CloseEnds(u)
    \/ cdev_read(u) \/ msleep(u) \/ Interrupt(u)
    \/ cdev_write(u) \/ cdev_ioctl(u) \/ cdev_select(u)
StackStep(s) == Output(s) \/ OutputCheck(s) \/ Enqueue(s) \/ OutputWakes(s)

Next ==
    \/ \E u \in Users : UserStep(u)
    \/ \E s \in Stack : StackStep(s)
    \/ if_detached \/ SetFlags
    \/ Shutdown \/ ShutdownWait

Spec == Init /\ [][Next]_vars

\* Threads that can go on do; nobody has to make a call or to send a signal.
Progress(u) ==
    \/ Enter(u) \/ Exit(u) \/ cdev_open(u) \/ cdev_close(u) \/ CloseEnds(u)
    \/ cdev_read(u) \/ msleep(u) \/ cdev_write(u) \/ cdev_ioctl(u) \/ cdev_select(u)
FairSpec ==
    /\ Spec /\ WF_vars(if_detached)
    /\ \A u \in Users : SF_vars(Progress(u))
    /\ \A s \in Stack : SF_vars(StackStep(s))
-----------------------------------------------------------------------------
Inside(u) == pc[u] \notin {"out", "gate", "exit"}

\* Deleting a device in tuntap_manager::shutdown() never takes it from a thread
\* that is in one of its functions: not from the programs behind the gate, and
\* not from the network stack if the kernel lets it finish.
InterfaceAlive ==
    ~device => /\ \A u \in Users : ~Inside(u)
               /\ waits => \A s \in Stack : pc[s] = "out"

\* A program that opens the device reads only packets of its own session:
\* cdev_close() clears the queue after the last if_output() of a kernel that
\* waits for it.
OwnPackets ==
    waits => /\ \A i \in DOMAIN send_queue : send_queue[i] = "own"
             /\ \A s \in Stack : pc[s] # "out" => tag[s] = "own"
             /\ ifp = "none" => send_queue = <<>>

\* A program that select() told to wait is told when there is something to
\* read: registration and wakeup both hold the lock, so that a packet in the
\* queue means a wakeup is still to come, except after ENOBUFS.
SelectorNotified ==
    selecting /\ send_queue # <<>> =>
        refused \/ \E s \in Stack : pc[s] \in {"enqueue", "wake"}

=============================================================================
