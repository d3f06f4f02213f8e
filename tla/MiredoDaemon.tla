---------------------------- MODULE MiredoDaemon ----------------------------
(***************************************************************************)
(* The processes of the miredo daemon.  miredo() (src/miredo.c) supervises *)
(* one child at a time; the child runs the tunnel (relay_run in            *)
(* src/relayd.c) with the threads of libteredo; as a client it has a       *)
(* privileged helper (src/privproc.c) run the hook script on each change   *)
(* of the Teredo address.  A life is one child with its helper and tunnel  *)
(* interface; a helper may outlive the child it served.                    *)
(***************************************************************************)
EXTENDS Naturals, FiniteSets

CONSTANTS
  Lives,        \* bound: how many children are started, 1 .. n
  Teredo,       \* the Teredo addresses a server may assign
  MaxEvents,    \* bound: signals to the daemon, changes of address, processes
                \* killed and hooks that do not run, all together
  NoAddr

ASSUME DaemonAssumption == Lives \subseteq Nat \ {0}

Signals == {"exit", "reload"}

VARIABLES
  parent,  \* miredo(): pc and retval (0, 1 or 2)
  ppend,   \* signals pending at the parent
  life,    \* the current life, 0 before the first
  child,   \* relay_run's main thread: pc, mode and exit code
  cpend,   \* signals pending at the child
  enc,     \* the encapsulation thread
  rcvr,    \* the receiving thread of libteredo
  mnt,     \* the maintenance thread: pc and the address announced
  wr,      \* state_lock is held for writing
  priv,    \* the helper of each life: pc, settings received, OLD_ADDRESS
  fd,      \* the child's end of each life's socket: "open" or "closed"
  toPriv, toChild,  \* what is in flight on it
  tunif,   \* the life whose tunnel interface exists, or 0
  rules,   \* policy rules (ip rule from ADDRESS) the hook has left in place
  lost,    \* lives in which a process was killed, a hook failed or was abandoned
  events

dmvars == <<parent, ppend, life, child, cpend, enc, rcvr, mnt, wr, priv, fd, toPriv, toChild,
            tunif, rules, lost, events>>
parentVars == <<parent, ppend>>
threadVars == <<enc, rcvr, mnt, wr>>
privVars == <<priv, fd, toPriv, toChild>>
kernelVars == <<tunif, rules>>

\* Something from outside happens.
Happens == events < MaxEvents /\ events' = events + 1

NoChild == [pc |-> "none", mode |-> "client", code |-> "ok"]
NoMaintenance == [pc |-> "none", addr |-> NoAddr]
NoHelper == [pc |-> "none", cfg |-> NoAddr, old |-> NoAddr]

DaemonInit ==
  /\ parent = [pc |-> "read", retval |-> 1] /\ ppend = {} /\ life = 0
  /\ child = NoChild /\ cpend = {}
  /\ enc = "none" /\ rcvr = "none" /\ mnt = NoMaintenance /\ wr = FALSE
  /\ priv = [l \in Lives |-> NoHelper] /\ fd = [l \in Lives |-> "closed"]
  /\ toPriv = [l \in Lives |-> {}] /\ toChild = [l \in Lives |-> FALSE]
  /\ tunif = 0 /\ rules = {} /\ lost = {} /\ events = 0

-----------------------------------------------------------------------------
(* miredo() *)

\* The configuration is read and the child forked, or fork() fails and retval
\* is still 1.  The child starts with nothing pending and the mask inherited.
Fork ==
  /\ parent.pc = "read"
  /\ \/ /\ life + 1 \in Lives
        /\ life' = life + 1
        /\ \E m \in {"client", "relay", "bad"} :
             child' = [pc |-> "configure", mode |-> m, code |-> "ok"]
        /\ cpend' = {}
        /\ parent' = [pc |-> "wait", retval |-> 1]
     \/ parent' = [pc |-> "gone", retval |-> 1] /\ UNCHANGED <<life, child, cpend>>
  /\ UNCHANGED <<ppend, threadVars, privVars, kernelVars, lost, events>>

\* What the child's end makes of retval: an error exit ends the daemon, a death
\* by signal starts another child.
RetVal(retval, code) == CASE code = "ok" -> retval [] code = "fail" -> 1 [] code = "signal" -> 2

Reaped(retval) ==
  LET v == RetVal(retval, child.code) IN
  /\ parent' = [pc |-> IF v = 2 THEN "read" ELSE "gone", retval |-> v]
  /\ child' = NoChild

\* One turn of the sigwait() loop.
Sigwait(sig) ==
  /\ parent.pc = "wait" /\ sig \in ppend
  /\ ppend' = ppend \ {sig}
  /\ CASE sig = "chld" ->
            IF child.pc = "zombie" THEN Reaped(parent.retval) /\ UNCHANGED cpend
            ELSE UNCHANGED <<parent, child, cpend>>
       [] OTHER ->
            /\ parent' = [pc |-> "reap", retval |-> IF sig = "exit" THEN 0 ELSE 2]
            /\ cpend' = cpend \cup {"exit"}       \* kill (pid, SIGTERM)
            /\ UNCHANGED child
  /\ UNCHANGED <<life, threadVars, privVars, kernelVars, lost, events>>

\* waitpid() after kill(), with every signal blocked.
Waitpid ==
  /\ parent.pc = "reap" /\ child.pc = "zombie"
  /\ Reaped(parent.retval)
  /\ UNCHANGED <<ppend, life, cpend, threadVars, privVars, kernelVars, lost, events>>

\* The administrator sends a signal.
SendSignal(sig) ==
  /\ parent.pc # "gone" /\ Happens
  /\ ppend' = ppend \cup {sig}
  /\ UNCHANGED <<parent, life, child, cpend, threadVars, privVars, kernelVars, lost>>

-----------------------------------------------------------------------------
(* relay_run() *)

Exit(code) ==
  /\ child' = [NoChild EXCEPT !.pc = "zombie", !.code = code] /\ cpend' = {}
  /\ ppend' = ppend \cup {"chld"}

\* The settings are parsed; then the tunnel is made: with a helper for a client
\* (create_dynamic_tunnel), with its address and route for a relay.
Configure ==
  /\ child.pc = "configure"
  /\ \/ /\ Exit("fail")
        /\ UNCHANGED <<privVars, tunif>>
     \/ /\ child.mode # "bad"
        /\ tunif' = life
        /\ child' = [child EXCEPT !.pc = "start"]
        /\ IF child.mode = "client"
           THEN /\ priv' = [priv EXCEPT ![life].pc = "recv"] /\ fd' = [fd EXCEPT ![life] = "open"]
           ELSE UNCHANGED <<priv, fd>>
        /\ UNCHANGED <<ppend, cpend, toPriv, toChild>>
  /\ UNCHANGED <<parent, life, threadVars, rules, lost, events>>

\* miredo_init(), drop_privileges() and teredo_create(): any may fail and leaves
\* nothing to stop.
StartTeredo ==
  /\ child.pc = "start"
  /\ \/ child' = [child EXCEPT !.pc = "close", !.code = "fail"]
     \/ child' = [child EXCEPT !.pc = "mode"]
  /\ UNCHANGED <<parentVars, life, cpend, threadVars, privVars, kernelVars, lost, events>>

\* The thread of a client starts with a peer list of its own; there may be no
\* memory for the list or for the thread.
teredo_set_client_mode == {NoMaintenance, [NoMaintenance EXCEPT !.pc = "idle"]}

\* setup_client() or setup_relay(), which refuses nothing.
SetMode ==
  /\ child.pc = "mode"
  /\ mnt' \in IF child.mode = "client" THEN teredo_set_client_mode ELSE {mnt}
  /\ child' = IF child.mode = "client" /\ mnt' = NoMaintenance
              THEN [child EXCEPT !.pc = "close", !.code = "fail"]
              ELSE [child EXCEPT !.pc = "run_async"]
  /\ UNCHANGED <<parentVars, life, cpend, wr, enc, rcvr, privVars, kernelVars, lost, events>>

\* The receiving thread is started, or teredo_destroy() finds none to stop.
teredo_run_async ==
  /\ child.pc = "run_async"
  /\ \/ rcvr' = "wait" /\ child' = [child EXCEPT !.pc = "run_tunnel"]
     \/ rcvr' = "none" /\ child' = [child EXCEPT !.pc = "stop_maintenance", !.code = "fail"]
  /\ UNCHANGED <<parentVars, life, cpend, wr, enc, mnt, privVars, kernelVars, lost, events>>

RunTunnel ==
  /\ child.pc = "run_tunnel"
  /\ \/ enc' = "wait" /\ child' = [child EXCEPT !.pc = "run"]
     \/ enc' = "none" /\ child' = [child EXCEPT !.pc = "stop_maintenance", !.code = "fail"]
  /\ UNCHANGED <<parentVars, life, cpend, wr, rcvr, mnt, privVars, kernelVars, lost, events>>

\* The main thread does not take SIGCHLD for a reason to end.
SlipAwaitSignal ==
  /\ child.pc = "run" /\ "exit" \in cpend
  /\ cpend' = {}
  /\ child' = [child EXCEPT !.pc = "stop_encap"]
  /\ UNCHANGED <<parentVars, life, threadVars, privVars, kernelVars, lost, events>>
\* run_tunnel(): sigwait() on every signal the parent blocked, SIGCHLD too.
AwaitSignal ==
  /\ child.pc = "run"
  /\ \E sig \in cpend : cpend' = cpend \ {sig}
  /\ child' = [child EXCEPT !.pc = "stop_encap"]
  /\ UNCHANGED <<parentVars, life, threadVars, privVars, kernelVars, lost, events>>

\* pthread_cancel() and pthread_join() of a thread that can be cancelled only
\* where it waits for a packet.
StopEncap ==
  /\ child.pc = "stop_encap" /\ enc = "wait"
  /\ enc' = "none" /\ child' = [child EXCEPT !.pc = "stop_maintenance"]
  /\ UNCHANGED <<parentVars, life, cpend, rcvr, mnt, wr, privVars, kernelVars, lost, events>>

\* teredo_destroy(): the maintenance thread is cancelled where it waits, which
\* is also in the send() and recv() of configure_tunnel().  Nothing unlocks
\* state_lock then, and the helper's answer is not awaited.
StopMaintenance ==
  /\ child.pc = "stop_maintenance" /\ mnt.pc \in {"none", "idle", "send", "recv"}
  /\ mnt' = NoMaintenance
  /\ lost' = IF mnt.pc \in {"send", "recv"} THEN lost \cup {life} ELSE lost
  /\ child' = [child EXCEPT !.pc = "stop_recv"]
  /\ UNCHANGED <<parentVars, life, cpend, enc, rcvr, wr, privVars, kernelVars, events>>

StopReceiver ==
  /\ child.pc = "stop_recv" /\ rcvr \in {"none", "wait"}
  /\ rcvr' = "none" /\ wr' = FALSE
  /\ child' = [child EXCEPT !.pc = "close"]
  /\ UNCHANGED <<parentVars, life, cpend, enc, mnt, privVars, kernelVars, lost, events>>

\* destroy_dynamic_tunnel() closes the socket and waits for the helper; then,
\* and for a relay at once, the interface goes with tun6_destroy().
SlipCloseTunnel ==
  /\ child.pc = "close"
  /\ Exit(child.code)
  /\ tunif' = 0
  /\ IF child.mode = "client"
     THEN fd' = [fd EXCEPT ![life] = "closed"] /\ toChild' = [toChild EXCEPT ![life] = FALSE]
     ELSE UNCHANGED <<fd, toChild>>
  /\ UNCHANGED <<parent, life, threadVars, priv, toPriv, rules, lost, events>>
CloseTunnel ==
  /\ child.pc = "close"
  /\ IF child.mode = "client"
     THEN /\ fd' = [fd EXCEPT ![life] = "closed"] /\ toChild' = [toChild EXCEPT ![life] = FALSE]
          /\ child' = [child EXCEPT !.pc = "wait_priv"]
          /\ UNCHANGED <<ppend, cpend, tunif>>
     ELSE Exit(child.code) /\ tunif' = 0 /\ UNCHANGED <<fd, toChild>>
  /\ UNCHANGED <<parent, life, threadVars, priv, toPriv, rules, lost, events>>

WaitHelper ==
  /\ child.pc = "wait_priv" /\ priv[life].pc = "gone"
  /\ Exit(child.code) /\ tunif' = 0
  /\ UNCHANGED <<parent, life, threadVars, privVars, rules, lost, events>>

-----------------------------------------------------------------------------
(* The threads of the child *)

\* miredo_encap_thread: a packet of the tunnel interface, then teredo_transmit()
\* with cancellation disabled, which reads the state.
EncapPacket ==
  /\ enc = "wait" /\ child.pc # "stop_encap"
  /\ enc' = "state"
  /\ UNCHANGED <<parentVars, life, child, cpend, rcvr, mnt, wr, privVars, kernelVars, lost, events>>
EncapTransmit ==
  /\ enc = "state" /\ ~wr
  /\ enc' = "wait"
  /\ UNCHANGED <<parentVars, life, child, cpend, rcvr, mnt, wr, privVars, kernelVars, lost, events>>

\* teredo_recv_thread, likewise.
ReceivePacket ==
  /\ rcvr = "wait" /\ child.pc # "stop_recv"
  /\ rcvr' = "state"
  /\ UNCHANGED <<parentVars, life, child, cpend, enc, mnt, wr, privVars, kernelVars, lost, events>>
ReceiveProcess ==
  /\ rcvr = "state" /\ ~wr
  /\ rcvr' = "wait"
  /\ UNCHANGED <<parentVars, life, child, cpend, enc, mnt, wr, privVars, kernelVars, lost, events>>

\* The maintenance procedure announces an address, or that it has none any more;
\* the first one needs the receiving thread.
Announce ==
  /\ mnt.pc = "idle" /\ rcvr # "none" /\ Happens
  /\ \E a \in (Teredo \cup {NoAddr}) \ {mnt.addr} :
       mnt' = [pc |-> "wrlock", addr |-> a]
  /\ UNCHANGED <<parentVars, life, child, cpend, enc, rcvr, wr, privVars, kernelVars, lost>>

\* teredo_state_change() takes state_lock and calls miredo_up_callback() or
\* miredo_down_callback().
StateChange ==
  /\ mnt.pc = "wrlock" /\ ~wr
  /\ wr' = TRUE /\ mnt' = [mnt EXCEPT !.pc = "send"]
  /\ UNCHANGED <<parentVars, life, child, cpend, enc, rcvr, privVars, kernelVars, lost, events>>

CallbackDone == wr' = FALSE /\ mnt' = [mnt EXCEPT !.pc = "idle"]

\* configure_tunnel(); its result is of no interest to the callbacks.
SendSettings ==
  /\ mnt.pc = "send"
  /\ IF priv[life].pc = "gone" THEN CallbackDone /\ UNCHANGED toPriv
     ELSE /\ toPriv' = [toPriv EXCEPT ![life] = {mnt.addr}]
          /\ mnt' = [mnt EXCEPT !.pc = "recv"] /\ UNCHANGED wr
  /\ UNCHANGED <<parentVars, life, child, cpend, enc, rcvr, priv, fd, toChild, kernelVars, lost, events>>
RecvResult ==
  /\ mnt.pc = "recv"
  /\ toChild[life] \/ priv[life].pc = "gone"
  /\ toChild' = [toChild EXCEPT ![life] = FALSE]
  /\ CallbackDone
  /\ UNCHANGED <<parentVars, life, child, cpend, enc, rcvr, priv, fd, toPriv, kernelVars, lost, events>>

-----------------------------------------------------------------------------
(* privproc.c, and the hook script it runs *)

Notified(l) == cpend' = IF l = life /\ child.pc \notin {"none", "zombie"} THEN cpend \cup {"chld"} ELSE cpend

At(l, pc) == priv' = [priv EXCEPT ![l].pc = pc]
Ends(l) == priv' = [priv EXCEPT ![l] = [NoHelper EXCEPT !.pc = "gone"]] /\ Notified(l)

\* client-hook.iproute: the rule of OLD_ADDRESS is deleted, that of ADDRESS added.
HookRules(old, addr) == (rules \ {old}) \cup ({addr} \ {NoAddr})

\* Settings arrive; without the interface there is nothing to run.  At the end
\* of file the scripts are run for the last time.
PrivRecv(l) ==
  /\ priv[l].pc = "recv"
  /\ \/ /\ toPriv[l] # {}
        /\ \E a \in toPriv[l] :
             priv' = [priv EXCEPT ![l].pc = IF tunif = l THEN "hook" ELSE "reply", ![l].cfg = a]
        /\ toPriv' = [toPriv EXCEPT ![l] = {}]
     \/ toPriv[l] = {} /\ fd[l] = "closed" /\ At(l, "last") /\ UNCHANGED toPriv
  /\ UNCHANGED <<parentVars, life, child, cpend, threadVars, fd, toChild, kernelVars, lost, events>>

PrivHook(l) ==
  /\ priv[l].pc = "hook" /\ At(l, "reply")
  /\ \/ rules' = HookRules(priv[l].old, priv[l].cfg) /\ UNCHANGED <<lost, events>>
     \/ /\ Happens      \* run_script() fails
        /\ lost' = lost \cup {l} /\ UNCHANGED rules
  /\ UNCHANGED <<parentVars, life, child, cpend, threadVars, fd, toPriv, toChild, tunif>>

\* The OLD_ variables are not set.
SlipPrivReply(l) ==
  /\ priv[l].pc = "reply"
  /\ At(l, IF fd[l] = "open" THEN "recv" ELSE "last")
  /\ toChild' = [toChild EXCEPT ![l] = (fd[l] = "open")]
  /\ UNCHANGED <<parentVars, life, child, cpend, threadVars, fd, toPriv, kernelVars, lost, events>>
\* The result is sent and the OLD_ variables are set; when it cannot be sent
\* the loop ends before that.
PrivReply(l) ==
  /\ priv[l].pc = "reply"
  /\ IF fd[l] = "open"
     THEN priv' = [priv EXCEPT ![l].pc = "recv", ![l].old = priv[l].cfg]
     ELSE At(l, "last")
  /\ toChild' = [toChild EXCEPT ![l] = (fd[l] = "open")]
  /\ UNCHANGED <<parentVars, life, child, cpend, threadVars, fd, toPriv, kernelVars, lost, events>>

\* The last "down" and "destroy", for which the script has nothing to do.
PrivLast(l) ==
  /\ priv[l].pc = "last"
  /\ \/ tunif = l /\ rules' = HookRules(priv[l].old, NoAddr) /\ UNCHANGED <<lost, events>>
     \/ tunif = l /\ UNCHANGED rules /\ Happens /\ lost' = lost \cup {l}
     \/ tunif # l /\ UNCHANGED <<rules, lost, events>>
  /\ Ends(l)
  /\ UNCHANGED <<parentVars, life, child, threadVars, fd, toPriv, toChild, tunif>>

-----------------------------------------------------------------------------
(* Processes that are killed *)

\* The kernel closes the child's files: its interface goes, and its end of the
\* socket.
KillChild ==
  /\ Happens /\ child.pc \notin {"none", "zombie"}
  /\ lost' = lost \cup {life}
  /\ Exit("signal")
  /\ enc' = "none" /\ rcvr' = "none" /\ mnt' = NoMaintenance /\ wr' = FALSE
  /\ tunif' = 0 /\ fd' = [fd EXCEPT ![life] = "closed"]
  /\ toChild' = [toChild EXCEPT ![life] = FALSE]
  /\ UNCHANGED <<parent, life, priv, toPriv, rules>>

KillHelper(l) ==
  /\ Happens /\ priv[l].pc \notin {"none", "gone"}
  /\ lost' = lost \cup {l}
  /\ Ends(l)
  /\ UNCHANGED <<parentVars, life, child, threadVars, fd, toPriv, toChild, kernelVars>>

-----------------------------------------------------------------------------
ParentStep == Fork \/ Waitpid \/ \E sig \in Signals \cup {"chld"} : Sigwait(sig)
MainStep == Configure \/ StartTeredo \/ SetMode \/ teredo_run_async \/ RunTunnel \/ AwaitSignal
              \/ StopEncap \/ StopMaintenance \/ StopReceiver \/ CloseTunnel \/ WaitHelper
CallbackStep == StateChange \/ SendSettings \/ RecvResult
PrivStep(l) == PrivRecv(l) \/ PrivHook(l) \/ PrivReply(l) \/ PrivLast(l)

DaemonNext ==
  \/ ParentStep \/ MainStep \/ CallbackStep
  \/ \E l \in Lives : PrivStep(l) \/ KillHelper(l)
  \/ EncapPacket \/ EncapTransmit \/ ReceivePacket \/ ReceiveProcess \/ Announce
  \/ KillChild \/ \E sig \in Signals : SendSignal(sig)

\* Processes and threads that can go on do.  Signals, packets, changes of
\* address and deaths need not come.
DaemonFairness ==
  /\ WF_dmvars(ParentStep) /\ WF_dmvars(MainStep) /\ WF_dmvars(CallbackStep)
  /\ WF_dmvars(EncapTransmit) /\ WF_dmvars(ReceiveProcess)
  /\ \A l \in Lives : WF_dmvars(PrivStep(l))

DaemonSpec == DaemonInit /\ [][DaemonNext]_dmvars /\ DaemonFairness

-----------------------------------------------------------------------------
\* What the hook has set up it takes down: when no helper runs any more, no
\* policy rule is left of a life in which nobody was killed, no hook failed and
\* none was abandoned by a cancelled maintenance thread.
RulesFreed == (\A l \in Lives : priv[l].pc \in {"none", "gone"}) /\ lost = {} => rules = {}

\* Each tunnel interface is that of the one child, and when the daemon has ended
\* there is neither a child nor an interface, nor a helper but one whose child
\* was killed.
NothingOutlives ==
  /\ tunif # 0 => tunif = life /\ child.pc \notin {"none", "zombie"}
  /\ parent.pc \in {"read", "gone"} =>
       \A l \in Lives \ lost : priv[l].pc \in {"none", "gone"}

\* What should end the tunnel does.  A signal that the daemon takes ends it
\* (miredo(8): "SIGINT, SIGTERM Shutdown the daemon."), unless something went
\* amiss in the life it was to end; and no child goes on without its helper,
\* whose end SIGCHLD tells to run_tunnel().
TunnelEnds ==
  /\ (parent.pc = "reap" /\ parent.retval = 0) ~> (parent.pc = "gone" \/ life \in lost)
  /\ (child.pc = "run" /\ priv[life].pc = "gone") ~> child.pc # "run"
=============================================================================
