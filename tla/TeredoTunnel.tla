---------------------------- MODULE TeredoTunnel ----------------------------
(***************************************************************************)
(* The threads of a Teredo client tunnel and the locks they share          *)
(* (miredo/libteredo/relay.c, discovery.c, iothread.c): the maintenance    *)
(* thread runs the state callback, receiving threads decapsulate packets,  *)
(* a caller transmits, and teredo_destroy() ends it all.                   *)
(*                                                                         *)
(* The module is about who waits for whom and who still refers to what;    *)
(* what the data path does with a packet is relay.c's affair, what the     *)
(* maintenance procedure decides is module Maintenance.                    *)
(***************************************************************************)
EXTENDS Naturals, FiniteSets

CONSTANTS
    Discovery,   \* whether teredo_set_discovery_params() was called
    MayDestroy,  \* whether teredo_destroy() may be called
    Objects,     \* addresses malloc() may return for a teredo_discovery
    NULL

ASSUME OptionsAssumption == Discovery \in BOOLEAN /\ MayDestroy \in BOOLEAN

M == "maintenance"
R == "recv"           \* teredo_run_async() on the tunnel socket
V == "discovery"      \* the same procedure on the multicast socket
Receivers == {R, V}

VARIABLES
    wr,        \* holder of state_lock for writing, or NULL
    list,      \* holder of the peer list mutex, or NULL
    inner,     \* holder of the maintenance mutex "inner", or NULL
    outer,     \* holder of the maintenance mutex "outer", or NULL
    incoming,  \* the receiver whose packet m->incoming designates, or NULL
    up,        \* tunnel->state.up
    disc,      \* tunnel->discovery
    refcnt,    \* refcnt[o], 0 when o is not allocated
    peer,      \* the peer in the list: "absent", "plain" or "local"
    mpc, next, \* the maintenance thread; next: the state it announces
    mload,     \* the value of refcnt the maintenance thread has loaded
    rpc, cancel, \* the receivers, and whether pthread_cancel() is pending
    islocal,   \* islocal[r]: what receiver r found under state_lock
    ref,       \* ref[r]: "none", "ok", or "freed": the peer r holds a pointer to
    tpc, d, tload, \* the transmitting thread and its teredo_discovery pointer
    dpc, mfree \* teredo_destroy(), and whether teredo_maintenance was freed

tunnelVars == <<wr, list, inner, outer, incoming>>
objVars == <<disc, refcnt>>
mVars == <<mpc, next, mload, up>>
rVars == <<rpc, cancel, islocal, ref>>
tVars == <<tpc, d, tload>>
dVars == <<dpc, mfree>>
vars == <<tunnelVars, objVars, peer, mVars, rVars, tVars, dVars>>

TypeOK ==
    /\ wr \in {M, NULL} /\ list \in Receivers \cup {"transmit", NULL}
    /\ inner \in Receivers \cup {M, NULL} /\ outer \in Receivers \cup {NULL}
    /\ incoming \in Receivers \cup {NULL} /\ up \in BOOLEAN
    /\ disc \in Objects \cup {NULL} /\ refcnt \in [Objects -> 0..2]
    /\ peer \in {"absent", "plain", "local"}
    /\ mpc \in {"wait", "wrlock", "stop", "unref", "reset", "start", "unlock", "dead"}
    /\ next \in BOOLEAN /\ mload \in 0..2 /\ tload \in 0..2
    /\ rpc \in [Receivers -> {"dead", "recv", "state", "outer", "inner", "await",
                              "lookup", "locked", "after"}]
    /\ cancel \in [Receivers -> BOOLEAN] /\ islocal \in [Receivers -> BOOLEAN]
    /\ ref \in [Receivers -> {"none", "ok", "freed"}]
    /\ tpc \in {"idle", "lookup", "locked", "grab", "send", "release", "store", "stopped"}
    /\ d \in Objects \cup {NULL}
    /\ dpc \in {"idle", "join_m", "stop_v", "join_r", "done"} /\ mfree \in BOOLEAN

\* teredo_create(), teredo_set_client_mode() and teredo_run_async()
Init ==
    /\ wr = NULL /\ list = NULL /\ inner = NULL /\ outer = NULL /\ incoming = NULL
    /\ up = FALSE /\ disc = NULL /\ refcnt = [o \in Objects |-> 0] /\ peer = "absent"
    /\ mpc = "wait" /\ next = FALSE /\ mload = 0
    /\ rpc = [r \in Receivers |-> IF r = R THEN "recv" ELSE "dead"]
    /\ cancel = [r \in Receivers |-> FALSE] /\ islocal = [r \in Receivers |-> FALSE]
    /\ ref = [r \in Receivers |-> "none"]
    /\ tpc = "idle" /\ d = NULL /\ tload = 0
    /\ dpc = "idle" /\ mfree = FALSE

-----------------------------------------------------------------------------
(* Receiving threads: teredo_recv_thread(), teredo_run_inner() *)

Go(r, pc) == rpc' = [rpc EXCEPT ![r] = pc]

\* teredo_wait_recv() returns a packet; cancellation is then disabled.
Receive(r) ==
    /\ rpc[r] = "recv" /\ ~cancel[r]
    /\ Go(r, "state")
    /\ UNCHANGED <<tunnelVars, objVars, peer, mVars, cancel, islocal, ref, tVars, dVars>>

\* The state is copied under a read lock.  Then the packet turns out to be for
\* the maintenance procedure, or to be data.
Snapshot(r) ==
    /\ rpc[r] = "state" /\ wr = NULL
    /\ islocal' = [islocal EXCEPT ![r] = (disc # NULL)]
    /\ \/ Go(r, "outer")
       \/ Go(r, IF up THEN "lookup" ELSE "recv")
    /\ UNCHANGED <<tunnelVars, objVars, peer, mVars, cancel, ref, tVars, dVars>>

\* teredo_maintenance_process()
ProcessOuter(r) ==
    /\ rpc[r] = "outer" /\ outer = NULL
    /\ outer' = r /\ Go(r, "inner")
    /\ UNCHANGED <<wr, list, inner, incoming, objVars, peer, mVars, cancel, islocal, ref, tVars, dVars>>
ProcessInner(r) ==
    /\ rpc[r] = "inner" /\ inner = NULL
    /\ incoming' = r /\ Go(r, "await")
    /\ UNCHANGED <<wr, list, inner, outer, objVars, peer, mVars, cancel, islocal, ref, tVars, dVars>>
\* The caller does not take "inner" again before it returns.
SlipProcessReturn(r) ==
    /\ rpc[r] = "await" /\ incoming = NULL
    /\ outer' = NULL /\ Go(r, "recv")
    /\ UNCHANGED <<wr, list, inner, incoming, objVars, peer, mVars, cancel, islocal, ref, tVars, dVars>>
ProcessReturn(r) ==
    /\ rpc[r] = "await" /\ inner = NULL /\ incoming = NULL
    /\ outer' = NULL /\ Go(r, "recv")
    /\ UNCHANGED <<wr, list, inner, incoming, objVars, peer, mVars, cancel, islocal, ref, tVars, dVars>>

\* teredo_list_lookup(), perhaps creating the peer.
Lookup(r) ==
    /\ rpc[r] = "lookup" /\ list = NULL
    /\ \/ peer = "absent" /\ Go(r, "recv") /\ UNCHANGED <<list, peer, ref>>
       \/ /\ list' = r /\ Go(r, "locked")
          /\ ref' = [ref EXCEPT ![r] = "ok"]
          /\ peer' = IF peer = "absent" THEN "plain" ELSE peer
    /\ UNCHANGED <<wr, inner, outer, incoming, objVars, mVars, cancel, islocal, tVars, dVars>>

\* A discovery bubble makes the peer local; any accepted packet ends with
\* teredo_list_release().  CountBubble() (discovery) and the mapping passed to
\* teredo_queue_emit() (teredo_predecap) then read the peer once more.
UsePeer(r) ==
    /\ rpc[r] = "locked"
    /\ \/ islocal[r] /\ peer' = "local" /\ Go(r, "after") /\ UNCHANGED ref
       \/ UNCHANGED peer /\ Go(r, "after") /\ UNCHANGED ref
       \/ UNCHANGED peer /\ Go(r, "recv") /\ ref' = [ref EXCEPT ![r] = "none"]
    /\ list' = NULL
    /\ UNCHANGED <<wr, inner, outer, incoming, objVars, mVars, cancel, islocal, tVars, dVars>>

AfterRelease(r) ==
    /\ rpc[r] = "after"
    /\ Go(r, "recv") /\ ref' = [ref EXCEPT ![r] = "none"]
    /\ UNCHANGED <<tunnelVars, objVars, peer, mVars, cancel, islocal, tVars, dVars>>

\* A pending pthread_cancel() takes effect in teredo_wait_recv() only.
Cancelled(r) == rpc[r] = "recv" /\ cancel[r]

-----------------------------------------------------------------------------
(* The maintenance thread and teredo_state_change() *)

\* An advertisement is consumed; it may announce a new address.
Consume ==
    /\ mpc = "wait" /\ inner = NULL /\ incoming # NULL
    /\ incoming' = NULL
    /\ \/ UNCHANGED <<inner, mVars>>
       \/ inner' = M /\ mpc' = "wrlock" /\ next' = TRUE /\ UNCHANGED <<mload, up>>
    /\ UNCHANGED <<wr, list, outer, objVars, peer, rVars, tVars, dVars>>

\* Connectivity is lost, or a new server address was resolved.
Lose ==
    /\ mpc = "wait" /\ inner = NULL
    /\ inner' = M /\ mpc' = "wrlock" /\ next' = FALSE
    /\ UNCHANGED <<wr, list, outer, incoming, mload, up, objVars, peer, rVars, tVars, dVars>>

\* state_lock is taken; if there is a discovery object its receiver is cancelled.
StateChange ==
    /\ mpc = "wrlock" /\ wr = NULL
    /\ wr' = M /\ up' = next
    /\ mpc' = CASE ~next -> "unlock" [] next /\ disc # NULL -> "stop" [] OTHER -> "reset"
    /\ cancel' = [cancel EXCEPT ![V] = (next /\ disc # NULL) \/ @]
    /\ UNCHANGED <<list, inner, outer, incoming, next, mload, objVars, peer, rpc, islocal, ref, tVars, dVars>>

\* teredo_iothread_stop(): pthread_join() of the receiver, then "--d->refcnt",
\* a load and a store.
DiscoveryJoin ==
    /\ mpc = "stop" /\ Cancelled(V)
    /\ Go(V, "dead")
    /\ mload' = refcnt[disc] /\ mpc' = "unref"
    /\ UNCHANGED <<tunnelVars, objVars, peer, next, up, cancel, islocal, ref, tVars, dVars>>
DiscoveryUnref ==
    /\ mpc = "unref"
    /\ refcnt' = [refcnt EXCEPT ![disc] = mload - 1]
    /\ disc' = NULL /\ mpc' = "reset"
    /\ UNCHANGED <<tunnelVars, peer, next, mload, up, rVars, tVars, dVars>>

\* teredo_list_reset(): every peer is freed, also one a receiver still points to.
ListReset ==
    /\ mpc = "reset" /\ list = NULL
    /\ peer' = "absent"
    /\ ref' = [r \in Receivers |-> IF ref[r] = "ok" THEN "freed" ELSE ref[r]]
    /\ mpc' = "start"
    /\ UNCHANGED <<tunnelVars, objVars, next, mload, up, rpc, cancel, islocal, tVars, dVars>>

\* teredo_discovery_start(), which fails when no interface suits.
DiscoveryStart ==
    /\ mpc = "start" /\ mpc' = "unlock"
    /\ \/ UNCHANGED <<objVars, rpc, cancel>>
       \/ /\ Discovery
          /\ \E o \in Objects :
               /\ refcnt[o] = 0
               /\ refcnt' = [refcnt EXCEPT ![o] = 1]
               /\ disc' = o
          /\ Go(V, "recv") /\ cancel' = [cancel EXCEPT ![V] = FALSE]
    /\ UNCHANGED <<tunnelVars, peer, next, mload, up, islocal, ref, tVars, dVars>>

\* "inner" is not unlocked.
SlipStateUnlock ==
    /\ mpc = "unlock" /\ mpc' = "wait"
    /\ wr' = NULL
    /\ UNCHANGED <<list, inner, outer, incoming, objVars, peer, next, mload, up, rVars, tVars, dVars>>
StateUnlock ==
    /\ mpc = "unlock" /\ mpc' = "wait"
    /\ wr' = NULL /\ inner' = NULL
    /\ UNCHANGED <<list, outer, incoming, objVars, peer, next, mload, up, rVars, tVars, dVars>>

-----------------------------------------------------------------------------
(* The transmitting thread: teredo_transmit() *)

\* The state is copied under a read lock; a tunnel that is down answers with an
\* ICMPv6 error.
TransmitState ==
    /\ tpc = "idle" /\ wr = NULL
    /\ tpc' = IF up THEN "lookup" ELSE "idle"
    /\ UNCHANGED <<tunnelVars, objVars, peer, mVars, rVars, d, tload, dVars>>
TransmitLookup ==
    /\ tpc = "lookup" /\ list = NULL
    /\ list' = "transmit" /\ tpc' = "locked"
    /\ peer' = IF peer = "absent" THEN "plain" ELSE peer
    /\ UNCHANGED <<wr, inner, outer, incoming, objVars, mVars, rVars, d, tload, dVars>>
\* Trusted, or untrusted non-local peer: send or enqueue, and release.  Client
\* case 3, an untrusted local peer, goes on to send a discovery bubble.
TransmitRelease ==
    /\ tpc = "locked"
    /\ list' = NULL
    /\ tpc' \in (IF peer = "local" THEN {"idle", "grab"} ELSE {"idle"})
    /\ UNCHANGED <<wr, inner, outer, incoming, objVars, peer, mVars, rVars, d, tload, dVars>>
\* The pointer is copied without taking state_lock.
SlipTransmitGrab ==
    /\ tpc = "grab"
    /\ d' = disc
    /\ refcnt' = IF disc = NULL THEN refcnt ELSE [refcnt EXCEPT ![disc] = @ + 1]
    /\ tpc' = IF disc = NULL THEN "release" ELSE "send"
    /\ UNCHANGED <<tunnelVars, disc, peer, mVars, rVars, tload, dVars>>
TransmitGrab ==
    /\ tpc = "grab" /\ wr = NULL
    /\ d' = disc
    /\ refcnt' = IF disc = NULL THEN refcnt ELSE [refcnt EXCEPT ![disc] = @ + 1]
    /\ tpc' = IF disc = NULL THEN "release" ELSE "send"
    /\ UNCHANGED <<tunnelVars, disc, peer, mVars, rVars, tload, dVars>>
TransmitSend ==
    /\ tpc = "send" /\ tpc' = "release"
    /\ UNCHANGED <<tunnelVars, objVars, peer, mVars, rVars, d, tload, dVars>>
\* teredo_discovery_release (d): "--d->refcnt" is a load and a store.
TransmitUnref ==
    /\ tpc = "release" /\ d # NULL
    /\ tload' = refcnt[d] /\ tpc' = "store"
    /\ UNCHANGED <<tunnelVars, objVars, peer, mVars, rVars, d, dVars>>
TransmitStore ==
    /\ tpc = "store"
    /\ refcnt' = [refcnt EXCEPT ![d] = tload - 1]
    /\ d' = NULL /\ tpc' = "idle"
    /\ UNCHANGED <<tunnelVars, disc, peer, mVars, rVars, tload, dVars>>

-----------------------------------------------------------------------------
(* teredo_destroy() *)

\* Called when no other thread uses the tunnel: pthread_cancel (m->thread).
DestroyBegin ==
    /\ MayDestroy /\ dpc = "idle" /\ tpc = "idle"
    /\ tpc' = "stopped" /\ dpc' = "join_m"
    /\ UNCHANGED <<tunnelVars, objVars, peer, mVars, rVars, d, tload, mfree>>

\* The thread is cancelled in pthread_cond_timedwait(), or in the pthread_join()
\* of teredo_state_change(); the clean-up handler unlocks "inner" only.
DestroyJoinM ==
    /\ dpc = "join_m"
    /\ \/ mpc = "wait" /\ inner = NULL
       \/ mpc = "stop"
    /\ mpc' = "dead" /\ inner' = NULL /\ mfree' = TRUE
    /\ dpc' = "stop_v"
    /\ cancel' = [cancel EXCEPT ![V] = (disc # NULL) \/ @]
    /\ UNCHANGED <<wr, list, outer, incoming, next, mload, up, objVars, peer, rpc, islocal, ref, tVars>>

\* teredo_discovery_stop() if there is a discovery, then the receiver is cancelled.
DestroyStopV ==
    /\ dpc = "stop_v"
    /\ disc # NULL => Cancelled(V)
    /\ IF disc = NULL THEN UNCHANGED <<rpc, objVars>>
       ELSE /\ Go(V, "dead") /\ disc' = NULL
            /\ refcnt' = [refcnt EXCEPT ![disc] = @ - 1]
    /\ cancel' = [cancel EXCEPT ![R] = TRUE]
    /\ dpc' = "join_r"
    /\ UNCHANGED <<tunnelVars, peer, mVars, islocal, ref, tVars, mfree>>

\* teredo_iothread_stop (t->recv), teredo_list_destroy(), free()
DestroyJoinR ==
    /\ dpc = "join_r" /\ Cancelled(R) /\ list = NULL
    /\ Go(R, "dead") /\ peer' = "absent"
    /\ dpc' = "done"
    /\ UNCHANGED <<tunnelVars, objVars, mVars, cancel, islocal, ref, tVars, mfree>>

Done == dpc = "done" /\ UNCHANGED vars

ReceiverStep(r) ==
    \/ Snapshot(r) \/ ProcessOuter(r) \/ ProcessInner(r) \/ ProcessReturn(r)
    \/ Lookup(r) \/ UsePeer(r) \/ AfterRelease(r)
ChangeStep == StateChange \/ DiscoveryJoin \/ DiscoveryUnref \/ ListReset \/ DiscoveryStart \/ StateUnlock
TransmitStep == TransmitLookup \/ TransmitRelease \/ TransmitGrab \/ TransmitSend \/ TransmitUnref \/ TransmitStore
DestroyStep == DestroyJoinM \/ DestroyStopV \/ DestroyJoinR

Next ==
    \/ \E r \in Receivers : Receive(r) \/ ReceiverStep(r)
    \/ Consume \/ Lose \/ ChangeStep
    \/ TransmitState \/ TransmitStep
    \/ DestroyBegin \/ DestroyStep \/ Done

\* Threads inside the library are scheduled and get the locks they ask for;
\* packets, losses and calls from outside need never happen.
Fairness ==
    /\ \A r \in Receivers : SF_vars(ReceiverStep(r))
    /\ SF_vars(Consume) /\ SF_vars(ChangeStep)
    /\ SF_vars(TransmitStep) /\ SF_vars(DestroyStep)

Spec == Init /\ [][Next]_vars
FairSpec == Spec /\ Fairness

-----------------------------------------------------------------------------
(* Safety *)

\* Between teredo_discovery_grab() and teredo_discovery_release() the object
\* teredo_transmit() uses stays allocated, whatever the state callback does.
GrabKeepsAlive == tpc \in {"send", "release", "store"} /\ d # NULL => refcnt[d] > 0

\* The peer that teredo_predecap() and the discovery case of teredo_run_inner()
\* read after teredo_list_release() has not been freed by teredo_list_reset():
\* the receiver that delivered the advertisement waits for "inner" until
\* teredo_state_change() is over, and the other one is joined first.
PeerAlive == \A r \in Receivers : rpc[r] = "after" => ref[r] # "freed"

(* Liveness *)

\* teredo_state_change() returns.
StateChangeReturns == mpc # "wait" ~> mpc = "wait"

\* While local discovery never starts and the tunnel is not destroyed, a thread
\* that received a packet goes back to receiving: neither state_lock, nor the
\* list, nor the hand-over to the maintenance thread holds it for ever.
ReceiversReturn ==
    [](disc = NULL /\ dpc = "idle") =>
        \A r \in Receivers : rpc[r] \notin {"recv", "dead"} ~> rpc[r] = "recv"

=============================================================================
