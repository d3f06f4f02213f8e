---------------------------- MODULE Maintenance -----------------------------
(***************************************************************************)
(* The Teredo client maintenance procedure (miredo/libteredo/maintain.c):  *)
(* one thread qualifies with the server and keeps the NAT binding alive;   *)
(* receiving threads hand it Router Advertisements through                 *)
(* teredo_maintenance_process(), which returns only when the thread has    *)
(* looked at the packet.  Timers may expire at any moment.                 *)
(*                                                                         *)
(* A packet is a record: "fresh" tells whether it carries the nonce of the *)
(* solicitation in progress, so sending a new one makes every packet under *)
(* way stale; "kind" is what maintenance_recv() would find after that.     *)
(***************************************************************************)
EXTENDS Naturals

CONSTANTS
    Callers,   \* threads that call teredo_maintenance_process()
    Addrs,     \* Teredo addresses the server may assign (with their MTU)
    Retries,   \* qualification_retries
    NULL

ASSUME RetriesAssumption == Retries \in Nat \ {0}

M == "maintenance"
Kinds == {"good", "auth_fail", "invalid"}
Packets == [fresh : BOOLEAN, kind : Kinds, addr : Addrs]

ASSUME NullAssumption == NULL \notin Addrs \cup Callers \cup {M} /\ NULL \notin Packets

\* What the state callback may be given.
States == [up : BOOLEAN, addr : Addrs \cup {NULL}]

VARIABLES
    mpc,        \* where the maintenance thread is
    inner,      \* holder of the mutex "inner", or NULL
    outer,      \* holder of the mutex "outer", or NULL
    cpc,        \* cpc[c]: where caller c is in teredo_maintenance_process()
    packet,     \* packet[c]: the packet on the stack of caller c, or NULL
    incoming,   \* m->incoming: the caller whose packet it points to, or NULL
    server_ip,  \* whether the server address is known
    count,
    up, addr,   \* m->state.state
    told,       \* what the state callback was last given
    silent      \* history: solicitations in a row that brought no answer

vars == <<mpc, inner, outer, cpc, packet, incoming, server_ip, count,
          up, addr, told, silent>>
callerVars == <<outer, cpc, packet>>

\* The three places that wait for a packet.  wait_reply() looks at m->incoming
\* first and sleeps, releasing "inner", only if there is none.
Waits == {"wait_restart", "wait_reply", "wait_refresh"}

TypeOK ==
    /\ mpc \in Waits \cup {"resolve", "solicit"}
    /\ inner \in Callers \cup {M, NULL} /\ outer \in Callers \cup {NULL}
    /\ cpc \in [Callers -> {"idle", "outer", "inner", "waiting", "woken"}]
    /\ packet \in [Callers -> Packets \cup {NULL}]
    /\ incoming \in Callers \cup {NULL}
    /\ server_ip \in BOOLEAN
    /\ count \in 0..(Retries - 1) /\ silent \in 0..Retries
    /\ up \in BOOLEAN /\ addr \in Addrs \cup {NULL}
    /\ told \in States

\* teredo_maintenance_start(): the thread begins with "inner" locked.
Init ==
    /\ mpc = "resolve" /\ inner = M /\ outer = NULL
    /\ cpc = [c \in Callers |-> "idle"]
    /\ packet = [c \in Callers |-> NULL]
    /\ incoming = NULL
    /\ server_ip = FALSE /\ count = 0
    /\ up = FALSE /\ addr = NULL
    /\ told = [up |-> FALSE, addr |-> NULL]
    /\ silent = 0

-----------------------------------------------------------------------------
(* teredo_maintenance_process() *)

\* A packet that passes the first test; RAs may be late or repeated.
ProcessBegin(c) ==
    /\ cpc[c] = "idle"
    /\ \E p \in Packets : packet' = [packet EXCEPT ![c] = p]
    /\ cpc' = [cpc EXCEPT ![c] = "outer"]
    /\ UNCHANGED <<mpc, inner, outer, incoming, server_ip, count, up, addr, told, silent>>

\* A slip: callers do not exclude each other.
SlipLockOuter(c) ==
    /\ cpc[c] = "outer"
    /\ outer' = c
    /\ cpc' = [cpc EXCEPT ![c] = "inner"]
    /\ UNCHANGED <<mpc, inner, packet, incoming, server_ip, count, up, addr, told, silent>>

LockOuter(c) ==
    /\ cpc[c] = "outer" /\ outer = NULL
    /\ outer' = c
    /\ cpc' = [cpc EXCEPT ![c] = "inner"]
    /\ UNCHANGED <<mpc, inner, packet, incoming, server_ip, count, up, addr, told, silent>>

\* Locks "inner", publishes the packet, signals, and waits (which unlocks).
Publish(c) ==
    /\ cpc[c] = "inner" /\ inner = NULL
    /\ incoming' = c
    /\ cpc' = [cpc EXCEPT ![c] = "waiting"]
    /\ UNCHANGED <<mpc, inner, outer, packet, server_ip, count, up, addr, told, silent>>

\* Woken by "processed": returns, or goes back to wait if incoming is not NULL.
Woken(c) ==
    /\ cpc[c] = "woken" /\ inner = NULL
    /\ IF incoming = NULL
       THEN /\ cpc' = [cpc EXCEPT ![c] = "idle"]
            /\ packet' = [packet EXCEPT ![c] = NULL]
            /\ outer' = NULL
       ELSE cpc' = [cpc EXCEPT ![c] = "waiting"] /\ UNCHANGED <<packet, outer>>
    /\ UNCHANGED <<mpc, inner, incoming, server_ip, count, up, addr, told, silent>>

\* A slip: the caller is not signalled.
SlipProcessed == incoming' = NULL /\ UNCHANGED callerVars

\* m->incoming = NULL; pthread_cond_signal (&m->processed)
Processed ==
    /\ incoming' = NULL
    /\ cpc' = [c \in Callers |-> IF cpc[c] = "waiting" THEN "woken" ELSE cpc[c]]
    /\ UNCHANGED <<outer, packet>>

-----------------------------------------------------------------------------
(* maintenance_thread() *)

EnterWait(w) == mpc' = w /\ inner' = IF incoming = NULL THEN NULL ELSE M
\* pthread_cond_timedwait() = ETIMEDOUT: only a thread that sleeps can time out,
\* but a packet may have been published since it fell asleep.
TimedOut == inner = NULL
\* wait_reply() = 0
Received == inner \in {NULL, M} /\ incoming # NULL

\* getipv4byname() fails, or the address is not global: wait restart_delay.
ResolveFails ==
    /\ mpc = "resolve"
    /\ EnterWait("wait_restart")
    /\ UNCHANGED <<callerVars, incoming, server_ip, count, up, addr, told, silent>>

\* The server's address is known: the tunnel is told.
Resolved ==
    /\ mpc = "resolve"
    /\ server_ip' = TRUE
    /\ told' = [up |-> up, addr |-> addr]
    /\ mpc' = "solicit"
    /\ UNCHANGED <<inner, callerVars, incoming, count, up, addr, silent>>

\* teredo_send_rs() with a new nonce, then wait_reply().
Solicit ==
    /\ mpc = "solicit"
    /\ packet' = [c \in Callers |->
                    IF packet[c] = NULL THEN NULL ELSE [packet[c] EXCEPT !.fresh = FALSE]]
    /\ EnterWait("wait_reply")
    /\ UNCHANGED <<outer, cpc, incoming, server_ip, count, up, addr, told, silent>>

\* maintenance_recv() = 0
Acceptable(p) == p.fresh /\ p.kind = "good"

\* wait_reply() = 0, and the packet is not acceptable: wait again.
RejectReply ==
    /\ mpc = "wait_reply" /\ Received
    /\ ~Acceptable(packet[incoming])
    /\ Processed /\ inner' = NULL
    /\ UNCHANGED <<mpc, server_ip, count, up, addr, told, silent>>

\* wait_reply() = 0 and the packet is acceptable.
AcceptReply ==
    /\ mpc = "wait_reply" /\ Received
    /\ Acceptable(packet[incoming])
    /\ LET a == packet[incoming].addr
       IN  IF ~up \/ addr # a
           THEN /\ up' = TRUE /\ addr' = a
                /\ told' = [up |-> TRUE, addr |-> a]
           ELSE UNCHANGED <<up, addr, told>>
    /\ count' = 0 /\ silent' = 0
    /\ Processed
    /\ mpc' = "wait_refresh" /\ inner' = NULL
    /\ UNCHANGED server_ip

\* wait_reply() = ETIMEDOUT, even if a packet was published meanwhile.
ReplyTimesOut ==
    /\ mpc = "wait_reply" /\ TimedOut
    /\ silent' = IF silent < Retries THEN silent + 1 ELSE silent
    /\ IF count + 1 < Retries
       THEN /\ count' = count + 1
            /\ mpc' = "solicit" /\ inner' = M
            /\ UNCHANGED <<server_ip, up, addr, told>>
       ELSE /\ count' = 0
            /\ up' = FALSE
            /\ told' = IF up THEN [up |-> FALSE, addr |-> addr] ELSE told
            /\ server_ip' = (server_ip /\ ~up)
            /\ EnterWait("wait_refresh")
            /\ UNCHANGED addr
    /\ UNCHANGED <<callerVars, incoming>>

\* wait_reply_ignore(): packets are dropped until the deadline.
IgnoreReply ==
    /\ mpc \in {"wait_restart", "wait_refresh"} /\ Received
    /\ Processed /\ inner' = NULL
    /\ UNCHANGED <<mpc, server_ip, count, up, addr, told, silent>>

\* wait_reply_ignore() ends: resolve (again), or solicit the same server.
DelayEnds ==
    /\ mpc \in {"wait_restart", "wait_refresh"} /\ TimedOut
    /\ inner' = M
    /\ mpc' = IF server_ip THEN "solicit" ELSE "resolve"
    /\ UNCHANGED <<callerVars, incoming, server_ip, count, up, addr, told, silent>>

MaintenanceStep ==
    ResolveFails \/ Resolved \/ Solicit \/ RejectReply \/ AcceptReply \/ ReplyTimesOut
    \/ IgnoreReply \/ DelayEnds
CallerStep(c) == LockOuter(c) \/ Publish(c) \/ Woken(c)

Next == MaintenanceStep \/ \E c \in Callers : ProcessBegin(c) \/ CallerStep(c)

\* Every thread that can run does.  A mutex is granted to each thread that
\* keeps asking for it.
Fairness ==
    /\ WF_vars(MaintenanceStep)
    /\ \A c \in Callers : SF_vars(LockOuter(c)) /\ SF_vars(Publish(c)) /\ SF_vars(Woken(c))

Spec == Init /\ [][Next]_vars
FairSpec == Spec /\ Fairness

-----------------------------------------------------------------------------
\* m->incoming points into the stack of a caller that is still inside
\* teredo_maintenance_process(), and no second caller can overwrite it.
IncomingAlive ==
    incoming # NULL => /\ cpc[incoming] \in {"waiting", "woken"}
                       /\ outer = incoming /\ packet[incoming] # NULL

\* assert (!c_state->up) before a newly resolved server is announced.
NotUpWhenResolving == ~server_ip => ~up

\* The tunnel's copy of the state never disagrees with the procedure's own,
\* however time-outs and answers interleave.
ToldIsCurrent == told.up = up /\ (up => told.addr = addr)

\* Connectivity is declared lost only after qualification_retries successive
\* solicitations without an acceptable answer.
LostOnlyAfterRetries == [][up /\ ~up' => silent' = Retries]_vars

\* teredo_maintenance_process() always returns.
CallersReturn == \A c \in Callers : cpc[c] # "idle" ~> cpc[c] = "idle"
=============================================================================
