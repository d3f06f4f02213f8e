-------------------------------- MODULE Tun6 ---------------------------------
(***************************************************************************)
(* The tunnel device of miredo: miredo/libtun6/tun6.c, and the two ways in *)
(* which relayd.c sets it up.  A relay configures it itself, a client      *)
(* leaves that to a helper process.  The kernel keeps the device, with     *)
(* what was configured, until every process that has a descriptor of it    *)
(* has closed it; the next child of the daemon needs it again.  Devices   *)
(* of several children are not told apart.  The module follows the Linux   *)
(* driver (USE_LINUX).                                                     *)
(***************************************************************************)
EXTENDS Integers

CONSTANTS MaxTunLives   \* bound: children that are run in turn

NoDevice == [mtu |-> FALSE, up |-> FALSE, address |-> FALSE, route |-> FALSE]

VARIABLES
    isClient, named,  \* RelayType is a client's, InterfaceName is given
    tunLife,  \* children so far
    tunAt,    \* where the child is
    helperAt, \* helperAt[n]: the helper of the n-th child: "none", "forked" or "running"
    desc,     \* desc[p]: the descriptors of p: "dev" of the device, "req" for requests
    device    \* what is configured

tunVars == <<isClient, named, tunLife, tunAt, helperAt, desc, device>>
tunGiven == <<isClient, named>>
Child == 0
Helpers == 1..MaxTunLives
Owners == {Child} \cup Helpers

TunInit ==
    /\ isClient \in BOOLEAN /\ named \in BOOLEAN
    /\ tunLife = 1 /\ tunAt = "create" /\ helperAt = [n \in Helpers |-> "none"]
    /\ desc = [p \in Owners |-> {}]
    /\ device = NoDevice

\* Process p closes the descriptors ds.
Closed(p, ds) == [desc EXCEPT ![p] = @ \ ds]
Kept(d) == IF \E p \in Owners : "dev" \in d[p] THEN device ELSE NoDevice
Closes(p, ds) == desc' = Closed(p, ds) /\ device' = Kept(Closed(p, ds))
\* tun6_destroy() by the child: the interface goes down, then both are closed.
tun6_destroy ==
    LET d == Closed(Child, {"dev", "req"})
    IN  desc' = d /\ device' = [Kept(d) EXCEPT !.up = FALSE]

-----------------------------------------------------------------------------
(* tun6_create() *)

Busy == \E p \in Owners : "dev" \in desc[p]
Created ==
    /\ tunAt = "create"
    /\ ~(named /\ Busy)      \* TUNSETIFF: EBUSY
    /\ desc' = [desc EXCEPT ![Child] = @ \cup {"dev", "req"}]
    /\ tunAt' = IF isClient THEN "fork" ELSE "mtu"
    /\ UNCHANGED <<tunGiven, tunLife, helperAt, device>>

\* What had been opened is closed, but for the request descriptor when the name
\* is too long.
CreateFails ==
    /\ tunAt = "create"
    /\ tunAt' = "failed"
    /\ desc' \in {desc} \cup (IF named
                              THEN {[desc EXCEPT ![Child] = @ \cup {"req"}]} ELSE {})
    /\ UNCHANGED <<tunGiven, tunLife, helperAt, device>>

-----------------------------------------------------------------------------
(* create_static_tunnel(): four requests, of which each may fail *)

Step(from, to) ==
    /\ tunAt = from /\ tunAt' = to
    /\ device' = [device EXCEPT ![from] = TRUE]
    /\ UNCHANGED <<tunGiven, tunLife, helperAt, desc>>
tun6_setMTU == Step("mtu", "up")
tun6_bringUp == Step("up", "address")
tun6_addAddress == Step("address", "route")
tun6_addRoute == Step("route", "run")
RequestFails ==
    /\ tunAt \in DOMAIN NoDevice
    /\ tunAt' = "failed"
    /\ tun6_destroy
    /\ UNCHANGED <<tunGiven, tunLife, helperAt>>

-----------------------------------------------------------------------------
(* create_dynamic_tunnel() *)

\* The helper begins with copies of the descriptors.
ForkHelper ==
    /\ tunAt = "fork"
    /\ \/ /\ helperAt' = [helperAt EXCEPT ![tunLife] = "forked"] /\ tunAt' = "run"
          /\ desc' = [desc EXCEPT ![tunLife] = desc[Child]]
          /\ UNCHANGED device
       \/ /\ tunAt' = "failed" /\ tun6_destroy
          /\ UNCHANGED helperAt
    /\ UNCHANGED <<tunGiven, tunLife>>

\* The helper keeps the descriptors when it executes its program.
SlipExecHelper(n) ==
    /\ helperAt[n] = "forked"
    /\ helperAt' = [helperAt EXCEPT ![n] = "running"]
    /\ UNCHANGED <<tunGiven, tunLife, tunAt, desc, device>>
\* They are marked to be closed when it executes its program; if it cannot, it
\* exits.
ExecHelper(n) ==
    /\ helperAt[n] = "forked"
    /\ \E next \in {"running", "none"} : helperAt' = [helperAt EXCEPT ![n] = next]
    /\ Closes(n, {"dev", "req"})
    /\ UNCHANGED <<tunGiven, tunLife, tunAt>>

\* It configures the device (module MiredoDaemon has the exchange).
HelperConfigures ==
    /\ helperAt[tunLife] = "running" /\ tunAt = "run" /\ Busy
    /\ device' = [device EXCEPT !.mtu = TRUE, !.up = TRUE, !.address = TRUE, !.route = TRUE]
    /\ UNCHANGED <<tunGiven, tunLife, tunAt, helperAt, desc>>

\* It ends when the child has closed its end of their socket.
HelperEnds(n) ==
    /\ helperAt[n] = "running" /\ (n = tunLife => tunAt # "run")
    /\ helperAt' = [helperAt EXCEPT ![n] = "none"]
    /\ Closes(n, {"dev", "req"})
    /\ UNCHANGED <<tunGiven, tunLife, tunAt>>

-----------------------------------------------------------------------------
\* relay_run() ends; destroy_dynamic_tunnel() waits for the helper first.
TunnelStops ==
    /\ tunAt = "run" /\ tunAt' = "destroy"
    /\ UNCHANGED <<tunGiven, tunLife, helperAt, desc, device>>
DestroyTunnel ==
    /\ tunAt = "destroy" /\ (isClient => helperAt[tunLife] = "none")
    /\ tunAt' = "gone"
    /\ tun6_destroy
    /\ UNCHANGED <<tunGiven, tunLife, helperAt>>

\* The child exits after a failure, or is killed: the kernel closes everything.
ChildGone ==
    /\ tunAt \notin {"gone", "create"}
    /\ tunAt' = "gone"
    /\ Closes(Child, desc[Child])
    /\ UNCHANGED <<tunGiven, tunLife, helperAt>>

\* The daemon starts another child; a helper of the last one may be left.
NextChild ==
    /\ tunAt = "gone" /\ tunLife < MaxTunLives
    /\ tunAt' = "create" /\ tunLife' = tunLife + 1
    /\ UNCHANGED <<tunGiven, helperAt, desc, device>>

TunNext ==
    \/ Created \/ CreateFails \/ RequestFails
    \/ tun6_setMTU \/ tun6_bringUp \/ tun6_addAddress \/ tun6_addRoute
    \/ ForkHelper \/ HelperConfigures \/ \E n \in Helpers : ExecHelper(n) \/ HelperEnds(n)
    \/ TunnelStops \/ DestroyTunnel \/ ChildGone \/ NextChild

TunSpec == TunInit /\ [][TunNext]_tunVars

-----------------------------------------------------------------------------
\* A child that ended in any way leaves no device behind with which the next one
\* would meet EBUSY, or find old addresses and routes: nobody but a helper that
\* has not yet executed its program can still hold it.
DeviceIsFree ==
    tunAt = "create" /\ (\A n \in Helpers : helperAt[n] # "forked") => ~Busy /\ device = NoDevice
=============================================================================
