------------------------------ MODULE TspScript ------------------------------
(***************************************************************************)
(* The end of a TSP session on Linux: tspStartLocal forks a child that     *)
(* runs the template script to set the tunnel up, waits for it, runs the   *)
(* tunnel and runs the script again to tear it down (platform/linux,       *)
(* tsp_setup.c, template/linux.sh).  Session follows session in one        *)
(* process, whose environment stays.  A script is the commands that it     *)
(* still has to run; any of them may fail.  What the commands do to the    *)
(* host is external.                                                       *)
(***************************************************************************)
EXTENDS Naturals, Sequences

CONSTANTS Delegated,   \* the prefixes a broker may delegate: <<prefix, length>>
          MaxScriptFaults   \* bound on scriptFaults; the last one ends the sessions

VARIABLES
    sAt,        \* where tspStartLocal is
    tun,        \* tTunnel
    hostType,   \* host_type of gogoc.conf
    hasIp,      \* /sbin/ip can be executed
    env,        \* the environment of the process
    buffer,     \* the static buffer of get_template_script: "", "path" or "command"
    tunfd,
    scripts,    \* the running scripts
    linux,      \* the host's IPv6 configuration
    scriptFaults  \* teardowns that did not do their work, and processes killed

scriptVars == <<sAt, tun, hostType, hasIp, env, buffer, tunfd, scripts, linux, scriptFaults>>

Modes == {"v6v4", "v6udpv4"}
Offered == [type : Modes, prefix : Delegated \cup {<<>>}, valid : BOOLEAN]
NoTunnel == [type |-> "", prefix |-> <<>>, valid |-> FALSE]
NoEnv == [type |-> "", prefix |-> "", length |-> ""]
NoScript == [todo |-> <<>>, env |-> NoEnv, failed |-> FALSE]

ScriptInit ==
    /\ sAt = "idle" /\ tun = NoTunnel /\ hostType \in {"host", "router"} /\ hasIp \in BOOLEAN
    /\ env = NoEnv /\ buffer = "" /\ tunfd = FALSE
    /\ scripts = [s \in {"setup", "teardown", "orphan"} |-> NoScript]
    /\ linux = [iface |-> [m \in Modes |-> "none"], address |-> {}, default |-> {"native"}, gw |-> {},
                forwarding |-> FALSE, blackhole |-> {}, home |-> {}, radvd |-> "none"]
    /\ scriptFaults = 0

-----------------------------------------------------------------------------
(* linux.sh *)

If(b, s) == IF b THEN s ELSE <<>>

\* The commands whose failure ends the script.
Exec == {"tunnel add", "tunnel", "up", "address clean", "address add", "mtu", "default add", "gw add",
         "forwarding", "home clean", "home add", "radvd"}

CreateTunnel(e) ==
    If(e.type = "v6v4", IF hasIp THEN <<"tunnel del", "tunnel add">> ELSE <<"tunnel">>)
    \o <<"up", "address clean", "address add", "mtu", "default del", "gw del", "default add", "gw add">>

ConfigureRouter(e) ==
    <<"forwarding">> \o If(e.length # "64", <<"blackhole add">>)
    \o <<"home clean", "home add", "radvd kill", "radvd">>

TearDown(e) ==
    If(hostType = "router",
       <<"radvd kill", "prefix del">> \o If(e.length # "64", <<"prefix del">>) \o <<"home del">>)
    \o <<"default del", "gw del">>
    \o IF hasIp THEN <<"tunnel del">> ELSE <<"address clean", "down">>

\* The interface m goes, or goes down, and its routes with it.
Without(m, s, h) == [h EXCEPT !.iface[m] = s, !.address = IF s = "none" THEN @ \ {m} ELSE @,
                              !.default = @ \ {m}, !.gw = @ \ {m}]

\* What a command may make of host h; no result when it cannot succeed.
Does(c, e, h) ==
    LET m == e.type
        exists == h.iface[m] # "none"
        Only(cond, r) == IF cond THEN {r} ELSE {}
    IN CASE c = "tunnel del" -> Only(m = "v6v4" /\ exists, Without(m, "none", h))
         [] c = "tunnel add" -> Only(~exists, [h EXCEPT !.iface[m] = "down"])
         [] c = "tunnel" -> {[h EXCEPT !.iface[m] = IF exists THEN @ ELSE "down"]}
         [] c = "up" -> Only(exists, [h EXCEPT !.iface[m] = "up"])
         [] c = "down" -> Only(exists, Without(m, "down", h))
         [] c = "mtu" -> Only(exists, h)
         [] c = "address clean" -> {[h EXCEPT !.address = @ \ {m}]}
         [] c = "address add" -> Only(exists /\ m \notin h.address, [h EXCEPT !.address = @ \cup {m}])
         [] c = "default del" -> {[h EXCEPT !.default = @ \ {r}] : r \in h.default}
         [] c = "default add" -> Only(h.iface[m] = "up", [h EXCEPT !.default = @ \cup {m}])
         [] c = "gw del" -> {[h EXCEPT !.gw = @ \ {r}] : r \in h.gw}
         [] c = "gw add" -> Only(h.iface[m] = "up", [h EXCEPT !.gw = @ \cup {m}])
         [] c = "forwarding" -> {[h EXCEPT !.forwarding = TRUE]}
         [] c = "blackhole add" -> Only(e.prefix # "", [h EXCEPT !.blackhole = @ \cup {e.prefix}])
         [] c = "prefix del" -> Only(e.prefix \in h.blackhole, [h EXCEPT !.blackhole = @ \ {e.prefix}])
         [] c = "home clean" -> {h, [h EXCEPT !.home = {}]}
         [] c = "home add" -> {[h EXCEPT !.home = @ \cup {e.prefix}]}
         [] c = "home del" -> Only(e.prefix \in h.home, [h EXCEPT !.home = @ \ {e.prefix}])
         [] c = "radvd kill" -> Only(h.radvd # "none", [h EXCEPT !.radvd = "none"])
         [] c = "radvd" -> Only(h.radvd = "none", [h EXCEPT !.radvd = e.prefix])

Fault == scriptFaults < MaxScriptFaults /\ scriptFaults' = scriptFaults + 1

\* A script runs its next command.  A command of a teardown that fails although
\* there was something to undo leaves it behind.
Runs(s, todo, failed) ==
    /\ scripts' = [scripts EXCEPT ![s].todo = todo, ![s].failed = failed]
    /\ UNCHANGED <<sAt, tun, hostType, hasIp, env, buffer, tunfd>>

CommandDone(s) ==
    /\ scripts[s].todo # <<>>
    /\ linux' \in Does(Head(scripts[s].todo), scripts[s].env, linux)
    /\ Runs(s, Tail(scripts[s].todo), FALSE) /\ UNCHANGED scriptFaults

CommandFails(s) ==
    /\ scripts[s].todo # <<>>
    /\ LET c == Head(scripts[s].todo) IN
       /\ IF s # "teardown" /\ c \in Exec THEN Runs(s, <<>>, TRUE) ELSE Runs(s, Tail(scripts[s].todo), FALSE)
       /\ IF s = "teardown" /\ Does(c, scripts[s].env, linux) # {} THEN Fault ELSE UNCHANGED scriptFaults
    /\ UNCHANGED linux
-----------------------------------------------------------------------------
(* tsp_setup.c *)

\* What stays of an earlier tunnel: its prefix, when the new one has none.
set_tsp_env_variables(e, t) ==
    [type |-> t.type, prefix |-> IF t.prefix = <<>> THEN e.prefix ELSE t.prefix[1],
     length |-> IF t.prefix = <<>> THEN e.length ELSE t.prefix[2]]

\* Once the template was found it is not looked for again.  A missing one
\* leaves its path in the buffer, which is run the next time.
get_template_script(b) == IF b = "" THEN {"command", "path"} ELSE {b}

\* The script runs, unless there is none or it refuses to begin.
execScript(run, todo, e) == [todo |-> IF run THEN todo ELSE <<>>, env |-> e, failed |-> ~run]

validate_tunnel_info(t) == t.valid

tspSetupInterface(run) ==
    LET e == set_tsp_env_variables(env, tun)
    IN  execScript(run /\ validate_tunnel_info(tun),
                   CreateTunnel(e) \o If(hostType = "router", ConfigureRouter(e)), e)

\* The teardown trusts the environment of the process to be that of the setup.
SlipTearDownTunnel(run) == LET e == [env EXCEPT !.type = tun.type] IN execScript(run, TearDown(e), e)
tspTearDownTunnel(run) == LET e == set_tsp_env_variables(env, tun) IN execScript(run, TearDown(e), e)

-----------------------------------------------------------------------------
(* tspStartLocal *)

GoTo(p) == sAt' = p
Still == UNCHANGED <<hostType, hasIp>>

TunInitLinux ==
    /\ linux.iface["v6udpv4"] = "none"
    /\ tunfd' = TRUE /\ linux' = [linux EXCEPT !.iface["v6udpv4"] = "down"]

\* Privileges, IPv6, daemon() and the tunnel type, each of which may refuse.
\* No session begins after the last fault (bound).
StartLocal ==
    /\ sAt = "idle" /\ scriptFaults < MaxScriptFaults /\ tun' \in Offered /\ GoTo("fork")
    /\ IF tun'.type = "v6udpv4" THEN TunInitLinux ELSE UNCHANGED <<tunfd, linux>>
    /\ Still /\ UNCHANGED <<env, buffer, scripts, scriptFaults>>

\* The child closes its copy of tunfd and runs the script; or fork() fails.
ForkChild ==
    /\ sAt = "fork"
    /\ \/ /\ GoTo("wait")
          /\ \E run \in BOOLEAN : scripts' = [scripts EXCEPT !["setup"] = tspSetupInterface(run)]
       \/ GoTo("close") /\ UNCHANGED scripts
    /\ Still /\ UNCHANGED <<tun, env, buffer, tunfd, linux, scriptFaults>>

\* The child's exit status; it also fails when the script's output is not found.
ChildReturns ==
    /\ sAt = "wait" /\ scripts["setup"].todo = <<>>
    /\ \/ ~scripts["setup"].failed /\ GoTo("loop")
       \/ GoTo("close")
    /\ scripts' = [scripts EXCEPT !["setup"] = NoScript]
    /\ Still /\ UNCHANGED <<tun, env, buffer, tunfd, linux, scriptFaults>>

\* TunMainLoop or tspPerformTunnelLoop returns, for a signal, a keepalive that
\* was not answered, or an error of the device or the socket.
TunMainLoop ==
    /\ sAt = "loop" /\ GoTo("close")
    /\ Still /\ UNCHANGED <<tun, env, buffer, tunfd, scripts, linux, scriptFaults>>

\* The descriptor is closed, and with it the device, before the teardown.
CloseAndTearDown ==
    /\ sAt = "close" /\ GoTo("teardown")
    /\ tunfd' = FALSE /\ linux' = IF tunfd THEN Without("v6udpv4", "none", linux) ELSE linux
    /\ env' = set_tsp_env_variables(env, tun)
    /\ buffer' \in get_template_script(buffer)
    /\ \E run \in IF buffer = "" /\ buffer' = "path" THEN {FALSE} ELSE BOOLEAN :
         /\ scripts' = [scripts EXCEPT !["teardown"] = tspTearDownTunnel(run)]
         /\ IF run THEN UNCHANGED scriptFaults ELSE Fault
    /\ Still /\ UNCHANGED tun

TornDown ==
    /\ sAt = "teardown" /\ scripts["teardown"].todo = <<>> /\ GoTo("idle") /\ tun' = NoTunnel
    /\ scripts' = [scripts EXCEPT !["teardown"] = NoScript]
    /\ Still /\ UNCHANGED <<env, buffer, tunfd, linux, scriptFaults>>

-----------------------------------------------------------------------------
(* Kills, and the network (external) *)

\* The child, or the whole process, is killed; a script it ran goes on.
Orphaned(s) == [scripts EXCEPT ![s] = NoScript, !["orphan"] = scripts[s]]

KillChild ==
    /\ sAt = "wait" /\ Fault
    /\ GoTo("close") /\ scripts' = Orphaned("setup")
    /\ Still /\ UNCHANGED <<tun, env, buffer, tunfd, linux>>

KillGogoc ==
    /\ sAt # "idle" /\ Fault
    /\ GoTo("idle") /\ tun' = NoTunnel /\ env' = NoEnv /\ buffer' = "" /\ tunfd' = FALSE
    /\ scripts' = Orphaned(IF sAt = "teardown" THEN "teardown" ELSE "setup")
    /\ linux' = IF tunfd THEN Without("v6udpv4", "none", linux) ELSE linux
    /\ Still

\* A router advertises itself; a host that forwards does not listen.
RouterAdvertised ==
    /\ ~linux.forwarding /\ linux' = [linux EXCEPT !.default = @ \cup {"native"}]
    /\ UNCHANGED <<sAt, tun, hostType, hasIp, env, buffer, tunfd, scripts, scriptFaults>>

ScriptNext ==
    \/ StartLocal \/ ForkChild \/ ChildReturns \/ TunMainLoop \/ CloseAndTearDown \/ TornDown
    \/ KillChild \/ KillGogoc \/ RouterAdvertised
    \/ \E s \in DOMAIN scripts : CommandDone(s) \/ CommandFails(s)

ScriptSpec == ScriptInit /\ [][ScriptNext]_scriptVars

-----------------------------------------------------------------------------
\* A setup script that stops at any of its commands is undone like one that
\* succeeded, also when the prefix is that of an earlier session: after the
\* teardown nothing on the host belongs to a tunnel, unless the teardown itself
\* failed or a process was killed (tspStartLocal, linux.sh).
NothingLeftBehind ==
    sAt = "idle" /\ scriptFaults = 0 =>
        /\ linux.iface["v6udpv4"] = "none" /\ linux.iface["v6v4"] # "up" /\ linux.address = {}
        /\ linux.default \subseteq {"native"} /\ linux.gw = {}
        /\ linux.blackhole = {} /\ linux.home = {} /\ linux.radvd = "none"
==============================================================================
