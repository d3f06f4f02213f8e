------------------------------- MODULE Aiccu -------------------------------
(***************************************************************************)
(* The aiccu client (aiccu_main.c, aiccu.c, aiccu_darwin.c, heartbeat.c,   *)
(* ayiya.c, tun.c): `aiccu start' or `aiccu test' in one process, with the *)
(* two threads of an AYIYA tunnel, the signals it gets, the interface it   *)
(* configures, and an `aiccu stop' run beside it.                          *)
(*                                                                         *)
(* An address is the host's IPv4 address; the TIC server's answers, the    *)
(* packets and what the commands print are left out.  Every command of     *)
(* aiccu_exec counts as done, as the code does not look at its result; it  *)
(* takes time, and signals arrive before, during and after it.             *)
(***************************************************************************)
EXTENDS Integers

CONSTANTS
  Addrs,         \* IPv4 addresses the host may have
  MaxMoves,      \* bound: changes of the host's address
  MaxToggles,    \* bound: SIGUSR1 signals
  Tests          \* the connectivity tests of aiccu_os_test


VARIABLES
  cmd,                        \* start or test, tunnel type, configuration: fixed
  at, then,                   \* the main thread and where its beat returns to
  exec,                       \* the command that system() waits for
  running, makebeats, conf,   \* g_aiccu->running, ->makebeats; g_aiccu is allocated
  handlers, ignored,          \* handlers are installed; stop signals since set to SIG_IGN
  told,                       \* a stop signal was sent that system() does not discard
  pidfile,                    \* none, a dead process's or this process's pid
  local, addr,                \* hTunnel->sIPv4_Local; the host's address
  up, endpoint,               \* the interface: up; the local end of the tunnel
  ayiya_socket, tunrunning,
  reader, writer,             \* the threads
  stop, torn,                 \* the stop command; when it took the interface down itself
  moves, toggles, test

signals == <<running, makebeats, handlers, ignored, told, toggles>>
iface == <<up, endpoint>>
threads == <<reader, writer, tunrunning, ayiya_socket>>
host == <<addr, moves, stop, torn>>
aiccuVars == <<cmd, at, then, exec, running, makebeats, conf, handlers, ignored, told,
               pidfile, local, addr, up, endpoint, ayiya_socket, tunrunning, reader, writer,
               stop, torn, moves, toggles, test>>

Types == {"static", "heartbeat", "ayiya"}
Unset == "0.0.0.0"
Dynamic == "heartbeat"          \* sIPv4_Local of a tunnel whose address may change
Nothing == "none"
DeleteCommands == {"down", "deletetunnel"}
Commands == {"tunnel", "up", "mtu", "alias", "route", "reconfig", "test"} \cup DeleteCommands
Gone == {"exited", "killed", "crashed"}
Alive == at \notin Gone

(* The word that stands for an address to be found is no address. *)
ASSUME AiccuAssumption == Dynamic \notin Addrs

(* aiccu_InitConfig and aiccu_LoadConfig, then the first check of main. *)
AiccuInit ==
  /\ cmd \in [mode : {"start", "test"}, type : Types, daemonize : BOOLEAN,
              noconfigure : BOOLEAN, password : BOOLEAN]
  /\ (cmd.mode = "test" => ~cmd.daemonize) /\ (cmd.type # "ayiya" => cmd.password)
  /\ at = "begin" /\ then = "none" /\ running = TRUE /\ makebeats \in BOOLEAN
  /\ exec = Nothing /\ conf = TRUE /\ handlers = FALSE /\ ignored = {} /\ told = FALSE
  /\ pidfile \in {"none", "stale"}
  /\ addr \in Addrs /\ local \in {Dynamic} \cup Addrs
  /\ (cmd.type = "heartbeat" <=> local = Dynamic)
  /\ up = FALSE /\ endpoint = Unset /\ ayiya_socket = FALSE /\ tunrunning = FALSE
  /\ reader = "none" /\ writer = FALSE /\ stop = "idle" /\ torn = "no"
  /\ moves = 0 /\ toggles = 0 /\ test = 0

Goto(l) == at' = l /\ UNCHANGED <<then, exec>>
Call(f, back) == at' = f /\ then' = back /\ UNCHANGED exec

(***************************************************************************)
(* aiccu_exec: system() starts a command and waits for it to end.          *)
(***************************************************************************)
aiccu_exec ==
  /\ at \in Commands /\ exec = Nothing /\ exec' = at
  /\ UNCHANGED <<cmd, at, then, signals, conf, pidfile, local, iface, threads, host, test>>

(* What a command of ifconfig does to the interface.  The MTU, the address *)
(* and the route are not followed.                                         *)
Effect(c) ==
  /\ up' = (c = "up" \/ (c # "down" /\ up))
  /\ endpoint' = IF c = "deletetunnel" \/ (c = "tunnel" /\ local = Dynamic) THEN Unset
                 ELSE IF c \in {"tunnel", "reconfig"} THEN local ELSE endpoint

(* The command ends, system() returns, and main goes on at l. *)
Ends(l) ==
  /\ Alive /\ exec' = Nothing /\ at' = l /\ Effect(exec)
  /\ UNCHANGED <<cmd, signals, conf, pidfile, local, threads, host, test>>

(***************************************************************************)
(* main, up to the set-up of the tunnel.                                   *)
(***************************************************************************)
(* sigrunning: the process named by the pid file is alive.  A foreground   *)
(* client never writes the file.                                           *)
sigrunning == pidfile = "own" /\ Alive

(* No configuration file, no user name or password, or on to the tunnel. *)
Begin ==
  /\ at = "begin" /\ (Goto("exited") \/ Goto("free") \/ Goto("get_tunnel"))
  /\ UNCHANGED <<cmd, signals, conf, pidfile, local, iface, threads, host, test>>

(* get_tunnel: no tunnel, a disabled one, or the tunnel to set up.  Each   *)
(* way out logs out of the TIC server.                                     *)
get_tunnel ==
  /\ at = "get_tunnel"
  /\ \/ Goto("free")
     \/ Goto("exited")                     \* not enabled: returns without freeing
     \/ Goto(IF cmd.mode = "test" THEN "setup"
             ELSE IF cmd.daemonize THEN "daemonize" ELSE "signal")
  /\ UNCHANGED <<cmd, signals, conf, pidfile, local, iface, threads, host, test>>

daemonize ==
  /\ at = "daemonize"
  /\ \/ Goto("signal") /\ pidfile' = "own"
     \/ Goto("exited") /\ UNCHANGED pidfile     \* no fork, or the file cannot be written
  /\ UNCHANGED <<cmd, signals, conf, local, iface, threads, host, test>>

InstallHandlers ==
  /\ at = "signal" /\ Goto("setup") /\ handlers' = TRUE
  /\ UNCHANGED <<cmd, running, makebeats, ignored, told, toggles, conf, pidfile, local, iface,
                 threads, host, test>>

(***************************************************************************)
(* aiccu_setup.                                                            *)
(***************************************************************************)
SetupFails == Goto("free")

aiccu_setup ==
  /\ at = "setup" /\ Goto(IF cmd.type = "ayiya" THEN "tun_start" ELSE "tunnel")
  /\ UNCHANGED <<cmd, signals, conf, pidfile, local, iface, threads, host, test>>

(* Its result is not looked at; it counts as done. *)
LaunchReader == reader' = "reading"

(* The device is opened, or not, and its reader thread started. *)
tun_start ==
  /\ at = "tun_start"
  /\ \/ Goto("connect") /\ LaunchReader
     \/ SetupFails /\ UNCHANGED reader
  /\ UNCHANGED <<cmd, signals, conf, pidfile, local, iface, writer, tunrunning,
                 ayiya_socket, host, test>>

(* ayiya: three addresses resolved, the secret hashed, the socket connected. *)
AyiyaConnect ==
  /\ at = "connect"
  /\ \/ cmd.password /\ Goto("up") /\ ayiya_socket' = TRUE
     \/ SetupFails /\ UNCHANGED ayiya_socket
  /\ UNCHANGED <<cmd, signals, conf, pidfile, local, iface, reader, writer, tunrunning,
                 host, test>>

(* The commands of aiccu_os_setup, in order: an AYIYA tunnel has no end to *)
(* set, and a default route is asked for or not.                           *)
SetupOrder ==
  {<<"tunnel", "up">>, <<"up", "mtu">>, <<"mtu", "alias">>, <<"alias", "route">>,
   <<"alias", "beat">>, <<"route", "beat">>}

(* noconfigure is not looked at. *)
aiccu_os_setup ==
  \E l \in {"up", "mtu", "alias", "route", "beat"} :
    /\ <<exec, l>> \in SetupOrder /\ Ends(l)
    /\ then' = IF l # "beat" THEN then ELSE IF cmd.type = "ayiya" THEN "writer" ELSE "ready"

StartWriter ==
  /\ at = "writer" /\ writer' = TRUE /\ Call("beat", "ready")
  /\ UNCHANGED <<cmd, signals, conf, pidfile, local, iface, reader, tunrunning,
                 ayiya_socket, host, test>>

(* Set up: the test, the beating loop or, for a static tunnel, the end. *)
Ready ==
  /\ at = "ready"
  /\ Goto(IF cmd.mode = "test" THEN "local"
          ELSE IF cmd.type = "static" THEN "unlink" ELSE "loop")
  /\ UNCHANGED <<cmd, signals, conf, pidfile, local, iface, threads, host, test>>

(***************************************************************************)
(* aiccu_beat: heartbeat_beat finds the host's address with a connected    *)
(* socket, moves the tunnel's end there and sends; ayiya_beat sends.       *)
(***************************************************************************)
NoBeat ==
  /\ at = "beat" /\ (~makebeats \/ cmd.type = "static") /\ Goto(then)
  /\ UNCHANGED <<cmd, signals, conf, pidfile, local, iface, threads, host, test>>

ayiya_beat ==
  /\ at = "beat" /\ makebeats /\ cmd.type = "ayiya" /\ Goto(then)
  /\ UNCHANGED <<cmd, signals, conf, pidfile, local, iface, threads, host, test>>

address_changed(a) == local # a

heartbeat_socket ==
  /\ at = "beat" /\ makebeats /\ cmd.type = "heartbeat"
  /\ \/ Goto(then) /\ UNCHANGED local                    \* no socket: no beat this time
     \/ /\ local' = addr
        /\ Goto(IF address_changed(addr) /\ ~cmd.noconfigure THEN "reconfig" ELSE "send")
  /\ UNCHANGED <<cmd, signals, conf, pidfile, iface, threads, host, test>>

aiccu_reconfig == exec = "reconfig" /\ Ends("send") /\ UNCHANGED then

heartbeat_send ==
  /\ at = "send" /\ Goto(then)
  /\ UNCHANGED <<cmd, signals, conf, pidfile, local, iface, threads, host, test>>

(***************************************************************************)
(* The beating loop, the test and the end of main.                         *)
(***************************************************************************)
(* Mutant: a signal leaves the loop for the end of main. *)
SlipLoop ==
  /\ at = "loop"
  /\ IF running THEN Call("beat", "sleep") ELSE Goto("unlink")
  /\ UNCHANGED <<cmd, signals, conf, pidfile, local, iface, threads, host, test>>

Loop ==
  /\ at = "loop"
  /\ IF running THEN Call("beat", "sleep") ELSE Goto("delete")
  /\ UNCHANGED <<cmd, signals, conf, pidfile, local, iface, threads, host, test>>

(* sleep() ends in time or with a signal. *)
Sleep ==
  /\ at = "sleep" /\ Goto("loop")
  /\ UNCHANGED <<cmd, signals, conf, pidfile, local, iface, threads, host, test>>

(* aiccu_os_test: finds the local address, then one test after another,    *)
(* each a command of its own, while the user says that they work.          *)
TestLocal ==
  /\ at = "local" /\ Goto("test")
  /\ local' \in IF cmd.type # "static" THEN {local, addr} ELSE {local}
  /\ UNCHANGED <<cmd, signals, conf, pidfile, iface, threads, host, test>>

aiccu_os_test ==
  /\ exec = "test" /\ exec' = Nothing /\ at = "test" /\ test' = test + 1 /\ UNCHANGED then
  /\ at' \in {"delete"} \cup (IF test' < Tests THEN {"test"} ELSE {})
  /\ UNCHANGED <<cmd, signals, conf, pidfile, local, iface, threads, host>>

Deleted == IF cmd.mode = "test" THEN "free" ELSE "unlink"

aiccu_delete ==
  /\ at = "delete" /\ Goto(IF cmd.noconfigure THEN Deleted ELSE "down")
  /\ UNCHANGED <<cmd, signals, conf, pidfile, local, iface, threads, host, test>>

aiccu_os_delete ==
  /\ exec \in DeleteCommands /\ UNCHANGED then
  /\ Ends(IF exec = "down" /\ cmd.type # "ayiya" THEN "deletetunnel" ELSE Deleted)

Unlink ==
  /\ at = "unlink" /\ Goto("free") /\ pidfile' = "none"
  /\ UNCHANGED <<cmd, signals, conf, local, iface, threads, host, test>>

aiccu_FreeConfig ==
  /\ at = "free" /\ Goto("return") /\ conf' = FALSE
  /\ UNCHANGED <<cmd, signals, pidfile, local, iface, threads, host, test>>

Return ==
  /\ at = "return" /\ Goto("exited")
  /\ UNCHANGED <<cmd, signals, conf, pidfile, local, iface, threads, host, test>>

Main ==
  \/ Begin \/ get_tunnel \/ daemonize \/ InstallHandlers \/ aiccu_setup \/ tun_start
  \/ AyiyaConnect \/ aiccu_exec \/ aiccu_os_setup \/ StartWriter \/ Ready \/ NoBeat \/ ayiya_beat
  \/ heartbeat_socket
  \/ aiccu_reconfig \/ heartbeat_send \/ Loop \/ Sleep \/ TestLocal \/ aiccu_os_test
  \/ aiccu_delete \/ aiccu_os_delete \/ Unlink \/ aiccu_FreeConfig \/ Return

(***************************************************************************)
(* The threads of an AYIYA tunnel.                                         *)
(***************************************************************************)
(* read() fails while the interface is down; then g_aiccu is looked at. *)
ReadError ==
  /\ Alive /\ reader = "reading" /\ ~up /\ ~conf
  /\ at' = "crashed"
  /\ UNCHANGED <<cmd, then, exec, signals, conf, pidfile, local, iface, threads, host, test>>

ReadPacket ==
  /\ Alive /\ reader = "reading" /\ up /\ reader' = "handling"
  /\ UNCHANGED <<cmd, at, then, exec, signals, conf, pidfile, local, iface, writer, tunrunning,
                 ayiya_socket, host, test>>

ayiya_reader ==
  /\ Alive /\ reader = "handling" /\ reader' = "reading"
  /\ at' = IF ayiya_socket THEN at ELSE "crashed"
  /\ UNCHANGED <<cmd, then, exec, signals, conf, pidfile, local, iface, writer, tunrunning,
                 ayiya_socket, host, test>>

(* ayiya_writer starts: tunrunning stays set, as its loop never ends. *)
ayiya_writer ==
  /\ Alive /\ writer /\ ~tunrunning /\ tunrunning' = TRUE
  /\ at' = IF conf THEN at ELSE "crashed"
  /\ UNCHANGED <<cmd, then, exec, signals, conf, pidfile, local, iface, reader, writer,
                 ayiya_socket, host, test>>

Threads == ReadError \/ ReadPacket \/ ayiya_reader \/ ayiya_writer

(***************************************************************************)
(* Signals, the host's address and `aiccu stop'.                           *)
(***************************************************************************)
(* A stop signal reaches the process: the default action kills it before   *)
(* the handler is set, and a client under test never sets it.  The handler *)
(* looks at g_aiccu and has the signal ignored from then on.               *)
Stopped(sig) ==
  /\ Alive /\ told' = TRUE
  /\ \/ ~handlers /\ at' = "killed" /\ UNCHANGED <<running, ignored>>
     \/ handlers /\ sig \in ignored /\ UNCHANGED <<at, running, ignored>>
     \/ /\ handlers /\ sig \notin ignored /\ ignored' = ignored \cup {sig}
        /\ IF conf THEN running' = FALSE /\ UNCHANGED at
           ELSE at' = "crashed" /\ UNCHANGED running
  /\ UNCHANGED <<cmd, then, exec, makebeats, handlers, toggles, conf, pidfile, local, iface,
                 threads, test>>

(* Mutant: the process ignores SIGTERM, too, while a command runs. *)
SlipTerm ==
  /\ UNCHANGED host
  /\ IF exec = Nothing THEN Stopped("TERM")
     ELSE /\ Alive /\ told' = TRUE
          /\ UNCHANGED <<cmd, at, then, exec, running, ignored, makebeats, handlers, toggles,
                         conf, pidfile, local, iface, threads, test>>

sigterm == Stopped("TERM") /\ UNCHANGED host

(* SIGINT, which Maiccu sends to stop its client.  system() ignores it in  *)
(* the process that waits for a command: it is lost, a step that changes   *)
(* nothing.                                                                *)
sigint == exec = Nothing /\ Stopped("INT") /\ UNCHANGED host

(* A signal that the program does not handle: SIGKILL, SIGHUP, SIGQUIT. *)
Killed ==
  /\ Alive /\ at' = "killed"
  /\ UNCHANGED <<cmd, then, exec, signals, conf, pidfile, local, iface, threads, host, test>>

(* The command of a process that is gone ends by itself. *)
Orphan ==
  /\ ~Alive /\ exec # Nothing /\ exec' = Nothing /\ Effect(exec)
  /\ UNCHANGED <<cmd, at, then, signals, conf, pidfile, local, threads, host, test>>

sigusr1 ==
  /\ Alive /\ handlers /\ toggles < MaxToggles
  /\ makebeats' = ~makebeats /\ toggles' = toggles + 1
  /\ at' = IF conf THEN at ELSE "crashed"
  /\ UNCHANGED <<cmd, then, exec, running, handlers, ignored, told, conf, pidfile, local, iface,
                 threads, host, test>>

(* Only a heartbeat tunnel follows the address. *)
Move ==
  /\ Alive /\ cmd.type = "heartbeat" /\ moves < MaxMoves /\ moves' = moves + 1 /\ addr' \in Addrs \ {addr}
  /\ UNCHANGED <<cmd, at, then, exec, signals, conf, pidfile, local, iface, threads, stop,
                 torn, test>>

(* `aiccu stop' signals the process of the pid file, or else takes the     *)
(* tunnel down itself, with the commands of aiccu_os_delete.               *)
StopSignals ==
  /\ stop = "idle" /\ sigrunning /\ stop' = "done" /\ Stopped("TERM")
  /\ UNCHANGED <<addr, moves, torn>>

StopGetsTunnel ==
  /\ stop = "idle" /\ ~sigrunning
  /\ stop' \in {"done"} \cup (IF cmd.noconfigure THEN {} ELSE {"down"})
  /\ UNCHANGED <<cmd, at, then, exec, signals, conf, pidfile, local, iface, threads, addr,
                 moves, torn, test>>

StopDeletes ==
  /\ stop \in DeleteCommands
  /\ stop' = IF stop = "down" /\ cmd.type # "ayiya" THEN "deletetunnel" ELSE "done"
  /\ up' = (stop # "down" /\ up)
  /\ endpoint' = IF stop = "deletetunnel" THEN Unset ELSE endpoint
  /\ torn' = IF stop # "down" THEN torn ELSE IF Alive \/ exec # Nothing THEN "under" ELSE "after"
  /\ UNCHANGED <<cmd, at, then, exec, signals, conf, pidfile, local, threads, addr, moves, test>>

World ==
  \/ sigterm \/ sigint \/ Killed \/ Orphan \/ sigusr1 \/ Move \/ StopSignals \/ StopGetsTunnel \/ StopDeletes

AiccuNext == Main \/ Threads \/ World

(* From the installation of the handlers on, the main thread waits only    *)
(* for the commands it runs, the resolver and the clock.                   *)
Going == handlers /\ Main

AiccuSpec == AiccuInit /\ [][AiccuNext]_aiccuVars /\ WF_aiccuVars(Going)

----------------------------------------------------------------------------
AiccuTypeOK ==
  /\ running \in BOOLEAN /\ makebeats \in BOOLEAN /\ conf \in BOOLEAN /\ handlers \in BOOLEAN
  /\ exec \in Commands \cup {Nothing} /\ ignored \subseteq {"TERM", "INT"} /\ told \in BOOLEAN
  /\ pidfile \in {"none", "stale", "own"} /\ up \in BOOLEAN /\ torn \in {"no", "under", "after"}
  /\ local \in Addrs \cup {Dynamic} /\ endpoint \in Addrs \cup {Unset} /\ addr \in Addrs
  /\ ayiya_socket \in BOOLEAN /\ tunrunning \in BOOLEAN /\ writer \in BOOLEAN
  /\ reader \in {"none", "reading", "handling"} /\ stop \in {"idle", "done"} \cup DeleteCommands
  /\ moves \in 0..MaxMoves /\ toggles \in 0..MaxToggles /\ test \in 0..Tests

(* The reader thread, started by tun_start before ayiya() has connected    *)
(* its socket, never hands ayiya_reader a packet before it has.            *)
ReaderHasSocket == reader = "handling" => ayiya_socket

(* A heartbeat goes out only when the local end of the tunnel is the       *)
(* address the beat was made for, unless nothing is to be configured or a  *)
(* stop command has taken the tunnel away.                                 *)
BeatsFromEndpoint == at = "send" /\ ~cmd.noconfigure /\ torn = "no" => endpoint = local

(* A started client with a beating tunnel leaves the interface down when   *)
(* it ends, be it by an error of the set-up, a signal that it handles, or  *)
(* a crash of one of its threads on the freed configuration.  One that a   *)
(* signal kills outright (SIGKILL, SIGHUP, SIGQUIT, or any before the      *)
(* handlers are set) may leave it up; an `aiccu stop' run when the client  *)
(* and the command it was running are gone takes it down.                  *)
NothingLeftUp ==
  /\ ~Alive /\ (at = "killed" => torn = "after")
  /\ cmd.mode = "start" /\ cmd.type # "static" /\ ~cmd.noconfigure
  => ~up

(* "so that one can stop this program with SIGTERM": a client that is sent *)
(* SIGTERM, whatever it is doing, or SIGINT while it runs no command, ends.*)
StopIsObeyed == told ~> ~Alive
============================================================================
