---------------------------- MODULE AiccuProofs ----------------------------
(***************************************************************************)
(* The safety properties of the aiccu client, for any set of addresses and *)
(* any number of signals and address changes.                              *)
(***************************************************************************)
EXTENDS Aiccu, TLAPS

(* Where the main thread may be while the interface is up. *)
UpAt == {"mtu", "alias", "route", "beat", "writer", "ready", "reconfig", "send", "loop", "sleep",
         "local", "test", "delete", "down"}

(* Where it may be once the handlers must have been installed. *)
Beyond == UpAt \cup {"setup", "tun_start", "connect", "tunnel", "up", "deletetunnel"}

(* The clients NothingLeftUp is about. *)
Beating == cmd.mode = "start" /\ cmd.type # "static" /\ ~cmd.noconfigure

Control ==
  /\ then \in {"none", "writer", "ready", "sleep"}
  /\ at \in {"beat", "reconfig", "send"} => then # "none"
  /\ at \in {"tun_start", "connect"} => cmd.type = "ayiya"
  /\ at = "writer" \/ then = "writer" => cmd.type = "ayiya"
  /\ at \in {"reconfig", "send"} => cmd.type = "heartbeat"
  /\ at = "tunnel" => cmd.type # "ayiya"
  /\ at \in {"local", "test"} => cmd.mode = "test"
  /\ at \in Beyond /\ cmd.mode = "start" => handlers
  /\ at \in Beyond \cup {"begin", "get_tunnel", "daemonize", "signal", "unlink", "free"} => conf

(* The command that system() waits for is the one main is at. *)
Waits ==
  /\ exec # Nothing => at = exec \/ at = "killed"
  /\ exec \in Commands \cup {Nothing}

SocketFirst ==
  /\ reader # "none" => cmd.type = "ayiya"
  /\ cmd.type = "ayiya" /\ (at = "up" \/ exec = "up" \/ up) => ayiya_socket
  /\ reader = "handling" => ayiya_socket

UpOnlyThere == Beating /\ up => at \in UpAt \cup {"killed"}

(* What `aiccu stop' has taken down when nobody was left stays down. *)
Swept ==
  /\ torn = "after" => ~Alive /\ exec = Nothing /\ ~up
  /\ stop = "deletetunnel" => torn # "no"

EndpointFollows ==
  /\ addr \in Addrs
  /\ cmd.type = "heartbeat" /\ ~cmd.noconfigure /\ torn = "no" /\
     at \in {"up", "mtu", "alias", "route", "beat", "ready", "send", "loop", "sleep"} =>
       \/ at # "send" /\ local = Dynamic
       \/ endpoint = local

(* The inductive invariant: where the main thread is decides what it may   *)
(* rely on, also when a signal or a stop command comes in while a command  *)
(* runs, and the reader thread gets packets only after the socket.         *)
AInv == Control /\ Waits /\ SocketFirst /\ UpOnlyThere /\ Swept /\ EndpointFollows

(* The configuration main starts with satisfies the invariant.             *)
LEMMA AiccuStart == AiccuInit => AInv
  BY DEF AiccuInit, Gone, Alive, UpAt, Beyond, Beating, Control, Waits, SocketFirst,
     UpOnlyThere, Swept, Nothing, Commands, DeleteCommands, EndpointFollows, AInv

(* A step of the main thread keeps the invariant. *)
LEMMA MainKeeps == AInv /\ Main => AInv'
<1> SUFFICES ASSUME AInv, Main PROVE AInv'
  OBVIOUS
<1> USE DEF signals, iface, threads, host, Goto, Call, Gone, Alive, Nothing, Commands,
        DeleteCommands, UpAt, Beyond,
        Beating, Control, Waits, SocketFirst, UpOnlyThere, Swept, EndpointFollows, AInv
<1>1. CASE Begin
  BY <1>1 DEF Begin
<1>2. CASE get_tunnel
  BY <1>2 DEF get_tunnel
<1>3. CASE daemonize
  BY <1>3 DEF daemonize
<1>4. CASE InstallHandlers
  BY <1>4 DEF InstallHandlers
<1>5. CASE aiccu_setup
  BY <1>5 DEF aiccu_setup
<1>6. CASE tun_start
  BY <1>6 DEF tun_start, LaunchReader, SetupFails
<1>7. CASE AyiyaConnect
  BY <1>7 DEF AyiyaConnect, SetupFails
<1>8. CASE aiccu_os_setup
  <2>1. PICK l \in {"up", "mtu", "alias", "route", "beat"} : <<exec, l>> \in SetupOrder /\ Ends(l)
    BY <1>8 DEF aiccu_os_setup
  <2>2. then' # "none" \/ l # "beat"
    BY <1>8, <2>1 DEF aiccu_os_setup, Ends
  <2>3. exec \in {"tunnel", "up", "mtu", "alias", "route"} /\ at = exec /\ (l = "up" <=> exec = "tunnel")
    BY <2>1 DEF SetupOrder, Ends
  <2>4. Control'
    BY <1>8, <2>1, <2>2, <2>3 DEF Ends, aiccu_os_setup
  <2>5. Waits' /\ SocketFirst' /\ UpOnlyThere' /\ Swept'
    BY <2>1, <2>3 DEF Ends, Effect
  <2>6. EndpointFollows'
    BY <2>1, <2>3 DEF Ends, Effect
  <2> QED
    BY <2>4, <2>5, <2>6
<1>9. CASE aiccu_exec
  BY <1>9 DEF aiccu_exec
<1>10. CASE TestLocal
  BY <1>10 DEF TestLocal
<1>11. CASE aiccu_os_delete
  BY <1>11 DEF aiccu_os_delete, Deleted, Ends, Effect
<1>12. CASE StartWriter
  BY <1>12 DEF StartWriter
<1>13. CASE Ready
  BY <1>13 DEF Ready
<1>14. CASE NoBeat
  BY <1>14 DEF NoBeat
<1>15. CASE ayiya_beat
  BY <1>15 DEF ayiya_beat
<1>16. CASE heartbeat_socket
  BY <1>16, AiccuAssumption DEF heartbeat_socket, address_changed
<1>17. CASE aiccu_reconfig
  BY <1>17 DEF aiccu_reconfig, Ends, Effect
<1>18. CASE heartbeat_send
  BY <1>18 DEF heartbeat_send
<1>19. CASE Loop
  BY <1>19 DEF Loop
<1>20. CASE Sleep
  BY <1>20 DEF Sleep
<1>21. CASE aiccu_os_test
  BY <1>21 DEF aiccu_os_test
<1>22. CASE aiccu_delete
  BY <1>22 DEF aiccu_delete, Deleted
<1>23. CASE Unlink
  BY <1>23 DEF Unlink
<1>24. CASE aiccu_FreeConfig
  BY <1>24 DEF aiccu_FreeConfig
<1>25. CASE Return
  BY <1>25 DEF Return
<1> QED
  BY <1>1, <1>2, <1>3, <1>4, <1>5, <1>6, <1>7, <1>8, <1>9, <1>10, <1>11, <1>12,
     <1>13, <1>14, <1>15, <1>16, <1>17, <1>18, <1>19, <1>20, <1>21, <1>22, <1>23, <1>24, <1>25 DEF Main

(* So does a step of the reader or the writer thread. *)
LEMMA ThreadsKeep == AInv /\ Threads => AInv'
<1> SUFFICES ASSUME AInv, Threads PROVE AInv'
  OBVIOUS
<1> USE DEF signals, iface, threads, host, Goto, Call, Gone, Alive, Nothing, Commands,
        DeleteCommands, UpAt, Beyond,
        Beating, Control, Waits, SocketFirst, UpOnlyThere, Swept, EndpointFollows, AInv
<1>1. CASE ReadError
  BY <1>1 DEF ReadError
<1>2. CASE ReadPacket
  BY <1>2 DEF ReadPacket
<1>3. CASE ayiya_reader
  BY <1>3 DEF ayiya_reader
<1>4. CASE ayiya_writer
  BY <1>4 DEF ayiya_writer
<1> QED
  BY <1>1, <1>2, <1>3, <1>4 DEF Threads

(* So do signals, a new address of the host and a stop command. *)
LEMMA WorldKeeps == AInv /\ World => AInv'
<1> SUFFICES ASSUME AInv, World PROVE AInv'
  OBVIOUS
<1> USE DEF signals, iface, threads, host, Goto, Call, Gone, Alive, Nothing, Commands,
        DeleteCommands, UpAt, Beyond,
        Beating, Control, Waits, SocketFirst, UpOnlyThere, Swept, EndpointFollows, AInv
<1>1. CASE sigterm
  BY <1>1 DEF sigterm, Stopped
<1>2. CASE sigint
  BY <1>2 DEF sigint, Stopped
<1>3. CASE Killed
  BY <1>3 DEF Killed
<1>4. CASE Orphan
  BY <1>4 DEF Orphan, Effect
<1>5. CASE sigusr1
  BY <1>5 DEF sigusr1
<1>6. CASE Move
  BY <1>6 DEF Move
<1>7. CASE StopSignals
  BY <1>7 DEF StopSignals, Stopped
<1>8. CASE StopGetsTunnel
  BY <1>8 DEF StopGetsTunnel
<1>9. CASE StopDeletes
  <2>1. (up' => up) /\ (torn' = "no" => torn = "no" /\ stop = "deletetunnel")
    BY <1>9 DEF StopDeletes
  <2>2. torn' # "no"
    BY <1>9, <2>1
  <2>3. Control' /\ Waits' /\ SocketFirst'
    BY <1>9, <2>1 DEF StopDeletes
  <2>4. UpOnlyThere' /\ EndpointFollows'
    BY <1>9, <2>1, <2>2 DEF StopDeletes
  <2>5. Swept'
    <3>1. CASE stop = "down"
      BY <1>9, <2>2, <3>1 DEF StopDeletes
    <3>2. CASE stop = "deletetunnel"
      BY <1>9, <2>2, <3>2 DEF StopDeletes
    <3> QED
      BY <1>9, <3>1, <3>2 DEF StopDeletes
  <2> QED
    BY <2>3, <2>4, <2>5
<1> QED
  BY <1>1, <1>2, <1>3, <1>4, <1>5, <1>6, <1>7, <1>8, <1>9 DEF World

(* The invariant holds in every state of every behaviour of the client.    *)
THEOREM AiccuInvariant == AiccuSpec => []AInv
<1>1. AInv /\ UNCHANGED aiccuVars => AInv'
  BY DEF aiccuVars, Gone, Alive, UpAt, Beyond, Beating, Control, Waits, SocketFirst,
     UpOnlyThere, Swept, Nothing, Commands, DeleteCommands, EndpointFollows, AInv
<1>2. AInv /\ [AiccuNext]_aiccuVars => AInv'
  BY <1>1, MainKeeps, ThreadsKeep, WorldKeeps DEF AiccuNext
<1> QED
  BY AiccuStart, <1>2, PTL DEF AiccuSpec

(* tun_reader is started before ayiya() connects, yet ayiya_reader never   *)
(* sends through a socket that is not there.                               *)
THEOREM ReaderSafe == AiccuSpec => []ReaderHasSocket
<1>1. AInv => ReaderHasSocket
  BY DEF ReaderHasSocket, SocketFirst, AInv
<1> QED
  BY AiccuInvariant, <1>1, PTL

(* heartbeat_beat sends from the address the tunnel was last configured    *)
(* with, whatever the host's address does in between.                      *)
THEOREM BeatsSafe == AiccuSpec => []BeatsFromEndpoint
<1>1. AInv => BeatsFromEndpoint
  BY DEF BeatsFromEndpoint, Control, EndpointFollows, AInv
<1> QED
  BY AiccuInvariant, <1>1, PTL

(* A beating `aiccu start' that ends by an error, a handled signal or a    *)
(* crash has taken its interface down, wherever the signal found it; one   *)
(* that is killed leaves at most what a later `aiccu stop' takes down.     *)
THEOREM NothingLeft == AiccuSpec => []NothingLeftUp
<1>1. AInv => NothingLeftUp
  BY DEF NothingLeftUp, Gone, Alive, UpAt, Beating, UpOnlyThere, Swept, AInv
<1> QED
  BY AiccuInvariant, <1>1, PTL
=============================================================================
