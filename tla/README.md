# Verification of the Maiccu sources

Maiccu is a small OS X application that gives a machine behind an IPv4 network
an IPv6 connection.  It bundles the clients of three tunnel services and the
kernel extension they need, and starts and stops them from a menu.  This
directory holds TLA+ models of those programs, the TLC configurations that check
them on small instances, and theorems about them that TLAPS proves for every
instance.

## The system

| part | sources | what it does |
|---|---|---|
| miredo | `miredo/libteredo`, `libtun6`, `src` | Teredo client, relay and server.  Threads: the receivers (`teredo_run_inner`), the maintenance thread, the collector of the peer list, local discovery, and whoever calls `teredo_transmit`.  Processes: the supervising daemon, its child, and the privileged helper that runs the hook script. |
| gogoCLIENT | `gogoc/gogoc-tsp`, `gogoc-config`, `gogoc-messaging`, `gogoc-pal` | Tunnel Setup Protocol client.  `tspMain` chooses a broker and a transport, `tspSetupTunnel` negotiates and configures the host, a tunnel loop with a keepalive thread runs until something ends it; a messaging library reports to a GUI. |
| aiccu | `aiccu` | Client of the SixXS service: TIC dialogue, then a heartbeat or an AYIYA tunnel. |
| tuntap | `tuntap/src` | Kernel extension with the `tun` and `tap` devices. |
| Maiccu | `maiccu`, `messager` | The application: one adapter per client program, run as a child process. |

The programs share nothing but the host's interfaces and routes, and the
application's pipe to its child, so most modules stand alone.  Where two parts
of one program interact the interaction is modelled:

* the peer list and the threads that use it (`PeerList`, `PeerLinks`), and what
  those threads do to one peer of it (`RelayPeer`);
* two clients, their NATs, their server and the network (`HolePunch`); one
  client, its NAT, the server, a relay and IPv6 nodes (`Qualification`);
* the maintenance procedure and the receivers that hand it packets
  (`Maintenance`), and all the threads of a tunnel with their locks
  (`TeredoTunnel`);
* the processes of the miredo daemon with those threads inside
  (`MiredoDaemon`), several daemons that start at once (`MiredoStart`), the
  daemon, its child and `miredo-checkconf` on one configuration file
  (`MiredoConf`), the children and helpers that hold one device (`Tun6`);
* `tspMain` and the outcomes of a session (`TspMain`); the session, the broker
  and the host (`TspSession`, and on Linux `TspScript`); the tunnel loop, the
  keepalive thread and the stop signal (`KeepAlive`); the echo engine inside
  that thread (`EchoEngine`);
* gogoc and its GUI, with four threads on each side of a pipe (`Messaging`);
* the kernel's threads, the programs and the unloading of the extension on one
  device (`TunTap`), and the protocols attached to its interface (`TunTapProto`);
* the application, its child process, the configuration file it writes and the
  client that reads the file back (`MaiccuApp` over `GogocConfig`), and the two
  threads that post notifications (`Notifier`);
* the successive TIC sessions of one process, which share a line buffer
  (`Tic`); the threads of aiccu, its signals and a second aiccu that stops the
  first (`Aiccu`).

## Modules

| module | code | state and actions |
|---|---|---|
| `PeerListBase` | `peerlist.c` | The constants that the next two share. |
| `PeerList` | `peerlist.c` | The abstract list: two sets of items (`recent`, `old`), the tree `root`, the free-slot counter `left`, the mutex and the heap.  One action per critical section: lookup with its four outcomes, release, the collector's sweep, reset, destruction; freeing happens outside the lock and is a step of its own. |
| `PeerLinks` | `peerlist.c` | The same functions with the `next` and `pprev` pointers, every assignment included.  `ListsAreSets` states that it implements `PeerList` under the mapping that reads the two sets off the links. |
| `Relay` | `relay.c`, `peerlist.c`, `peerlist.h` | Operators on one `teredo_peer`: trust, validity, the counters of pings and bubbles, the packet queue.  A date is kept as the time since, and a thread's clock may lag because it is read before the lock. |
| `RelayPeer` | `relay.c` | `teredo_transmit` and `teredo_run_inner` of one client on one peer, one step per critical section, with what the code does outside of it as steps of their own. |
| `HolePunch` | `relay.c`, `server.c` | Two clients behind restricted, cone or symmetric NATs whose mappings expire, and a network that loses and delays. |
| `Qualification` | `server.c`, `packets.c`, `teredo.c`, `security.c` | The server's two threads with every rule of `teredo_process_packet`, its creation, start and stop; solicitations, advertisements, pings and bubbles, inverted addresses, and the hashes that tie answers to questions. |
| `Maintenance` | `maintain.c` | The client state machine (resolve, solicit, wait for the reply, wait for the next refresh) and `teredo_maintenance_process`, which publishes a packet in `incoming` and waits until it has been looked at. |
| `TeredoTunnel` | `relay.c`, `discovery.c`, `iothread.c` | `state_lock`, the list mutex, the maintenance mutexes, thread cancellation and joins, the reference counter of the discovery object; the state callback, two receivers, a transmitter, `teredo_destroy`. |
| `MiredoDaemon` | `miredo.c`, `relayd.c`, `privproc.c`, `client-hook.iproute` | The `sigwait` loop, the child from its configuration to its end, the threads of its tunnel, the helper of each child with the socket between them, the policy rules of the hook script; signals, kills and failures at any moment. |
| `MiredoStart` | `main.c` | Several instances of `miredo_main`: launcher, pipe, privileges, the process-ID file with its lock, detaching, the end, kills. |
| `MiredoConf` | `conf.c`, `miredo.c`, `relayd.c`, `checkconf.c` | The linked list of settings with its tail pointer; reading, taking and clearing by three processes while the file is edited. |
| `Tun6` | `tun6.c`, `relayd.c` | The device with its descriptors, addresses and routes, for a relay and for a client with its helper, over several children. |
| `TspMain` | `tsp_client.c` | The two nested loops of `tspMain`: server, transport, version, broker list, last server file, delays, restarts of the program.  A session is reduced to its status. |
| `BrokerRedirect` | `tsp_redirect.c`, `net_echo_request.c` | Construction of the broker list from the server's answer, one thread per broker, the insertion sort, and the broker list file. |
| `EchoEngine` | `icmp_echo_engine.c` | `IEE_process` with its event list as pointers, `select`, the wall clock, lost, late, repeated and overtaking replies, and `IEE_stop` from another thread. |
| `KeepAlive` | `net_ka.c`, `tsp_tun_mgt.c`, `darwin/tsp_tun.c` | Start, stop, join and destruction of the keepalive thread against the tunnel loop. |
| `Rudp` | `net_rudp.c`, `net_rudp6.c` | Connection set-up with the cached address, and the send and receive loop with retries, back-off and sequence numbers. |
| `TspSession` | `tsp_client.c`, `tsp_auth*.c`, `tsp_cap.c`, `tsp_net.c`, `darwin/tsp_local.c`, `darwin/tsp_setup.c` | One session after another: connect, version, capabilities, the three authentications with the key file, the offer, the configuration of the host command by command, the tunnel, the teardown, and a kill at any moment. |
| `TspScript` | `linux/tsp_local.c`, `tsp_setup.c`, `template/linux.sh` | The same end of a session on Linux: a child that runs the template script, the environment it gets, every command of the script and its failure. |
| `Messages`, `Messaging` | `gogoc-messaging` | `Messages` has the serialisers and parsers as operators on cells.  `Messaging` has the send queue with its semaphore, the manager, sender and receiver threads of both sides, the packets and the pipe, and processes that end and come back. |
| `TunTap` | `tuntap.cc`, `lock.cc`, `mem.cc` of `tuntap/src` | The device's mutex, the gate that counts the threads inside, the packet queue, blocking reads, `select`, the interface's output and asynchronous detachment, and the extension's shutdown. |
| `TunTapProto` | `tun/tun.cc`, `tap/tap.cc`, `tun/tun_inet_proto.c` of `tuntap/src` | The table `attached_protos` with its additions, refusals and removals, its loop in `shutdown_interface()`, the header that `TUNSIFHEAD` switches in two unlocked writes, and `if_demux()` of written packets.  The kernel's attaching and detaching is external. |
| `GogocConfig` | `gogoc-config`, `tsp_client.c` | Every field: what it accepts, its default; the rules between fields; saving, loading and the translation into `tConf`.  Operators only. |
| `MaiccuApp` | `maiccu` | The menu, the adapters with their child process, termination notes, the settings, `gogoc.conf` and the object that gogoc reports to; an administrator who edits the file. |
| `Notifier` | `TKZMaiccu.m` | `postNotification` from two threads and its timer. |
| `Tic` | `tic.c`, `common.c`, `TKZAiccuAdapter.m` | Login with its three authentications, the list of tunnels, one tunnel, logout, and the line reader with its global buffer; the server's lines arrive in any grouping, in part, or not at all. |
| `Aiccu` | `aiccu_main.c`, `tun.c`, `ayiya.c`, `heartbeat.c`, `aiccu_darwin.c` | `aiccu start`, `test` and `stop`: set-up, beats, signals, the reader and writer threads, the pid file, the teardown. |
| `MC...` | | The instances that TLC checks: values of the constants, and which of several independent specifications moves. |
| `...Proofs` | | Inductive invariants, lemmas and theorems about the module named. |

Data is abstracted to what the code tells apart.  A packet of `Maintenance` is
a kind and whether it carries the current nonce.  A key, an address or a broker
is a model value.  A broker's answer is one of the cases the client
distinguishes.  The control is kept whole: every early return, every error path
and the order of the steps.

Code outside the repository is modelled from its use and marked external in
`PROJECT.json`: the broker, the TIC server, the network, NATs, the commands run
by the configuration steps, `select`, the kernel around the devices, and the
heap (`free` gives an address back to `malloc`, so a dangling pointer may point
to a live block again).

Where the code differs between systems the OS X variant is modelled, with three
exceptions.  `Messaging` follows Windows, the only platform on which that
library's pipes and semaphores are complete; `Tun6` and `TspScript` follow
Linux, whose code for devices and set-up differs most from what `TspSession`
covers.

## Runs

`tlc -config X.cfg MODULE`; every bound is a constant of the `.cfg`.  Six runs
hold several independent specifications: the variable `part` of the MC module,
chosen by `Init`, says which of them moves, and the others keep their initial
state.

| run | what is checked | why the bounds suffice |
|---|---|---|
| `peers` (`MCPeerLinks`) | `ListsAreSets`: the links implement the abstract list, its fairness included.  `IdlePeerFreed`: a peer nobody asks for is freed. | Three items are first, middle and last of a list; two threads and the collector meet in every order. |
| `maintenance` | `IncomingAlive`: the packet pointer never dangles.  `CallersReturn`: a thread that hands a packet over is released. | Two callers compete for `outer`; two addresses make a change visible; with two retries there is a first, a last and a reset count. |
| `tunnel` | `GrabKeepsAlive`, `PeerAlive`: a grabbed discovery object and a peer in use are alive.  `ReceiversReturn`: without local discovery each received packet is completed. | One receiver of each kind, one transmitter, one state change at a time and one destroyer: the code has no more threads.  Two heap blocks let an object be replaced. |
| `punch` (`HolePunch`) | `TrustedIsReachable`: as long as a peer counts as trusted and valid, the other NAT passes what is sent to it without a bubble.  `PunchSucceeds`: bubbles are never given up for good. | Mappings are kept for two seconds and datagrams delayed by one, so that both expire before, at and after one another; two tries have a first and a last. |
| `tspmain` (`TspMain`, `BrokerRedirect`) | `ServersAreTried`: when connections keep failing every server gets a turn.  `SortedByDistance`: the list that is followed is ordered whatever order the distance threads end in, unless a thread of an abandoned list wrote into it. | Two brokers besides the original make the first, the next and the end of the list, with one broker more than the shortened maximum in a redirection, and one thread that outlives its list.  The limit of the delay is reached, and the 8-bit retry counter, shortened to 8 values, wraps. |
| `keepalive` (`KeepAlive`, `EchoEngine`) | `LoopReturns`: a stop and a failure end the tunnel loop.  `DeadTunnelDetected`: silence is found in time while the clock is steady. | The flags of `KeepAlive` are finite.  Four requests put three events in the list, which is what overtaking needs. |
| `session` (`TspSession`, `MiredoDaemon`) | `HostRestored`: after a session the host is as before.  `SessionEnds`: only a broker that is silent over TCP, or a question put to the user, holds a session up before the tunnel is used.  `NothingOutlives`: no helper or interface outlives its child, `RulesFreed`: nor does a policy rule.  `TunnelEnds`: a request to stop is obeyed, and no child goes on without its helper. | Two keys tell a known broker from another; one failed command or kill per behaviour reaches every partial configuration.  Two children let a helper meet the next life; three events are a reload, a change of address and a kill. |
| `tuntap` (`TunTap`, `RelayPeer`) | `InterfaceAlive`: no device is deleted under a caller.  `OwnPackets`: a session reads no packet of an earlier one.  `SelectorNotified`: a `select` that waits is told of a packet.  `PeerConsistent`: no field of a peer is used before one of the three paths that create it has set it.  `PassedIsProven`: what reaches the kernel came from a mapping that answered a ping. | Two threads of each kind meet at the lock; a queue of two is empty, partly filled and full.  Users and stack threads are symmetric; only invariants are checked there.  Two receivers and a sender are all that touch a peer; a lag of one second is enough to act on a clock older than an entry. |
| `programs` (`MaiccuApp` with `GogocConfig`, `Notifier`, `Tic`, `Aiccu`) | `TitleClears`: the menu does not offer Stop for a client that has ended, unless a launch raised.  `ConfAsSet`: what the client reads is what the user set, also when the writing of the file failed on the way.  `AllShown`: no notification waits for ever.  `LoginInStep`: a login succeeds only in step with the server's lines.  `NothingLeftUp`: an aiccu that ends by an error, a handled signal or a crash has taken its interface down; one killed outright leaves what a later `aiccu stop` takes down.  `StopIsObeyed`: a client ends that is sent SIGTERM, or SIGINT while it runs no command. | Two starts and a change of settings between them; two edits reach every rule that relates two fields; a burst of two with four posts goes below, at and past it.  The line buffer holds four lines, fewer than a server can send at once; six connections give a session two predecessors; two addresses moved twice return to the first. |
| `parts` | Eight specifications, safety only.  `Rudp`: `WaitIsBounded` (late answers do not keep a request from being repeated).  `Messaging`: `ReceivedAsSent` (what a handler gets the other side sent) and `NoStandOff` (the two sides never block each other).  `Qualification`: `AddressIsMapping`, `ProofIsGenuine` (an address and a proof belong to the mapping they came from).  `MiredoConf`: `NoStraySetting`, `CheckedStarts`.  `MiredoStart`: `PidIsOwners`.  `Tun6`: `DeviceIsFree`.  `TspScript`: `NothingLeftBehind`.  `TunTapProto`: `DeliveredToOwn` (a written packet reaches, without header, a protocol that is attached and asked for it). | Two connections of up to three exchanges, so that the late answers of two earlier ones arrive.  Messages of one and of several packets, a pipe that holds the longest, two posts of each side, or two posts and the end of a process.  Two solicitations and two mappings, so that an advertisement may answer the earlier.  Files of two lines cover every rule that relates two settings.  Three instances, so that one may end while two start.  Three children on the device.  One failing command or kill per behaviour.  A table of three entries and four protocols with one or two types each, so that the table is full, and a protocol is refused after its first type was stored. |

Two runs expect a violation.  They show that the code departs from what its own
comments say.

| run | what it shows |
|---|---|
| `tunnel_stop` | `teredo_state_change` waits for the discovery receiver with `state_lock` held, while that receiver waits for `state_lock`. |
| `tic_login` | A login that cannot reach the TIC server is reported as completed. |

### Fairness

Weak fairness is assumed of the steps of each thread and process of the
program: what can run is scheduled.  Strong fairness is assumed only for
acquiring a mutex that others keep taking and releasing (`LockOuter`, `Publish`
and `Woken` of `Maintenance`, the threads of `TeredoTunnel`, the collector's
`Sweep`).  POSIX does not promise it, but the implementations queue waiters and
the critical sections are short.  Nothing is assumed of the network, of users or
of administrators, with these exceptions:

* in `TspSession` a broker that has not fallen silent answers
  (`WF_vars(Answered)`).  It may fall silent at any exchange: over RUDP the client
  then gives up by itself, over TCP it waits in `recv()` without a timeout, which
  `SessionEnds` excepts.  In `EchoEngine` time advances;
* `PunchFairness`: the application of one client keeps sending (`Transmit`) and
  time passes (`Second`); strong fairness of `Forward`, `ReplyBubble`,
  `ReceiveReply` and `ReceiveData` says that a network which is given a kind of
  datagram again and again does not lose all of them.  It may lose any finite
  number, and nothing is assumed of the other direction's traffic.

In `KeepAlive` the constant `StartPrompt` says that `KA_start` goes on within one
send interval of creating the thread; without it `LoopReturns` does not hold
(`net_ka.c:174` below).

`CHECK_DEADLOCK FALSE` appears where the program may stop: a destroyed tunnel,
an unloaded extension, a quit application, programs that have ended or used up
a bound, and the two runs that expect a violation.

## What is proved

`tlapm M.tla` checks a module's proofs.  The theorems hold for every value of
the constants that satisfies the named assumptions; most of these only say that
the sentinel `NULL` is not a member of the other sets.  In each module the three
facts are that `Init` implies the inductive invariant, that every action keeps
it, and that it implies the property.

**`PeerListProofs`** (finite `Items`, `Max \in Nat`).  `ListConsistent`: tree,
lists and heap hold the same peers.  `Capacity`: free slots and listed peers add
up to `Max`.  `HeldPeer`: the peer a thread holds is listed and not freed.
`NothingLeft`: destruction frees everything.  `MinimumDelay`: a peer goes only
after the collector has passed over it once.  The invariant adds who may hold
the mutex (`LockInv`), what `left` is during destruction (`LeftInv`), and that
the `old` list has been swept once and nobody but the collector has memory to
free after its cancellation (`AgeInv`); without these the sweep and the
destruction do not keep the consistency.  The run `peers` carries these
theorems over to the links.

**`MaintenanceProofs`** (`Retries > 0`).  `IncomingSafe`, `StateTold` and the
action property `LossNeedsRetries`.  `OwnerInv` ties the mutex `outer` to the
one caller whose packet may be published; `count <= silent` is what makes the
loss of connectivity imply that many silent solicitations.

**`MiredoDaemonProofs`** (`Lives` a set of positive numbers).  `DaemonSafe`:
`NothingOutlives`.  `DaemonFrees`: `RulesFreed`.  `DaemonInv` says who may be
there at each place of parent and child; its core is that a helper which runs,
and was neither killed nor abandoned, is that of the child, which is a client
and waits for it before it exits.  The rules need two more: `ServedInv`, that
interface, socket and maintenance thread last as long as the child needs them
and a life begins with nothing in flight, and `HeldInv`, that settings and
answers alternate between the maintenance thread and the helper, so that the
one rule in place is that of `OLD_ADDRESS` before the hook runs and that of
`ADDRESS` after it.

**`MiredoStartProofs`** (any number of instances and inodes).  `PidSafe`:
`PidIsOwners`.  The invariant adds that whoever is past `lockf` has an inode open
and is the one who holds its lock; that the text is written and the lock given
up only by its holder then keeps the text.

**`KeepAliveProofs`** (under `~HasLease`; with a lease the property is false,
see `tsp_tun_mgt.c:150` below).  `ThreadSafe`: no freed engine is used.
`TimeoutReported`: a timeout is reported as one.  `Phases` relates the two
program counters, so that `KA_destroy` is reached only past a join; `Joins`
counts the joins and `Results` relates the three status words.

**`TspSessionProofs`**.  `SocketSafe`: no session ends with an open socket.
`KeySafe`: the password is sent only while the key shown is the stored one.
`SocketInv` and `KeyInv` say at which steps the socket is open and the key fixed.

**`TunTapProofs`** (finite `Users`).  `DeviceSafe`: no device is deleted with a
thread inside and the ticket number equals the gate's population.
`SessionPackets`: the queue holds packets of the current session only.
`GateInv` states that the population is the cardinality of the set of threads
behind the gate, `CloseInv` that whoever closes holds the lock until the
interface is gone, `DeviceInv` that a detached interface has no output in
progress when the kernel waits for it.

**`AiccuProofs`** (the wildcard address is not an address of the host).
`ReaderSafe`, `BeatsSafe` and `NothingLeft` from the invariant `AInv`: where the
main thread is (`Control`), that the socket exists before a thread is started
(`SocketFirst`), that the interface is up only between set-up and teardown
(`UpOnlyThere`), that the command being waited for is the one main is at
(`Waits`), that what a stop command has taken down after the end stays down
(`Swept`) and that the address of the beats is the endpoint (`EndpointFollows`).

Proved and not among the properties of a run: `StateTold`, `LossNeedsRetries`,
the theorems of `KeepAliveProofs` and `TspSessionProofs`, `ReaderSafe` and
`BeatsSafe`.

Only model-checked: every liveness property (no backend for fairness), the
refinement from `PeerLinks` to `PeerList` (it includes liveness, and following
the links is recursive), the sortedness of the broker list, the messages read
back and the other results of recursive definitions, and the properties of
`TeredoTunnel`, `RelayPeer`, `HolePunch`, `Qualification`, `MiredoConf`, `Tun6`,
`TspMain`, `TspScript`, `Messaging`, `Rudp`, `EchoEngine`, `MaiccuApp`,
`GogocConfig`, `Notifier` and `Tic`.

## Where the code and its words part

Besides the two runs above, translating the code turned up the following.  The
models behave as the code does, and the properties are stated so that they hold
of it; none of these has a run of its own.

*libteredo.*
- `relay.c:1082`: `teredo_destroy` stops the maintenance thread before the
  receivers; a receiver that hands over an advertisement afterwards waits for
  ever (`tunnel.h:116` "always succeeds") or uses the freed object (`relay.c:678`).
- `relay.c:523`: the discovery object is released also when nothing was grabbed;
  `discovery.c:267`: its counter is a plain `int` changed without a lock.
- `maintain.c:309`: the MTU of a rejected advertisement is kept.
- `relay.c:248`: the clock is read before the list is locked, so that a peer's
  dates may lie in the future of the thread that compares them; `801`:
  `CountBubble` follows a discovery bubble without the lock; the mapping of a
  peer is read after its release; the second lookups at `783` and `896` ignore
  whether the peer was created; `teredo_send_unreach` calls the callback even
  when `BuildICMPv6Error` built nothing.
- `teredo.h:107`: `is_valid_teredo_prefix` masks the first byte of a big-endian
  number, but the prefix is in network order.  `security.c:93`: a short read of
  the key counts backwards (`len -= val`).  `server.c`: `SendRA` copies the nonce
  of a packet without an authentication header; `raw_users` is not decreased
  when `teredo_server_create` fails.

*miredo.*
- The shutdown that `miredo(8)` promises ("SIGINT, SIGTERM Shutdown the
  daemon.") may hang: the maintenance thread is cancelled in `configure_tunnel`
  with `state_lock` held and the receiver waits for it (`relay.c:661`, against
  the comment at `relay.c:1077`).  `TunnelEnds` therefore excepts a life in which
  a hook was abandoned.
- `privproc.c:191`: the loop ends before the `OLD_` variables are set (`194`)
  when the answer cannot be sent, so that the rule of an abandoned hook stays;
  `RulesFreed` excepts it.
- A child killed by a signal while an exit is requested is started again; a
  reload whose child exits with an error, and a `fork` that fails, end the
  daemon.  A failing script is tolerated.
- `relayd.c:215`: "forced" local discovery sets `forced` to false.
  `checkconf.c:113`: `pref` has no value when the directive is absent, and
  LocalDiscovery, DiscoveryInterfaces and DiscoveryNetmask are never taken, so
  that a file with them is called superfluous although `miredo.conf(5)` has them.
  `miredo_conf_get` leaves `conf->tail` at the setting it frees.
- `main.c` unlinks the process-ID file before it closes it and does not compare
  inodes, so that two daemons can run, each with a file of its own.
- `tun6.c:178`: a name that is too long leaves a descriptor open.  The BSD device
  stays after a kill (`relayd.c:425` says so).

*gogoCLIENT, connection loop and session.*
- `tsp_client.c:1030`: after a redirection and an error that leaves the inner
  loop, the broker list is never tried again (`1382` says it is).
- `tsp_client.c:1438`: in mode V6UDPV4 the list is read, dropped and the original
  server retried at once.
- `tsp_client.c:1409`: the delay is not doubled after failed connections (`1729`);
  `1031`: the retry counter wraps after 255 failures and skips a delay (`1728`).
- `tsp_client.c:239`: the source address of the first session is reused by the
  next, although the host may have moved.
- `tsp_client.c:620`: `pal_free` of the static `delegatedPrefix`; `623` and
  `tsp_local.c:252`: a V6UDPV4 socket is closed twice.
- `darwin/tsp_setup.c:358`: failures of the configuration commands are ignored;
  the `sysctl` settings are not restored; after a kill the tunnel's route is
  taken for the original gateway.
- An early `goto error` in `AuthPASSDSS_3DES_1` releases buffers that were not
  initialised; `add_dsakey_to_keyfile` stores a key before its signature is
  verified, and keeps its buffer when it ends early.

*gogoCLIENT, scripts on Linux.*
- `tsp_setup.c:247`: `TSP_PREFIX` and `TSP_PREFIXLEN` stay in the environment
  from an earlier session when the new tunnel has no prefix.
- `linux.sh` deletes the host's own default route and nothing restores it, even
  after a set-up that failed early; forwarding stays on; line 167 is a comment
  without its `#`.  A killed child leaves its script running beside the teardown.

*gogoCLIENT, brokers and transport.*
- `net_echo_request.c:379`: a broker that answers with an error keeps its
  round-trip time as distance (`514` puts it last); `180`: when a thread cannot
  be created the list is freed under the others, which may write into the next.
- `tsp_redirect.c:553`: the file loses the brackets of an IPv6 address.
- `net_rudp.c:57`: the cached address survives a failed connect (`455`); `253`:
  the remaining wait counts whole seconds only (`247`).

*gogoCLIENT, keepalive.*
- `tsp_tun_mgt.c:150`: when the lease expires the engine is freed under its
  thread; `net_ka.c:174`: `KA_start` overwrites the status of a thread that has
  already failed; `icmp_echo_engine.c:399`: a stop may be reported as an error.
- `icmp_echo_engine.c:858`: a signal counts as a timeout; `738`: a repeated reply
  decrements `count_late`; `1152`: an event inserted after the clock was set back
  closes a cycle; `1258`: in ACD mode the last reply counts as late.

*gogoCLIENT, messaging.*
- `clientmsgtranslator.cc:289`: the distance of every broker but the first is
  read at an offset added twice; `ReceivedAsSent` says nothing of them.
- `messagesender.cc:84`: the queue is a plain `std::queue` for two threads, and
  a reset between the test and the push leaves a semaphore count without a
  message, on which the sender's assertion ends the process.
- A manager that announces itself overwrites a DISCONNECTED set by its
  receiver; a worker terminated after 200 ms keeps the IO mutex; a time-out of
  15 s is taken for "no data"; a broker list may be reported as present and be
  NULL, which the sender asserts it is not.

*tuntap.*
- `tuntap.cc:805`: when the queue is full in the middle of a list of packets the
  function returns before the wakeup at `817`, so that the packets already
  queued are announced only with the next ones.
- `lock.cc:156`: the ticket number goes down again on `exit`, so that it equals
  the population and cannot tell "whether more threads came through"
  (`lock.h:88`).
- `block_io` survives a close; a wakeup between unlock and `msleep`
  (`tuntap.cc:569`) is lost.
- `if_add_proto` takes no lock: a protocol attached behind the loop of
  `shutdown_interface` (`tap.cc:178`) keeps its entry into the next session, if
  the kernel attaches to an interface that is being closed.  `DeliveredToOwn` is
  claimed for a kernel that does not.

*Application and configuration.*
- `auto_retry_connect` is not validated on load; `dslite` is accepted and then
  meets `assert( false ); // Should never reach here.`; a prefix length of 65600
  passes as 64; a blank password is saved but refused on load.
- `namevalueparser.cc:283`: the stream is closed and `true` returned without a
  look at its state, so that a client may be started from a part of the file.
- `genericAdapter.m:56`: the observers of the previous task are removed before
  `launch` (`68`), which may raise: the notice of its end is then lost and the menu
  item stays at Stop; `TitleClears` excepts it.
- `TKZMaiccu.m:107` "Show first 5 notifications immegiatly and separately": two
  threads may put two messages into one.

*aiccu.*
- `tun_start` gives up after `tun0` (its comment says all devices are tried);
  the reader thread outlives `g_aiccu` (`tun.c:858`); a client in the foreground
  writes no pid file, so that `aiccu stop` deletes the tunnel under it; `test`
  installs no signal handler; a failed set-up leaves the pid file.
- `aiccu.c:361`: `system()` has the caller ignore SIGINT while a command runs, and
  SIGINT is what Maiccu sends (`genericAdapter.m:79`): a stop that meets a command
  of the set-up, of a reconfiguration or of the teardown is lost.  SIGHUP, SIGQUIT
  and SIGKILL keep their default action and leave the interface up.
- `common.c:256`: the -1 of `recv` goes into an unsigned length, `filled` wraps and
  the next search for a newline leaves the buffer; `Tic` ends the process there.

## Not modelled

`PROJECT.json` lists each part with its reason.

* Text and digests: XML, HTML and Base64, `aiccu.conf`, MD5, SHA-1 and the
  checksums.  They compute a value from octets and keep no state; the modules
  have the outcomes the callers distinguish.
* Straight input and output: the copying of packets between device and socket,
  the checks of a received AYIYA packet, log files, the bandwidth display, the
  teredo-mire responder, the messager.
* Other platforms of gogoCLIENT, aiccu and `libtun6`, which differ in the
  commands and requests they use; the platform layer `gogoc-pal`, modelled by
  what its functions do where a module uses them; HOME ACCESS, which is not
  built; `deque.c`, which only the Windows keepalive could use.
* The Growl framework, build support, installers and the functional tests.
* In the parts that are modelled: relays that are not clients (same paths
  without pings), the options of `miredo-server`, output framing, BPF taps,
  multicast lists and the address fix of tuntap, the login sheet and the launch agent of
  Maiccu, and the POP and route requests of TIC.
