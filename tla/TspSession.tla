----------------------------- MODULE TspSession -----------------------------
(***************************************************************************)
(* One TSP session of the gogoCLIENT on darwin, from tspSetupTunnel down:  *)
(* connect to the broker, ask for its capabilities, authenticate, ask for  *)
(* a tunnel, acknowledge it, configure the host, run the tunnel, and undo  *)
(* the configuration.  Sessions follow one another in one process, which   *)
(* may also be killed and started again.                                   *)
(*                                                                         *)
(* The broker is external: at every exchange any answer, an I/O error or a *)
(* closed connection may come, and at any time the broker may fall silent. *)
(* The host's network is a record that the commands run by execCmd change; *)
(* a command may fail, which the code does not look at.  Commands without  *)
(* an effect on that record (mtu, the delegated prefix' interface route)   *)
(* are left out.                                                           *)
(***************************************************************************)
EXTENDS Naturals, Sequences

CONSTANTS Addrs,      \* IPv4 addresses the host has at one time or another
          Keys,       \* DSA keys a broker may present
          NULL,
          MaxFaults   \* bound on failing commands and kills

ASSUME TspSessionAssumption == NULL \notin Addrs /\ NULL \notin Keys /\ MaxFaults \in Nat

VARIABLES
    pc,         \* where tspSetupTunnel is
    conf,       \* gogoc.conf: auth_method, host_type
    client_v4,  \* conf->client_v4: "auto" until tspUpdateSourceAddr fills it in
    transport,  \* conf->transport
    sock,       \* the session's socket: "none", "open", "closed"
    stray,      \* the tunnel type of a session that closed its socket twice (history)
    source,     \* the address the socket is bound to
    request,    \* the client address sent in the tunnel request
    mechanism,  \* the authentication method tspAuthenticate has chosen
    key,        \* the key the broker presents in this session
    keyfile,    \* the key stored for the broker
    joined,     \* the broker's last two digest messages came in one segment
    offer,      \* tTunnel: type, prefix (its length), valid
    native,     \* the default route the host had before (history)
    silent,     \* the broker of this session has stopped answering
    original,   \* t->originalgateway
    net,        \* the host's IPv6 configuration
    commands,   \* commands still to be run by tspSetupInterface/tspTearDownTunnel
    tunfd,      \* the tun device is open
    status,     \* status the last session returned
    faults      \* commands that failed and kills of the process, up to MaxFaults

locals == <<source, request, mechanism, key, joined, offer, original>>
host == <<net, commands, tunfd, faults>>
settings == <<conf, native, silent>>
session == <<settings, client_v4, transport, sock, stray, keyfile>>
vars == <<pc, session, locals, host, status>>

AuthMethods == {"passdss-3des-1", "digest-md5", "plain", "anonymous"}
TunnelTypes == {"v6v4", "v6udpv4"}

Configurations == [auth_method : AuthMethods \cup {"any"}, host_type : {"host", "router"}]
Offers == [type : TunnelTypes \cup {"v4v6"}, prefix : {NULL, "48", "64"}, valid : BOOLEAN]
NoOffer == [type |-> NULL, prefix |-> NULL, valid |-> FALSE]

\* The host before any session: only its own default route, if it has one.
Untouched(route) == [default |-> route, tunnel |-> FALSE, inet6 |-> FALSE,
                     home |-> FALSE, blackhole |-> FALSE, rtadvd |-> FALSE,
                     forwarding |-> FALSE, accept_rtadv |-> TRUE]

\* The local variables of tspSetupTunnel, before and after a session.
NoLocals ==
    /\ source = NULL /\ request = NULL /\ mechanism = NULL /\ key = NULL
    /\ joined = FALSE /\ offer = NoOffer /\ original = NULL

ClearLocals ==
    /\ source' = NULL /\ request' = NULL /\ mechanism' = NULL /\ key' = NULL
    /\ joined' = FALSE /\ offer' = NoOffer /\ original' = NULL

Init ==
    /\ pc = "idle" /\ conf \in Configurations /\ client_v4 = "auto" /\ transport = "tcp"
    /\ sock = "none" /\ stray = NULL /\ NoLocals /\ keyfile = NULL
    /\ native \in {"none", "router"} /\ silent = FALSE /\ net = Untouched(native)
    /\ commands = <<>> /\ tunfd = FALSE /\ status = "none" /\ faults = 0

-----------------------------------------------------------------------------
(* Ends of a session *)

\* tspClose, for a descriptor that may have been closed before.
CloseSocket == sock' = "closed" /\ stray' = IF sock = "open" THEN stray ELSE offer.type

\* An early return of tspSetupTunnel: the socket is closed, the status returned.
Return(s) ==
    /\ CloseSocket /\ status' = s /\ pc' = "idle" /\ ClearLocals
    /\ UNCHANGED <<settings, client_v4, transport, keyfile, host>>

\* What any reply may be instead of the one hoped for, and the status it becomes.
Troubles == {<<"redirect", "EVNT_BROKER_REDIRECTION">>, <<"bad redirect", "ERR_BROKER_REDIRECTION">>,
             <<"io", "ERR_SOCKET_IO">>, <<"other", "ERR_TSP_GENERIC_ERROR">>}

Trouble == \E t \in Troubles : Return(t[2])

Proceed(to) ==
    /\ pc' = to
    /\ UNCHANGED <<session, locals, host, status>>

-----------------------------------------------------------------------------
(* Connection and capabilities *)

\* parse_addr_port and tspConnect: a failure returns without a socket.  The host
\* may have moved to another network, and have another address, since last time.
Connect ==
    /\ pc = "idle" /\ transport' \in {"tcp", "rudp"} /\ stray' = NULL
    /\ \/ /\ pc' = "caps" /\ sock' = "open" /\ source' \in Addrs /\ status' = "none"
       \/ /\ status' \in {"ERR_INVAL_GOGOC_ADDRESS", "ERR_FAIL_RESOLV_ADDR", "ERR_FAIL_SOCKET_CONNECT"}
          /\ sock' = "none" /\ UNCHANGED <<pc, source>>
    /\ silent' = FALSE
    /\ UNCHANGED <<conf, native, client_v4, request, mechanism, key, joined, offer, original, keyfile,
                   host>>

\* An I/O error over RUDP means that nobody listens there.
NoListener == IF transport = "rudp" THEN "ERR_FAIL_SOCKET_CONNECT" ELSE "ERR_SOCKET_IO"

\* The most secure method that both sides allow; "any" never means anonymous.
Ranking == <<"passdss-3des-1", "digest-md5", "plain">>

Select(offered) ==
    LET Common(m) == m \in offered /\ conf.auth_method \in {m, "any"}
    IN IF conf.auth_method = "anonymous" THEN IF "anonymous" \in offered THEN "anonymous" ELSE NULL
       ELSE IF \E i \in DOMAIN Ranking : Common(Ranking[i])
            THEN Ranking[CHOOSE i \in DOMAIN Ranking : Common(Ranking[i]) /\ \A j \in 1 .. i - 1 : ~Common(Ranking[j])]
            ELSE NULL

\* tspGetCapabilities, the test of the tunnel mode (the broker's tunnel types are
\* any, so that it may always fail) and the choice of a method.
GetCapabilities ==
    /\ pc = "caps"
    /\ \/ \E auth \in SUBSET AuthMethods : Select(auth) # NULL
            /\ pc' = "authenticate" /\ mechanism' = Select(auth)
            /\ UNCHANGED <<session, source, request, key, joined, offer, original, host, status>>
       \/ \E s \in {"EVNT_BROKER_REDIRECTION", "ERR_BROKER_REDIRECTION", "ERR_TSP_SERVER_TOO_BUSY",
                    "ERR_INVAL_TSP_VERSION", "ERR_TSP_GENERIC_ERROR", NoListener,
                    "ERR_TUNMODE_NOT_AVAILABLE", "ERR_NO_COMMON_AUTHENTICATION"} : Return(s)

-----------------------------------------------------------------------------
(* Authentication *)

\* The method's own variables are gone when it returns.
Authenticated ==
    /\ pc' = "source" /\ mechanism' = NULL /\ key' = NULL /\ joined' = FALSE
    /\ UNCHANGED <<session, source, request, offer, original, host, status>>

\* The reply that decides: success, refusal, or trouble.
Verdict ==
    \/ Authenticated
    \/ Return("ERR_AUTHENTICATION_FAILURE")
    \/ Trouble

AuthANONYMOUS ==
    /\ pc = "authenticate" /\ mechanism = "anonymous"
    /\ Authenticated \/ Trouble

AuthPLAIN == pc = "authenticate" /\ mechanism = "plain" /\ Verdict

\* What is neither a refusal nor trouble is taken for the digest's next message.
Refused ==
    \/ Return("ERR_AUTHENTICATION_FAILURE")
    \/ \E t \in Troubles : t[1] # "other" /\ Return(t[2])

DigestChallenge ==
    /\ pc = "authenticate" /\ mechanism = "digest-md5"
    /\ Proceed("digest answer") \/ Refused \/ Return("ERR_MEMORY_STARVATION")

\* The hashes and the response are built, each in memory of its own.
DigestAnswer == pc = "digest answer" /\ (Proceed("digest response") \/ Return("ERR_MEMORY_STARVATION"))

\* The broker proves that it knows the password.  Its verdict follows at once,
\* and over TCP one recv() may return both.
DigestResponse ==
    /\ pc = "digest response"
    /\ \/ /\ joined' \in {FALSE, transport = "tcp"} /\ pc' = "digest verdict"
          /\ UNCHANGED <<session, source, request, mechanism, key, offer, original, host, status>>
       \/ Refused
       \/ Return("ERR_MEMORY_STARVATION")

\* The verdict, unless it was read before.
DigestVerdict == pc = "digest verdict" /\ ~joined /\ Verdict

\* Keys, buffers and filters are set up before the broker hears of it.
PassdssBegin ==
    /\ pc = "authenticate" /\ mechanism = "passdss-3des-1"
    /\ \/ Proceed("passdss key")
       \/ \E s \in {"ERR_MEMORY_STARVATION", "ERR_AUTHENTICATION_FAILURE", "ERR_SOCKET_IO"} : Return(s)

is_dsakey_in_keyfile(k) ==
    CASE keyfile = NULL -> "absent" [] keyfile = k -> "matching" [] OTHER -> "not matching"

\* PASSDSS-3DES-1, first exchange.
PassdssKey ==
    /\ pc = "passdss key"
    /\ \/ /\ key' \in Keys /\ pc' = "passdss stored"
          /\ UNCHANGED <<session, source, request, mechanism, joined, offer, original, host, status>>
       \/ \E s \in {"ERR_AUTHENTICATION_FAILURE", "ERR_SOCKET_IO", "ERR_MEMORY_STARVATION"} : Return(s)

\* A key that is not in the file is added when no_questions says so, or else the
\* user.  It is stored before its signature is verified.
add_dsakey_to_keyfile ==
    /\ pc \in {"passdss stored", "passdss ask"}
    /\ \/ pc = "passdss stored" /\ is_dsakey_in_keyfile(key) = "matching" /\ Proceed("passdss signature")
       \/ pc = "passdss stored" /\ is_dsakey_in_keyfile(key) = "absent" /\ Proceed("passdss ask")
       \/ /\ is_dsakey_in_keyfile(key) = "absent" /\ keyfile' = key /\ pc' = "passdss signature"
          /\ UNCHANGED <<settings, client_v4, transport, sock, stray, locals, host, status>>
       \/ Return("ERR_AUTHENTICATION_FAILURE")

PassdssSignature ==
    /\ pc = "passdss signature"
    /\ \/ Proceed("passdss password")
       \/ Return("ERR_AUTHENTICATION_FAILURE") \/ Return("ERR_MEMORY_STARVATION")

PassdssPassword == pc = "passdss password" /\ Verdict

-----------------------------------------------------------------------------
(* The tunnel request *)

\* tspUpdateSourceAddr: "auto" is replaced, in the configuration, by the
\* address the socket is bound to.
UpdateSourceAddr ==
    /\ pc = "source"
    /\ \/ /\ client_v4' = (IF client_v4 = "auto" THEN source ELSE client_v4)
          /\ pc' = "negotiate"
          /\ UNCHANGED <<settings, transport, sock, stray, locals, keyfile, host, status>>
       \/ client_v4 = "auto" /\ Return("ERR_INVAL_CLIENT_ADDR")

\* tspTunnelNegotiation: the request, the broker's offer, and the
\* acknowledgement, which version 1.0.1 of the protocol does not have.
Negotiate ==
    /\ pc = "negotiate"
    /\ \/ /\ request' = client_v4 /\ offer' \in Offers /\ pc' = "start"
          /\ UNCHANGED <<session, source, mechanism, key, joined, original, host, status>>
       \/ Trouble
       \/ Return("ERR_MEMORY_STARVATION")

-----------------------------------------------------------------------------
(* The host's network (external), and what the commands do to it *)

\* "route change" needs a default route, "route add" needs that there is none.
Exec(c, n) ==
    CASE c = "deletetunnel" -> [n EXCEPT !.tunnel = FALSE]
      [] c = "tunnel" -> [n EXCEPT !.tunnel = TRUE]
      [] c = "inet6" -> [n EXCEPT !.inet6 = TRUE]
      [] c = "inet6 delete" -> [n EXCEPT !.inet6 = FALSE]
      [] c = "change default tunnel" -> [n EXCEPT !.default = IF @ = "none" THEN @ ELSE "tunnel"]
      [] c = "add default tunnel" -> [n EXCEPT !.default = IF @ = "none" THEN "tunnel" ELSE @]
      [] c = "change default original" -> [n EXCEPT !.default = IF @ = "none" THEN @ ELSE original]
      [] c = "add default original" -> [n EXCEPT !.default = IF @ = "none" THEN original ELSE @]
      [] c = "delete default" -> [n EXCEPT !.default = "none"]
      [] c = "forwarding=1" -> [n EXCEPT !.forwarding = TRUE]
      [] c = "accept_rtadv=0" -> [n EXCEPT !.accept_rtadv = FALSE]
      [] c = "home" -> [n EXCEPT !.home = TRUE]
      [] c = "home delete" -> [n EXCEPT !.home = FALSE]
      [] c = "blackhole" -> [n EXCEPT !.blackhole = TRUE]
      [] c = "blackhole delete" -> [n EXCEPT !.blackhole = FALSE]
      [] c = "killall rtadvd" -> [n EXCEPT !.rtadvd = FALSE]
      [] c = "rtadvd" -> [n EXCEPT !.rtadvd = TRUE]

\* Closing the tun device takes its address and its routes away.
TunGone(n) == [n EXCEPT !.inet6 = FALSE, !.default = IF @ = "tunnel" THEN "none" ELSE @]

When(b, s) == IF b THEN s ELSE <<>>

Router == conf.host_type = "router" /\ offer.prefix # NULL

RouteCommand == IF original # NULL THEN "change default tunnel" ELSE "add default tunnel"

SetupCommands ==
    When(offer.type = "v6v4", <<"deletetunnel", "tunnel">>)
    \o <<"inet6", RouteCommand>>
    \o When(Router, <<"forwarding=1", "accept_rtadv=0", "home">>
                    \o When(offer.prefix # "64", <<"blackhole">>) \o <<"killall rtadvd", "rtadvd">>)

SlipRestoreCommands == IF original # NULL THEN <<"change default original">> ELSE <<"delete default">>

RestoreCommands ==
    IF original # NULL THEN <<"change default original", "add default original">> ELSE <<"delete default">>

TearDownCommands ==
    When(Router, When(offer.prefix # "64", <<"blackhole delete">>) \o <<"home delete", "killall rtadvd">>)
    \o RestoreCommands
    \o When(offer.type = "v6v4", <<"inet6 delete", "deletetunnel">>)

-----------------------------------------------------------------------------
(* tspStartLocal *)

\* tspStartLocal up to routepr(): privileges, daemon(), the tunnel type and the
\* tun device, each of which may refuse before the host is touched.
StartLocal ==
    /\ pc = "start"
    /\ \/ /\ offer.type # "v4v6"
          /\ tunfd' = (offer.type = "v6udpv4")
          /\ original' = (IF net.default = "none" THEN NULL ELSE net.default)
          /\ pc' = "validate" /\ UNCHANGED status
       \/ status' = "ERR_INTERFACE_SETUP_FAILED" /\ pc' = "finish" /\ UNCHANGED <<tunfd, original>>
    /\ UNCHANGED <<session, source, request, mechanism, key, joined, offer, net, commands, faults>>

\* tspSetupInterface: bad parameters end the setup before the first command.
Validate ==
    /\ pc = "validate"
    /\ IF offer.valid THEN commands' = SetupCommands /\ pc' = "setup" /\ UNCHANGED status
       ELSE status' = "ERR_BAD_TUNNEL_PARAM" /\ pc' = "close tun" /\ UNCHANGED commands
    /\ UNCHANGED <<session, locals, net, tunfd, faults>>

\* execCmd: the next command is run; its exit status is not looked at.
RunCommand ==
    /\ pc \in {"setup", "teardown"} /\ commands # <<>>
    /\ commands' = Tail(commands)
    /\ \/ net' = Exec(Head(commands), net) /\ UNCHANGED faults
       \/ faults < MaxFaults /\ faults' = faults + 1 /\ UNCHANGED net
    /\ UNCHANGED <<pc, session, locals, tunfd, status>>

\* The tunnel is up: the status CONNECTED is sent to the GUI.
Connected == pc = "setup" /\ commands = <<>> /\ Proceed("loop")

\* TunMainLoop or tspPerformTunnelLoop returns; after the former the socket is
\* closed here.
LoopEnds ==
    /\ pc = "loop" /\ pc' = "close tun"
    /\ status' \in {"SUCCESS", "ERR_KEEPALIVE_TIMEOUT", "ERR_KEEPALIVE_ERROR"}
    /\ IF offer.type = "v6udpv4" THEN CloseSocket ELSE UNCHANGED <<sock, stray>>
    /\ UNCHANGED <<settings, client_v4, transport, keyfile, locals, host>>

\* The tun device is closed before the tunnel is torn down.
CloseTun ==
    /\ pc = "close tun" /\ pc' = "teardown"
    /\ tunfd' = FALSE /\ net' = (IF tunfd THEN TunGone(net) ELSE net)
    /\ commands' = TearDownCommands
    /\ UNCHANGED <<session, locals, faults, status>>

TornDown == pc = "teardown" /\ commands = <<>> /\ Proceed("finish")

\* The end of tspSetupTunnel.
Finish == pc = "finish" /\ Return(status)

\* The process is killed and started again: descriptors are closed by the
\* kernel, the configuration is read anew, the host stays as it is.
Killed ==
    /\ pc # "idle" /\ pc' = "idle" /\ faults < MaxFaults /\ faults' = faults + 1
    /\ client_v4' = "auto" /\ sock' = "none" /\ stray' = NULL /\ status' = "none" /\ ClearLocals
    /\ tunfd' = FALSE /\ net' = (IF tunfd THEN TunGone(net) ELSE net) /\ commands' = <<>>
    /\ UNCHANGED <<settings, transport, keyfile>>

-----------------------------------------------------------------------------
(* Waiting for the broker *)

\* Where the client has sent something and reads the answer.
Exchanging ==
    \/ pc \in {"caps", "digest response", "digest verdict", "passdss key", "passdss password", "negotiate"}
    \/ pc = "authenticate" /\ mechanism # "passdss-3des-1"

\* The broker says nothing (more): the answer does not come, or has been read
\* together with the one before.
Unanswered == Exchanging /\ (silent \/ joined)

Silence ==
    /\ Exchanging /\ ~silent /\ silent' = TRUE
    /\ UNCHANGED <<conf, native, client_v4, transport, sock, stray, keyfile, pc, locals, host, status>>

\* The request is repeated for ever.
SlipGiveUp == Unanswered /\ transport = "rudp" /\ UNCHANGED vars

\* internal_send_recv gives up after its last retry.
GiveUp ==
    /\ Unanswered /\ transport = "rudp"
    /\ Return(IF pc = "caps" THEN NoListener ELSE "ERR_SOCKET_IO")

\* The broker closes the connection, and recv() returns.
Closed ==
    /\ Unanswered /\ transport = "tcp" /\ (Return("ERR_SOCKET_IO") \/ Return("ERR_TSP_GENERIC_ERROR"))

-----------------------------------------------------------------------------
Authenticate == AuthANONYMOUS \/ AuthPLAIN \/ DigestChallenge \/ DigestResponse \/ DigestVerdict
                \/ PassdssKey \/ PassdssPassword

\* An answer of the broker.
Answered == ~silent /\ (GetCapabilities \/ Authenticate \/ Negotiate)

\* What the client does by itself.
Client == GiveUp \/ DigestAnswer \/ PassdssBegin \/ PassdssSignature \/ UpdateSourceAddr \/ StartLocal \/ Validate
          \/ RunCommand \/ Connected \/ CloseTun \/ TornDown \/ Finish
          \/ (pc = "passdss stored" /\ add_dsakey_to_keyfile)

\* The user is asked about a key.
User == pc = "passdss ask" /\ add_dsakey_to_keyfile

Next == Connect \/ Answered \/ Client \/ User \/ LoopEnds \/ Silence \/ Closed \/ Killed

Spec == Init /\ [][Next]_vars

\* A broker that is not silent answers.  Nothing is assumed of one that is, nor
\* of the user.
FairSpec == Spec /\ WF_vars(Client) /\ WF_vars(Answered)

-----------------------------------------------------------------------------
(* Properties *)

\* After a session the host is as it was before it: its own default route is
\* back, and no tunnel, address, blackhole or router daemon is left, unless a
\* command failed or the process was killed (tspTearDownTunnel, tspStartLocal).
\* The two kernel settings of a router are not undone, and are not claimed.
HostRestored ==
    pc = "idle" /\ faults = 0 =>
      [net EXCEPT !.forwarding = FALSE, !.accept_rtadv = TRUE] = Untouched(native)

\* No way out of tspSetupTunnel leaves the socket open, and only the end of a
\* V6UDPV4 tunnel closes it twice (tsp_local.c:252 and tsp_client.c:623).
SocketReleased == (pc = "idle" => sock # "open") /\ stray \in {NULL, "v6udpv4"}

\* The password goes only to a broker that shows the key stored for it, whatever
\* keys brokers showed in earlier sessions (AuthPASSDSS_3DES_1).
KeyPinned == pc = "passdss password" => key = keyfile

\* Every session comes to an end or to a running tunnel, and a tunnel whose loop
\* ended is torn down (tspSetupTunnel), unless a broker holds the client in
\* recv() over TCP (net_tcp.c:130): one that has fallen silent, or one whose
\* verdict was read with the message before it; or the user does not answer.
\* Over RUDP no broker holds a session.
SessionEnds ==
    pc # "idle" ~> \/ pc \in {"idle", "loop", "passdss ask"}
                   \/ Unanswered /\ transport = "tcp"

=============================================================================
