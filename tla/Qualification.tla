---------------------------- MODULE Qualification ----------------------------
(***************************************************************************)
(* A Teredo client gets its address from a server and then checks, through *)
(* that server, that an IPv6 node is what it claims to be.                 *)
(*                                                                         *)
(* The server is miredo/libteredo/server.c, the packets are packets.c, the *)
(* two optional headers in front of them teredo.c, nonces and ping hashes  *)
(* security.c.  The client is reduced to what maintain.c and relay.c do    *)
(* with these packets; how its threads wait for them is Maintenance and    *)
(* RelayPeer.  In between are a NAT that may give the client another       *)
(* mapping at any time and a network that loses, delays and repeats.       *)
(*                                                                         *)
(* Addresses and ports are small numbers with the width of the instance,   *)
(* because the headers carry them inverted.  A keyed hash is the tuple of  *)
(* what goes into it.                                                      *)
(***************************************************************************)
EXTENDS Integers, Sequences, FiniteSets

CONSTANTS
    IpMax, PortMax,        \* the largest address and port: 2^32-1, 2^16-1
    GlobalIps,             \* what is_ipv4_global_unicast() accepts
    ServerIp, ServerIp2,   \* the two addresses of the server
    TeredoPort,            \* IPPORT_TEREDO
    Mappings,              \* the mappings the NAT may give the client
    Peer,                  \* the mapping of another Teredo client
    RelayAt,               \* where the relay of the IPv6 nodes sends from
    Nodes,                 \* IPv6 nodes that are pinged
    Routers,               \* IPv6 routers on the way to them
    TeredoPrefixes,              \* prefixes: those that is_valid_teredo_prefix() accepts
    Configured,            \* the prefixes and MTUs that the server may be given
    Standard, Obsolete,    \* TEREDO_PREFIX, TEREDO_PREFIX_OBSOLETE
    PingLife,              \* seconds for which a ping may be answered: 30
    MaxSolicit, MaxTime, MaxNet, MaxUsers  \* bounds: solicitations, seconds,
                                            \* datagrams, users of the raw socket

ASSUME QualificationAssumption ==
    /\ {IpMax, PortMax, PingLife} \subseteq Nat /\ GlobalIps \subseteq 1..IpMax
    /\ {ServerIp, ServerIp2} \subseteq GlobalIps /\ TeredoPort \in 0..PortMax
    /\ Mappings \cup {RelayAt, Peer} \subseteq GlobalIps \X (0..PortMax)
    /\ \A m \in Mappings : m[1] \notin {ServerIp, ServerIp2}

VARIABLES
    nat,     \* the current mapping of the client
    clock,     \* the clock
    server,  \* the server: [life, prefix, mtu], and the shared raw socket [users, raw]
    client,  \* the client: [nonce, waiting, up, addr, mtu, by]
    asked,   \* asked[n]: the mapping from which solicitation n left
    net,     \* UDP datagrams under way
    native,  \* IPv6 packets under way to nodes
    replied, \* <<address, time>>: what really answered, and to a ping of which time
    proof    \* <<address, time>>: what the client has just authenticated, and when

qualVars == <<nat, clock, server, client, asked, net, native, replied, proof>>

NothingProven == proof' = <<>>

-----------------------------------------------------------------------------
(* Addresses *)

FlipIp(x) == IpMax - x
FlipPort(x) == PortMax - x

V6(kind) == [kind |-> kind, prefix |-> "none", server |-> 0, port |-> 0, ip |-> 0]
Teredo(prefix, srv, m) ==
    [kind |-> "teredo", prefix |-> prefix, server |-> srv, port |-> FlipPort(m[2]), ip |-> FlipIp(m[1])]
Mapping(a) == <<FlipIp(a.ip), FlipPort(a.port)>>

LinkLocal == {"restrict", "cone", "lladdr", "hashed"}
ICMPv6 == {"rs", "ra", "echo", "reply", "unreach"}
IN6_IS_ADDR_GLOBAL(a) == a.kind \notin LinkLocal \cup {"allrouters", "unspecified"}
is_ipv4_global_unicast(ip) == ip \in GlobalIps
is_valid_teredo_prefix(p) == p \in TeredoPrefixes

NoHash == <<>>
\* The link-local source of a bubble: teredo_get_nonce() of the peer's mapping.
BubbleSource(m) == [V6("hashed") EXCEPT !.ip = m[1], !.port = m[2]]
\* teredo_get_pinghash() and teredo_verify_pinghash()
PingHash(time, src, dst) == <<time, src, dst>>
VerifyPingHash(at, src, dst, hash) ==
    at - hash[1] < PingLife /\ hash = PingHash(hash[1], src, dst)

\* An IPv6 packet.  An ICMPv6 error quotes a ping: "inner" has its source and
\* destination, "hash" its payload.
Packet(src, dst, what, hash) ==
    [src |-> src, dst |-> dst, what |-> what, hash |-> hash, inner |-> <<>>, opts |-> <<>>]
IsBubble(p) == p.what = "bubble"

\* ip6_plen: an error has the ICMPv6 header, the IPv6 header and the packet it
\* quotes; PingLen is the length of a ping, sizeof (ping.icmp6) + PING_PAYLOAD.
PingLen == 8 + 18
Plen(p) ==
    CASE IsBubble(p) -> 0 [] p.what = "rs" -> 8 [] p.what = "ra" -> 56
      [] p.what = "unreach" -> 48 + PingLen [] OTHER -> PingLen

-----------------------------------------------------------------------------
(* The headers: teredo_sendv() and teredo_recv_inner() *)

\* On the wire: nonce 0 stands for no authentication header, an empty origin
\* for no origin indication.  The confirmation byte of the header is zero: neither
\* the client nor the server of miredo ever sets it.
Wire(from, to, nonce, orig, p) ==
    [from |-> from, to |-> to, nonce |-> nonce, confirm |-> 0, orig |-> orig, p |-> p]
Origin(m) == <<FlipPort(m[2]), FlipIp(m[1])>>

\* What teredo_recv_inner() makes of a datagram; address 0 is no origin.
Received(d) ==
    [source |-> d.from, auth_present |-> d.nonce # 0, auth_nonce |-> d.nonce, auth_fail |-> d.confirm # 0,
     orig |-> IF d.orig = <<>> THEN <<0, 0>> ELSE <<FlipIp(d.orig[2]), FlipPort(d.orig[1])>>,
     ip6 |-> d.p]

-----------------------------------------------------------------------------
(* The server *)

\* The server sends from one of its sockets.
Socket(secondary) == <<IF secondary THEN ServerIp2 ELSE ServerIp, TeredoPort>>

\* The nonce in the answer.  auth_nonce is an array, so that the test for NULL
\* never fails: a solicitation without nonce is answered with what happens to be
\* in it.
Nonces(r) == IF r.auth_present THEN {r.auth_nonce} ELSE 1..MaxSolicit

\* SendRA(): the answer goes back to where the solicitation came from, with its
\* nonce and its origin.  For a cone client it comes from the other socket.
SendRA(r, nonce, secondary) ==
    LET cone == r.ip6.src.kind = "cone"
        ra == [Packet(V6("lladdr"), r.ip6.src, "ra", NoHash)
                  EXCEPT !.opts = <<[type |-> "prefix", prefix |-> server.prefix, server |-> ServerIp],
                                    [type |-> "mtu", mtu |-> server.mtu]>>]
    IN  Wire(Socket(secondary # cone), r.source, nonce, Origin(r.source), ra)

\* Teredo server cases 2 to 7, and the loop prevention.
Acceptable(r) ==
    /\ IsBubble(r.ip6) \/ r.ip6.what \in ICMPv6
    /\ is_ipv4_global_unicast(r.source[1])
    /\ \/ r.ip6.src.kind \in LinkLocal /\ r.ip6.dst.kind = "allrouters" /\ r.ip6.what = "rs"
       \/ r.ip6.src.prefix = server.prefix /\ Mapping(r.ip6.src) = r.source
       \/ /\ r.ip6.src.prefix # server.prefix
          /\ r.ip6.dst.prefix = server.prefix /\ r.ip6.dst.server = ServerIp
    /\ ~(r.source[1] \in {ServerIp, ServerIp2} /\ r.source[2] = TeredoPort)

ForRouter(r) == r.ip6.dst.kind \in {"allrouters", "lladdr"}

\* What the server passes on: to a global destination, and short.
Passes(r) ==
    /\ Acceptable(r) /\ ~ForRouter(r) /\ IN6_IS_ADDR_GLOBAL(r.ip6.dst)
    /\ IsBubble(r.ip6) \/ Plen(r.ip6) <= 88

\* The datagrams and the native packets with which the server answers.
Forwarded(r) ==
    IF ~Passes(r) \/ r.ip6.dst.prefix # server.prefix
       \/ ~is_ipv4_global_unicast(Mapping(r.ip6.dst)[1])
    THEN {}
    ELSE {Wire(Socket(FALSE), Mapping(r.ip6.dst), 0,
               IF r.ip6.dst.server = ServerIp THEN Origin(r.source) ELSE <<>>, r.ip6)}
Advertised(r, nonce, secondary) ==
    IF Acceptable(r) /\ ForRouter(r) /\ r.ip6.what = "rs" THEN {SendRA(r, nonce, secondary)} ELSE {}
SentNative(r) == IF Passes(r) /\ r.ip6.dst.prefix # server.prefix THEN {r.ip6} ELSE {}

\* One turn of thread_primary() or thread_secondary().
Serve(secondary) ==
    \E d \in net :
       LET r == Received(d)
       IN  /\ d.to = Socket(secondary)
           /\ server.life = "running"
           /\ \E nonce \in Nonces(r) :
                net' = (net \ {d}) \cup Forwarded(r) \cup Advertised(r, nonce, secondary)
           /\ native' = native \cup SentNative(r)
           /\ UNCHANGED <<nat, clock, server, client, asked, replied>> /\ NothingProven

\* teredo_server_create().  The first server opens the raw socket.
ServerCreate ==
    /\ server.life = "none" /\ server.users < MaxUsers
    /\ LET opened == IF server.users = 0 THEN BOOLEAN ELSE {server.raw}
       IN  \E raw \in opened, sockets \in BOOLEAN, c \in Configured :
              server' = [server EXCEPT !.users = @ + 1, !.raw = raw,
                            !.life = IF raw /\ sockets THEN "created" ELSE "none",
                            !.prefix = IF raw /\ sockets THEN c.prefix ELSE @,
                            !.mtu = IF raw /\ sockets THEN c.mtu ELSE @]
    /\ UNCHANGED <<nat, clock, client, asked, net, native, replied>> /\ NothingProven

Destroyed(s) == [s EXCEPT !.life = "none", !.users = @ - 1, !.raw = @ /\ s.users > 1]

\* server_run(): a prefix or an MTU that is not valid, or a thread that does not
\* start, destroys the server again.
ServerStart ==
    /\ server.life = "created"
    /\ \/ /\ is_valid_teredo_prefix(server.prefix) /\ server.mtu >= 1280
          /\ server' = [server EXCEPT !.life = "running"]
       \/ server' = Destroyed(server)
    /\ UNCHANGED <<nat, clock, client, asked, net, native, replied>> /\ NothingProven

\* A signal: both threads are cancelled and joined, then the server is destroyed.
ServerStop ==
    /\ server.life = "running"
    /\ server' = Destroyed(server)
    /\ UNCHANGED <<nat, clock, client, asked, net, native, replied>> /\ NothingProven

-----------------------------------------------------------------------------
(* The client *)

\* Datagrams leave with the mapping of the NAT.
Sends(to, nonce, p) == net' = net \cup {Wire(nat, to, nonce, <<>>, p)}
Room == Cardinality(net) + Cardinality(native) < MaxNet

\* maintenance_thread() sends a solicitation with a new nonce; after a silent one
\* it may have declared the connectivity lost.
Solicit ==
    /\ client.nonce < MaxSolicit /\ Room
    /\ \E lost \in BOOLEAN :
          /\ lost => client.waiting
          /\ client' = [client EXCEPT !.nonce = @ + 1, !.waiting = TRUE, !.up = @ /\ ~lost]
    /\ asked' = Append(asked, nat)
    /\ Sends(<<ServerIp, TeredoPort>>, client.nonce + 1,
             Packet(V6("restrict"), V6("allrouters"), "rs", NoHash))
    /\ UNCHANGED <<nat, clock, server, native, replied>> /\ NothingProven

\* teredo_parse_ra(): the address that an advertisement gives, or none.
Option(p, type) == {o \in {p.opts[i] : i \in DOMAIN p.opts} : o.type = type}
Advertises(r) ==
    /\ r.orig[1] # 0 /\ r.ip6.dst.kind = "restrict" /\ r.ip6.what = "ra"
    /\ Cardinality(Option(r.ip6, "prefix")) = 1
    /\ \A o \in Option(r.ip6, "mtu") : o.mtu \in 1280..65535
    /\ \A o \in Option(r.ip6, "prefix") : is_valid_teredo_prefix(o.prefix)
NewAddress(r) ==
    LET o == CHOOSE o \in Option(r.ip6, "prefix") : TRUE
    IN  Teredo(IF o.prefix = Obsolete THEN Standard ELSE o.prefix, o.server, r.orig)
NewMtu(r) ==
    IF Option(r.ip6, "mtu") = {} THEN 1280 ELSE (CHOOSE o \in Option(r.ip6, "mtu") : TRUE).mtu

\* An answer to an earlier solicitation is as good as one to the last.
SlipMaintenanceRecv(r) == Advertises(r) /\ NewAddress(r).server = ServerIp
\* maintenance_recv()
MaintenanceRecv(r) ==
    /\ r.auth_nonce = client.nonce /\ ~r.auth_fail
    /\ Advertises(r) /\ NewAddress(r).server = ServerIp

\* A datagram that the NAT passes to the client.  The network may repeat it.
Arrives(d) == d \in net /\ d.to = nat /\ net' \in {net, net \ {d}}

\* A packet with an authentication header goes to maintenance_thread(), which
\* drops it unless it is the answer it waits for.
ReceiveRA ==
    \E d \in net :
       LET r == Received(d)
       IN  /\ Arrives(d) /\ r.auth_present
           /\ client' = IF client.waiting /\ MaintenanceRecv(r)
                        THEN [client EXCEPT !.waiting = FALSE, !.up = TRUE, !.addr = NewAddress(r),
                                            !.mtu = NewMtu(r), !.by = client.nonce]
                        ELSE client
           /\ UNCHANGED <<nat, clock, server, asked, native, replied>> /\ NothingProven

\* SendPing(): through the server, from the address of the client.
SendPing(n) ==
    /\ client.up /\ Room
    /\ Sends(<<client.addr.server, TeredoPort>>, 0,
             Packet(client.addr, V6(n), "echo", PingHash(clock, client.addr, V6(n))))
    /\ UNCHANGED <<nat, clock, server, client, asked, native, replied>> /\ NothingProven

\* SendBubbleFromDst(): through the server of the peer, which is the same here.
SendBubble ==
    /\ client.up /\ Room
    /\ Sends(<<ServerIp, TeredoPort>>, 0,
             Packet(BubbleSource(Peer), Teredo(client.addr.prefix, ServerIp, Peer), "bubble", NoHash))
    /\ UNCHANGED <<nat, clock, server, client, asked, native, replied>> /\ NothingProven

\* An error from a router counts as an answer.
SlipCheckPing(r) ==
    \/ /\ r.ip6.what = "unreach" /\ r.ip6.inner[1] = r.ip6.dst
       /\ VerifyPingHash(clock, r.ip6.inner[1], r.ip6.inner[2], r.ip6.hash)
    \/ r.ip6.what = "reply" /\ VerifyPingHash(clock, r.ip6.dst, r.ip6.src, r.ip6.hash)
\* CheckPing(): the answer of a node, or an error that it sent itself and that
\* quotes the whole ping.
CheckPing(r) ==
    \/ /\ r.ip6.what = "unreach" /\ r.ip6.inner = <<r.ip6.dst, r.ip6.src>>
       /\ VerifyPingHash(clock, r.ip6.inner[1], r.ip6.inner[2], r.ip6.hash)
    \/ r.ip6.what = "reply" /\ VerifyPingHash(clock, r.ip6.dst, r.ip6.src, r.ip6.hash)
\* The lower 8 bytes of an address.
InterfaceId(a) == <<a.kind, a.port, a.ip>>
\* CheckBubble(): the bubble is sent back by the peer whose mapping it has hashed.
CheckBubble(r) ==
    IsBubble(r.ip6) /\ InterfaceId(r.ip6.dst) = InterfaceId(BubbleSource(Mapping(r.ip6.src)))

\* teredo_run_inner() on other packets.
ReceiveAnswer ==
    \E d \in net :
       LET r == Received(d)
       IN  /\ Arrives(d) /\ ~r.auth_present
           /\ proof' = IF client.up /\ (CheckPing(r) \/ CheckBubble(r))
                       THEN <<r.ip6.src, clock>> ELSE <<>>
           /\ UNCHANGED <<nat, clock, server, client, asked, native, replied>>

-----------------------------------------------------------------------------
(* The nodes, the peer, the network *)

\* A node answers a ping or sends an error; so may a router on the way.
Answer(from, e, what) ==
    net' = net \cup {Wire(RelayAt, Mapping(e.src), 0, <<>>,
                         [Packet(V6(from), e.src, what, e.hash)
                             EXCEPT !.inner = IF what = "unreach" THEN <<e.src, e.dst>> ELSE <<>>])}
NodeAnswers(n) ==
    \E e \in native :
       /\ e.dst = V6(n)
       /\ Answer(n, e, "reply") \/ Answer(n, e, "unreach")
       /\ native' = native \ {e}
       /\ replied' = replied \cup {<<V6(n), e.hash[1]>>}
       /\ UNCHANGED <<nat, clock, server, client, asked>> /\ NothingProven
RouterAnswers(f) ==
    \E e \in native :
       /\ Answer(f, e, "unreach")
       /\ native' = native \ {e}
       /\ UNCHANGED <<nat, clock, server, client, asked, replied>> /\ NothingProven

\* The peer gets the bubble that its server forwarded and sends it back, from
\* its own address, to the origin.
PeerReplies ==
    \E d \in net :
       LET r == Received(d)
       IN  /\ d.to = Peer /\ IsBubble(r.ip6) /\ r.orig[1] # 0
           /\ net' = (net \ {d}) \cup {Wire(Peer, r.orig, 0, <<>>, Packet(r.ip6.dst, r.ip6.src, "bubble", NoHash))}
           /\ replied' = replied \cup {<<r.ip6.dst, 0>>}
           /\ UNCHANGED <<nat, clock, server, client, asked, native>> /\ NothingProven

\* The NAT gives the client another mapping.
Rebind ==
    /\ nat' \in Mappings \ {nat}
    /\ UNCHANGED <<clock, server, client, asked, net, native, replied>> /\ NothingProven
Lose ==
    /\ \E d \in net : net' = net \ {d}
    /\ UNCHANGED <<nat, clock, server, client, asked, native, replied>> /\ NothingProven
SecondPasses ==
    /\ clock < MaxTime /\ clock' = clock + 1
    /\ UNCHANGED <<nat, server, client, asked, net, native, replied>> /\ NothingProven

QualInit ==
    /\ nat \in Mappings /\ clock = 0
    /\ server = [life |-> "none", prefix |-> Standard, mtu |-> 1280, users |-> 0, raw |-> FALSE]
    /\ client = [nonce |-> 0, waiting |-> FALSE, up |-> FALSE, addr |-> V6("unspecified"),
                 mtu |-> 1280, by |-> 0]
    /\ asked = <<>> /\ net = {} /\ native = {} /\ replied = {} /\ proof = <<>>

QualNext ==
    \/ Serve(FALSE) \/ Serve(TRUE) \/ ServerCreate \/ ServerStart \/ ServerStop
    \/ Solicit \/ ReceiveRA \/ SendBubble \/ ReceiveAnswer \/ PeerReplies
    \/ \E n \in Nodes : SendPing(n) \/ NodeAnswers(n)
    \/ \E f \in Routers : RouterAnswers(f)
    \/ Rebind \/ Lose \/ SecondPasses

QualSpec == QualInit /\ [][QualNext]_qualVars

-----------------------------------------------------------------------------
\* The address with which the client is qualified has the mapping from which
\* the solicitation it answers left, however late or often advertisements
\* arrive and however the mapping changed: the nonce ties them together, and
\* what SendRA() inverts teredo_recv_inner() and teredo_parse_ra() invert back.
AddressIsMapping ==
    client.up => /\ Mapping(client.addr) = asked[client.by]
                 /\ client.addr.server = ServerIp

\* Whoever CheckPing() or CheckBubble() authenticates has answered itself, and
\* a node did so to a ping that is less than PingLife old.
ProofIsGenuine ==
    proof # <<>> =>
       \E y \in replied :
          proof[1] = y[1] /\ (y[1].kind # "teredo" => proof[2] - y[2] < PingLife)

=============================================================================
