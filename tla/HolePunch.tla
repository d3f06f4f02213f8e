----------------------------- MODULE HolePunch ------------------------------
(***************************************************************************)
(* Two Teredo clients behind NATs find each other with the help of their   *)
(* server: teredo_transmit() and teredo_run_inner() of both clients        *)
(* (miredo/libteredo/relay.c), teredo_process_packet() of the server       *)
(* (server.c), a network that loses and delays, and the NATs, whose        *)
(* mappings expire.                                                        *)
(*                                                                         *)
(* Here each call is one step; what the threads of one client do to one    *)
(* another is module RelayPeer.                                            *)
(***************************************************************************)
EXTENDS Relay

CONSTANTS
    Nats,      \* pairs of NATs: records with a kind for each client
    Talkers,   \* the clients whose applications send by themselves; others answer
    MaxDelay,  \* seconds a datagram may be under way
    Hold       \* seconds for which a NAT keeps a mapping that is not used

Clients == {"a", "b"}
Other(h) == IF h = "a" THEN "b" ELSE "a"
Server == <<"server", "own">>

\* The mapping in the Teredo address of a client, and the one that a symmetric
\* NAT makes for destinations other than the server.
Own(h) == <<h, "own">>
Alt(h) == <<h, "alt">>

ASSUME HolePunchAssumption ==
    /\ Talkers \subseteq Clients /\ MaxDelay \in Nat /\ Hold \in Nat
    /\ Nats \subseteq [Clients -> {"cone", "restricted", "symmetric"}]

VARIABLES
    nat,    \* nat[h]
    known,   \* known[h]: what h's list says of the other client, or NoPeer
    hole,   \* hole[h][x]: seconds since h sent to x, up to Hold + 1
    msgs,   \* the datagrams under way
    got     \* got[h]: h received a packet, and has not answered or been sent another

punchVars == <<nat, known, hole, msgs, got>>

Addresses == {Server} \cup {Own(h) : h \in Clients} \cup {Alt(h) : h \in Clients}
Datagrams ==
    [from : Addresses, to : Addresses, age : 0..MaxDelay,
     what : {"indirect", "forwarded", "reply", "data"}]

PunchTypeOK ==
    /\ nat \in Nats /\ got \in [Clients -> BOOLEAN] /\ msgs \subseteq Datagrams
    /\ \A h \in Clients : hole[h] \in [{Own(Other(h)), Alt(Other(h))} -> 0..(Hold + 1)]

\* Both clients are qualified and know nothing of each other.
PunchInit ==
    /\ nat \in Nats
    /\ known = [h \in Clients |-> NoPeer]
    /\ hole = [h \in Clients |-> [x \in {Own(Other(h)), Alt(Other(h))} |-> Hold + 1]]
    /\ msgs = {}
    /\ got = [h \in Clients |-> FALSE]

-----------------------------------------------------------------------------
(* The NATs *)

\* Where a datagram from h to x seems to come from.
Source(h, x) == IF nat[h] = "symmetric" /\ x # Server THEN Alt(h) ELSE Own(h)

\* Whether the NAT of h passes a datagram on.  The mapping for the server is
\* kept open by the maintenance procedure.
Admits(h, from, to) ==
    \/ from = Server /\ to = Own(h)
    \/ nat[h] = "cone" /\ to = Own(h)
    \/ /\ from # Server /\ hole[h][from] <= Hold
       /\ to = IF nat[h] = "symmetric" THEN Alt(h) ELSE Own(h)

Datagram(h, to, what) == [from |-> Source(h, to), to |-> to, what |-> what, age |-> 0]

\* Client h has sent to the members of xs.
Opened(h, xs) == [hole EXCEPT ![h] = [x \in DOMAIN @ |-> IF x \in xs THEN 0 ELSE @[x]]]

-----------------------------------------------------------------------------
(* teredo_transmit() *)

\* Sending keeps the peer valid.
SlipEncap(h) ==
    LET p == known[h]
    IN  /\ p # NoPeer /\ p.trusted /\ IsValid(p, 0)
        /\ known' = [known EXCEPT ![h] = TouchReceive(p, 0)]
        /\ msgs' = msgs \cup {Datagram(h, p.map, "data")}
        /\ hole' = Opened(h, {p.map})
\* Client case 1: the peer is trusted and has been heard recently.
Encap(h) ==
    LET p == known[h]
    IN  /\ p # NoPeer /\ p.trusted /\ IsValid(p, 0)
        /\ known' = [known EXCEPT ![h] = TouchTransmit(p, 0)]
        /\ msgs' = msgs \cup {Datagram(h, p.map, "data")}
        /\ hole' = Opened(h, {p.map})

\* Client case 5: the packet is kept, and if the rate limit allows a bubble is
\* sent to the peer, to open the return path, and one to its server.  The first
\* has a link-local source, so the peer would drop it.  When the limit does not
\* allow it any more the application gets an ICMPv6 error.
Bubble(h) ==
    LET created == known[h] = NoPeer
        found == IF created THEN SetMapping(ClearFlags(teredo_peer_init), Own(Other(h))) ELSE known[h]
        p == teredo_peer_queue(found, "data")
    IN  /\ created \/ ~(found.trusted /\ IsValid(found, 0))
        /\ known' = [known EXCEPT ![h] = CountBubble(p, 0)]
        /\ IF BubbleVerdict(p, 0) = 0
           THEN /\ msgs' = msgs \cup {Datagram(h, Server, "indirect")}
                /\ hole' = Opened(h, {Own(Other(h))})
           ELSE UNCHANGED <<msgs, hole>>

Transmit(h) ==
    /\ h \in Talkers \/ got[h]
    /\ Encap(h) \/ Bubble(h)
    /\ got' = [got EXCEPT ![Other(h)] = FALSE, ![h] = @ /\ h \in Talkers]
    /\ UNCHANGED nat

-----------------------------------------------------------------------------
(* The server: teredo_process_packet() on a bubble with a link-local source. *)
(* It goes to the client named by its destination, with the origin it came   *)
(* from.                                                                     *)
Forward(h) ==
    \E m \in msgs :
       /\ m.to = Server /\ m.from = Own(h)
       /\ msgs' = (msgs \ {m}) \cup
                    {[from |-> Server, to |-> Own(Other(h)), what |-> "forwarded", age |-> 0]}
       /\ UNCHANGED <<nat, known, hole, got>>

-----------------------------------------------------------------------------
(* teredo_run_inner() *)

\* A datagram that the NAT of h passes.
Arrives(h, m, what) ==
    m \in msgs /\ m.what = what /\ m.to \in {Own(h), Alt(h)} /\ Admits(h, m.from, m.to)

\* An indirect bubble: the reply goes to its origin.  No peer is recorded.
ReplyBubble(h) ==
    \E m \in msgs :
       /\ Arrives(h, m, "forwarded")
       /\ msgs' = (msgs \ {m}) \cup {Datagram(h, Own(Other(h)), "reply")}
       /\ hole' = Opened(h, {Own(Other(h))})
       /\ UNCHANGED <<nat, known, got>>

\* The peer after a packet that is accepted, and the packets that were kept.
Accepted(h, m) ==
    LET p == IF known[h] = NoPeer THEN [teredo_peer_init EXCEPT !.set = {"local"}] ELSE known[h]
    IN  IF p.trusted /\ p.map = m.from THEN teredo_predecap(p, 0) ELSE Prove(p, m.from, 0)
Flush(h, m) ==
    IF known[h] # NoPeer /\ known[h].queue # <<>> THEN {Datagram(h, m.from, "data")} ELSE {}

Heard(h, m) ==
    /\ known' = [known EXCEPT ![h] = Accepted(h, m)]
    /\ msgs' = (msgs \ {m}) \cup Flush(h, m)
    /\ hole' = IF Flush(h, m) = {} THEN hole ELSE Opened(h, {m.from})
    /\ UNCHANGED nat

\* The reply to our bubble carries our hash, wherever it comes from.
ReceiveReply(h) ==
    \E m \in msgs : Arrives(h, m, "reply") /\ Heard(h, m) /\ UNCHANGED got

\* Data is accepted from the mapping that is trusted or that the peer's address
\* shows (client cases 1 and 3); other data is dropped.
ReceiveData(h) ==
    \E m \in msgs :
       /\ Arrives(h, m, "data")
       /\ \/ /\ m.from = Own(Other(h)) \/ (known[h] # NoPeer /\ known[h].trusted /\ known[h].map = m.from)
             /\ Heard(h, m)
             /\ got' = [got EXCEPT ![h] = TRUE]
          \/ /\ m.from # Own(Other(h)) /\ ~(known[h] # NoPeer /\ known[h].trusted /\ known[h].map = m.from)
             /\ msgs' = msgs \ {m}
             /\ UNCHANGED <<nat, known, hole, got>>

-----------------------------------------------------------------------------
(* Network and time *)

Older(age, limit) == IF age < limit THEN age + 1 ELSE limit

\* A date that was never set, or that of a ping (not for Teredo peers), does not
\* matter.
Aged(p) ==
    IF p = NoPeer THEN p
    ELSE [p EXCEPT !.rx = IF "rx" \in p.set THEN Older(@, Old) ELSE @,
                   !.tx = IF "tx" \in p.set THEN Older(@, Old) ELSE @]

\* A second passes.  A datagram is lost when nobody received it in time.
Second ==
    /\ known' = [h \in Clients |-> Aged(known[h])]
    /\ hole' = [h \in Clients |-> [x \in DOMAIN hole[h] |-> Older(hole[h][x], Hold + 1)]]
    /\ msgs' = {[m EXCEPT !.age = @ + 1] : m \in {n \in msgs : n.age < MaxDelay}}
    /\ UNCHANGED <<nat, got>>

\* The collector removes a peer that nobody has asked for during ten minutes:
\* by then no datagram is under way.
Forget(h) ==
    /\ known[h] # NoPeer /\ msgs = {}
    /\ "rx" \in known[h].set => known[h].rx = Old
    /\ "tx" \in known[h].set => known[h].tx = Old
    /\ known' = [known EXCEPT ![h] = NoPeer]
    /\ UNCHANGED <<nat, hole, msgs, got>>

PunchNext ==
    \/ \E h \in Clients :
          \/ Transmit(h) \/ Forward(h) \/ ReplyBubble(h)
          \/ ReceiveReply(h) \/ ReceiveData(h) \/ Forget(h)
    \/ Second

PunchSpec == PunchInit /\ [][PunchNext]_punchVars

\* The application of "a" keeps sending, time passes, and a network that is
\* given a kind of datagram again and again does not lose all of them.
PunchFairness ==
    /\ WF_punchVars(Transmit("a")) /\ WF_punchVars(Second)
    /\ SF_punchVars(Forward("a")) /\ SF_punchVars(ReplyBubble("b"))
    /\ SF_punchVars(ReceiveReply("a")) /\ SF_punchVars(ReceiveData("b"))

PunchFairSpec == PunchSpec /\ PunchFairness
-----------------------------------------------------------------------------
\* A client that trusts its peer can reach it: as long as the peer is valid,
\* the NAT on the other side still passes what teredo_transmit() sends without
\* a bubble.  It rests on TouchReceive() being called for accepted packets
\* only, and on the limits of IsValid().
TrustedIsReachable ==
    \A h \in Clients :
       known[h] # NoPeer /\ known[h].trusted /\ IsValid(known[h], 0) =>
           Admits(Other(h), Source(h, known[h].map), known[h].map)

\* However many datagrams are lost, a client whose application keeps sending
\* gets packets through again: the bubbles are never given up for good.
PunchSucceeds == []<>got["b"]
=============================================================================
