----------------------------- MODULE RelayPeer ------------------------------
(***************************************************************************)
(* The threads of one Teredo client and what its list says of one peer:    *)
(* teredo_transmit() and teredo_run_inner() of miredo/libteredo/relay.c    *)
(* on packets that pass their first tests.                                 *)
(*                                                                         *)
(* The list is locked from teredo_list_lookup() to teredo_list_release(),  *)
(* so what lies between is one step.  Outside of it are: the clock, read   *)
(* before the lookup; the gap between the two lookups of a receiver that   *)
(* does not find the peer; the mapping that teredo_predecap() reads for    *)
(* the packets it takes from the queue; and the CountBubble() that follows *)
(* a discovery bubble.                                                     *)
(***************************************************************************)
EXTENDS Relay

LOCAL INSTANCE Functions

CONSTANTS
    Maps,       \* IPv4 mappings: pairs of an address and a port
    OwnMap,     \* the mapping in the address of a Teredo peer
    Receivers,  \* the threads that receive: from the socket, and from discovery
    MaxLag      \* seconds for which a thread may be held up

ASSUME RelayPeerAssumption ==
    OwnMap \in Maps /\ NoMap \notin Maps /\ MaxLag \in Nat

\* What a receiver may be given: from a native address data or the answer to a
\* ping, from a Teredo address data, a bubble with our hash or a discovery
\* bubble; "local" is what teredo_islocal() says of it.
Packets(k) ==
    IF k = "native"
    THEN [what : {"data", "pong"}, from : Maps, local : {FALSE}]
    ELSE [what : {"data", "reply"}, from : Maps, local : BOOLEAN]
           \cup [what : {"discovery"}, from : Maps, local : {TRUE}]
NoPacket == [what |-> "none", from |-> NoMap, local |-> FALSE]

VARIABLES
    kind,    \* the peer's address: "native" or "teredo"
    entry,   \* the peer in the list, or NoPeer
    at,      \* at[t]: "idle", "create", "emit", "port", "count", "store"
    slow,    \* slow[t]: seconds since t read the clock that it will use again
    packet,  \* packet[t]: the packet for which receiver t creates a peer
    kept,    \* kept[t]: the queue it took; NoMap marks an outgoing packet
    reg,     \* reg[t]: what it has loaded from the peer without the lock
    proven,  \* the mappings that answered a ping (native peers)
    stray,   \* those whose packets were given to the kernel without (the same)
    sent     \* the pings sent since the last answer

relayVars == <<kind, entry, at, slow, packet, kept, reg, proven, stray, sent>>
history == <<proven, stray, sent>>

\* The flags and counters, which share a byte.
Byte(p) == [trusted |-> p.trusted, local |-> p.local, bubbles |-> p.bubbles, pings |-> p.pings]
NoReg == [addr |-> NoMap[1], byte |-> Byte(teredo_peer_init)]

RelayInit ==
    /\ kind \in {"native", "teredo"}
    /\ entry = NoPeer
    /\ at = [t \in Receivers |-> "idle"]
    /\ slow = [t \in Receivers |-> 0]
    /\ packet = [t \in Receivers |-> NoPacket]
    /\ kept = [t \in Receivers |-> <<>>]
    /\ reg = [t \in Receivers |-> NoReg]
    /\ proven = {} /\ stray = {} /\ sent = 0

-----------------------------------------------------------------------------
NeedsClock == {"create", "count", "store"}

\* Thread t goes on at w.
Goes(t, lag, w) ==
    /\ at' = [at EXCEPT ![t] = w]
    /\ slow' = [slow EXCEPT ![t] = IF w \in NeedsClock THEN lag ELSE 0]

\* The mappings of which the address or the port has answered no ping yet.
Unproven(ms) ==
    {m \in ms : \/ \A n \in proven : n[1] # m[1]
                \/ \A n \in proven : n[2] # m[2]}

\* CountPing() and, after the release, SendPing().
Pings(p, lag) ==
    /\ entry' = CountPing(p, lag)
    /\ sent' = IF PingVerdict(p, lag) = 0 THEN sent + 1 ELSE sent
    /\ UNCHANGED <<proven, stray>>

-----------------------------------------------------------------------------
(* teredo_transmit() *)

\* Client case 1: the packet goes to the mapping.
TransmitTrusted(p, lag) ==
    /\ p.trusted /\ IsValid(p, lag)
    /\ entry' = TouchTransmit(p, lag)
    /\ UNCHANGED history

\* Client case 2: a native peer has to answer a ping first.
TransmitNative(p, lag) ==
    kind = "native" /\ Pings(teredo_peer_queue(p, NoMap), lag)

\* Client cases 3 and 5: a Teredo peer has to answer a bubble first.
TransmitTeredo(p, lag) ==
    /\ kind = "teredo"
    /\ entry' = CountBubble(teredo_peer_queue(p, NoMap), lag)
    /\ UNCHANGED history

Transmit(lag) ==
    LET new == SetMapping(ClearFlags(teredo_peer_init),
                          IF kind = "native" THEN NoMap ELSE OwnMap)
    IN  /\ \/ entry = NoPeer /\ (TransmitNative(new, lag) \/ TransmitTeredo(new, lag))
           \/ entry # NoPeer /\ TransmitTrusted(entry, lag)
           \/ /\ entry # NoPeer /\ ~(entry.trusted /\ IsValid(entry, lag))
              /\ TransmitNative(entry, lag) \/ TransmitTeredo(entry, lag)
        /\ UNCHANGED <<kind, at, slow, packet, kept, reg>>

-----------------------------------------------------------------------------
(* teredo_run_inner() *)

\* teredo_predecap() and the delivery of the packet k itself.
Predecap(t, lag, k, p, isProof) ==
    /\ entry' = teredo_predecap(p, lag)
    /\ kept' = [kept EXCEPT ![t] = p.queue]
    /\ Goes(t, lag, IF p.queue = <<>> THEN "idle" ELSE "emit")
    /\ proven' = IF isProof THEN proven \cup {k.from} ELSE proven
    /\ stray' = IF isProof \/ kind = "teredo" THEN stray ELSE stray \cup Unproven({k.from})
    /\ sent' = 0
    /\ UNCHANGED reg

Trusted(p, m) == [SetMapping(p, m) EXCEPT !.trusted = TRUE, !.set = @ \cup {"trusted"}]

\* Client case 4: a discovery bubble.  The reply is counted after the release.
Discovered(t, lag, k, p) ==
    LET q == [p EXCEPT !.bubbles = IF p.local THEN @ ELSE 0, !.local = TRUE,
                       !.set = @ \cup {"bubbles", "local"}]
    IN  /\ k.what = "discovery"
        /\ entry' = TouchReceive(SetMapping(q, k.from), lag)
        /\ Goes(t, lag, "count")
        /\ UNCHANGED <<kept, reg, history>>

\* Client case 1, and client case 2: the answer to a ping, from anywhere.
FromTrusted(k, p) == p.trusted /\ p.map = k.from
ReceiveTrusted(t, lag, k, p) ==
    FromTrusted(k, p) /\ k.what # "discovery" /\ Predecap(t, lag, k, p, FALSE)
ReceivePong(t, lag, k, p) ==
    ~FromTrusted(k, p) /\ k.what = "pong" /\ Predecap(t, lag, k, Trusted(p, k.from), TRUE)

\* Client cases 3 and 5 and the two extensions; p is NoPeer for an unknown peer.
Acceptable(k, p) ==
    /\ kind = "teredo" /\ k.what # "discovery"
    /\ \/ k.from = OwnMap
       \/ p # NoPeer /\ p.local /\ p.map = k.from
       \/ p = NoPeer /\ k.local
       \/ k.what = "reply"
ReceiveTeredo(t, lag, k, p) == Predecap(t, lag, k, Trusted(p, k.from), FALSE)

\* Client case 6: the packet is kept until the native peer answers a ping.
ReceiveNative(t, lag, k, p) ==
    /\ kind = "native"
    /\ Pings(TouchReceive(teredo_peer_queue(p, k.from), lag), lag)
    /\ Goes(t, lag, "idle")
    /\ UNCHANGED <<kept, reg>>

Drop(t, lag) == Goes(t, lag, "idle") /\ UNCHANGED <<entry, kept, reg, history>>

\* The first lookup, which creates nothing, finds the peer.
Found(t, lag, k) ==
    /\ at[t] = "idle" /\ entry # NoPeer
    /\ \/ Discovered(t, lag, k, entry)
       \/ ReceiveTrusted(t, lag, k, entry)
       \/ ReceivePong(t, lag, k, entry)
       \/ /\ ~FromTrusted(k, entry)
          /\ \/ Acceptable(k, entry) /\ ReceiveTeredo(t, lag, k, entry)
             \/ k.what = "data" /\ ReceiveNative(t, lag, k, entry)
             \/ kind = "teredo" /\ k.what # "discovery" /\ ~Acceptable(k, entry) /\ Drop(t, lag)
    /\ UNCHANGED <<kind, packet>>

\* It does not find it, and the list is not locked.
NotFound(t, lag, k) ==
    /\ at[t] = "idle" /\ entry = NoPeer
    /\ \/ /\ kind = "native" \/ k.what = "discovery" \/ Acceptable(k, NoPeer)
          /\ Goes(t, lag, "create") /\ packet' = [packet EXCEPT ![t] = k]
          /\ UNCHANGED <<entry, kept, reg, history>>
       \/ /\ kind = "teredo" /\ k.what # "discovery" /\ ~Acceptable(k, NoPeer)
          /\ Drop(t, lag) /\ UNCHANGED packet
    /\ UNCHANGED kind

\* The second lookup.  Another thread may have created the peer in between:
\* only client case 6 asks.
Created == IF entry = NoPeer THEN teredo_peer_init ELSE entry

\* The flags are left as malloc() gave them.
SlipCreateDiscovered(t, lag, k) == Discovered(t, lag, k, Created)
CreateDiscovered(t, lag, k) ==
    Discovered(t, lag, k, [Created EXCEPT !.trusted = FALSE, !.local = FALSE,
                                     !.set = @ \cup {"trusted", "local"}])
CreateTeredo(t, lag, k) ==
    /\ Acceptable(k, NoPeer)
    /\ ReceiveTeredo(t, lag, k, [Created EXCEPT !.local = k.local, !.set = @ \cup {"local"}])
CreateNative(t, lag, k) ==
    ReceiveNative(t, lag, k, IF entry = NoPeer THEN SetMapping(ClearFlags(Created), NoMap) ELSE entry)

Create(t) ==
    /\ at[t] = "create"
    /\ \/ CreateDiscovered(t, slow[t], packet[t])
       \/ CreateTeredo(t, slow[t], packet[t])
       \/ CreateNative(t, slow[t], packet[t])
    /\ packet' = [packet EXCEPT ![t] = NoPacket]
    /\ UNCHANGED kind

\* There is no memory for a new peer, or there are too many of them.
NoRoom(t) ==
    /\ entry = NoPeer /\ at[t] = "create"
    /\ Drop(t, 0)
    /\ packet' = [packet EXCEPT ![t] = NoPacket]
    /\ UNCHANGED kind

\* teredo_queue_emit() is given the address and the port that the peer has by
\* now.  An incoming packet is delivered if it came from there.
EmitLoad(t) ==
    /\ at[t] = "emit"
    /\ reg' = [reg EXCEPT ![t].addr = entry.map[1]]
    /\ Goes(t, slow[t], "port")
    /\ UNCHANGED <<kind, entry, packet, kept, history>>
\* The packet is given to the kernel wherever it came from.
SlipEmit(t) ==
    /\ at[t] = "port"
    /\ stray' = stray \cup Unproven(Range(kept[t]) \ {NoMap})
    /\ kept' = [kept EXCEPT ![t] = <<>>]
    /\ reg' = [reg EXCEPT ![t] = NoReg]
    /\ Goes(t, slow[t], "idle")
    /\ UNCHANGED <<kind, entry, packet, proven, sent>>
Emit(t) ==
    LET to == <<reg[t].addr, entry.map[2]>>
    IN  /\ at[t] = "port"
        /\ stray' = stray \cup Unproven((Range(kept[t]) \cap {to}) \ {NoMap})
        /\ kept' = [kept EXCEPT ![t] = <<>>]
        /\ reg' = [reg EXCEPT ![t] = NoReg]
        /\ Goes(t, slow[t], "idle")
        /\ UNCHANGED <<kind, entry, packet, proven, sent>>

\* CountBubble() without the lock: the byte of the counter is loaded, changed and
\* stored as a whole.
CountLoad(t) ==
    /\ at[t] = "count"
    /\ IF BubbleVerdict(entry, slow[t]) # 0 THEN Goes(t, slow[t], "idle") /\ UNCHANGED reg
       ELSE /\ Goes(t, slow[t], "store")
            /\ reg' = [reg EXCEPT ![t].byte = Byte(CountBubble(entry, slow[t]))]
    /\ UNCHANGED <<kind, entry, packet, kept, history>>
CountStore(t) ==
    LET b == reg[t].byte
    IN  /\ at[t] = "store"
        /\ entry' = [TouchTransmit(entry, slow[t]) EXCEPT
                        !.trusted = b.trusted, !.local = b.local,
                        !.bubbles = b.bubbles, !.pings = b.pings]
        /\ reg' = [reg EXCEPT ![t] = NoReg]
        /\ Goes(t, slow[t], "idle")
        /\ UNCHANGED <<kind, packet, kept, history>>

-----------------------------------------------------------------------------
Later(age) == IF age < Old THEN age + 1 ELSE Old
\* The dates that matter: a native peer is sent no bubbles, a Teredo peer no pings.
Dates == {"rx", IF kind = "native" THEN "ping" ELSE "tx"}

\* A second passes; a thread is not held up for ever.
RelaySecond ==
    /\ \A t \in Receivers : at[t] \in NeedsClock => slow[t] < MaxLag
    /\ slow' = [t \in Receivers |-> IF at[t] \in NeedsClock THEN slow[t] + 1 ELSE 0]
    /\ entry' = IF entry = NoPeer THEN NoPeer
                ELSE [f \in DOMAIN entry |-> IF f \in Dates \cap entry.set
                                             THEN Later(entry[f]) ELSE entry[f]]
    /\ UNCHANGED <<kind, at, packet, kept, reg, proven, stray, sent>>

\* The collector removes a peer that nobody has looked up for long.
RelayForget ==
    /\ entry # NoPeer
    /\ \A t \in Receivers : at[t] = "idle"
    /\ \A f \in Dates \cap entry.set : entry[f] = Old
    /\ entry' = NoPeer
    /\ proven' = {} /\ stray' = {} /\ sent' = 0
    /\ UNCHANGED <<kind, at, slow, packet, kept, reg>>

Receiver(t) ==
    \/ \E k \in Packets(kind), lag \in 0..MaxLag : Found(t, lag, k) \/ NotFound(t, lag, k)
    \/ Create(t) \/ NoRoom(t)
    \/ EmitLoad(t) \/ Emit(t) \/ CountLoad(t) \/ CountStore(t)

RelayNext ==
    \/ \E lag \in 0..MaxLag : Transmit(lag)
    \/ \E t \in Receivers : Receiver(t)
    \/ RelaySecond \/ RelayForget

RelaySpec == RelayInit /\ [][RelayNext]_relayVars
-----------------------------------------------------------------------------
\* A peer comes from malloc() with only its queue initialised, and three paths
\* of relay.c fill in the rest, each a different part of it, while other
\* threads may find the peer.  Whenever the list can be locked, every field
\* that a lookup may go on to decide on has been assigned, queue_left is what
\* the queue leaves, and a native peer has been sent four pings at most since it
\* answered: threads that create it at the same time do not start the count
\* again.
PeerConsistent ==
    entry # NoPeer =>
        /\ {"trusted", "local", "bubbles", "map"} \subseteq entry.set
        /\ kind = "native" => "pings" \in entry.set
        /\ entry.trusted \/ entry.local => "rx" \in entry.set
        /\ entry.bubbles > 0 => "tx" \in entry.set
        /\ entry.pings > 0 /\ kind = "native" => "ping" \in entry.set
        /\ Len(entry.queue) + entry.left = QueueMax
        /\ kind = "native" => sent <= Tries

\* No packet of a native peer is given to the kernel unless it came from an
\* address and a port that have answered a ping, although the queue is emitted
\* to a mapping that is read without the lock.
PassedIsProven == stray = {}
=============================================================================
