----------------------------- MODULE TunTapProto -----------------------------
(***************************************************************************)
(* The network interface of one tun or tap device (tuntap/src/tun, tap):   *)
(* the table of the protocols attached to it, the header that a program    *)
(* puts before a packet, and the way of a written packet to its protocol.  *)
(*                                                                         *)
(* One program at a time has the device open; the kernel attaches and      *)
(* detaches protocols and demultiplexes written packets on threads of its  *)
(* own.  Locks, the other direction and the unloading are in TunTap.       *)
(*                                                                         *)
(* A protocol's demux descriptor is the type of the packets it wants:      *)
(* "ip4" is AF_INET for tun and the Ethernet type for tap; "snap" is one   *)
(* that is not of DLIL_DESC_ETYPE2.                                        *)
(***************************************************************************)
EXTENDS Integers, Sequences, SequencesExt

CONSTANTS
    Demands,              \* per protocol, the descriptors it attaches with
    MAX_ATTACHED_PROTOS,
    Stations,             \* Ethernet addresses that may be the interface's
    NotAttached           \* no protocol, in a fresh entry of the table

ASSUME TableAssumption ==
    MAX_ATTACHED_PROTOS \in Nat \ {0} /\ NotAttached \notin DOMAIN Demands

Protos == DOMAIN Demands
Slots == 1 .. MAX_ATTACHED_PROTOS
IpTypes == {"ip4", "ip6"}
AfSize == 4               \* sizeof(u_int32_t)
EtherSize == 14           \* sizeof(struct ether_header)

VARIABLES
    family,      \* the class of the device: "tun" or "tap"
    session,     \* "closed", "open", or "closing" in shutdown_interface()
    attached_protos,
    plumbed,     \* the protocols that the kernel has attached to the interface
    slot,        \* where the loop of shutdown_interface() is
    prepend_af, hdrlen,
    told,        \* the header that the program writes: of the last TUNSIFHEAD that returned
    heading,     \* a TUNSIFHEAD is between its two writes
    lladdr,
    input,       \* a written packet on its way through ifnet_input()
    heard,       \* what the last step gave to a protocol
    late         \* the kernel attaches protocols to interfaces being closed (its choice)

headVars == <<prepend_af, hdrlen, told, heading>>
protoVars == <<family, session, attached_protos, plumbed, slot, headVars,
               lladdr, input, heard, late>>
ifVars == <<session, slot, headVars, lladdr>>

ProtoTypeOK ==
    /\ family \in {"tun", "tap"} /\ session \in {"closed", "open", "closing"}
    /\ DOMAIN attached_protos = Slots /\ plumbed \subseteq Protos
    /\ slot \in 1 .. MAX_ATTACHED_PROTOS + 1
    /\ prepend_af \in BOOLEAN /\ heading \in BOOLEAN
    /\ {hdrlen, told} \subseteq {0, AfSize, EtherSize}
    /\ lladdr \in Stations /\ late \in BOOLEAN

\* "new tun_interface()" and "new tap_interface()" clear the table.
ProtoInit ==
    /\ family \in {"tun", "tap"} /\ session = "closed" /\ late \in BOOLEAN
    /\ attached_protos = [i \in Slots |-> [used |-> FALSE, type |-> "", proto |-> NotAttached]]
    /\ plumbed = {} /\ slot = 1
    /\ prepend_af = FALSE /\ hdrlen = 0 /\ told = 0 /\ heading = FALSE
    /\ lladdr = CHOOSE a \in Stations : TRUE
    /\ input = <<>> /\ heard = <<>>

NothingHeard == heard' = <<>> /\ UNCHANGED <<family, late>>
\* tuntap_if_*() find the device's object.
HasInterface == session # "closed"
-----------------------------------------------------------------------------
\* The table of attached protocols.

tap_supports(d) == d # "snap"

\* The entries and the error after one more descriptor.
Store(entries, proto, d) ==
    LET same == {i \in Slots : entries[i].used /\ entries[i].type = d}
        free == {i \in Slots : ~entries[i].used}
    IN  IF same # {}
        THEN [entries |-> entries,
              error |-> IF \E i \in same : entries[i].proto # proto THEN "EEXIST" ELSE ""]
        ELSE IF free = {} THEN [entries |-> entries, error |-> "ENOBUFS"]
        ELSE LET first == CHOOSE i \in free : \A j \in free : i <= j
             IN  [entries |-> [entries EXCEPT ![first] = [used |-> TRUE, type |-> d, proto |-> proto]],
                  error |-> ""]

add_one_proto(entries, proto, d) ==
    IF family = "tap" /\ ~tap_supports(d)
    THEN [entries |-> entries, error |-> "EINVAL"]
    ELSE Store(entries, proto, d)

\* A slip: the search ends with the first entry of the protocol.
SlipDelProto(entries, proto) ==
    LET own == {i \in Slots : entries[i].proto = proto /\ entries[i].used}
    IN  [i \in Slots |-> IF i \in own /\ \A j \in own : i <= j
                         THEN [entries[i] EXCEPT !.used = FALSE] ELSE entries[i]]
if_del_proto(entries, proto) ==
    [i \in Slots |-> IF entries[i].proto = proto
                     THEN [entries[i] EXCEPT !.used = FALSE] ELSE entries[i]]

\* One descriptor after the other; the first that fails takes all of them away.
if_add_proto(entries, proto) ==
    LET Add(sofar, d) ==
          IF sofar.error # "" THEN sofar ELSE add_one_proto(sofar.entries, proto, d)
        all == FoldLeft(Add, [entries |-> entries, error |-> ""], Demands[proto])
    IN  IF all.error = "" THEN all
        ELSE [all EXCEPT !.entries = if_del_proto(all.entries, proto)]

\* ifnet_attach_protocol(): the kernel keeps the protocols that were added.
ifnet_attach_protocol(p) ==
    LET added == if_add_proto(attached_protos, p)
    IN  /\ p \notin plumbed
        /\ attached_protos' = added.entries
        /\ plumbed' = IF added.error = "" THEN plumbed \cup {p} ELSE plumbed

\* ifnet_detach_protocol(): ENXIO for a protocol that is not attached.
ifnet_detach_protocol(p) ==
    IF p \in plumbed
    THEN plumbed' = plumbed \ {p} /\ attached_protos' = if_del_proto(attached_protos, p)
    ELSE UNCHANGED <<plumbed, attached_protos>>

\* tun_inet_attach(), tun_inet6_attach() and their like for other protocols.
Plumb(p) ==
    /\ HasInterface /\ (session = "open" \/ late)
    /\ ifnet_attach_protocol(p)
    /\ NothingHeard /\ UNCHANGED <<ifVars, input>>

\* tun_inet_detach(), tun_inet6_detach() and their like.
Unplumb(p) ==
    /\ HasInterface /\ p \in plumbed
    /\ ifnet_detach_protocol(p)
    /\ NothingHeard /\ UNCHANGED <<ifVars, input>>
-----------------------------------------------------------------------------
\* The session of a program.

tun_initialize_interface ==
    prepend_af' = FALSE /\ hdrlen' = 0 /\ UNCHANGED lladdr

\* The address is random.
tap_initialize_interface ==
    /\ lladdr' \in Stations
    /\ hdrlen' = EtherSize
    /\ UNCHANGED prepend_af

\* A call of initialize_interface() that fails changes nothing.
Open ==
    /\ session = "closed" /\ session' = "open"
    /\ IF family = "tun" THEN tun_initialize_interface ELSE tap_initialize_interface
    /\ told' = hdrlen'
    /\ NothingHeard /\ UNCHANGED <<attached_protos, plumbed, slot, heading, input>>

\* The last close: no call of the program is inside the device.
BeginShutdown ==
    /\ session = "open" /\ ~heading /\ session' = "closing" /\ slot' = 1
    /\ NothingHeard
    /\ UNCHANGED <<attached_protos, plumbed, headVars, lladdr, input>>

\* One turn of the loop that detaches all protocols.
DetachSlot ==
    /\ session = "closing" /\ slot \in Slots
    /\ IF attached_protos[slot].used
       THEN ifnet_detach_protocol(attached_protos[slot].proto)
       ELSE UNCHANGED <<plumbed, attached_protos>>
    /\ slot' = slot + 1
    /\ NothingHeard
    /\ UNCHANGED <<session, headVars, lladdr, input>>

\* unregister_interface(): with the interface goes what the kernel still had on it.
EndShutdown ==
    /\ session = "closing" /\ slot \notin Slots
    /\ session' = "closed" /\ slot' = 1 /\ plumbed' = {} /\ input' = <<>>
    /\ NothingHeard
    /\ UNCHANGED <<attached_protos, headVars, lladdr>>

\* TUNSIFHEAD; cdev_ioctl() of a tap device has no such request.  The flag and
\* the length are written without the lock, so that packets are written and
\* demultiplexed in between; one thread of the program changes the header.
SetHead(on) ==
    /\ session = "open" /\ family = "tun" /\ ~heading
    /\ prepend_af' = on /\ heading' = TRUE
    /\ NothingHeard
    /\ UNCHANGED <<session, slot, hdrlen, told, lladdr, attached_protos, plumbed, input>>

SetHeadLength ==
    /\ heading /\ heading' = FALSE
    /\ hdrlen' = IF prepend_af THEN AfSize ELSE 0
    /\ told' = hdrlen'
    /\ NothingHeard
    /\ UNCHANGED <<session, slot, prepend_af, lladdr, attached_protos, plumbed, input>>

\* SIOCSIFLLADDR of the tap interface.
SetAddress(a) ==
    /\ HasInterface /\ family = "tap"
    /\ lladdr' = a
    /\ NothingHeard
    /\ UNCHANGED <<session, slot, headVars, attached_protos, plumbed, input>>
-----------------------------------------------------------------------------
\* Packets.  "head" is the size of the header before the payload, "off" how
\* much of the packet was cut off.

Destinations == IF family = "tun" THEN {"peer"} ELSE Stations \cup {"broadcast", "multicast"}

\* cdev_write() of a packet of some type for station "to", with the header that
\* the program knows of; hdrlen of it is cut off.
Write(type, to) ==
    /\ session = "open" /\ input = <<>>
    /\ input' = <<[type |-> type, to |-> to, head |-> told, off |-> hdrlen]>>
    /\ NothingHeard /\ UNCHANGED <<ifVars, attached_protos, plumbed>>

\* The type of a packet: from its IP version, where its data begins, or from the
\* header it begins with.  An address family has no version 4 or 6 in its first
\* byte, and an IP header does not begin like an address family.
tun_type(m) ==
    IF prepend_af THEN IF m.head = AfSize THEN m.type ELSE "unknown"
    ELSE IF m.off = m.head THEN m.type ELSE "unknown"
DemuxType(m) == IF family = "tun" THEN tun_type(m) ELSE m.type

\* The flag of the mbuf.
tap_flag(m) ==
    IF family = "tun" THEN "none"
    ELSE IF m.to \in {"broadcast", "multicast"} THEN m.to
    ELSE IF m.to # lladdr THEN "promisc" ELSE "none"

Takers(m) == {i \in Slots : attached_protos[i].used /\ attached_protos[i].type = DemuxType(m)}

\* if_demux(), and what the kernel then gives to the protocol: the packet from
\* "off" on.  ENOENT, also for a packet that is too short, ends its way.
Demux ==
    /\ input # <<>> /\ HasInterface
    /\ LET m == input[1]
       IN  heard' \in {<<>>} \cup
              {<<[proto |-> attached_protos[i].proto, type |-> m.type,
                  rest |-> m.head - m.off, flag |-> tap_flag(m)]>> :
                  i \in {j \in Takers(m) : \A k \in Takers(m) : j <= k}}
    /\ input' = <<>>
    /\ UNCHANGED <<family, late, ifVars, attached_protos, plumbed>>
-----------------------------------------------------------------------------
ProtoNext ==
    \/ \E p \in Protos : Plumb(p) \/ Unplumb(p)
    \/ Open \/ BeginShutdown \/ DetachSlot \/ EndShutdown
    \/ (\E on \in BOOLEAN : SetHead(on)) \/ SetHeadLength
    \/ \E a \in Stations : SetAddress(a)
    \/ \E type \in IpTypes, to \in Destinations : Write(type, to)
    \/ Demux

ProtoSpec == ProtoInit /\ [][ProtoNext]_protoVars
-----------------------------------------------------------------------------
\* What if_demux() finds a protocol for reaches one that the kernel has attached
\* to this interface and that asked for such packets, and reaches it without
\* any header: whatever was attached, refused, detached or left from earlier
\* sessions, and however often TUNSIFHEAD changed the header while the packet
\* was written or after it.  A kernel that attaches protocols to an interface which is being
\* closed leaves entries to the next session.
DeliveredToOwn ==
    heard # <<>> /\ ~late =>
        /\ heard[1].proto \in plumbed
        /\ heard[1].type \in ToSet(Demands[heard[1].proto])
        /\ heard[1].rest = 0

==============================================================================
