------------------------------ MODULE Messages ------------------------------
(***************************************************************************)
(* The bodies of the messages which the gogoCLIENT and its GUI exchange    *)
(* (gogoc-messaging): the senders' serialisers, the translators' parsers   *)
(* and the packets of Servent.  A buffer is a sequence of cells.  A scalar *)
(* (enum, int, bool, time_t) takes one cell, a string one cell for each    *)
(* character and one for its terminator.                                   *)
(***************************************************************************)
EXTENDS Integers, Sequences, SequencesExt, TLC

CONSTANTS
  StrLen,             \* the length of each string that may be sent
  NULL,               \* the null pointer
  PKT_USERDATA_MAX,   \* cells of user data in a packet (servent.cc: 1020)
  MAX_USERDATA,       \* cells in a message (servent.cc: 64260)
  SeqModulus          \* message sequence numbers (6 bits: 64)

ASSUME MessagesAssumption ==
  /\ \A s \in DOMAIN StrLen : StrLen[s] \in Nat \ {0}
  /\ PKT_USERDATA_MAX \in Nat \ {0} /\ MAX_USERDATA \in Nat /\ SeqModulus \in Nat \ {0}

NUL == "nul"
Empty == "empty"
Junk == "junk"

-----------------------------------------------------------------------------
(* What is in a buffer at an offset.  The receive buffer is larger than    *)
(* the message: what lies behind its end is left over from earlier ones.   *)
At(d, i) == IF i < Len(d) THEN d[i + 1] ELSE Junk

strlen(d, i) == IF \E k \in i .. Len(d) - 1 : At(d, k) = NUL
                THEN (CHOOSE k \in i .. Len(d) - 1 :
                        At(d, k) = NUL /\ \A j \in i .. k - 1 : At(d, j) # NUL) - i
                ELSE Len(d) - i

StrAt(d, i) == IF strlen(d, i) = 0 THEN Empty ELSE At(d, i)

(* A null string is sent as the terminator alone, like the empty one. *)
Str(s) == IF s \in {NULL, Empty} THEN <<NUL>> ELSE [i \in 1 .. StrLen[s] |-> s] \o <<NUL>>

(* What the receiving side can be expected to know of a sent string. *)
Sent(s) == IF s = NULL THEN Empty ELSE s

-----------------------------------------------------------------------------
(* message.h, message.cc *)
MSG_HEADER_LEN == 1
MSG_MAX_USERDATA == MAX_USERDATA - MSG_HEADER_LEN

CreateMessage(id, d) == IF Len(d) < MSG_MAX_USERDATA
                        THEN [msgid |-> id, data |-> d] ELSE NULL

RawSize(m) == MSG_HEADER_LEN + Len(m.data)

Raw(m) == <<m.msgid>> \o m.data

(* What AssertMessage and the cast of the receive buffer make of a raw message. *)
AsMessage(raw) == [msgid |-> raw[1], data |-> Tail(raw)]

-----------------------------------------------------------------------------
(* The gogoCLIENT's four messages, serialised and parsed.                  *)

Send_StatusInfo(a) == CreateMessage("STATUSINFO", <<a.eStatus, a.nStatus>>)

TranslateStatusInfo(d) == [eStatus |-> At(d, 0), nStatus |-> At(d, 1)]

(* The strings of a gogocTunnelInfo between the type and the uptime. *)
TunnelStrings == <<"szIPV4AddrLocalEndpoint", "szIPV6AddrLocalEndpoint",
                   "szIPV4AddrRemoteEndpoint", "szIPV6AddrRemoteEndpoint",
                   "szDelegatedPrefix", "szUserDomain">>

Send_TunnelInfo(a) ==
  CreateMessage("TUNNELINFO",
    Str(a.szBrokerName) \o <<a.eTunnelType>>
      \o FlattenSeq([i \in DOMAIN TunnelStrings |-> Str(a[TunnelStrings[i]])])
      \o <<a.tunnelUpTime>>)

TranslateTunnelInfo(d) ==
  LET type == strlen(d, 0) + 1
      \* the cursor in front of the i-th of TunnelStrings
      cursor[i \in 1 .. Len(TunnelStrings) + 1] ==
        IF i = 1 THEN type + 1
        ELSE cursor[i - 1] + strlen(d, cursor[i - 1]) + 1
      index == [f \in ToSet(TunnelStrings) |->
                  CHOOSE i \in DOMAIN TunnelStrings : TunnelStrings[i] = f]
  IN  [f \in ToSet(TunnelStrings) |-> StrAt(d, cursor[index[f]])]
        @@ [szBrokerName |-> StrAt(d, 0), eTunnelType |-> At(d, type),
            tunnelUpTime |-> At(d, cursor[Len(TunnelStrings) + 1])]

Send_BrokerList(list) ==
  CreateMessage("BROKERLIST",
    FlattenSeq([i \in DOMAIN list |-> Str(list[i].szAddress) \o <<list[i].nDistance>>]))

(* The recursion moves pData forward to each entry and also keeps counting *)
(* nCursor from the start of the message: at an entry both stand at c, and *)
(* the distance is taken at pData + nCursor.                               *)
BuildBrokerList(d) ==
  LET build[c \in 0 .. Len(d)] ==
        IF c >= Len(d) THEN <<>>
        ELSE LET nNameLen == strlen(d, c) + 1
                 nCursor == c + nNameLen
             IN  <<[szAddress |-> StrAt(d, c), nDistance |-> At(d, c + nCursor)]>>
                   \o build[nCursor + 1]
  IN  build[0]

Send_HACCESSStatusInfo(a) ==
  CreateMessage("HACCESSSTATUSINFO",
    <<a.haccess_proxy_status, a.haccess_web_status, a.haccess_devmapmod_status>>
      \o FlattenSeq([i \in DOMAIN a.haccess_devmap_statuses |->
           Str(a.haccess_devmap_statuses[i].device_name)
             \o <<a.haccess_devmap_statuses[i].mapping_status>>]))

BuildMappingStatuses(d, start) ==
  LET build[c \in 0 .. Len(d)] ==
        IF c >= Len(d) THEN <<>>
        ELSE LET nNameLen == strlen(d, c) + 1
             IN  <<[device_name |-> StrAt(d, c), mapping_status |-> At(d, c + nNameLen)]>>
                   \o build[c + nNameLen + 1]
  IN  build[start]

TranslateHACCESSStatusInfo(d) ==
  [haccess_proxy_status |-> At(d, 0), haccess_web_status |-> At(d, 1),
   haccess_devmapmod_status |-> At(d, 2), haccess_devmap_statuses |-> BuildMappingStatuses(d, 3)]

(* The one message of the GUI which carries data. *)
Send_HACCESSConfigInfo(a) ==
  CreateMessage("HACCESSCONFIGINFO",
    Str(a.haccess_doc_root)
      \o <<a.haccess_proxy_enabled, a.haccess_web_enabled, a.haccess_devmap_changed>>)

TranslateHACCESSConfigInfo(d) ==
  LET c == strlen(d, 0) + 1
  IN  [haccess_doc_root |-> StrAt(d, 0), haccess_proxy_enabled |-> At(d, c),
       haccess_web_enabled |-> At(d, c + 1), haccess_devmap_changed |-> At(d, c + 2)]

-----------------------------------------------------------------------------
(* Servent's packets.                                                      *)

(* A packet that ends the message exactly is not taken for the last one. *)
SlipMakePacket(m, nWritten, seq) ==
  LET left == RawSize(m) - nWritten
      frag == nWritten \div PKT_USERDATA_MAX
      more == left >= PKT_USERDATA_MAX
      size == IF more THEN PKT_USERDATA_MAX ELSE left
  IN  [type |-> IF frag = 0 THEN IF more THEN "FRAGDATAFIRST" ELSE "NONFRAGDATA"
                ELSE IF more THEN "FRAGDATA" ELSE "FRAGDATALAST",
       seq |-> seq, frag |-> frag, data |-> SubSeq(Raw(m), nWritten + 1, nWritten + size)]
(* The packet that starts at offset nWritten of a message's raw data.      *)
MakePacket(m, nWritten, seq) ==
  LET left == RawSize(m) - nWritten
      frag == nWritten \div PKT_USERDATA_MAX
      more == left > PKT_USERDATA_MAX
      size == IF more THEN PKT_USERDATA_MAX ELSE left
  IN  [type |-> IF frag = 0 THEN IF more THEN "FRAGDATAFIRST" ELSE "NONFRAGDATA"
                ELSE IF more THEN "FRAGDATA" ELSE "FRAGDATALAST",
       seq |-> seq, frag |-> frag, data |-> SubSeq(Raw(m), nWritten + 1, nWritten + size)]

IsLast(p) == p.type \in {"NONFRAGDATA", "FRAGDATALAST"}

Joined(got) == FlattenSeq([i \in DOMAIN got |-> got[i].data])

(* What _ReadData says of packet p after the packets got of a message. *)
ReadVerdict(got, p) ==
  CASE Len(p.data) = 0 -> "BADPACKET"
    [] got # <<>> /\ p.seq # Last(got).seq -> "IPCDESYNCHRONIZED"
    [] got # <<>> /\ p.frag # Last(got).frag + 1 -> "PACKETSNOTORDERED"
    [] Len(Joined(got)) + Len(p.data) > MAX_USERDATA -> "READBUFFERTOOSMALL"
    [] OTHER -> "NOERROR"
=============================================================================
