------------------------------- MODULE MCParts -------------------------------
(* TLC instances of parts that are checked for safety only: the transport of  *)
(* TSP over UDP (Rudp), the messages between gogoc and its GUI (Messaging), a *)
(* Teredo client's qualification (Qualification), and of miredo the           *)
(* configuration file (MiredoConf), the start (MiredoStart) and the tunnel    *)
(* device (Tun6), of gogoc the scripts on Linux (TspScript), and the          *)
(* interface of a tun or tap device (TunTapProto).  They share no state: a    *)
(* behaviour is one of either.                                                *)
EXTENDS Rudp, Messaging, Qualification, MiredoConf, MiredoStart, Tun6, TspScript,
        TunTapProto

VARIABLE part
others == <<confVars, startVars, tunVars, protoVars>>
gogocVars == <<rudpVars, mvars, scriptVars>>
all == <<gogocVars, qualVars, others, part>>

MCInit ==
  /\ RudpInit /\ MessagingInit /\ QualInit /\ ConfInit /\ StartInit /\ TunInit
  /\ ScriptInit /\ ProtoInit
  /\ part \in {"transport", "messaging", "qualification", "configuration", "start", "device",
              "script", "interface"}
  /\ part # "qualification" => nat = <<4, 1>>
  /\ part # "configuration" => file = <<>> /\ ~given
  /\ part # "start" => foreground = [i \in Instances |-> TRUE]
  /\ part # "device" => isClient /\ named
  /\ part # "interface" => family = "tun" /\ ~late
  /\ part # "script" => hostType = "host" /\ hasIp

Transport == part = "transport" /\ RudpNext /\ UNCHANGED <<mvars, scriptVars, qualVars, others, part>>
Exchange == part = "messaging" /\ MessagingNext /\ UNCHANGED <<rudpVars, scriptVars, qualVars, others, part>>
Scripts == part = "script" /\ ScriptNext /\ UNCHANGED <<rudpVars, mvars, qualVars, others, part>>
Qualify == part = "qualification" /\ QualNext /\ UNCHANGED <<gogocVars, others, part>>
Configurations == /\ part = "configuration" /\ ConfNext
                  /\ UNCHANGED <<gogocVars, qualVars, startVars, tunVars, protoVars, part>>
Starting == /\ part = "start" /\ StartNext
            /\ UNCHANGED <<gogocVars, qualVars, confVars, tunVars, protoVars, part>>
Device == /\ part = "device" /\ TunNext
          /\ UNCHANGED <<gogocVars, qualVars, confVars, startVars, protoVars, part>>
Interface == /\ part = "interface" /\ ProtoNext
             /\ UNCHANGED <<gogocVars, qualVars, confVars, startVars, tunVars, part>>

MCSpec ==
  MCInit /\ [][Transport \/ Exchange \/ Scripts \/ Qualify \/ Configurations \/ Starting
              \/ Device \/ Interface]_all

(* Rudp *)
mc_Fractions == {0, 1}

(* Messaging *)
mc_StrLen == [broker |-> 2, root |-> 3, host |-> 2]
mc_Statuses == {[eStatus |-> 1, nStatus |-> 0]}
mc_Tunnels == {[szBrokerName |-> "broker", eTunnelType |-> 2,
                szIPV4AddrLocalEndpoint |-> NULL, szIPV6AddrLocalEndpoint |-> "host",
                szIPV4AddrRemoteEndpoint |-> NULL, szIPV6AddrRemoteEndpoint |-> NULL,
                szDelegatedPrefix |-> NULL, szUserDomain |-> NULL, tunnelUpTime |-> 3]}
mc_BrokerLists == {<<>>, <<[szAddress |-> "broker", nDistance |-> 5],
                           [szAddress |-> "host", nDistance |-> 7]>>}
mc_HAccess == {[haccess_proxy_status |-> 1, haccess_web_status |-> 2, haccess_devmapmod_status |-> 3,
                haccess_devmap_statuses |-> <<[device_name |-> "host", mapping_status |-> 4],
                                              [device_name |-> "host", mapping_status |-> 6]>>]}
mc_Configs == {[haccess_doc_root |-> "root", haccess_proxy_enabled |-> TRUE,
                haccess_web_enabled |-> FALSE, haccess_devmap_changed |-> TRUE]}
mc_Requests == {"REQUEST_BROKERLIST"}

(* TspScript *)
mc_Delegated == {<<"p", "48">>, <<"q", "64">>}

(* TunTapProto: an Ethernet interface gives IP and ARP to one protocol.       *)
mc_Demands == [inet |-> <<"ip4", "arp">>, inet6 |-> <<"ip6">>,
               other |-> <<"x", "ip4">>, odd |-> <<"y", "snap">>]

(* Qualification *)
mc_GlobalIps == 2 .. 7
mc_Mappings == {<<4, 1>>, <<5, 2>>}
mc_Peer == <<6, 2>>
mc_RelayAt == <<7, 3>>
mc_Configured == {[prefix |-> "2001", mtu |-> 1400]}

(* MiredoConf *)
mc_Lines ==
    {<<"RelayType", "relay">>, <<"RelayType", "bad">>, <<"ServerAddress", "good">>,
     <<"ServerAddress", "bad">>, <<"LocalDiscovery", "good">>, <<"DiscoveryNetmask", "bad">>,
     <<"Prefix", "bad">>, <<"InterfaceMTU", "good">>, <<"BindPort", "bad">>,
     <<"SyslogFacility", "good">>, <<"incomplete", "">>, <<"comment", "">>}
==============================================================================
