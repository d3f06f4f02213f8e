------------------------------ MODULE MCTunTap ------------------------------
(* Instances of TunTap and of RelayPeer for TLC.  They have nothing to do     *)
(* with each other: a behaviour is one of the device or one of the peer.      *)
(* Two threads of a kind of the device are alike.                                    *)
EXTENDS TunTap, RelayPeer, TLC

Alike == Permutations(Users) \cup Permutations(Stack)

MCMaps == {<<"ip1", "port1">>, <<"ip2", "port2">>, <<"ip1", "port2">>}
MCOwnMap == <<"ip1", "port1">>

VARIABLE part
all == <<vars, relayVars, part>>

MCInit ==
    /\ Init /\ RelayInit
    /\ part = "relay" \/ (part = "device" /\ kind = "native")
Device == part = "device" /\ Next /\ UNCHANGED <<relayVars, part>>
Client == part = "relay" /\ RelayNext /\ UNCHANGED <<vars, part>>
MCSpec == MCInit /\ [][Device \/ Client]_all
=============================================================================
