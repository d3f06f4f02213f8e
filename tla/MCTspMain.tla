----------------------------- MODULE MCTspMain -----------------------------
(* TLC instances of TspMain and of BrokerRedirect, which share no state: a    *)
(* behaviour is one of the connection loop or one of the redirection.         *)
(* The loop has two brokers, and lists of one and of both.  Redirection       *)
(* answers hold up to one broker too many, with and without an IPv6 and an    *)
(* FQDN broker; the first IPv4 and the FQDN broker have the same address.     *)
EXTENDS TspMain, BrokerRedirect
CONSTANTS b1, b2, a1, a2
MCLists == {<<>>, <<b1>>, <<b1, b2>>}
AnyModes == Configurations
Heads(a, b) == {SubSeq(<<a, b, a, b>>, 1, n) : n \in 0..MaxBrokers + 1}
MCAnswers == {<<v4, v6, dn>> \in Heads(a1, a2) \X {<<>>, <<a2>>} \X {<<>>, <<a1>>} :
                 Len(v4) + Len(v6) + Len(dn) <= MaxBrokers + 1}

VARIABLE part
all == <<vars, redirectVars, part>>

MCInit ==
    /\ Init /\ RedirectInit
    /\ \/ part = "loop"
       \/ /\ part = "redirect" /\ conf = CHOOSE c \in Confs : TRUE
          /\ file = NULL /\ lastFile = NULL
Loop == part = "loop" /\ Next /\ UNCHANGED <<redirectVars, part>>
Redirection == part = "redirect" /\ RedirectNext /\ UNCHANGED <<vars, part>>
MCSpec == MCInit /\ [][Loop \/ Redirection]_all /\ WF_all(Loop)
=============================================================================
