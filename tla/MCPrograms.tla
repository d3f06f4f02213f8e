----------------------------- MODULE MCPrograms -----------------------------
(* TLC instances of the application (MaiccuApp and its notifications,        *)
(* Notifier), of the TIC sessions of its library (Tic) and of the AICCU      *)
(* client it runs (Aiccu).  They share no state, so a behaviour is one of    *)
(* either.                                                                   *)
EXTENDS MaiccuApp, Notifier, Tic, Aiccu

VARIABLE part
all == <<vars, postVars, ticVars, aiccuVars, part>>

MCInit ==
  /\ Init /\ PostInit /\ TicInit /\ AiccuInit
  /\ part \in {"app", "notifier", "tic", "aiccu"}
  /\ part # "app" => byHand /\ adapter = "gogoc" /\ settings.tunnel_id = ""
  /\ addr = "a1"           \* by symmetry
  /\ part # "aiccu" => /\ pidfile = "none" /\ makebeats
                       /\ cmd.mode = "test" /\ cmd.type = "heartbeat" /\ cmd.noconfigure

App == part = "app" /\ Next /\ UNCHANGED <<postVars, ticVars, aiccuVars, part>>
Posts == /\ part = "notifier" /\ \E t \in Posters : Post(t)
         /\ UNCHANGED <<vars, ticVars, aiccuVars, part>>
PostSteps(t) == /\ part = "notifier" /\ PostStep(t)
                /\ UNCHANGED <<vars, ticVars, aiccuVars, part>>
Sessions == part = "tic" /\ TicNext /\ UNCHANGED <<vars, postVars, aiccuVars, part>>
Client == part = "aiccu" /\ Main /\ UNCHANGED <<vars, postVars, ticVars, part>>
Others == part = "aiccu" /\ (Threads \/ World) /\ UNCHANGED <<vars, postVars, ticVars, part>>

MCSpec ==
  /\ MCInit
  /\ [][App \/ Posts \/ (\E t \in Posters : PostSteps(t)) \/ Sessions \/ Client \/ Others]_all
  /\ WF_all(handlers /\ Client) /\ \A t \in Posters : WF_all(PostSteps(t))

t1 == "t1"
t2 == "t2"
\* Limit lines are what a list of two tunnels has.
MCListings == {<<>>, <<t1>>, <<t1, t2>>, <<Bad, t1>>, <<t1, Bad, t2>>, <<t1, t2, "t3">>}

MCSettings ==
  {[username |-> "", password |-> "", server |-> "ok", tunnel_id |-> ""],
   [username |-> "ok", password |-> "", server |-> "ok", tunnel_id |-> "v6udpv4"],
   [username |-> "ok", password |-> "ok", server |-> "", tunnel_id |-> "v6v4"],
   [username |-> "pad", password |-> "blank", server |-> "ok", tunnel_id |-> "v6v4"],
   [username |-> "ok", password |-> "pad", server |-> "ok", tunnel_id |-> "v6udpv4"]}

(* A minimal file for an anonymous tunnel. *)
MCHandMade ==
  ("server" :> "ok") @@ ("template" :> "darwin") @@ ("auth_method" :> "anonymous")
  @@ ("if_tunnel_v6v4" :> "ok") @@ ("if_tunnel_v6udpv4" :> "ok")

MCLines ==
  {<<"auth_method", "any">>, <<"passwd", "pad">>, <<"passwd", "blank">>, <<"server", "bad">>,
   <<"tunnel_mode", "v6udpv4">>, <<"tunnel_mode", "v4v6">>, <<"tunnel_mode", "dslite">>,
   <<"if_tunnel_v6udpv4", "blank">>, <<"if_tunnel_v4v6", "ok">>,
   <<"keepalive", "no">>, <<"keepalive_interval", "0">>, <<"proxy_client", "yes">>,
   <<"auto_retry_connect", "x">>, <<"retry_delay", "3600">>, <<"retry_delay", "3601">>,
   <<"retry_delay_max", "3600">>, <<"prefixlen", "129">>, <<"prefixlen", "65600">>,
   <<"host_type", "router">>, <<"if_prefix", "ok">>, <<"log_file", "x">>, <<"log_file", "4">>}
============================================================================
