----------------------------- MODULE MCKeepAlive -----------------------------
(* TLC instances of KeepAlive and EchoEngine, the thread it runs: a          *)
(* behaviour is one of the two, as they share no state.  KeepAlive's is      *)
(* finite for every value of the constants.                                  *)
EXTENDS KeepAlive, EchoEngine

OneStepBack == {3}

VARIABLE part
all == <<vars, echoVars, part>>

Main == part = "keepalive" /\ MainStep /\ UNCHANGED <<echoVars, part>>
Thread == part = "keepalive" /\ ThreadStep /\ UNCHANGED <<echoVars, part>>
Other == part = "keepalive" /\ (Signal \/ Done) /\ UNCHANGED <<echoVars, part>>
EngineStep == part = "echo" /\ Engine /\ UNCHANGED <<vars, part>>
Clock == part = "echo" /\ Tick /\ UNCHANGED <<vars, part>>
World == part = "echo" /\ EchoNext /\ UNCHANGED <<vars, part>>

MCInit == part \in {"keepalive", "echo"} /\ Init /\ EchoInit
MCNext == Main \/ Thread \/ Other \/ World
MCSpec ==
    /\ MCInit /\ [][MCNext]_all
    /\ WF_all(Main) /\ WF_all(Thread) /\ WF_all(EngineStep) /\ WF_all(Clock)
=============================================================================
