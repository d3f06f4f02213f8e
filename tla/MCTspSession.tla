---------------------------- MODULE MCTspSession ----------------------------
(* TLC instances of TspSession, the sessions of gogoc, and MiredoDaemon, the  *)
(* processes of miredo, which share no state: a behaviour is one of either.   *)
(* Only the last may stop for ever (see Stuck), so that a session that cannot *)
(* go on is a deadlock.                                                       *)
EXTENDS TspSession, MiredoDaemon
CONSTANTS a1, k1, k2
OneAddr == {a1}
TwoKeys == {k1, k2}
MCLives == 1 .. 2

VARIABLE part
all == <<vars, dmvars, part>>

MCInit ==
    /\ Init /\ DaemonInit
    /\ \/ part = "session"
       \/ /\ part = "daemon"
          /\ conf = (CHOOSE c \in Configurations : TRUE) /\ native = "none"
Working == part = "session" /\ Client /\ UNCHANGED <<dmvars, part>>
Answering == part = "session" /\ Answered /\ UNCHANGED <<dmvars, part>>
Sessions == part = "session" /\ Next /\ UNCHANGED <<dmvars, part>>
Daemon(A) == part = "daemon" /\ A /\ UNCHANGED <<vars, part>>
\* A daemon that has ended, or a child that waits for a lock nobody will release.
Stuck == part = "daemon" /\ UNCHANGED all

MCFairness ==
    /\ WF_all(Working) /\ WF_all(Answering)
    /\ WF_all(Daemon(ParentStep)) /\ WF_all(Daemon(MainStep)) /\ WF_all(Daemon(CallbackStep))
    /\ WF_all(Daemon(EncapTransmit)) /\ WF_all(Daemon(ReceiveProcess))
    /\ \A l \in Lives : WF_all(Daemon(PrivStep(l)))

MCSpec ==
    MCInit /\ [][Sessions \/ Daemon(DaemonNext) \/ Stuck]_all /\ MCFairness
=============================================================================
