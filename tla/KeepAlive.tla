----------------------------- MODULE KeepAlive ------------------------------
(***************************************************************************)
(* The keepalive of an established tunnel in gogoc-tsp: the tunnel loop    *)
(* (tspPerformTunnelLoop in tsp_tun_mgt.c for a v6v4 tunnel, TunMainLoop   *)
(* in platform/darwin/tsp_tun.c for a v6udpv4 one) starts a keepalive      *)
(* thread (net_ka.c), watches its status, and ends with a stop signal, a   *)
(* keepalive failure or the end of the tunnel's lease.                     *)
(*                                                                         *)
(* The thread runs IEE_process, whose details are in EchoEngine: here it   *)
(* is the tests of eng_ongoing, the uses of the socket and the result.     *)
(***************************************************************************)
EXTENDS Naturals

CONSTANTS Loop,        \* "mgt": tspPerformTunnelLoop, "tun": TunMainLoop
          HasLease,    \* tun_lifetime # 0 (tspPerformTunnelLoop only)
          StartPrompt  \* KA_start goes on within one send interval

ASSUME KeepAliveAssumption ==
    /\ Loop \in {"mgt", "tun"} /\ HasLease \in BOOLEAN /\ StartPrompt \in BOOLEAN
    /\ HasLease => Loop = "mgt"

Statuses == {"INVALID", "ONGOING", "FIN_SUCCESS", "FIN_TIMEOUT", "FIN_ERROR"}

VARIABLES
    mpc,       \* the tunnel loop
    stopping,  \* ongoing = 0: the loop has seen the stop signal
    after,     \* where KA_stop returns to
    result,    \* status of the loop
    signal,    \* indSigHUP
    engine,    \* the engine structures: "none", "live" or "freed"
    kaStatus,  \* ka_status
    ongoing,   \* eng_ongoing
    sfd,       \* icmp_sfd: "none", "open" or "closed"
    joins,     \* how often the thread was joined
    tpc,       \* the keepalive thread
    iee,       \* what IEE_process returned
    failed     \* the network or the peer failed (history)

main == <<mpc, stopping, after, result>>
thread == <<tpc, iee, failed>>
vars == <<main, signal, engine, kaStatus, ongoing, sfd, joins, thread>>

Init ==
    /\ mpc = "init" /\ stopping = FALSE /\ after = "none" /\ result = "SUCCESS"
    /\ signal = FALSE /\ engine = "none" /\ kaStatus = "INVALID"
    /\ ongoing = FALSE /\ sfd = "none" /\ joins = 0
    /\ tpc = "none" /\ iee = "SUCCESS" /\ failed = FALSE

-----------------------------------------------------------------------------
(* The tunnel loop.                                                        *)

\* KA_init: the structures are allocated and the raw socket is opened, or
\* the loop returns at once.
KAInit ==
    /\ mpc = "init"
    /\ \/ /\ mpc' = "start" /\ engine' = "live" /\ sfd' = "open"
          /\ ongoing' = TRUE /\ kaStatus' = "INVALID" /\ UNCHANGED result
       \/ /\ mpc' = "done" /\ result' = "KA_ERROR"
          /\ UNCHANGED <<engine, sfd, ongoing, kaStatus>>
    /\ UNCHANGED <<stopping, after, signal, joins, thread>>

\* KA_start: pal_thread_create.
CreateThread ==
    /\ mpc = "start"
    /\ mpc' = "started" /\ tpc' = "sleep"
    /\ UNCHANGED <<stopping, after, result, signal, engine, kaStatus, ongoing,
                   sfd, joins, iee, failed>>

\* KA_start fails: KA_destroy, and the loop returns.
CreateThreadFails ==
    /\ mpc = "start"
    /\ mpc' = "done" /\ result' = "KA_ERROR" /\ engine' = "freed" /\ sfd' = "closed"
    /\ UNCHANGED <<stopping, after, signal, kaStatus, ongoing, joins, thread>>

\* KA_start: the status is set after the thread was created.
Started ==
    /\ mpc = "started"
    /\ kaStatus' = "ONGOING" /\ mpc' = "check"
    /\ UNCHANGED <<stopping, after, result, signal, engine, ongoing, sfd, joins, thread>>

\* One wait of the loop, then tspCheckForStopOrWait and the first KA_stop.
\* TunMainLoop forwards packets meanwhile, which changes nothing here.
Check ==
    /\ mpc = "check"
    /\ stopping' = signal
    /\ IF signal THEN mpc' = "stop" /\ after' = "query"
                 ELSE mpc' = "query" /\ UNCHANGED after
    /\ UNCHANGED <<result, signal, engine, kaStatus, ongoing, sfd, joins, thread>>

\* KA_stop, three steps: IEE_stop clears eng_ongoing, closes the socket, and
\* the thread is joined.
StopFlag ==
    /\ mpc = "stop"
    /\ ongoing' = FALSE /\ mpc' = "close"
    /\ UNCHANGED <<stopping, after, result, signal, engine, kaStatus, sfd, joins, thread>>

StopClose ==
    /\ mpc = "close"
    /\ sfd' = "closed" /\ mpc' = "join"
    /\ UNCHANGED <<stopping, after, result, signal, engine, kaStatus, ongoing, joins, thread>>

\* pal_thread_join waits for the thread's end.  A second join of the same
\* thread returns an error, which KA_stop's callers ignore.
Join ==
    /\ mpc = "join" /\ tpc = "exited"
    /\ mpc' = after /\ joins' = joins + 1
    /\ UNCHANGED <<stopping, after, result, signal, engine, kaStatus, ongoing, sfd, thread>>

\* The timeout is not one of the cases.
SlipFailureOf(s) == CASE s \in {"FIN_SUCCESS", "ONGOING", "FIN_TIMEOUT"} -> "SUCCESS"
                      [] s \in {"FIN_ERROR", "INVALID"} -> "KA_ERROR"

FailureOf(s) == CASE s \in {"FIN_SUCCESS", "ONGOING"} -> "SUCCESS"
                  [] s = "FIN_TIMEOUT" -> "KA_TIMEOUT"
                  [] s \in {"FIN_ERROR", "INVALID"} -> "KA_ERROR"

\* KA_qry_status and the switch on it: a failure calls KA_stop (again).
Query ==
    /\ mpc = "query"
    /\ result' = FailureOf(kaStatus)
    /\ IF FailureOf(kaStatus) = "SUCCESS" THEN mpc' = "lease" /\ UNCHANGED after
                                          ELSE mpc' = "stop" /\ after' = "lease"
    /\ UNCHANGED <<stopping, signal, engine, kaStatus, ongoing, sfd, joins, thread>>

LoopEnds(r) == r # "SUCCESS" \/ stopping

\* The lease test at the end of an iteration, and the loop's condition.
\* TunMainLoop has no lease, and leaves its loop for the same reasons.
LeaseTest ==
    /\ mpc = "lease"
    /\ \/ UNCHANGED result
       \/ HasLease /\ result' = "LEASE_EXPIRED"
    /\ mpc' = IF LoopEnds(result') THEN "destroy" ELSE "check"
    /\ UNCHANGED <<stopping, after, signal, engine, kaStatus, ongoing, sfd, joins, thread>>

\* KA_destroy: IEE_destroy closes the socket and frees, then the keepalive
\* structure is freed.
KADestroy ==
    /\ mpc = "destroy"
    /\ sfd' = "closed" /\ engine' = "freed" /\ mpc' = "done"
    /\ UNCHANGED <<stopping, after, result, signal, kaStatus, ongoing, joins, thread>>

\* The stop signal: SIGHUP, SIGTERM or SIGINT.
Signal ==
    /\ ~signal /\ signal' = TRUE
    /\ UNCHANGED <<main, engine, kaStatus, ongoing, sfd, joins, thread>>

-----------------------------------------------------------------------------
(* The keepalive thread: _ka_start_thread and, inside it, IEE_process.     *)

\* The sleep of one interval before the first request.
Sleep ==
    /\ tpc = "sleep" /\ (StartPrompt => mpc # "started")
    /\ tpc' = "test"
    /\ UNCHANGED <<main, signal, engine, kaStatus, ongoing, sfd, joins, iee, failed>>

Test ==
    /\ tpc = "test"
    /\ tpc' = IF ongoing THEN "send" ELSE "report"
    /\ UNCHANGED <<main, signal, engine, kaStatus, ongoing, sfd, joins, iee, failed>>

\* _do_send_wrap: on an open socket it may fail, on a closed one it does.
Send ==
    /\ tpc = "send"
    /\ \/ sfd = "open" /\ tpc' = "sent" /\ UNCHANGED <<iee, failed>>
       \/ /\ tpc' = "report" /\ iee' = "ERROR"
          /\ failed' = (failed \/ sfd = "open")
    /\ UNCHANGED <<main, signal, engine, kaStatus, ongoing, sfd, joins>>

Sent ==
    /\ tpc = "sent"
    /\ tpc' = IF ongoing THEN "read" ELSE "report"
    /\ UNCHANGED <<main, signal, engine, kaStatus, ongoing, sfd, joins, iee, failed>>

\* _do_read_wrap returns: when it is time to send again, or after a stop.
ReadEnds ==
    /\ tpc = "read"
    /\ tpc' = "test"
    /\ UNCHANGED <<main, signal, engine, kaStatus, ongoing, sfd, joins, iee, failed>>

\* _do_read_wrap ends the engine: the peer no longer answers, which is found
\* after a stop too, or the socket failed.
ReadFails ==
    /\ tpc = "read"
    /\ iee' = "TIMEOUT" \/ (sfd = "open" /\ iee' = "ERROR")
    /\ ongoing' = FALSE /\ failed' = TRUE
    /\ tpc' = "report"
    /\ UNCHANGED <<main, signal, engine, kaStatus, sfd, joins>>

FinalStatus(r) == CASE r = "SUCCESS" -> "FIN_SUCCESS" [] r = "TIMEOUT" -> "FIN_TIMEOUT"
                    [] r = "ERROR" -> "FIN_ERROR"

\* _ka_start_thread writes the status and the thread exits.
Report ==
    /\ tpc = "report"
    /\ kaStatus' = FinalStatus(iee) /\ tpc' = "exited"
    /\ UNCHANGED <<main, signal, engine, ongoing, sfd, joins, iee, failed>>

-----------------------------------------------------------------------------
MainStep == KAInit \/ CreateThread \/ CreateThreadFails \/ Started \/ Check
            \/ StopFlag \/ StopClose \/ Join \/ Query \/ LeaseTest \/ KADestroy
ThreadStep == Sleep \/ Test \/ Send \/ Sent \/ ReadEnds \/ ReadFails \/ Report
Done == mpc = "done" /\ tpc \in {"none", "exited"} /\ UNCHANGED vars
Next == MainStep \/ ThreadStep \/ Signal \/ Done

Spec == Init /\ [][Next]_vars

\* Both threads are scheduled.  Every wait of theirs has a time limit: the
\* loop's wait, select()'s delay, the sleep in chunks of a second.
LiveSpec == Spec /\ WF_vars(MainStep) /\ WF_vars(ThreadStep)

-----------------------------------------------------------------------------
\* The type invariant.
TypeOK ==
    /\ mpc \in {"init", "start", "started", "check", "stop", "close", "join",
                "query", "lease", "destroy", "done"}
    /\ tpc \in {"none", "sleep", "test", "send", "sent", "read", "report", "exited"}
    /\ after \in {"none", "query", "lease"}
    /\ result \in {"SUCCESS", "KA_ERROR", "KA_TIMEOUT", "LEASE_EXPIRED"}
    /\ engine \in {"none", "live", "freed"} /\ kaStatus \in Statuses
    /\ sfd \in {"none", "open", "closed"} /\ joins \in 0 .. 2
    /\ iee \in {"SUCCESS", "ERROR", "TIMEOUT"}
    /\ stopping \in BOOLEAN /\ signal \in BOOLEAN
    /\ ongoing \in BOOLEAN /\ failed \in BOOLEAN

Running == tpc \notin {"none", "exited"}

\* The keepalive thread uses the engine structures until it exits: KA_destroy
\* frees them only after KA_stop has joined the thread.
EngineAlive == Running => engine = "live"

\* A tunnel loop that has returned leaves no keepalive thread behind ("Clean-up
\* resources allocated for keepalive functionnality", tsp_tun_mgt.c).
NothingLeft == mpc = "done" => ~Running

\* A keepalive timeout is reported as one, even when the stop signal comes
\* while the status is read: the loop never returns KEEP_ALIVE_TIMEOUT for a
\* peer that answers.
TimeoutIsReported ==
    /\ result = "KA_TIMEOUT" => failed /\ iee = "TIMEOUT"
    /\ mpc = "done" /\ iee = "TIMEOUT" => result \in {"KA_TIMEOUT", "LEASE_EXPIRED"}
                                          \/ stopping

\* The tunnel loop returns after the stop signal, and when the tunnel has failed.
LoopReturns == signal \/ failed ~> mpc = "done"
=============================================================================
