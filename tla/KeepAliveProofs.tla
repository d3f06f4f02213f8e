--------------------------- MODULE KeepAliveProofs ---------------------------
(* Proofs about KeepAlive: without a lease the keepalive thread is always    *)
(* joined before its structures are freed, and a timeout is reported as one. *)
EXTENDS KeepAlive, TLAPS

\* Where each thread is says what the other may still do.  Before the thread
\* is created there is none; whoever is past a join finds it gone; the loop
\* gets to KA_destroy only past a join.
Phases ==
    /\ mpc \in {"init", "start"} => tpc = "none"
    /\ mpc \in {"start", "started", "check", "stop", "close", "join", "query",
                "lease", "destroy"} => engine = "live"
    /\ mpc \in {"check", "init", "start", "started"} => ~stopping
    /\ mpc \in {"check", "init", "start", "started"} => result = "SUCCESS"
    /\ mpc \in {"stop", "close", "join"} => after \in {"query", "lease"}
    /\ mpc = "query" => result = "SUCCESS"
    /\ mpc = "query" /\ stopping => tpc = "exited"
    /\ mpc = "lease" /\ LoopEnds(result) => tpc = "exited"
    /\ mpc \in {"destroy", "done"} => tpc \in {"none", "exited"}

\* The thread's result and the status agree once it has exited, and the loop's
\* result is the status's.
Results ==
    /\ tpc # "none" /\ tpc \notin {"report", "exited"} => iee = "SUCCESS"
    /\ tpc = "none" => iee = "SUCCESS"
    /\ iee = "TIMEOUT" => failed
    /\ kaStatus = "FIN_TIMEOUT" => iee = "TIMEOUT"
    /\ result = "KA_TIMEOUT" => iee = "TIMEOUT"
    /\ result # "LEASE_EXPIRED"
    /\ kaStatus = "FIN_ERROR" => iee = "ERROR"
    /\ result = "KA_ERROR" => iee = "ERROR" \/ (tpc = "none" /\ mpc = "done")
    /\ mpc \notin {"init", "start", "started", "done"} => kaStatus # "INVALID"
    /\ mpc \in {"destroy", "done"} => LoopEnds(result)

\* The thread is joined at most twice: once for the signal, once for a failure.
Joins ==
    /\ mpc \in {"init", "start", "started", "check"} => joins = 0
    /\ mpc \in {"stop", "close", "join"} /\ after = "query" => joins = 0 /\ stopping
    /\ mpc \in {"stop", "close", "join"} /\ after = "query" => result = "SUCCESS"
    /\ mpc \in {"stop", "close", "join"} /\ after = "lease" => joins <= 1
    /\ mpc \in {"stop", "close", "join"} /\ after = "lease" => result # "SUCCESS"
    /\ mpc = "query" => joins <= 1 /\ (~stopping => joins = 0)
    /\ mpc = "lease" /\ ~LoopEnds(result) => joins = 0

IInv == TypeOK /\ Phases /\ Joins /\ Results

\* The initial state satisfies the inductive invariant.
LEMMA InitIInv == Init => IInv
  <1> SUFFICES ASSUME Init PROVE IInv
    OBVIOUS
  <1>1. /\ stopping \in BOOLEAN /\ signal \in BOOLEAN
        /\ ongoing \in BOOLEAN /\ failed \in BOOLEAN /\ ~stopping
    BY Zenon DEF Init
  <1>2. QED
    BY <1>1 DEF Init, IInv, TypeOK, Phases, Joins, Results, Statuses, LoopEnds

\* Every step of the tunnel loop and of the thread preserves it.
LEMMA NextIInv ==
  ASSUME ~HasLease, IInv, [Next]_vars
  PROVE  IInv'
  <1> USE DEF IInv, TypeOK, Phases, Joins, Results, Statuses, LoopEnds
  <1>1. CASE KAInit
    <2>1. ongoing' \in BOOLEAN /\ failed' \in BOOLEAN
      BY <1>1, Zenon DEF KAInit, thread
    <2>2. QED
      BY <1>1, <2>1 DEF KAInit, thread
  <1>2. CASE CreateThread
    BY <1>2 DEF CreateThread
  <1>3. CASE CreateThreadFails
    BY <1>3 DEF CreateThreadFails, thread
  <1>4. CASE Started
    BY <1>4 DEF Started, thread
  <1>5. CASE Check
    BY <1>5 DEF Check, thread
  <1>6. CASE StopFlag
    <2>1. ongoing' \in BOOLEAN /\ failed' \in BOOLEAN
      BY <1>6, Zenon DEF StopFlag, thread
    <2>2. QED
      BY <1>6, <2>1 DEF StopFlag, thread
  <1>7. CASE StopClose
    BY <1>7 DEF StopClose, thread
  <1>8. CASE Join
    BY <1>8 DEF Join, thread
  <1>9. CASE Query
    BY <1>9 DEF Query, FailureOf, thread
  <1>10. CASE LeaseTest
    BY <1>10 DEF LeaseTest, thread
  <1>11. CASE KADestroy
    BY <1>11 DEF KADestroy, thread
  <1>12. CASE Signal
    BY <1>12 DEF Signal, main, thread
  <1>13. CASE Sleep \/ Test \/ Sent \/ ReadEnds
    BY <1>13 DEF Sleep, Test, Sent, ReadEnds, main
  <1>14. CASE Send
    <2>1. ongoing' \in BOOLEAN /\ failed' \in BOOLEAN
      BY <1>14, Zenon DEF Send, main
    <2>2. QED
      BY <1>14, <2>1 DEF Send, main
  <1>15. CASE ReadFails
    <2>1. ongoing' \in BOOLEAN /\ failed' \in BOOLEAN
      BY <1>15, Zenon DEF ReadFails, main
    <2>2. QED
      BY <1>15, <2>1 DEF ReadFails, main
  <1>16. CASE Report
    BY <1>16 DEF Report, FinalStatus, main
  <1>17. CASE UNCHANGED vars
    BY <1>17 DEF vars, main, thread
  <1>18. QED
    BY <1>1, <1>2, <1>3, <1>4, <1>5, <1>6, <1>7, <1>8, <1>9, <1>10, <1>11,
       <1>12, <1>13, <1>14, <1>15, <1>16, <1>17
       DEF Next, MainStep, ThreadStep, Done

\* The inductive invariant holds in every behaviour without a lease.
THEOREM Invariance == ASSUME ~HasLease PROVE Spec => []IInv
  <1>1. IInv /\ [Next]_vars => IInv'
    BY NextIInv
  <1>2. QED
    BY InitIInv, <1>1, PTL DEF Spec

\* tspPerformTunnelLoop and TunMainLoop free the engine only after the
\* keepalive thread has ended, and leave no thread behind.
THEOREM ThreadSafe == ASSUME ~HasLease PROVE Spec => [](EngineAlive /\ NothingLeft)
  <1>1. IInv => EngineAlive /\ NothingLeft
    BY DEF IInv, TypeOK, Phases, EngineAlive, NothingLeft, Running
  <1>2. QED
    BY Invariance, <1>1, PTL

\* The loop returns KEEP_ALIVE_TIMEOUT only after the echo engine found one,
\* and does not forget one that ended the thread.
THEOREM TimeoutReported == ASSUME ~HasLease PROVE Spec => []TimeoutIsReported
  <1>1. IInv => TimeoutIsReported
    BY DEF IInv, TypeOK, Results, TimeoutIsReported, LoopEnds
  <1>2. QED
    BY Invariance, <1>1, PTL
=============================================================================
