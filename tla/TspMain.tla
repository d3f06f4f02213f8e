------------------------------ MODULE TspMain ------------------------------
(***************************************************************************)
(* The connection loop of the gogoCLIENT, tspMain() (gogoc-tsp, src/tsp/   *)
(* tsp_client.c): the choice of server, transport and protocol version,    *)
(* the reaction to every outcome of tspSetupTunnel(), and the delays.      *)
(* What happens inside tspSetupTunnel() is reduced to its status.          *)
(***************************************************************************)
EXTENDS Naturals, Sequences

CONSTANTS
    Original,   \* the server of the configuration file
    Brokers,    \* the other servers
    Lists,      \* the broker lists a redirection or the file may contain
    Statuses,   \* the outcomes of tspSetupTunnel() that may occur
    Confs,      \* the configurations
    RetryDelay, RetryDelayMax,
    RetryWrap,  \* the values of consec_retry, 256 for a uint8_t
    NULL

ASSUME DelayAssumption == RetryDelay \in Nat /\ RetryDelayMax \in Nat /\ RetryDelay <= RetryDelayMax
ASSUME ServerAssumption == Original \notin Brokers /\ NULL \notin Brokers \cup {Original}
ASSUME ListAssumption == Lists \subseteq Seq(Brokers)

Servers == Brokers \cup {Original}
DoubleEvery == 3                      \* CONSEC_RETRY_TO_DOUBLE_WAIT
V202 == 0                             \* CLIENT_VERSION_INDEX_CURRENT
V200 == 2                             \* CLIENT_VERSION_INDEX_2_0_0, V6UDPV4_START
V101 == 3                             \* CLIENT_VERSION_INDEX_OLDEST

\* tunnel_mode (V6UDPV4, or V6ANYV4/V6V4), boot_mode, auto_retry_connect,
\* always_use_same_server
Configurations ==
    [mode : {"udp", "any"}, boot : BOOLEAN, retry : BOOLEAN, same : BOOLEAN]

\* Outcomes after which the tunnel has been up, and those that end the inner loop.
Established == {"success", "ka_timeout", "lease", "io"}
AllStatuses == Established \cup {"fatal", "version", "socket_io", "busy",
                                 "connect_failed", "redirect", "redirect_err"}

VARIABLES
    pc,        \* "top" of the inner loop, "setup", "wait", "outer", or "done"
    conf,      \* the configuration
    server,    \* c.server
    tryOrig,   \* trying_original_server
    readLast,  \* read_last_server
    list,      \* broker_list
    file,      \* the broker_list file, or NULL when there is none
    lastFile,  \* the last_server file, or NULL
    loopDelay,
    v,         \* the variables declared inside the outer loop
    status     \* the last outcome, or NULL

vars == <<pc, conf, server, tryOrig, readLast, list, file, lastFile, loopDelay, v, status>>
config == <<conf, readLast, loopDelay>>

Locals == [cycle |-> 0, fallback |-> FALSE, version |-> V202, transport |-> "rudp",
           tryList |-> FALSE, cur |-> 0, consec |-> 0, eff |-> NULL]

\* tspMain() up to the outer loop: the last server, when there is one and it is
\* wanted, replaces the configured one.
UseLast(cf, l) == cf.same /\ l # NULL

Init ==
    /\ conf \in Confs /\ file \in Lists \cup {NULL} /\ lastFile \in Servers \cup {NULL}
    /\ readLast = UseLast(conf, lastFile) /\ tryOrig = ~readLast
    /\ server = IF readLast THEN lastFile ELSE Original
    /\ loopDelay = RetryDelay /\ list = <<>> /\ v = Locals
    /\ pc = "top" /\ status = NULL

-----------------------------------------------------------------------------
\* The oldest protocol version of the tunnel mode.
Oldest == IF conf.mode = "udp" THEN V200 ELSE V101

\* The top of the inner loop: the transport of this cycle and the version.  When
\* there is no older version to fall back to the inner loop ends.
Choose ==
    LET cyc == IF v.cycle > (IF conf.mode = "any" THEN 1 ELSE 0) THEN 0 ELSE v.cycle IN
    /\ pc = "top"
    /\ IF v.fallback /\ v.version >= Oldest
       THEN pc' = "outer" /\ v' = [v EXCEPT !.cycle = cyc]
       ELSE /\ pc' = "setup"
            /\ v' = [v EXCEPT !.cycle = cyc,
                              !.version = IF v.fallback THEN v.version + 1 ELSE V202,
                              !.fallback = FALSE,
                              !.transport = IF cyc = 0 THEN "rudp" ELSE "tcp"]
    /\ UNCHANGED <<config, server, tryOrig, list, file, lastFile, status>>

\* tspCheckForStopOrWait() saw a stop request.
Stop ==
    /\ pc = "top" /\ pc' = "done"
    /\ UNCHANGED <<config, server, tryOrig, list, file, lastFile, v, status>>

QuickCycle == conf.mode = "any" /\ v.transport = "rudp"

\* Common part of the outcomes: tspSetupTunnel() returned st.
Outcome(st) ==
    /\ pc = "setup" /\ st \in Statuses
    /\ status' = st
    /\ lastFile' = IF st \in Established THEN server ELSE lastFile
    /\ UNCHANGED <<config>>

Leave(st) ==
    /\ Outcome(st) /\ pc' = "outer"
    /\ UNCHANGED <<server, tryOrig, list, file, v>>
Finished == Leave("success") \/ Leave("fatal")
RedirectionError ==
    /\ Outcome("redirect_err") /\ pc' = "outer" /\ list' = <<>>
    /\ UNCHANGED <<server, tryOrig, file, v>>

KeepAliveTimeout ==
    /\ Outcome("ka_timeout")
    /\ pc' = IF conf.retry THEN "wait" ELSE "outer"
    /\ v' = [v EXCEPT !.consec = 0]
    /\ UNCHANGED <<server, tryOrig, list, file>>
TunnelError ==
    /\ Outcome("io") /\ pc' = "wait"
    /\ v' = [v EXCEPT !.consec = 0]
    /\ UNCHANGED <<server, tryOrig, list, file>>
LeaseExpired ==
    /\ Outcome("lease") /\ pc' = "top"
    /\ UNCHANGED <<server, tryOrig, list, file, v>>
\* The next attempt falls back one version; version 1.0.1 is for TCP only.
InvalidVersion ==
    /\ Outcome("version") /\ pc' = "top"
    /\ v' = [v EXCEPT !.fallback = TRUE, !.cycle = IF v.version = V200 THEN 1 ELSE v.cycle]
    /\ UNCHANGED <<server, tryOrig, list, file>>
SocketError ==
    /\ Outcome("socket_io") /\ pc' = IF QuickCycle THEN "top" ELSE "wait"
    /\ v' = [v EXCEPT !.consec = 0]
    /\ UNCHANGED <<server, tryOrig, list, file>>
ForcedWait(w) == [w EXCEPT !.consec = 1, !.eff = RetryDelay]
ServerBusy ==
    /\ Outcome("busy") /\ pc' = "wait" /\ v' = ForcedWait(v)
    /\ UNCHANGED <<server, tryOrig, list, file>>

\* tspHandleRedirect() has replaced broker_list, and saved it if it is not a
\* single broker.  The first one is tried at once.
Redirected ==
    /\ Outcome("redirect")
    /\ \E l \in Lists \ {<<>>} :
         /\ list' = l /\ server' = Head(l)
         /\ file' = IF Len(l) > 1 THEN l ELSE file
    /\ tryOrig' = FALSE
    /\ v' = [v EXCEPT !.tryList = TRUE, !.cur = 1, !.cycle = 0]
    /\ pc' = "top"

(* ERR_FAIL_SOCKET_CONNECT and ERR_AUTHENTICATION_FAILURE *)

\* Every transport has been tried.
Failed == Outcome("connect_failed") /\ ~conf.boot /\ ~QuickCycle /\ ~readLast

FailedEarly ==
    /\ Outcome("connect_failed") /\ (conf.boot \/ QuickCycle \/ readLast)
    /\ pc' = CASE conf.boot -> "outer" [] QuickCycle /\ ~conf.boot -> "top" [] OTHER -> "wait"
    /\ v' = IF conf.boot THEN v ELSE [v EXCEPT !.cycle = @ + 1]
    /\ UNCHANGED <<server, tryOrig, list, file>>

\* The original server failed: the broker_list file is read again.
FailedOriginal ==
    /\ Failed /\ tryOrig
    /\ list' = IF file = NULL THEN <<>> ELSE file
    /\ CASE list' = <<>> ->
              /\ pc' = "wait" /\ v' = [ForcedWait(v) EXCEPT !.cycle = @ + 1]
              /\ UNCHANGED <<server, tryOrig>>
         [] list' # <<>> /\ v.cycle = 0 ->
              /\ pc' = "top" /\ v' = [ForcedWait(v) EXCEPT !.cycle = @ + 1]
              /\ UNCHANGED <<server, tryOrig>>
         [] OTHER ->
              /\ pc' = "top" /\ tryOrig' = FALSE /\ server' = Head(list')
              /\ v' = [ForcedWait(v) EXCEPT !.tryList = TRUE, !.cur = 1, !.cycle = 0]
    /\ UNCHANGED file

\* The list is never left again for the original server.
SlipFailedBroker ==
    /\ Failed /\ ~tryOrig /\ v.tryList
    /\ IF v.cur = Len(list)
       THEN /\ pc' = "wait" /\ v' = [ForcedWait(v) EXCEPT !.cycle = 0]
            /\ UNCHANGED <<server, tryOrig>>
       ELSE /\ pc' = "top" /\ server' = list[v.cur + 1] /\ UNCHANGED tryOrig
            /\ v' = [ForcedWait(v) EXCEPT !.cur = @ + 1, !.cycle = 0]
    /\ UNCHANGED <<list, file>>
\* A broker of the list failed: the next one, or the original server after the last.
FailedBroker ==
    /\ Failed /\ ~tryOrig /\ v.tryList
    /\ IF v.cur = Len(list)
       THEN /\ pc' = "wait" /\ server' = Original /\ tryOrig' = TRUE
            /\ v' = [ForcedWait(v) EXCEPT !.cycle = 0]
       ELSE /\ pc' = "top" /\ server' = list[v.cur + 1] /\ UNCHANGED tryOrig
            /\ v' = [ForcedWait(v) EXCEPT !.cur = @ + 1, !.cycle = 0]
    /\ UNCHANGED <<list, file>>

\* Neither: nothing but the delay.
FailedElsewhere ==
    /\ Failed /\ ~tryOrig /\ ~v.tryList
    /\ pc' = "wait" /\ v' = ForcedWait(v)
    /\ UNCHANGED <<server, tryOrig, list, file>>

-----------------------------------------------------------------------------
Least(a, b) == IF a < b THEN a ELSE b

\* The delay after a failure; consec_retry wraps.
Delay ==
    LET eff == CASE v.consec = 0 -> RetryDelay
                 [] v.consec > 0 /\ v.consec % DoubleEvery = 0 -> Least(2 * v.eff, RetryDelayMax)
                 [] OTHER -> v.eff
    IN /\ pc = "wait" /\ pc' = "top"
       /\ v' = [v EXCEPT !.eff = eff, !.consec = (@ + 1) % RetryWrap]
       /\ UNCHANGED <<config, server, tryOrig, list, file, lastFile, status>>

\* The end of the outer loop: a delay that doubles, and fresh local variables.
Outer ==
    /\ pc = "outer"
    /\ pc' = IF conf.boot THEN "done" ELSE "top"
    /\ loopDelay' = Least(2 * loopDelay, RetryDelayMax)
    /\ v' = Locals
    /\ UNCHANGED <<conf, readLast, server, tryOrig, list, file, lastFile, status>>

\* The program is started again with the files it left.
Restart ==
    /\ pc = "done" /\ pc' = "top"
    /\ readLast' = UseLast(conf, lastFile) /\ tryOrig' = ~readLast'
    /\ server' = IF readLast' THEN lastFile ELSE Original
    /\ loopDelay' = RetryDelay /\ list' = <<>> /\ v' = Locals
    /\ status' = NULL
    /\ UNCHANGED <<conf, file, lastFile>>

Next ==
    \/ Choose \/ Stop \/ Finished \/ RedirectionError \/ KeepAliveTimeout \/ TunnelError
    \/ LeaseExpired \/ InvalidVersion \/ SocketError \/ ServerBusy \/ Redirected
    \/ FailedEarly \/ FailedOriginal \/ FailedBroker \/ FailedElsewhere
    \/ Delay \/ Outer \/ Restart

Spec == Init /\ [][Next]_vars
\* The loop runs on; nothing forces a stop request.
FairSpec == Spec /\ WF_vars(Next)

-----------------------------------------------------------------------------
TypeOK ==
    /\ pc \in {"top", "setup", "wait", "outer", "done"}
    /\ conf \in Configurations /\ server \in Servers
    /\ tryOrig \in BOOLEAN /\ readLast \in BOOLEAN
    /\ list \in Lists \cup {<<>>} /\ file \in Lists \cup {NULL}
    /\ lastFile \in Servers \cup {NULL} /\ loopDelay \in Nat
    /\ v.cycle \in 0..2 /\ v.version \in V202..V101 /\ v.cur \in Nat
    /\ v.consec \in 0..RetryWrap - 1 /\ v.eff \in Nat \cup {NULL}
    /\ status \in Statuses \cup {NULL}

\* From some time on every connection fails.
KeepsFailing == <>[](pc # "done" /\ status = "connect_failed")

\* "If that fails too, we'll go through the broker list (if any)."  While
\* connections keep failing, a client that does not insist on its last server
\* goes round the original server and every broker of the broker_list file for
\* ever.  Two cases are excepted: tunnel mode V6UDPV4, where the reset cycle
\* variable keeps it from the list, and a client that left the inner loop while
\* it followed a list (only the broker it was talking to is tried from then on).
RoundRobin == <>[](~readLast /\ conf.mode = "any" /\ (tryOrig \/ v.tryList))
ServersAreTried ==
    KeepsFailing /\ RoundRobin =>
        /\ []<>(server = Original)
        /\ \A l \in Lists : <>[](file = l) => \A i \in DOMAIN l : []<>(server = l[i])
=============================================================================
