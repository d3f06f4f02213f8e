----------------------------- MODULE EchoEngine -----------------------------
(***************************************************************************)
(* The ICMP echo engine of gogoc-tsp (icmp_echo_engine.c): IEE_process     *)
(* sends an ECHO REQUEST every send_interval, keeps an event for each one  *)
(* in a list sorted by the time it is due, waits in select() for replies,  *)
(* and gives up after echo_timeout_threshold consecutive late ones.        *)
(*                                                                         *)
(* The list is modelled with its pointers: an event is named by its        *)
(* sequence number, `list' is event_list and next[e] the event's next.     *)
(* Time is counted in units; the engine's own computing takes none of it.  *)
(* select() waits a relative time, every other time is the wall clock.     *)
(***************************************************************************)
EXTENDS Integers, Sequences, FiniteSets

CONSTANTS Mode,        \* eng_mode: "KA", "ACD" or "OTHER"
          SendInterval, \* send_interval
          EchoNum,     \* echo_num, 0: no limit
          EchoTimeout, \* echo_timeout
          Threshold,   \* echo_timeout_threshold
          MaxSend,     \* bound: requests sent in a behaviour
          MaxReplies,  \* bound: copies of a reply the network may deliver
          Signals,     \* bound: signals that interrupt select()
          ClockSteps,  \* possible backward steps of the wall clock
          MayStop,     \* whether another thread may call IEE_stop
          NULL

ASSUME EchoAssumption ==
    /\ Mode \in {"KA", "ACD", "OTHER"}
    /\ SendInterval \in Nat \ {0} /\ EchoNum \in Nat /\ EchoTimeout \in Nat
    /\ Threshold \in Nat \ {0} /\ MaxSend \in Nat /\ MaxReplies \in Nat
    /\ Signals \in Nat /\ ClockSteps \subseteq Nat /\ MayStop \in BOOLEAN
    /\ NULL \notin Nat

Seqs == 0 .. MaxSend - 1

VARIABLES
    now,        \* the wall clock (pal_gettimeofday)
    pc,         \* where IEE_process is
    wait,       \* what is left of the current sleep or select()
    timedOut,   \* time_left_ms > read_delay, as computed before select()
    tvRef,      \* tv_reference: the time of the next send
    timeout,    \* echo_timeout, which the ACD mode rewrites
    list, next, due,                  \* the event list
    sent,       \* the time stamp in each request's echo_data
    countSend, countOntime, countLate, consecLate,
    eng_ongoing, icmp_sfd,                     \* eng_ongoing, whether icmp_sfd is open
    ret,        \* what IEE_process will return
    replies,    \* replies the network may still deliver, for each request
    signals,    \* signals still to come
    back        \* backward clock steps still to come

queue == <<list, next, due>>
counts == <<countOntime, countLate, consecLate>>
world == <<sent, replies, signals, back>>
echoVars == <<now, pc, wait, timedOut, tvRef, timeout, queue, countSend, counts,
          eng_ongoing, icmp_sfd, ret, world>>

\* IEE_init, and the part of IEE_process before its main loop.
EchoInit ==
    /\ now = 0 /\ tvRef = 0 /\ timedOut = FALSE
    /\ timeout = EchoTimeout
    /\ list = NULL /\ next = [e \in Seqs |-> NULL] /\ due = [e \in Seqs |-> 0]
    /\ sent = [e \in Seqs |-> 0]
    /\ countSend = 0 /\ countOntime = 0 /\ countLate = 0 /\ consecLate = 0
    /\ eng_ongoing = TRUE /\ icmp_sfd = "open" /\ ret = "SUCCESS"
    /\ replies = [e \in Seqs |-> 0] /\ signals = Signals
    /\ back = Cardinality(ClockSteps)
    /\ IF Mode = "KA" THEN pc = "sleep" /\ wait = SendInterval
                      ELSE pc = "test" /\ wait = 0

-----------------------------------------------------------------------------
(* The event list.                                                         *)

\* The events reached from e through the next pointers, at most n of them:
\* a list that came back to itself would be followed for ever.
Chain[n \in 0 .. MaxSend + 1, e \in Seqs \cup {NULL}] ==
    IF n = 0 \/ e = NULL THEN <<>> ELSE <<e>> \o Chain[n - 1, next[e]]

Events == Chain[MaxSend + 1, list]
Linked(e) == \E i \in 1 .. Len(Events) : Events[i] = e

\* _compare_tv() > 0: the event to insert, due at d, is due later than e.
MovesPast(d, e) == d > due[e]

\* _insert_echo_event: how many elements a new event moves past.
Passed(d) ==
    LET stop == {i \in 1 .. Len(Events) : ~MovesPast(d, Events[i])}
    IN  IF stop = {} THEN Len(Events)
        ELSE (CHOOSE i \in stop : \A j \in stop : i <= j) - 1

\* _insert_echo_event.  At the end of the list the last pointer is set.
\* Otherwise p_event_insert->next and (*pp_event)->next are set, and *pp_event,
\* the pointer that led to the element, is left alone.
Insert(e, d) ==
    LET k == Passed(d) IN
    /\ due' = [due EXCEPT ![e] = d]
    /\ IF k = Len(Events)
       THEN /\ list' = IF k = 0 THEN e ELSE list
            /\ next' = IF k = 0 THEN [next EXCEPT ![e] = NULL]
                       ELSE [next EXCEPT ![e] = NULL, ![Events[k]] = e]
       ELSE /\ next' = [next EXCEPT ![e] = Events[k + 1], ![Events[k + 1]] = e]
            /\ UNCHANGED list

Before(e) == Events[(CHOOSE i \in 1 .. Len(Events) : Events[i] = e) - 1]

\* _remove_free_echo_event: the pointer that led to the event skips it.
Remove(e) ==
    /\ IF list = e
       THEN list' = next[e] /\ UNCHANGED next
       ELSE /\ next' = [next EXCEPT ![Before(e)] = next[e]]
            /\ UNCHANGED list
    /\ UNCHANGED due

-----------------------------------------------------------------------------
(* Sending.                                                                *)

\* The test of the main loop of IEE_process.
More == eng_ongoing /\ (EchoNum = 0 \/ countSend < EchoNum)

TestDelay ==
    /\ pc = "test" /\ (More => countSend < MaxSend)
    /\ pc' = IF More THEN "send" ELSE "returned"
    /\ UNCHANGED <<now, wait, timedOut, tvRef, timeout, queue, countSend,
                   counts, eng_ongoing, icmp_sfd, ret, world>>

\* _compute_echo_timeout, with count_send already advanced.
TimeoutOfSend ==
    IF Mode = "ACD" THEN SendInterval * (EchoNum - (countSend + 1)) ELSE timeout

\* _do_send_wrap: count_send is advanced and the event inserted before the
\* packet is sent.  sendto() fails on a closed socket and may fail otherwise.
SendEcho ==
    /\ pc = "send"
    /\ timeout' = TimeoutOfSend
    /\ Insert(countSend, now + TimeoutOfSend)
    /\ sent' = [sent EXCEPT ![countSend] = now]
    /\ countSend' = countSend + 1
    /\ \/ /\ icmp_sfd = "open" /\ pc' = "sent" /\ UNCHANGED ret
          /\ \E n \in 0 .. MaxReplies : replies' = [replies EXCEPT ![countSend] = n]
       \/ pc' = "returned" /\ ret' = "ERROR" /\ UNCHANGED replies
    /\ UNCHANGED <<now, wait, timedOut, tvRef, counts, eng_ongoing, icmp_sfd, signals, back>>

\* No memory for the event: the request is counted and not sent.
SendStarved ==
    /\ pc = "send"
    /\ countSend' = countSend + 1
    /\ pc' = "returned" /\ ret' = "STARVATION"
    /\ UNCHANGED <<now, wait, timedOut, tvRef, timeout, queue, counts, eng_ongoing,
                   icmp_sfd, world>>

\* _compute_next_send
NextSend == now + SendInterval

\* The second test of eng_ongoing.
EchoSent ==
    /\ pc = "sent"
    /\ IF eng_ongoing THEN pc' = "read" /\ tvRef' = NextSend
                  ELSE pc' = "returned" /\ UNCHANGED tvRef
    /\ UNCHANGED <<now, wait, timedOut, timeout, queue, countSend, counts,
                   eng_ongoing, icmp_sfd, ret, world>>

-----------------------------------------------------------------------------
(* Reading: _do_read_wrap.                                                 *)

\* The time before the soonest echo event times out.
Delay == IF list = NULL THEN SendInterval ELSE due[list] - now

\* The delay given to select(): the time left, or the time to the first event.
Read ==
    LET left == tvRef - now
        least == IF left < Delay THEN left ELSE Delay
    IN  /\ pc = "read" /\ left > 0
        /\ wait' = IF least > 0 THEN least ELSE 0
        /\ timedOut' = (left > Delay)
        /\ pc' = "select"
        /\ UNCHANGED <<now, tvRef, timeout, queue, countSend, counts, eng_ongoing,
                       icmp_sfd, ret, world>>

\* One timeout too many is tolerated, or one too few.
SlipGeneral(cl) == cl > Threshold
\* The maximal number of consecutive timeouts has been reached.
General(cl) == cl >= Threshold

\* The end of an iteration of the read loop: too many consecutive late replies
\* stop the engine, and the loop ends with the time left or with eng_ongoing.
\* Any result but IEE_SUCCESS then also ends the main loop.
Iterate(cl, on, r) ==
    LET on1 == on /\ ~General(cl)
        r1  == IF General(cl) THEN "TIMEOUT" ELSE r
    IN  /\ consecLate' = cl /\ eng_ongoing' = on1 /\ ret' = r1
        /\ pc' = IF now < tvRef /\ on1 THEN "read"
                 ELSE IF r1 # "SUCCESS" THEN "returned" ELSE "test"

\* select() ended with the delay of the first event of the list.
EventIsLate == timedOut /\ list # NULL

\* READ_SELECT_TIMEOUT: the first event is late if it was what select()
\* waited for.
LateEvent ==
    IF EventIsLate
    THEN /\ countLate' = countLate + 1
         /\ Remove(list)
         /\ Iterate(consecLate + 1, eng_ongoing, ret)
    ELSE /\ UNCHANGED <<countLate, queue>>
         /\ Iterate(consecLate, eng_ongoing, ret)

SelectTimeout ==
    /\ pc = "select" /\ wait = 0
    /\ LateEvent
    /\ UNCHANGED <<now, wait, timedOut, tvRef, timeout, countSend, countOntime,
                   icmp_sfd, world>>

\* A signal interrupts select(): EINTR is reported as READ_SELECT_TIMEOUT.
SelectInterrupted ==
    /\ pc = "select" /\ signals > 0
    /\ signals' = signals - 1
    /\ LateEvent
    /\ UNCHANGED <<now, wait, timedOut, tvRef, timeout, countSend, countOntime,
                   icmp_sfd, sent, replies, back>>

LastReply == EchoNum # 0 /\ countSend >= EchoNum

\* An on-time reply removes its event.  When the event is gone already a
\* timeout was counted for it, which is taken back.
Cancel(e) ==
    IF Linked(e) THEN Remove(e) /\ UNCHANGED countLate
                 ELSE countLate' = countLate - 1 /\ UNCHANGED queue

\* ANAL_PACKET_PINGIN_ONTIME and the case it falls through to.
Ontime(e) ==
    /\ now - sent[e] <= timeout
    /\ countOntime' = countOntime + 1
    /\ Cancel(e)
    /\ Iterate(0, eng_ongoing /\ Mode # "ACD" /\ ~LastReply,
               IF Mode = "ACD" THEN "ASSESSED" ELSE ret)

\* ANAL_PACKET_PINGIN_LATE.
Late(e) ==
    /\ now - sent[e] > timeout
    /\ Iterate(consecLate, eng_ongoing /\ ~LastReply, ret)
    /\ UNCHANGED <<countOntime, countLate, queue>>

\* A reply to one of the requests: the round trip is taken from the time
\* stamp the reply carries, and judged with the current echo_timeout.
Reply(e) ==
    /\ pc = "select" /\ icmp_sfd = "open" /\ replies[e] > 0
    /\ replies' = [replies EXCEPT ![e] = @ - 1]
    /\ Ontime(e) \/ Late(e)
    /\ UNCHANGED <<now, wait, timedOut, tvRef, timeout, countSend, icmp_sfd, sent,
                   signals, back>>

\* ANAL_PACKET_BAD and ANAL_PACKET_IGNORED: any other packet of the socket.
OtherPacket ==
    /\ pc = "select" /\ icmp_sfd = "open"
    /\ Iterate(consecLate, eng_ongoing, ret)
    /\ UNCHANGED <<now, wait, timedOut, tvRef, timeout, queue, countSend,
                   countOntime, countLate, icmp_sfd, world>>

\* READ_SELECT_ERROR and READ_RECV_ERROR while nobody has closed the socket.
ReadError ==
    /\ pc = "select" /\ icmp_sfd = "open"
    /\ Iterate(consecLate, FALSE, "ERROR")
    /\ UNCHANGED <<now, wait, timedOut, tvRef, timeout, queue, countSend,
                   countOntime, countLate, icmp_sfd, world>>

\* READ_SOCKET_CLOSED: IEE_stop cleared eng_ongoing before it closed icmp_sfd.
SocketClosed ==
    /\ pc = "select" /\ icmp_sfd = "closed" /\ ~eng_ongoing
    /\ Iterate(consecLate, FALSE, "SUCCESS")
    /\ UNCHANGED <<now, wait, timedOut, tvRef, timeout, queue, countSend,
                   countOntime, countLate, icmp_sfd, world>>

-----------------------------------------------------------------------------
(* IEE_stop, from another thread, in its two steps.                        *)

EngineStopFlag ==
    /\ MayStop /\ pc # "returned" /\ eng_ongoing
    /\ eng_ongoing' = FALSE
    /\ UNCHANGED <<now, pc, wait, timedOut, tvRef, timeout, queue, countSend,
                   counts, icmp_sfd, ret, world>>

EngineStopClose ==
    /\ MayStop /\ pc # "returned" /\ ~eng_ongoing /\ icmp_sfd = "open"
    /\ icmp_sfd' = "closed"
    /\ UNCHANGED <<now, pc, wait, timedOut, tvRef, timeout, queue, countSend,
                   counts, eng_ongoing, ret, world>>

-----------------------------------------------------------------------------
(* Time.                                                                   *)

\* The sleep before the first request, and select().
Tick ==
    /\ pc \in {"sleep", "select"} /\ wait > 0
    /\ wait' = wait - 1
    /\ now' = now + 1
    /\ pc' = IF pc = "sleep" /\ (wait' = 0 \/ ~eng_ongoing) THEN "test" ELSE pc
    /\ UNCHANGED <<timedOut, tvRef, timeout, queue, countSend, counts, eng_ongoing,
                   icmp_sfd, ret, world>>

\* The wall clock is set back (settimeofday, a time daemon).
ClockBack ==
    /\ back > 0
    /\ back' = back - 1
    /\ \E d \in ClockSteps : d <= now /\ now' = now - d
    /\ UNCHANGED <<pc, wait, timedOut, tvRef, timeout, queue, countSend, counts,
                   eng_ongoing, icmp_sfd, ret, sent, replies, signals>>

\* The engine has returned, or has sent all the requests of this instance.
EngineDone ==
    /\ pc = "returned" \/ (pc = "test" /\ countSend = MaxSend)
    /\ UNCHANGED echoVars

ReadStep == Read \/ SelectTimeout \/ SelectInterrupted
            \/ (\E e \in Seqs : Reply(e)) \/ OtherPacket \/ ReadError
            \/ SocketClosed
Engine == TestDelay \/ SendEcho \/ SendStarved \/ EchoSent \/ ReadStep
EchoNext == Engine \/ Tick \/ EngineStopFlag \/ EngineStopClose \/ ClockBack \/ EngineDone

EchoSpec == EchoInit /\ [][EchoNext]_echoVars

\* The keepalive thread is scheduled, and time passes while it waits.  A
\* select() that another thread's close() does not wake ends with its delay.
EchoLiveSpec == EchoSpec /\ WF_echoVars(Engine) /\ WF_echoVars(Tick)

-----------------------------------------------------------------------------
\* The type invariant.  count_late may not go below zero (uint32_t).
EchoTypeOK ==
    /\ now \in Nat /\ tvRef \in Nat /\ wait \in Nat /\ timeout \in Nat
    /\ pc \in {"sleep", "test", "send", "sent", "read", "select", "returned"}
    /\ list \in Seqs \cup {NULL} /\ next \in [Seqs -> Seqs \cup {NULL}]
    /\ countSend \in 0 .. MaxSend /\ countOntime \in Nat /\ consecLate \in 0 .. Threshold
    /\ icmp_sfd \in {"open", "closed"}
    /\ ret \in {"SUCCESS", "ERROR", "STARVATION", "TIMEOUT", "ASSESSED"}

\* Nobody has set the wall clock back.
SteadyClock == back = Cardinality(ClockSteps)

\* A tunnel that never answers is given up by the time the Threshold-th
\* request is due: late events are found in time although select() waits for
\* the first event of the list only.
DeadTunnelDetected ==
    SteadyClock /\ Mode = "KA" /\ countOntime = 0 /\ pc # "returned"
        => now <= Threshold * SendInterval + EchoTimeout

=============================================================================
