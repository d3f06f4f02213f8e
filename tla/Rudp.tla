-------------------------------- MODULE Rudp --------------------------------
(***************************************************************************)
(* The reliable-UDP transport of gogoc-tsp (net_rudp.c): requests carry a  *)
(* sequence number and are repeated until a reply with the same number     *)
(* arrives.  The client connects to one broker after the other and makes   *)
(* a few exchanges with each, as tspSetupTunnel does.  The network may     *)
(* lose, delay, duplicate and reorder datagrams; the broker answers every  *)
(* request it receives, repeated ones included.                            *)
(*                                                                         *)
(* Time is counted in units, Second of them to a second.  A retransmission *)
(* timeout is rto seconds and frac units: tv_usec is computed from the     *)
(* fraction of rto and is always much less than a second.  The clock is    *)
(* set back by whole seconds at every send: only its phase matters then.   *)
(***************************************************************************)
EXTENDS Integers, FiniteSets

CONSTANTS Brokers, None,
          MaxRtt,       \* RTTENGINE_MAXRTT: sends to a broker never heard of
          MaxRt,        \* RTTENGINE_MAXRT: sends in one exchange
          TMin, TMax,   \* RTTENGINE_TMIN, RTTENGINE_TMAX
          Second,       \* time units in a second
          Fractions,    \* possible fractions of an updated rto, in units
          MaxExchanges, MaxConnects, MaxReplies

ASSUME RudpAssumption ==
    /\ None \notin Brokers
    /\ MaxRtt \in Nat \ {0} /\ MaxRt \in Nat /\ MaxRtt < MaxRt
    /\ TMin \in Nat \ {0} /\ TMax \in Nat /\ TMin <= TMax
    /\ Second \in Nat \ {0} /\ \A f \in Fractions : f \in 0 .. Second - 1

FirstSequence == 240

VARIABLES
    stage,        \* "idle", "open" (connected), "send", "select", "failed"
    target,    \* the broker NetRUDPConnect was called for
    peer,      \* the broker the socket is connected to
    initiated, sai, hasPeer, backoff, retries, sequence, rto, frac,
    cur,       \* the sequence number in the request (omh->sequence)
    tvSec, tvUsec, tvBeg, waited,   \* tv_sel, tv_beg, time spent in select()
    now,
    sentAt,    \* when the message was last sent (history)
    replies,   \* replies on their way to the socket: sequence -> copies
    exchanges, connects

engine == <<initiated, sai, hasPeer, backoff, retries, sequence, rto, frac>>
timer == <<tvSec, tvUsec, tvBeg, waited, sentAt>>
bounds == <<exchanges, connects>>
rudpVars == <<stage, target, peer, engine, cur, timer, now, replies, bounds>>

Sequences == FirstSequence .. FirstSequence + MaxExchanges

RudpInit ==
    /\ stage = "idle" /\ target = None /\ peer = None
    /\ initiated = FALSE /\ sai = None /\ hasPeer = FALSE /\ backoff = FALSE
    /\ retries = 0 /\ sequence = FirstSequence /\ rto = TMin /\ frac = 0
    /\ cur = FirstSequence /\ tvSec = 0 /\ tvUsec = 0 /\ tvBeg = 0 /\ waited = 0
    /\ now = 0 /\ sentAt = 0
    /\ replies = [s \in Sequences |-> 0] /\ exchanges = 0 /\ connects = 0

-----------------------------------------------------------------------------
(* Connecting.                                                             *)

\* NetRUDPInit: all statistics are cleared when the engine was not initiated,
\* the cached address included.
Cached == IF initiated THEN sai ELSE None

\* internal_get_sai: a cached address is returned whatever the host is.
SaiFor(b) == IF Cached # None THEN Cached ELSE b

\* NetRUDPConnect.  The host name is resolved unless an address is cached; the
\* socket is created and connected, or an error is returned and the engine left
\* as it is.
RudpConnect(b) ==
    /\ stage = "idle" /\ connects < MaxConnects
    /\ connects' = connects + 1
    /\ target' = b
    /\ initiated' = TRUE
    /\ IF initiated THEN UNCHANGED <<hasPeer, backoff, retries, sequence, rto, frac>>
       ELSE /\ hasPeer' = FALSE /\ backoff' = FALSE /\ retries' = 0
            /\ sequence' = FirstSequence /\ rto' = TMin /\ frac' = 0
    /\ \/ stage' = "open" /\ sai' = SaiFor(b) /\ peer' = SaiFor(b)
       \/ sai' = SaiFor(b) /\ UNCHANGED <<stage, peer>>
       \/ Cached = None /\ sai' = None /\ UNCHANGED <<stage, peer>>
    /\ replies' = [s \in Sequences |-> 0] /\ exchanges' = 0
    /\ UNCHANGED <<cur, timer, now>>

\* rttengine_deinit.
Deinit == initiated' = FALSE /\ sai' = None

\* NetRUDPClose.
Close ==
    /\ stage \in {"open", "failed"}
    /\ stage' = "idle" /\ peer' = None /\ Deinit
    /\ replies' = [s \in Sequences |-> 0]
    /\ UNCHANGED <<target, hasPeer, backoff, retries, sequence, rto, frac, cur,
                   timer, now, bounds>>

-----------------------------------------------------------------------------
(* One exchange: internal_send_recv.                                       *)

\* The message is prepared and given the next sequence number.
Request ==
    /\ stage = "open" /\ initiated /\ exchanges < MaxExchanges
    /\ exchanges' = exchanges + 1
    /\ cur' = sequence /\ sequence' = sequence + 1
    /\ stage' = "send"
    /\ UNCHANGED <<target, peer, initiated, sai, hasPeer, backoff, retries, rto,
                   frac, timer, now, replies, connects>>

\* Every exit with an error: rttengine_deinit, and -1 is returned.
Fail ==
    /\ stage' = "failed" /\ Deinit
    /\ UNCHANGED <<target, peer, hasPeer, backoff, retries, sequence, rto, frac,
                   cur, timer, now, replies, bounds>>

\* The tests at sendloop.
GiveUp == (retries = MaxRtt /\ ~hasPeer) \/ retries = MaxRt

SendGivesUp == stage = "send" /\ GiveUp /\ Fail

\* sendloop: back-off starts with the MaxRtt-th retry.  The message is sent,
\* and answered with any number of copies or not at all.
Send ==
    /\ stage = "send" /\ ~GiveUp
    /\ backoff' = (backoff \/ retries = MaxRtt)
    /\ \E n \in 0 .. MaxReplies :
         replies' = [replies EXCEPT ![cur] = IF @ + n > MaxReplies THEN MaxReplies ELSE @ + n]
    /\ tvSec' = rto /\ tvUsec' = frac /\ waited' = 0
    /\ now' = now % Second /\ tvBeg' = now % Second /\ sentAt' = now % Second
    /\ stage' = "select"
    /\ UNCHANGED <<target, peer, initiated, sai, hasPeer, retries, sequence, rto,
                   frac, cur, bounds>>

\* send() fails.
SendError == stage = "send" /\ ~GiveUp /\ Fail

Delay == tvSec * Second + tvUsec

Tick ==
    /\ stage = "select" /\ tvSec >= 0 /\ waited < Delay
    /\ now' = now + 1 /\ waited' = waited + 1
    /\ UNCHANGED <<stage, target, peer, engine, cur, tvSec, tvUsec, tvBeg, sentAt,
                   replies, bounds>>

\* internal_get_adjusted_rto.
Adjusted(r) == IF r < TMin THEN TMin ELSE IF r > TMax THEN TMax ELSE r

\* select() returns 0: the message is sent again, perhaps with a longer timeout.
SelectTimeout ==
    /\ stage = "select" /\ tvSec >= 0 /\ waited = Delay
    /\ rto' = IF backoff THEN Adjusted(rto * 2) ELSE rto
    /\ frac' = IF backoff /\ rto * 2 >= TMax THEN 0 ELSE frac
    /\ retries' = retries + 1
    /\ stage' = "send"
    /\ UNCHANGED <<target, peer, initiated, sai, hasPeer, backoff, sequence, cur,
                   timer, now, replies, bounds>>

\* imh->sequence == omh->sequence.
Matches(s) == s = cur

\* The reply waited for: rttengine_update computes a new timeout, and a peer
\* is known from now on.
Receive(s) ==
    /\ stage = "select" /\ replies[s] > 0 /\ Matches(s)
    /\ replies' = [replies EXCEPT ![s] = @ - 1]
    /\ \E r \in TMin .. TMax : rto' = Adjusted(r)
    /\ frac' \in Fractions
    /\ hasPeer' = TRUE /\ retries' = 0 /\ stage' = "open"
    /\ UNCHANGED <<target, peer, initiated, sai, backoff, sequence, cur, timer,
                   now, bounds>>

SecondsOf(t) == t \div Second

\* Every stray reply begins the wait again.
SlipLeft == tvSec

\* The remaining time: the whole seconds that passed are subtracted.
Left == tvSec - (SecondsOf(now) - SecondsOf(tvBeg))

\* Another reply: tv_sec is readjusted and select() called again.
Stray(s) ==
    /\ stage = "select" /\ replies[s] > 0 /\ ~Matches(s)
    /\ replies' = [replies EXCEPT ![s] = @ - 1]
    /\ tvSec' = Left
    /\ tvBeg' = now /\ waited' = 0
    /\ UNCHANGED <<stage, target, peer, engine, cur, tvUsec, sentAt, now, bounds>>

\* select() or recv() fails; select() always does with a negative time.
ReceiveError == stage = "select" /\ Fail

\* All the connections of this instance were made.
Done == stage = "idle" /\ connects = MaxConnects /\ UNCHANGED rudpVars

RudpNext == \/ \E b \in Brokers : RudpConnect(b)
        \/ Close \/ Request \/ SendGivesUp \/ Send \/ SendError \/ Tick
        \/ SelectTimeout \/ (\E s \in Sequences : Receive(s) \/ Stray(s))
        \/ ReceiveError \/ Done

RudpSpec == RudpInit /\ [][RudpNext]_rudpVars

-----------------------------------------------------------------------------
\* The type invariant.
RudpTypeOK ==
    /\ stage \in {"idle", "open", "send", "select", "failed"}
    /\ target \in Brokers \cup {None} /\ peer \in Brokers \cup {None}
    /\ sai \in Brokers \cup {None}
    /\ rto \in TMin .. TMax /\ frac \in 0 .. Second - 1
    /\ retries \in 0 .. MaxRt /\ sequence \in FirstSequence .. FirstSequence + MaxExchanges
    /\ cur \in Sequences

\* However many late answers to earlier requests wake select(), and whenever
\* they do, a request is repeated or given up less than a second after its
\* timeout: what the readjustment of tv_sel neglects does not add up.  With the
\* bound on the repetitions this is why an exchange over UDP ends.
WaitIsBounded == stage = "select" => now - sentAt < (rto + 1) * Second + frac

=============================================================================
