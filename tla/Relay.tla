------------------------------- MODULE Relay --------------------------------
(***************************************************************************)
(* What a Teredo client knows of one peer and what it does about it:       *)
(* the operators on a teredo_peer of miredo/libteredo/relay.c, peerlist.c  *)
(* and peerlist.h.  Modules RelayPeer and HolePunch build on them.         *)
(*                                                                         *)
(* A date is kept as the time since, which is what the code computes with  *)
(* and which stops at Old.  A thread reads the clock before it locks the   *)
(* list, so it acts with a clock that is "lag" seconds slow: what is       *)
(* younger than that lies in its future.                                   *)
(***************************************************************************)
EXTENDS Integers, Sequences

CONSTANTS
    Gap,         \* seconds between two pings or bubbles: 2
    Window,      \* seconds after which the bubbles are forgotten: 300
    Valid,       \* seconds for which a peer heard from is valid: 30
    LocalValid,  \* the same for a local peer: 600
    Tries,       \* pings or bubbles without an answer: 4
    QueueMax,    \* packets of MAXQUEUE bytes: here each has size one
    Old          \* an age beyond all these limits

ASSUME RelayAssumption ==
    /\ {Gap, Window, Valid, LocalValid} \subseteq Nat /\ Tries \in 1..7
    /\ QueueMax \in Nat \ {0} /\ Old \in Nat
    /\ \A x \in {Gap, Window, Valid, LocalValid} : x < Old

NoMap == <<"0.0.0.0", "0">>

\* What teredo_list_lookup() finds when there is no such peer.
NoPeer == [listed |-> FALSE]

\* "now - then" of two unsigned numbers: a date in the future is very long ago.
Elapsed(age, lag) == IF age < lag \/ age = Old THEN Old ELSE age - lag

\* The memory of a new peer.  Only the queue is initialised; "set" collects the
\* other fields once they have been assigned.
teredo_peer_init ==
    [trusted |-> FALSE, local |-> FALSE, bubbles |-> 0, pings |-> 0,
     rx |-> 0, tx |-> 0, ping |-> 0, map |-> NoMap,
     queue |-> <<>>, left |-> QueueMax, set |-> {}]

SetMapping(p, m) == [p EXCEPT !.map = m, !.set = @ \cup {"map"}]
TouchReceive(p, lag) == [p EXCEPT !.rx = lag, !.set = @ \cup {"rx"}]
TouchTransmit(p, lag) == [p EXCEPT !.tx = lag, !.set = @ \cup {"tx"}]

IsValid(p, lag) == Elapsed(p.rx, lag) <= (IF p.local THEN LocalValid ELSE Valid)

\* The flags are cleared when a peer is created.
ClearFlags(p) ==
    [p EXCEPT !.trusted = FALSE, !.local = FALSE, !.bubbles = 0, !.pings = 0,
              !.set = @ \cup {"trusted", "local", "bubbles", "pings"}]

\* A packet that does not fit is dropped; the others are stacked.
teredo_peer_queue(p, x) ==
    IF p.left = 0 THEN p ELSE [p EXCEPT !.queue = <<x>> \o @, !.left = @ - 1]
teredo_peer_queue_yield(p) == [p EXCEPT !.queue = <<>>, !.left = QueueMax]

\* 0: send a ping, 1: not yet, -1: the peer seems unreachable.
PingVerdict(p, lag) ==
    CASE p.pings = 0                  -> 0
      [] p.pings >= Tries             -> -1
      [] p.pings \in 1..(Tries - 1)   -> IF Elapsed(p.ping, lag) <= Gap THEN 1 ELSE 0
CountPing(p, lag) ==
    IF PingVerdict(p, lag) # 0 THEN p
    ELSE [p EXCEPT !.ping = lag, !.pings = @ + 1, !.set = @ \cup {"ping"}]

\* The bubbles are given up for good.
SlipBubbleVerdict(p, lag) ==
    CASE p.bubbles = 0                -> 0
      [] p.bubbles >= Tries           -> -1
      [] p.bubbles \in 1..(Tries - 1) -> IF Elapsed(p.tx, lag) <= Gap THEN 1 ELSE 0
\* The same for bubbles, whose counter starts again after Window.
BubbleVerdict(p, lag) ==
    CASE p.bubbles = 0                -> 0
      [] p.bubbles >= Tries           -> IF Elapsed(p.tx, lag) <= Window THEN -1 ELSE 0
      [] p.bubbles \in 1..(Tries - 1) -> IF Elapsed(p.tx, lag) <= Gap THEN 1 ELSE 0
CountBubble(p, lag) ==
    IF BubbleVerdict(p, lag) # 0 THEN p
    ELSE [TouchTransmit(p, lag) EXCEPT !.bubbles = IF @ >= Tries THEN 1 ELSE @ + 1]

\* teredo_predecap() up to teredo_list_release(): the peer has been heard, and
\* the packets kept for it are taken to be sent.
teredo_predecap(p, lag) ==
    [teredo_peer_queue_yield(TouchReceive(p, lag))
        EXCEPT !.bubbles = 0, !.pings = 0, !.set = @ \cup {"bubbles", "pings"}]

\* A packet that proves the peer: the mapping is taken from it.
Prove(p, from, lag) ==
    teredo_predecap([SetMapping(p, from) EXCEPT !.trusted = TRUE, !.set = @ \cup {"trusted"}], lag)
=============================================================================
