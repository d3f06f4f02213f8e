--------------------------- MODULE BrokerRedirect ---------------------------
(***************************************************************************)
(* Redirection of the gogoCLIENT to other brokers (gogoc-tsp: src/tsp/     *)
(* tsp_redirect.c and src/net/net_echo_request.c): the list in the         *)
(* server's answer, one thread per broker that measures its distance, the  *)
(* sorted list, and the broker_list file from which it is read back.       *)
(***************************************************************************)
EXTENDS Naturals, Sequences, SequencesExt, FiniteSets

CONSTANTS
    Addresses,   \* broker addresses
    Answers,     \* the IPv4, IPv6 and FQDN brokers a server may redirect to
    MaxBrokers,  \* MAX_REDIRECT_BROKERS_IN_LIST
    T,           \* ECHO_REQUEST_TIMEOUT
    MaxOrphans   \* bound of this model: threads that outlive their list

ASSUME AnswersAssumption == \A a \in Answers, k \in 1..3 : a[k] \in Seq(Addresses)
ASSUME BoundsAssumption == MaxBrokers \in Nat \ {0} /\ T \in Nat \ {0} /\ MaxOrphans \in Nat

Types == {"ipv4", "ipv6", "fqdn"}
Entry(a, ty) == [address |-> a, type |-> ty, distance |-> 0]

VARIABLES
    step,    \* "idle", "create" or "join": where tspHandleRedirect() is
    brokers, \* *broker_list
    t,       \* the loop variable of tspGetBrokerDistances()
    thread,  \* thread[i]: "none", "running", "done"
    saved,   \* the broker_list file: a sequence of addresses
    outcome, \* what tspHandleRedirect() returned last: "none", "ok" or "error"
    orphans, \* threads of lists that were freed, still at work
    spoiled  \* one of them wrote into the memory of this list

redirectVars == <<step, brokers, t, thread, saved, outcome, orphans, spoiled>>

Slots == 1..MaxBrokers
NoThreads == [i \in Slots |-> "none"]

RedirectInit ==
    /\ step = "idle" /\ brokers = <<>> /\ t = 1 /\ thread = NoThreads
    /\ saved = <<>> /\ outcome = "none" /\ orphans = 0 /\ spoiled = FALSE

-----------------------------------------------------------------------------
(* List operators *)

\* tspCreateBrokerList(): the IPv4, IPv6 and FQDN brokers of the answer, in this
\* order; nothing when there are too many.
CreateBrokerList(v4, v6, dn) ==
    LET typed(s, ty) == [i \in DOMAIN s |-> Entry(s[i], ty)]
        all == typed(v4, "ipv4") \o typed(v6, "ipv6") \o typed(dn, "fqdn")
    IN IF Len(all) > MaxBrokers THEN <<>> ELSE all

\* At the head, whatever the distance.
SlipInsertInBrokerList(e, sorted) == <<e>> \o sorted
\* tspInsertInBrokerList(): before the first element that is not nearer.
InsertInBrokerList(e, sorted) ==
    LET nearer == {i \in DOMAIN sorted : \A j \in 1..i : e.distance > sorted[j].distance}
        n == IF nearer = {} THEN 0 ELSE CHOOSE i \in nearer : \A j \in nearer : j <= i
    IN InsertAt(sorted, n + 1, e)

\* tspSortBrokerList(): each element of the original list in turn.
SortBrokerList(l) == FoldLeft(LAMBDA sorted, e : InsertInBrokerList(e, sorted), <<>>, l)

\* tspWriteBrokerListToFile(): one address a line, without its type.
WriteBrokerList(l) == [i \in DOMAIN l |-> l[i].address]

-----------------------------------------------------------------------------
(* tspHandleRedirect() *)

Running == {i \in Slots : thread[i] = "running"}

\* The previous list is freed.  A list of one broker is neither sorted nor saved;
\* an answer that cannot be read is an error, like one without brokers.
HandleRedirect ==
    \E a \in Answers :
        LET l == CreateBrokerList(a[1], a[2], a[3])
        IN /\ step = "idle"
           /\ brokers' = l /\ thread' = NoThreads /\ t' = 1
           /\ step' = IF Len(l) > 1 THEN "create" ELSE "idle"
           /\ outcome' = CASE Len(l) = 0 -> "error" [] Len(l) = 1 -> "ok" [] OTHER -> "none"
           /\ spoiled' = FALSE
           /\ UNCHANGED <<saved, orphans>>

\* tspGetBrokerDistances(), first loop.
CreateThread ==
    /\ step = "create"
    /\ thread' = [thread EXCEPT ![t] = "running"]
    /\ IF t = Len(brokers) THEN step' = "join" /\ t' = 1 ELSE t' = t + 1 /\ UNCHANGED step
    /\ UNCHANGED <<brokers, saved, outcome, orphans, spoiled>>

\* The error makes tspMain() free the list under the threads that run.
Abandon ==
    /\ step' = "idle" /\ brokers' = <<>> /\ outcome' = "error"
    /\ orphans' = orphans + Cardinality(Running) /\ orphans' <= MaxOrphans
    /\ thread' = NoThreads
    /\ UNCHANGED <<t, saved, spoiled>>

\* A thread, or the memory for the first one, cannot be had.
CreateThreadFails == step = "create" /\ Abandon

\* tspDoEchoRequest(): the distance of broker i for each way it may end; the
\* round-trip time is at most ECHO_REQUEST_TIMEOUT.
Results == {"timed", "unexpected", "timeout", "error", "family"}
Distances(r) ==
    CASE r = "timed"      -> 0..T
      [] r = "unexpected" -> 0..T
      [] r = "timeout"    -> {2 * T}
      [] r = "error"      -> {2 * T}
      [] r = "family"     -> {3 * T + k : k \in (0..T) \cup {2 * T}}

\* The thread stores the distance into its broker's list element.
EchoRequest(i) ==
    /\ thread[i] = "running"
    /\ \E dist \in UNION {Distances(r) : r \in Results} :
         brokers' = IF i \in DOMAIN brokers THEN [brokers EXCEPT ![i].distance = dist] ELSE brokers
    /\ thread' = [thread EXCEPT ![i] = "done"]
    /\ UNCHANGED <<step, t, saved, outcome, orphans, spoiled>>

\* A thread of a freed list stores its distance where the list was: an element
\* of the present one may be there.
OrphanEnds ==
    /\ orphans > 0 /\ orphans' = orphans - 1
    /\ \/ UNCHANGED <<brokers, spoiled>>
       \/ \E i \in DOMAIN brokers, r \in Results : \E dist \in Distances(r) :
            brokers' = [brokers EXCEPT ![i].distance = dist] /\ spoiled' = TRUE
    /\ UNCHANGED <<step, t, thread, saved, outcome>>

\* Second loop; after the last thread the list is sorted and saved.
JoinThread ==
    /\ step = "join" /\ thread[t] = "done"
    /\ IF t < Len(brokers) THEN t' = t + 1 /\ UNCHANGED <<step, brokers, saved, outcome>>
       ELSE /\ brokers' = SortBrokerList(brokers) /\ saved' = WriteBrokerList(brokers')
            /\ step' = "idle" /\ outcome' = "ok" /\ UNCHANGED t
    /\ UNCHANGED <<thread, orphans, spoiled>>

\* pal_thread_join() fails.
JoinThreadFails == step = "join" /\ Abandon

RedirectNext ==
    \/ HandleRedirect \/ CreateThread \/ CreateThreadFails \/ JoinThread \/ JoinThreadFails \/ OrphanEnds
    \/ \E i \in Slots : EchoRequest(i)
RedirectSpec == RedirectInit /\ [][RedirectNext]_redirectVars

-----------------------------------------------------------------------------
RedirectTypeOK ==
    /\ step \in {"idle", "create", "join"} /\ t \in Slots
    /\ Len(brokers) <= MaxBrokers /\ Len(saved) <= MaxBrokers
    /\ \A i \in DOMAIN brokers : brokers[i].address \in Addresses /\ brokers[i].type \in Types
    /\ thread \in [Slots -> {"none", "running", "done"}]
    /\ outcome \in {"none", "ok", "error"} /\ orphans \in 0..MaxOrphans /\ spoiled \in BOOLEAN

Sorted == outcome = "ok" /\ Len(brokers) > 1

\* The list tspMain() follows after a redirection is in order of distance, unless
\* a thread of an abandoned list wrote into it (net_echo_request.c:182).
SortedByDistance ==
    Sorted /\ ~spoiled => \A i, j \in DOMAIN brokers : i < j => brokers[i].distance <= brokers[j].distance

=============================================================================
