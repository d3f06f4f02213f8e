----------------------------- MODULE PeerLinks ------------------------------
(***************************************************************************)
(* The memory behind module PeerList: two lists linked forward by "next"   *)
(* and backward by "pprev", a pointer to whatever pointer designates the   *)
(* item.  Every assignment of peerlist.c to a link is here.                *)
(***************************************************************************)
EXTENDS PeerListBase, Sequences, Functions

VARIABLES
    mem,      \* [head, next, pprev]: the links
    left, key, root, heap, lock, peer,
    detached, \* detached[t]: heads of the lists thread t has still to free
    phase, idle

vars == <<mem, left, key, root, heap, lock, peer, detached, phase, idle>>

\* A slot is a place that holds a pointer to an item: the head of a list, or
\* the "next" of item i, written i.
Slots == {"recent", "old"} \cup Items
Load(m, slot) == IF slot \in Items THEN m.next[slot] ELSE m.head[slot]
Store(m, slot, v) ==
    IF slot \in Items THEN [m EXCEPT !.next[slot] = v] ELSE [m EXCEPT !.head[slot] = v]
\* i->pprev = slot, if i is not null
Back(m, i, slot) == IF i = NULL THEN m ELSE [m EXCEPT !.pprev[i] = slot]

\* teredo_list_lookup(): "unlinks"
Unlink(m, p) == Store(Back(m, m.next[p], m.pprev[p]), m.pprev[p], m.next[p])
\* teredo_list_lookup(): "inserts at head"
InsertHead(m, p) ==
    LET m1 == Store(m, p, m.head["recent"])
        m2 == Back(m1, m1.next[p], p)
    IN  Back(Store(m2, "recent", p), p, "recent")

\* garbage_collector(): "moves recent peers to old peers area"
Age(m) ==
    LET r == m.head["recent"]
    IN  Back([m EXCEPT !.head = [recent |-> NULL, old |-> r]], r, "old")

\* The items a walk along "next" meets, from a list head on.
Chain(m, h) ==
    LET Walk[S \in SUBSET Items] ==
          LET T == (S \cup {m.next[i] : i \in S}) \ {NULL}
          IN  IF T = S THEN S ELSE Walk[T]
    IN  Walk[{h} \ {NULL}]

-----------------------------------------------------------------------------
Init ==
    /\ mem = [head  |-> [recent |-> NULL, old |-> NULL],
              next  |-> [i \in Items |-> NULL],
              pprev |-> [i \in Items |-> "recent"]]
    /\ left = Max
    /\ key = [i \in Items |-> CHOOSE k \in Keys : TRUE]  \* not read before it is set
    /\ root = [k \in Keys |-> NULL]
    /\ heap = {}
    /\ lock = NULL
    /\ peer = [t \in Users |-> NULL]
    /\ detached = [t \in Threads |-> <<>>]
    /\ phase = "live"
    /\ idle = [i \in Items |-> 0]

Outside(t) == lock # t /\ detached[t] = <<>>

LookupFound(t, k) ==
    /\ phase = "live" /\ Outside(t) /\ lock = NULL
    /\ root[k] # NULL
    /\ mem' = IF mem.head["recent"] = root[k] THEN mem
              ELSE InsertHead(Unlink(mem, root[k]), root[k])
    /\ lock' = t
    /\ peer' = [peer EXCEPT ![t] = root[k]]
    /\ idle' = [idle EXCEPT ![root[k]] = 0]
    /\ UNCHANGED <<left, key, root, heap, detached, phase>>

LookupCreate(t, k) ==
    /\ phase = "live" /\ Outside(t) /\ lock = NULL
    /\ root[k] = NULL
    /\ left > 0
    /\ \E i \in Items \ heap :
         /\ heap' = heap \cup {i}
         /\ mem' = InsertHead(mem, i)
         /\ key' = [key EXCEPT ![i] = k]
         /\ root' = [root EXCEPT ![k] = i]
         /\ peer' = [peer EXCEPT ![t] = i]
         /\ idle' = [idle EXCEPT ![i] = 0]
    /\ left' = left - 1
    /\ lock' = t
    /\ UNCHANGED <<detached, phase>>

Release(t) ==
    /\ lock = t
    /\ lock' = NULL
    /\ peer' = [peer EXCEPT ![t] = NULL]
    /\ UNCHANGED <<mem, left, key, root, heap, detached, phase, idle>>

\* The collector works only while the list is full.
SlipAwake == phase # "gone" /\ detached[GC] = <<>> /\ lock = NULL /\ left = 0
\* clock_nanosleep() returned, and the mutex is free.
Awake == phase # "gone" /\ detached[GC] = <<>> /\ lock = NULL

\* The loop over l->old deletes each item's key from the tree and counts it.
Sweep ==
    LET expired == Chain(mem, mem.head["old"])
    IN  /\ Awake
        /\ root' = [k \in Keys |-> IF \E i \in expired : key[i] = k THEN NULL ELSE root[k]]
        /\ left' = left + Cardinality(expired)
        /\ detached' = [detached EXCEPT ![GC] =
                          IF mem.head["old"] = NULL THEN <<>> ELSE <<mem.head["old"]>>]
        /\ mem' = Age(mem)
        /\ idle' = [i \in Items |-> IF idle[i] < 2 THEN idle[i] + 1 ELSE 2]
        /\ UNCHANGED <<key, heap, lock, peer, phase>>

\* The old list is forgotten.
SlipDetached == <<mem.head["recent"]>>
\* teredo_list_reset() frees the old list first, then the recent one.
Detached == <<mem.head["old"], mem.head["recent"]>>

Detach(t, max) ==
    /\ lock = NULL
    /\ root' = [k \in Keys |-> NULL]
    /\ detached' = [detached EXCEPT ![t] =
                      SelectSeq(Detached, LAMBDA h : h # NULL)]
    /\ mem' = [mem EXCEPT !.head = [recent |-> NULL, old |-> NULL]]
    /\ left' = max
    /\ UNCHANGED <<key, heap, lock, peer, idle>>

Reset(t) == phase = "live" /\ Outside(t) /\ Detach(t, Max) /\ UNCHANGED phase

\* listitem_recdestroy(): "next" is read before the item is freed.  What a
\* freed block holds does not matter: its links are reset.
Free(t) ==
    /\ detached[t] # <<>>
    /\ LET i == Head(detached[t])
       IN  /\ heap' = heap \ {i}
           /\ detached' = [detached EXCEPT ![t] =
                IF mem.next[i] = NULL THEN Tail(@) ELSE [@ EXCEPT ![1] = mem.next[i]]]
           /\ mem' = [mem EXCEPT !.next[i] = NULL, !.pprev[i] = "recent"]
    /\ UNCHANGED <<left, key, root, lock, peer, phase, idle>>

DestroyReset(t) ==
    phase = "live" /\ (\A u \in Users : Outside(u)) /\ Detach(t, 0) /\ phase' = "resetting"
DestroyCancel ==
    /\ phase = "resetting" /\ (\A u \in Users : detached[u] = <<>>) /\ phase' = "cancelling"
    /\ UNCHANGED <<mem, left, key, root, heap, lock, peer, detached, idle>>
DestroyJoin ==
    /\ phase = "cancelling" /\ detached[GC] = <<>> /\ phase' = "gone"
    /\ UNCHANGED <<mem, left, key, root, heap, lock, peer, detached, idle>>
Gone == phase = "gone" /\ UNCHANGED vars

Next ==
    \/ \E t \in Users :
         \/ \E k \in Keys : LookupFound(t, k) \/ LookupCreate(t, k)
         \/ Release(t) \/ Reset(t) \/ DestroyReset(t)
    \/ \E t \in Threads : Free(t)
    \/ Sweep \/ DestroyCancel \/ DestroyJoin \/ Gone

\* As in PeerList: threads with the lock or memory to free are scheduled.
Fairness ==
    /\ \A t \in Users : WF_vars(Release(t))
    /\ \A t \in Threads : WF_vars(Free(t))
    /\ SF_vars(Sweep)
    /\ WF_vars(DestroyCancel) /\ WF_vars(DestroyJoin)

Spec == Init /\ [][Next]_vars /\ Fairness

-----------------------------------------------------------------------------
\* The linked lists behave as the two sets of module PeerList: no operation
\* loses, duplicates or misplaces an item, and what a thread walks while it
\* frees is exactly what was detached for it.
PL == INSTANCE PeerList WITH
        recent <- Chain(mem, mem.head["recent"]),
        old    <- Chain(mem, mem.head["old"]),
        doomed <- [t \in Threads |-> UNION {Chain(mem, h) : h \in Range(detached[t])}]
ListsAreSets == PL!Spec

\* A peer that nobody looks up does not stay in memory for ever.
IdlePeerFreed == PL!IdlePeerFreed
=============================================================================
