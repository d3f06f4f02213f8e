------------------------------ MODULE PeerList ------------------------------
(***************************************************************************)
(* The Teredo peer list (miredo/libteredo/peerlist.c) as the threads of a  *)
(* relay share it: data-path threads look peers up and keep the list       *)
(* locked while they use the peer, a garbage collector thread retires the  *)
(* peers nobody touched, and a state change empties the list.  Memory is   *)
(* released outside the lock.                                              *)
(*                                                                         *)
(* The two linked lists are the sets "recent" and "old"; the pointer       *)
(* surgery behind them is module PeerLinks.  An element of Items is the    *)
(* address of a heap block: free() makes it available to malloc() again.   *)
(***************************************************************************)
EXTENDS PeerListBase

VARIABLES
    recent, old,  \* the two lists of struct teredo_peerlist
    left,         \* how many peers may still be created
    key,          \* key[i]: the address stored in item i
    root,         \* the search tree: address -> item
    heap,         \* the items that are allocated
    lock,         \* the thread that holds the mutex, or NULL
    peer,         \* peer[t]: the peer lookup() handed to thread t
    doomed,       \* doomed[t]: detached items thread t has still to free
    phase,        \* "live", "resetting", "cancelling", "gone": teredo_list_destroy()
    idle          \* history: sweeps since the item was last looked up

vars == <<recent, old, left, key, root, heap, lock, peer, doomed, phase, idle>>

Listed == recent \cup old

TypeOK ==
    /\ recent \subseteq Items /\ old \subseteq Items
    /\ left \in 0..Max
    /\ key \in [Items -> Keys]
    /\ root \in [Keys -> Items \cup {NULL}]
    /\ heap \subseteq Items
    /\ lock \in Threads \cup {NULL}
    /\ peer \in [Users -> Items \cup {NULL}]
    /\ doomed \in [Threads -> SUBSET Items]
    /\ phase \in {"live", "resetting", "cancelling", "gone"}
    /\ idle \in [Items -> 0..2]

\* teredo_list_create()
Init ==
    /\ recent = {} /\ old = {}
    /\ left = Max
    /\ key \in [Items -> Keys]      \* malloc() leaves the key uninitialised
    /\ root = [k \in Keys |-> NULL]
    /\ heap = {}
    /\ lock = NULL
    /\ peer = [t \in Users |-> NULL]
    /\ doomed = [t \in Threads |-> {}]
    /\ phase = "live"
    /\ idle = [i \in Items |-> 0]

-----------------------------------------------------------------------------
\* A thread is inside no call of the list.
Outside(t) == lock # t /\ doomed[t] = {}

\* teredo_list_lookup(): the address is in the tree.  The peer moves to the
\* head of "recent"; the call returns with the list locked.
LookupFound(t, k) ==
    /\ phase = "live" /\ Outside(t)
    /\ lock = NULL
    /\ root[k] # NULL
    /\ recent' = recent \cup {root[k]}
    /\ old' = old \ {root[k]}
    /\ lock' = t
    /\ peer' = [peer EXCEPT ![t] = root[k]]
    /\ idle' = [idle EXCEPT ![root[k]] = 0]
    /\ UNCHANGED <<left, key, root, heap, doomed, phase>>

\* teredo_list_lookup(), create # NULL, address not in the tree, and both
\* left > 0 and malloc() succeed.
LookupCreate(t, k) ==
    /\ phase = "live" /\ Outside(t)
    /\ lock = NULL
    /\ root[k] = NULL
    /\ left > 0
    /\ \E i \in Items \ heap :
         /\ heap' = heap \cup {i}
         /\ recent' = recent \cup {i}
         /\ key' = [key EXCEPT ![i] = k]
         /\ root' = [root EXCEPT ![k] = i]
         /\ peer' = [peer EXCEPT ![t] = i]
         /\ idle' = [idle EXCEPT ![i] = 0]
    /\ left' = left - 1
    /\ lock' = t
    /\ UNCHANGED <<old, doomed, phase>>

\* teredo_list_lookup() returning NULL (not found and create = NULL, the list
\* is full, or malloc() failed) locks and unlocks, and what tsearch() inserted
\* tdelete() removes: it changes nothing.

\* teredo_list_release()
Release(t) ==
    /\ lock = t
    /\ lock' = NULL
    /\ peer' = [peer EXCEPT ![t] = NULL]
    /\ UNCHANGED <<recent, old, left, key, root, heap, doomed, phase, idle>>

\* garbage_collector(): the critical section after clock_nanosleep().
Sweep ==
    /\ phase # "gone" /\ doomed[GC] = {}
    /\ lock = NULL
    /\ root' = [k \in Keys |-> IF \E i \in old : key[i] = k THEN NULL ELSE root[k]]
    /\ left' = left + Cardinality(old)
    /\ doomed' = [doomed EXCEPT ![GC] = old]
    /\ old' = recent
    /\ recent' = {}
    /\ idle' = [i \in Items |-> IF idle[i] < 2 THEN idle[i] + 1 ELSE 2]
    /\ UNCHANGED <<key, heap, lock, peer, phase>>

\* The locked part of teredo_list_reset(l, max): everything is detached.
Detach(t, max) ==
    /\ lock = NULL
    /\ root' = [k \in Keys |-> NULL]
    /\ doomed' = [doomed EXCEPT ![t] = recent \cup old]
    /\ recent' = {} /\ old' = {}
    /\ left' = max
    /\ UNCHANGED <<key, heap, lock, peer, idle>>

\* teredo_list_reset() by a state change.
Reset(t) ==
    /\ phase = "live" /\ Outside(t)
    /\ Detach(t, Max)
    /\ UNCHANGED phase

\* listitem_recdestroy(): one listitem_destroy(), the list not locked.
Free(t) ==
    \E i \in doomed[t] :
      /\ heap' = heap \ {i}
      /\ doomed' = [doomed EXCEPT ![t] = @ \ {i}]
      /\ UNCHANGED <<recent, old, left, key, root, lock, peer, phase, idle>>

\* teredo_list_destroy() on a list no thread uses any more: the reset,
DestroyReset(t) ==
    /\ phase = "live"
    /\ \A u \in Users : Outside(u)
    /\ Detach(t, 0)
    /\ phase' = "resetting"

\* pthread_cancel() once the reset has freed everything,
DestroyCancel ==
    /\ phase = "resetting"
    /\ \A u \in Users : doomed[u] = {}
    /\ phase' = "cancelling"
    /\ UNCHANGED <<recent, old, left, key, root, heap, lock, peer, doomed, idle>>

\* and pthread_join(): the collector is cancelled in its sleep, never between
\* pthread_setcancelstate() calls.  Then the list itself is freed.
DestroyJoin ==
    /\ phase = "cancelling"
    /\ doomed[GC] = {}
    /\ phase' = "gone"
    /\ UNCHANGED <<recent, old, left, key, root, heap, lock, peer, doomed, idle>>

Gone == phase = "gone" /\ UNCHANGED vars

Next ==
    \/ \E t \in Users :
         \/ \E k \in Keys : LookupFound(t, k) \/ LookupCreate(t, k)
         \/ Release(t)
         \/ Reset(t)
         \/ DestroyReset(t)
    \/ \E t \in Threads : Free(t)
    \/ Sweep
    \/ DestroyCancel
    \/ DestroyJoin
    \/ Gone

\* Threads that hold the lock or memory to free are scheduled; the collector's
\* clock_nanosleep() ends; destruction, once begun, proceeds.
Fairness ==
    /\ \A t \in Users : WF_vars(Release(t))
    /\ \A t \in Threads : WF_vars(Free(t))
    /\ SF_vars(Sweep)
    /\ WF_vars(DestroyCancel) /\ WF_vars(DestroyJoin)

Spec == Init /\ [][Next]_vars
FairSpec == Spec /\ Fairness
-----------------------------------------------------------------------------
\* The tree finds exactly the listed peers, each under its own address: no
\* entry dangles after a sweep or a reset, none is listed twice.
IndexExact ==
    /\ recent \cap old = {}
    /\ \A k \in Keys : root[k] # NULL => root[k] \in Listed /\ key[root[k]] = k
    /\ \A i \in Listed : root[key[i]] = i

\* "left" never leaks and never overflows: what is left and what is listed
\* always make up the maximum, whatever sweeps, resets and creations overlap.
CapacityConserved == phase = "live" => left + Cardinality(Listed) = Max

\* Every allocated item is either listed or about to be freed by exactly one
\* thread: no leak, no double free, no listed item that has been freed.
HeapExact ==
    /\ heap = Listed \cup UNION {doomed[t] : t \in Threads}
    /\ \A t \in Threads :
         /\ doomed[t] \cap Listed = {}
         /\ \A u \in Threads \ {t} : doomed[t] \cap doomed[u] = {}

\* The peer teredo_list_lookup() returned stays in the list, and allocated,
\* until its user calls teredo_list_release().
HeldPeerSafe ==
    \A t \in Users : peer[t] # NULL => lock = t /\ peer[t] \in Listed \cap heap

\* teredo_list_destroy() leaves nothing allocated.
DestroyFreesAll == phase = "gone" => heap = {}

\* peerlist.h: "minimum delay (seconds) before a peer can be removed by the
\* garbage collector": a collector step only drops peers that already lived
\* through one whole period without a lookup.
RemovedOnlyIfIdle ==
    [][ \A i \in Listed \ Listed' :
          idle[i] >= 1 \/ \E t \in Users : i \in doomed'[t] ]_vars

\* A peer that nobody looks up does not stay in memory for ever.
IdlePeerFreed == \A i \in Items : []<>(i \notin heap \/ idle[i] = 0)
=============================================================================
