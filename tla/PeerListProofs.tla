--------------------------- MODULE PeerListProofs ---------------------------
(***************************************************************************)
(* The peer list is safe for every number of addresses, threads and heap   *)
(* blocks, and every maximum.                                              *)
(***************************************************************************)
EXTENDS PeerList, FiniteSetTheorems, TLAPS

\* Only a thread that uses a peer holds the mutex across calls, and only
\* while the list is in service.
LockInv ==
    /\ lock # GC
    /\ \A t \in Users : lock = t <=> peer[t] # NULL
    /\ phase # "live" => lock = NULL

\* CapacityConserved, and what it becomes once teredo_list_destroy() runs.
LeftInv ==
    /\ CapacityConserved
    /\ phase # "live" => left = 0 /\ Listed = {}

\* The "old" list holds peers that a sweep has already passed over, and after
\* pthread_cancel() only the collector may have memory to free.
AgeInv ==
    /\ \A i \in old : idle[i] >= 1
    /\ phase \in {"cancelling", "gone"} => \A u \in Users : doomed[u] = {}
    /\ phase = "gone" => doomed[GC] = {}

IInv ==
    /\ TypeOK /\ IndexExact /\ HeapExact /\ HeldPeerSafe
    /\ LockInv /\ LeftInv /\ AgeInv

-----------------------------------------------------------------------------
\* Listed peers are finitely many, so their number is a natural number.
LEMMA ListedFinite ==
  ASSUME recent \subseteq Items, old \subseteq Items
  PROVE  /\ IsFiniteSet(recent) /\ IsFiniteSet(old) /\ IsFiniteSet(Listed)
         /\ Cardinality(recent) \in Nat /\ Cardinality(old) \in Nat
         /\ Cardinality(Listed) \in Nat
<1>1. IsFiniteSet(recent) /\ IsFiniteSet(old) /\ IsFiniteSet(Listed)
  BY FS_Subset, ItemsAssumption DEF Listed
<1>2. QED  BY <1>1, FS_CardinalityType

\* Sweeping the "old" list gives back exactly its peers.
LEMMA ListedSplit ==
  ASSUME recent \subseteq Items, old \subseteq Items, recent \cap old = {}
  PROVE  Cardinality(Listed) = Cardinality(recent) + Cardinality(old)
<1>1. IsFiniteSet(recent) /\ IsFiniteSet(old)  BY ListedFinite
<1>2. Cardinality(recent \cup old)
        = Cardinality(recent) + Cardinality(old) - Cardinality(recent \cap old)
  BY <1>1, FS_Union
<1>3. Cardinality(recent \cap old) = 0  BY FS_EmptySet
<1>4. QED  BY <1>2, <1>3, ListedFinite DEF Listed

\* A list just created satisfies the inductive invariant.
LEMMA InitIInv == Init => IInv
<1> SUFFICES ASSUME Init PROVE IInv  OBVIOUS
<1>1. Listed = {} /\ Cardinality(Listed) = 0  BY FS_EmptySet DEF Init, Listed
<1>2. TypeOK  BY MaxAssumption DEF Init, TypeOK
<1>3. QED
  BY <1>1, <1>2, MaxAssumption, ThreadsAssumption
     DEF Init, IInv, IndexExact, HeapExact, HeldPeerSafe, LockInv, LeftInv,
         CapacityConserved, AgeInv, Listed, Threads
-----------------------------------------------------------------------------
\* teredo_list_lookup() of a known address moves one peer to "recent".
LEMMA LookupFoundStep ==
  ASSUME IInv, NEW t \in Users, NEW k \in Keys, LookupFound(t, k)
  PROVE  IInv'
<1> USE DEF IInv, LookupFound, Outside
<1>0. root[k] \in Listed /\ root[k] \in Items /\ key[root[k]] = k
  BY DEF IndexExact, TypeOK, Listed
<1>1. TypeOK'  BY <1>0 DEF TypeOK, Threads
<1>2. Listed' = Listed  BY <1>0 DEF Listed
<1>3. IndexExact'  BY <1>0, <1>2 DEF IndexExact
<1>4. HeapExact'  BY <1>2 DEF HeapExact
<1>5. HeldPeerSafe'
  <2>1. root[k] \in Listed' \cap heap'  BY <1>0, <1>2 DEF HeapExact
  <2>2. \A u \in Users \ {t} : peer'[u] = NULL
    BY ThreadsAssumption DEF TypeOK, LockInv
  <2>3. peer'[t] = root[k] /\ lock' = t  BY DEF TypeOK
  <2>4. QED  BY <2>1, <2>2, <2>3 DEF HeldPeerSafe
<1>6. LockInv'
  <2>1. \A u \in Users : u # t => peer[u] = NULL  BY ThreadsAssumption DEF LockInv
  <2>2. QED  BY <1>0, <2>1, ThreadsAssumption, ItemsAssumption DEF LockInv, TypeOK
<1>7. LeftInv'  BY <1>2 DEF LeftInv, CapacityConserved
<1>8. AgeInv'  BY DEF AgeInv, TypeOK
<1>9. QED  BY <1>1, <1>3, <1>4, <1>5, <1>6, <1>7, <1>8

\* teredo_list_lookup() of a new address allocates, lists and indexes one peer.
LEMMA LookupCreateStep ==
  ASSUME IInv, NEW t \in Users, NEW k \in Keys, LookupCreate(t, k)
  PROVE  IInv'
<1> USE DEF IInv, LookupCreate, Outside
<1>0. PICK i \in Items \ heap :
         /\ heap' = heap \cup {i}
         /\ recent' = recent \cup {i}
         /\ key' = [key EXCEPT ![i] = k]
         /\ root' = [root EXCEPT ![k] = i]
         /\ peer' = [peer EXCEPT ![t] = i]
         /\ idle' = [idle EXCEPT ![i] = 0]
  OBVIOUS
<1>1. i \notin Listed /\ \A u \in Threads : i \notin doomed[u]
  BY <1>0 DEF HeapExact
<1>2. Listed' = Listed \cup {i}  BY <1>0 DEF Listed
<1>3. TypeOK'
  <2>1. left - 1 \in 0..Max  BY MaxAssumption DEF TypeOK
  <2>2. QED  BY <1>0, <2>1 DEF TypeOK, Threads
<1>4. IndexExact'
  <2>1. \A j \in Listed : key'[j] = key[j] /\ key[j] # k
    BY <1>0, <1>1, ItemsAssumption DEF IndexExact, TypeOK, Listed
  <2>2. key'[i] = k /\ root'[k] = i  BY <1>0 DEF TypeOK
  <2>3. \A m \in Keys \ {k} : root'[m] = root[m]  BY <1>0 DEF TypeOK
  <2>4. \A m \in Keys : root'[m] # NULL => root'[m] \in Listed' /\ key'[root'[m]] = m
    BY <2>1, <2>2, <2>3, <1>2 DEF IndexExact
  <2>5. \A j \in Listed' : root'[key'[j]] = j
    BY <2>1, <2>2, <2>3, <1>2 DEF IndexExact, TypeOK, Listed
  <2>6. recent' \cap old' = {}  BY <1>0, <1>1 DEF IndexExact, Listed
  <2>7. QED  BY <2>4, <2>5, <2>6 DEF IndexExact
<1>5. HeapExact'  BY <1>0, <1>1, <1>2 DEF HeapExact
<1>6. HeldPeerSafe'
  <2>1. \A u \in Users \ {t} : peer'[u] = NULL
    BY <1>0, ThreadsAssumption DEF TypeOK, LockInv
  <2>2. peer'[t] = i /\ lock' = t  BY <1>0 DEF TypeOK
  <2>3. QED  BY <1>0, <1>2, <2>1, <2>2 DEF HeldPeerSafe
<1>7. LockInv'
  <2>1. \A u \in Users \ {t} : peer'[u] = NULL
    BY <1>0, ThreadsAssumption DEF TypeOK, LockInv
  <2>2. peer'[t] = i /\ i # NULL  BY <1>0, ItemsAssumption DEF TypeOK
  <2>3. QED  BY <2>1, <2>2, ThreadsAssumption DEF LockInv
<1>8. LeftInv'
  <2>1. Cardinality(Listed') = Cardinality(Listed) + 1
    BY <1>1, <1>2, ListedFinite, FS_AddElement DEF TypeOK
  <2>2. left' + Cardinality(Listed') = Max
    BY <2>1, ListedFinite, MaxAssumption DEF TypeOK, LeftInv, CapacityConserved
  <2>3. QED  BY <2>2 DEF LeftInv, CapacityConserved
<1>9. AgeInv'  BY <1>0, <1>1 DEF AgeInv, TypeOK, Listed
<1>10. QED  BY <1>3, <1>4, <1>5, <1>6, <1>7, <1>8, <1>9

\* The collector's critical section.
LEMMA SweepStep ==
  ASSUME IInv, Sweep
  PROVE  IInv'
<1> USE DEF IInv, Sweep
<1>1. Listed' = recent  BY DEF Listed
<1>2. Cardinality(Listed) = Cardinality(recent) + Cardinality(old)
  BY ListedSplit DEF TypeOK, IndexExact
<1>3. LeftInv' /\ left' \in 0..Max
  <2>1. CASE phase = "live"
    <3>1. left + (Cardinality(recent) + Cardinality(old)) = Max
      BY <1>2, <2>1 DEF LeftInv, CapacityConserved
    <3>2. left' + Cardinality(recent) = Max /\ left' \in 0..Max
      BY <3>1, ListedFinite, MaxAssumption DEF TypeOK
    <3>3. QED  BY <1>1, <2>1, <3>2 DEF LeftInv, CapacityConserved
  <2>2. CASE phase # "live"
    <3>1. old = {} /\ recent = {} /\ left = 0  BY <2>2 DEF LeftInv, Listed
    <3>2. left' = 0  BY <3>1, FS_EmptySet
    <3>3. QED  BY <1>1, <2>2, <3>1, <3>2, MaxAssumption DEF LeftInv, CapacityConserved
  <2>3. QED  BY <2>1, <2>2
<1>4. TypeOK'
  <2>1. idle' \in [Items -> 0..2]  BY DEF TypeOK
  <2>2. root' \in [Keys -> Items \cup {NULL}]  BY DEF TypeOK
  <2>3. doomed' \in [Threads -> SUBSET Items]  BY DEF TypeOK, Threads
  <2>4. QED  BY <1>3, <2>1, <2>2, <2>3 DEF TypeOK
<1>5. IndexExact'
  <2>1. \A k \in Keys : root'[k] # NULL => root'[k] \in Listed' /\ key'[root'[k]] = k
    BY <1>1 DEF IndexExact, Listed
  <2>2. \A i \in recent : \A j \in old : key[i] # key[j]
    BY DEF IndexExact, Listed
  <2>3. \A i \in Listed' : root'[key'[i]] = i
    BY <1>1, <2>2 DEF IndexExact, Listed, TypeOK
  <2>4. QED  BY <2>1, <2>3 DEF IndexExact
<1>6. HeapExact'
  <2>1. doomed'[GC] = old /\ \A u \in Users : doomed'[u] = doomed[u]
    BY ThreadsAssumption DEF TypeOK, Threads
  <2>2. heap' = Listed' \cup UNION {doomed'[t] : t \in Threads}
    <3>1. heap = recent \cup old \cup UNION {doomed[t] : t \in Threads}
      BY DEF HeapExact, Listed
    <3>2. UNION {doomed'[t] : t \in Threads} = old \cup UNION {doomed[t] : t \in Threads}
      BY <2>1 DEF Threads
    <3>3. QED  BY <1>1, <3>1, <3>2
  <2>3. recent \cap old = {} /\ \A u \in Threads : doomed[u] \cap (recent \cup old) = {}
    BY DEF HeapExact, IndexExact, Listed
  <2>4. \A t \in Threads : doomed'[t] \cap Listed' = {}
    BY <1>1, <2>1, <2>3 DEF Threads
  <2>5. \A t \in Threads : \A u \in Threads \ {t} : doomed'[t] \cap doomed'[u] = {}
    BY <2>1, <2>3 DEF Threads, HeapExact
  <2>6. QED  BY <2>2, <2>4, <2>5 DEF HeapExact
<1>7. HeldPeerSafe'  BY ThreadsAssumption DEF HeldPeerSafe
<1>8. LockInv'  BY DEF LockInv
<1>9. AgeInv'
  <2>1. \A i \in Items : idle'[i] >= 1  BY DEF TypeOK
  <2>2. \A u \in Users : doomed'[u] = doomed[u]
    BY ThreadsAssumption DEF TypeOK, Threads
  <2>3. QED  BY <2>1, <2>2 DEF AgeInv, TypeOK
<1>10. QED  BY <1>3, <1>4, <1>5, <1>6, <1>7, <1>8, <1>9

\* The locked part of teredo_list_reset() moves every listed peer to the
\* caller's detached lists and loses none.
LEMMA DetachStep ==
  ASSUME IInv, NEW t \in Users, NEW max \in 0..Max, Detach(t, max),
         Outside(t), phase = "live", phase' \in {"live", "resetting"},
         phase' = "live" => max = Max, phase' # "live" => max = 0
  PROVE  IInv'
<1> USE DEF IInv, Detach, Outside
<1>1. Listed' = {} /\ Cardinality(Listed') = 0  BY FS_EmptySet DEF Listed
<1>2. doomed'[t] = Listed /\ \A u \in Threads \ {t} : doomed'[u] = doomed[u]
  BY DEF TypeOK, Threads, Listed
<1>3. TypeOK'
  <2>1. doomed' \in [Threads -> SUBSET Items]  BY DEF TypeOK, Threads
  <2>2. QED  BY <2>1 DEF TypeOK
<1>4. IndexExact'  BY <1>1 DEF IndexExact
<1>5. HeapExact'
  <2>1. UNION {doomed'[u] : u \in Threads} = Listed \cup UNION {doomed[u] : u \in Threads}
    BY <1>2 DEF Threads
  <2>2. \A u \in Threads : \A v \in Threads \ {u} : doomed'[u] \cap doomed'[v] = {}
    BY <1>2 DEF HeapExact
  <2>3. QED  BY <1>1, <2>1, <2>2 DEF HeapExact
<1>6. HeldPeerSafe'  BY ThreadsAssumption DEF LockInv, HeldPeerSafe
<1>7. LockInv'  BY DEF LockInv
<1>8. LeftInv'  BY <1>1, MaxAssumption DEF LeftInv, CapacityConserved
<1>9. AgeInv'  BY DEF AgeInv
<1>10. QED  BY <1>3, <1>4, <1>5, <1>6, <1>7, <1>8, <1>9

\* listitem_destroy() frees a block that nothing else refers to.
LEMMA FreeStep ==
  ASSUME IInv, NEW t \in Threads, Free(t)
  PROVE  IInv'
<1> USE DEF IInv, Free
<1>0. PICK i \in doomed[t] :
         /\ heap' = heap \ {i}
         /\ doomed' = [doomed EXCEPT ![t] = @ \ {i}]
         /\ UNCHANGED <<recent, old, left, key, root, lock, peer, phase, idle>>
  OBVIOUS
<1>1. Listed' = Listed  BY <1>0 DEF Listed
<1>2. doomed'[t] = doomed[t] \ {i} /\ \A u \in Threads \ {t} : doomed'[u] = doomed[u]
  BY <1>0 DEF TypeOK
<1>3. i \notin Listed /\ \A u \in Threads \ {t} : i \notin doomed[u]
  BY <1>0 DEF HeapExact
<1>4. TypeOK'  BY <1>0 DEF TypeOK
<1>5. IndexExact'  BY <1>0, <1>1 DEF IndexExact
<1>6. HeapExact'
  <2>1. heap' = Listed' \cup UNION {doomed'[u] : u \in Threads}
    BY <1>0, <1>1, <1>2, <1>3 DEF HeapExact
  <2>2. \A u \in Threads : doomed'[u] \subseteq doomed[u]  BY <1>2
  <2>3. QED  BY <1>1, <2>1, <2>2 DEF HeapExact
<1>7. HeldPeerSafe'  BY <1>0, <1>1, <1>3 DEF HeldPeerSafe
<1>8. LockInv' /\ LeftInv'
  BY <1>0, <1>1 DEF LockInv, LeftInv, CapacityConserved
<1>9. AgeInv'
  <2>1. \A u \in Threads : doomed[u] = {} => doomed'[u] = {}  BY <1>2
  <2>2. QED  BY <1>0, <2>1 DEF AgeInv, Threads
<1>10. QED  BY <1>4, <1>5, <1>6, <1>7, <1>8, <1>9

\* teredo_list_release(), and the steps of teredo_list_destroy() after its reset.
LEMMA OtherSteps ==
  ASSUME IInv,
         \/ \E t \in Users : Release(t)
         \/ DestroyCancel \/ DestroyJoin \/ UNCHANGED vars
  PROVE  IInv'
<1> USE DEF IInv
<1>0. UNCHANGED <<recent, old, left, key, root, heap, doomed, idle>>
  BY DEF Release, DestroyCancel, DestroyJoin, vars
<1>1. Listed' = Listed  BY <1>0 DEF Listed
<1>2. IndexExact' /\ HeapExact'  BY <1>0, <1>1 DEF IndexExact, HeapExact
<1>3. CASE \E t \in Users : Release(t)
  <2>1. PICK t \in Users : Release(t)  BY <1>3
  <2>2. TypeOK'  BY <1>0, <2>1 DEF TypeOK, Release
  <2>3. \A u \in Users : peer'[u] = NULL
    BY <2>1, ThreadsAssumption DEF Release, LockInv, TypeOK
  <2>4. HeldPeerSafe' /\ LockInv'
    BY <2>1, <2>3, ThreadsAssumption DEF Release, HeldPeerSafe, LockInv
  <2>5. LeftInv' /\ AgeInv'
    BY <1>0, <1>1, <2>1 DEF Release, LeftInv, CapacityConserved, AgeInv
  <2>6. QED  BY <1>2, <2>2, <2>4, <2>5
<1>4. CASE DestroyCancel \/ DestroyJoin \/ UNCHANGED vars
  <2>1. TypeOK'  BY <1>0, <1>4 DEF DestroyCancel, DestroyJoin, vars, TypeOK
  <2>2. UNCHANGED <<lock, peer>> /\ (phase = "live" <=> phase' = "live")
    BY <1>4 DEF DestroyCancel, DestroyJoin, vars
  <2>3. HeldPeerSafe' /\ LockInv' /\ LeftInv'
    BY <1>0, <1>1, <2>2 DEF HeldPeerSafe, LockInv, LeftInv, CapacityConserved
  <2>4. AgeInv'  BY <1>0, <1>4 DEF DestroyCancel, DestroyJoin, vars, AgeInv
  <2>5. QED  BY <1>2, <2>1, <2>3, <2>4
<1>5. QED  BY <1>3, <1>4

\* Every step of every thread preserves the inductive invariant.
LEMMA NextIInv == IInv /\ [Next]_vars => IInv'
<1> SUFFICES ASSUME IInv, [Next]_vars PROVE IInv'  OBVIOUS
<1>1. ASSUME NEW t \in Users, Reset(t) PROVE IInv'
  <2>1. Max \in 0..Max  BY MaxAssumption
  <2>2. QED  BY <1>1, <2>1, DetachStep DEF Reset
<1>2. ASSUME NEW t \in Users, DestroyReset(t) PROVE IInv'
  <2>1. 0 \in 0..Max  BY MaxAssumption
  <2>2. QED  BY <1>2, <2>1, DetachStep DEF DestroyReset
<1>3. QED
  BY <1>1, <1>2, LookupFoundStep, LookupCreateStep, SweepStep, FreeStep, OtherSteps
     DEF Next, Gone

-----------------------------------------------------------------------------
\* Whatever the threads do, in whatever order.
THEOREM Invariance == Spec => []IInv
<1>1. QED  BY InitIInv, NextIInv, PTL DEF Spec

\* The tree, the two lists and the heap agree in every reachable state: no
\* dangling index entry, no leak, no double free.
THEOREM ListConsistent == Spec => [](IndexExact /\ HeapExact)
<1>1. IInv => IndexExact /\ HeapExact  BY DEF IInv
<1>2. QED  BY <1>1, Invariance, PTL

\* "left" and the number of listed peers always make up the maximum.
THEOREM Capacity == Spec => [](TypeOK /\ CapacityConserved)
<1>1. IInv => TypeOK /\ CapacityConserved  BY DEF IInv, LeftInv
<1>2. QED  BY <1>1, Invariance, PTL

\* Between lookup and release the caller's peer is neither unlisted nor freed.
THEOREM HeldPeer == Spec => []HeldPeerSafe
<1>1. IInv => HeldPeerSafe  BY DEF IInv
<1>2. QED  BY <1>1, Invariance, PTL

\* teredo_list_destroy() frees every peer.
THEOREM NothingLeft == Spec => []DestroyFreesAll
<1>1. IInv => DestroyFreesAll
  BY DEF IInv, DestroyFreesAll, HeapExact, LeftInv, AgeInv, Threads
<1>2. QED  BY <1>1, Invariance, PTL

\* The collector keeps every peer for at least one whole period.
THEOREM MinimumDelay == Spec => RemovedOnlyIfIdle
<1> DEFINE Step == \A i \in Listed \ Listed' :
                      idle[i] >= 1 \/ \E t \in Users : i \in doomed'[t]
<1>1. ASSUME IInv, [Next]_vars PROVE Step \/ UNCHANGED vars
  <2>1. CASE Sweep
    BY <1>1, <2>1 DEF Sweep, Listed, IInv, AgeInv
  <2>2. ASSUME NEW t \in Users, NEW max, Detach(t, max) PROVE Step
    BY <1>1, <2>2 DEF Detach, Listed, IInv, TypeOK, Threads
  <2>3. ASSUME NEW t \in Users, NEW k \in Keys, LookupFound(t, k) \/ LookupCreate(t, k)
        PROVE Step
    BY <2>3 DEF LookupFound, LookupCreate, Listed
  <2>4. CASE \/ \E t \in Users : Release(t)
             \/ \E t \in Threads : Free(t)
             \/ DestroyCancel \/ DestroyJoin \/ UNCHANGED vars
    BY <2>4 DEF Release, Free, DestroyCancel, DestroyJoin, vars, Listed
  <2>5. QED
    BY <1>1, <2>1, <2>2, <2>3, <2>4 DEF Next, Reset, DestroyReset, Gone
<1>2. QED  BY <1>1, Invariance, PTL DEF Spec, RemovedOnlyIfIdle
=============================================================================
