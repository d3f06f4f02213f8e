---------------------------- MODULE PeerListBase ----------------------------
(* What PeerList and PeerLinks share: the threads and the memory of a list. *)
EXTENDS Integers, FiniteSets

CONSTANTS
    Keys,    \* IPv6 addresses of peers
    Items,   \* addresses malloc() may return for a teredo_listitem
    Users,   \* threads that call teredo_list_lookup() and teredo_list_reset()
    Max,     \* the "max" of teredo_list_create()
    GC,      \* the garbage collector thread
    NULL     \* a null pointer, and "no thread"

ASSUME MaxAssumption == Max \in Nat
ASSUME ItemsAssumption == IsFiniteSet(Items) /\ NULL \notin Items
ASSUME ThreadsAssumption == GC \notin Users /\ NULL \notin Users \cup {GC}

Threads == Users \cup {GC}
=============================================================================
