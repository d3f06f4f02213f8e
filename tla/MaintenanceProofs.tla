------------------------- MODULE MaintenanceProofs --------------------------
(***************************************************************************)
(* Safety of the maintenance procedure for any number of receiving         *)
(* threads, addresses and retries.                                         *)
(***************************************************************************)
EXTENDS Maintenance, TLAPS

\* "outer" belongs to the one caller between its lock and its return, and every
\* caller inside the function still has its packet.
OwnerInv ==
    /\ \A c \in Callers : cpc[c] \in {"inner", "waiting", "woken"} <=> outer = c
    /\ \A c \in Callers : cpc[c] # "idle" => packet[c] # NULL
    /\ incoming # NULL => cpc[incoming] \in {"waiting", "woken"}

\* A server is solicited only once it has been resolved.
ServerInv ==
    /\ mpc \in {"solicit", "wait_reply"} => server_ip
    /\ NotUpWhenResolving
    /\ ToldIsCurrent

IInv == TypeOK /\ OwnerInv /\ ServerInv /\ count <= silent

\* The procedure starts in a state of the inductive invariant.
LEMMA InitIInv == Init => IInv
<1> SUFFICES ASSUME Init PROVE IInv  OBVIOUS
<1>1. told \in States  BY Zenon DEF Init, States
<1>2. TypeOK
  <2>1. up \in BOOLEAN /\ server_ip \in BOOLEAN  BY DEF Init
  <2>2. count \in 0..(Retries - 1) /\ silent \in 0..Retries  BY RetriesAssumption DEF Init
  <2>3. QED  BY <1>1, <2>1, <2>2, Zenon DEF Init, TypeOK, Waits
<1>3. OwnerInv  BY NullAssumption DEF Init, OwnerInv
<1>4. ServerInv  BY DEF Init, ServerInv, NotUpWhenResolving, ToldIsCurrent
<1>5. count <= silent  BY DEF Init
<1>6. QED  BY <1>2, <1>3, <1>4, <1>5 DEF IInv

\* Callers only move themselves, their packet and m->incoming.
LEMMA CallerStepIInv ==
  ASSUME IInv, NEW c \in Callers, ProcessBegin(c) \/ CallerStep(c)
  PROVE  IInv'
<1> USE DEF IInv
<1>1. CASE ProcessBegin(c)
  <2>1. TypeOK'  BY <1>1 DEF ProcessBegin, TypeOK
  <2>2. OwnerInv'
    <3>1. PICK p \in Packets : packet' = [packet EXCEPT ![c] = p]  BY <1>1 DEF ProcessBegin
    <3>2. p # NULL  BY NullAssumption
    <3>3. QED  BY <1>1, <3>1, <3>2 DEF ProcessBegin, OwnerInv, TypeOK
  <2>3. QED  BY <1>1, <2>1, <2>2 DEF ProcessBegin, ServerInv, NotUpWhenResolving, ToldIsCurrent
<1>2. CASE LockOuter(c)
  <2>1. TypeOK'  BY <1>2 DEF LockOuter, TypeOK
  <2>2. OwnerInv'  BY <1>2, NullAssumption DEF LockOuter, OwnerInv, TypeOK
  <2>3. QED  BY <1>2, <2>1, <2>2 DEF LockOuter, ServerInv, NotUpWhenResolving, ToldIsCurrent
<1>3. CASE Publish(c)
  <2>1. TypeOK'  BY <1>3 DEF Publish, TypeOK
  <2>2. OwnerInv'  BY <1>3, NullAssumption DEF Publish, OwnerInv, TypeOK
  <2>3. QED  BY <1>3, <2>1, <2>2 DEF Publish, ServerInv, NotUpWhenResolving, ToldIsCurrent
<1>4. CASE Woken(c)
  <2>1. TypeOK'  BY <1>4 DEF Woken, TypeOK
  <2>2. OwnerInv'  BY <1>4, NullAssumption DEF Woken, OwnerInv, TypeOK
  <2>3. QED  BY <1>4, <2>1, <2>2 DEF Woken, ServerInv, NotUpWhenResolving, ToldIsCurrent
<1>5. QED  BY <1>1, <1>2, <1>3, <1>4 DEF CallerStep

\* The maintenance thread's steps, grouped by what they change.
LEMMA MaintenanceStepIInv ==
  ASSUME IInv, MaintenanceStep
  PROVE  IInv'
<1> USE DEF IInv
<1>1. CASE ResolveFails \/ Resolved \/ DelayEnds
  <2>1. UNCHANGED <<outer, cpc, packet, incoming, count, up, addr, silent>>
    BY <1>1 DEF ResolveFails, Resolved, DelayEnds, callerVars
  <2>2. told' \in States
    <3>1. told \in States /\ [up |-> up, addr |-> addr] \in States  BY DEF TypeOK, States
    <3>2. QED  BY <1>1, <3>1 DEF ResolveFails, Resolved, DelayEnds
  <2>3. TypeOK'
    BY <1>1, <2>1, <2>2 DEF ResolveFails, Resolved, DelayEnds, TypeOK, EnterWait, Waits
  <2>4. OwnerInv'  BY <2>1 DEF OwnerInv
  <2>5. ServerInv'
    BY <1>1, <2>1 DEF ResolveFails, Resolved, DelayEnds, EnterWait, ServerInv,
                      NotUpWhenResolving, ToldIsCurrent
  <2>6. QED  BY <2>1, <2>3, <2>4, <2>5
<1>2. CASE Solicit
  <2>1. packet' \in [Callers -> Packets \cup {NULL}]
        /\ \A c \in Callers : packet[c] # NULL => packet'[c] # NULL
    <3>1. \A p \in Packets : [p EXCEPT !.fresh = FALSE] \in Packets  BY DEF Packets
    <3>2. \A c \in Callers : packet[c] # NULL => [packet[c] EXCEPT !.fresh = FALSE] \in Packets
      BY <3>1 DEF TypeOK
    <3>3. QED  BY <1>2, <3>2, NullAssumption DEF Solicit
  <2>2. TypeOK'  BY <1>2, <2>1 DEF Solicit, TypeOK, EnterWait, Waits
  <2>3. OwnerInv'  BY <1>2, <2>1 DEF Solicit, OwnerInv
  <2>4. QED
    BY <1>2, <2>2, <2>3 DEF Solicit, EnterWait, ServerInv, NotUpWhenResolving, ToldIsCurrent
<1>3. ASSUME Processed PROVE OwnerInv' /\ cpc' \in [Callers -> {"idle", "outer", "inner", "waiting", "woken"}]
  BY <1>3 DEF Processed, OwnerInv, TypeOK
<1>4. CASE RejectReply \/ IgnoreReply
  <2>1. TypeOK'  BY <1>3, <1>4 DEF RejectReply, IgnoreReply, Processed, TypeOK
  <2>2. QED
    BY <1>3, <1>4, <2>1 DEF RejectReply, IgnoreReply, ServerInv, NotUpWhenResolving, ToldIsCurrent
<1>5. CASE AcceptReply
  <2>1. packet[incoming] \in Packets /\ packet[incoming].addr \in Addrs
    BY <1>5, NullAssumption DEF AcceptReply, Received, TypeOK, OwnerInv, Packets
  <2>2. CASE ~up \/ addr # packet[incoming].addr
    <3>1. up' = TRUE /\ addr' = packet[incoming].addr
          /\ told' = [up |-> TRUE, addr |-> packet[incoming].addr]
      BY <1>5, <2>2 DEF AcceptReply
    <3>2. told' \in States  BY <2>1, <3>1 DEF States
    <3>3. TypeOK'
      BY <1>3, <1>5, <2>1, <3>1, <3>2, RetriesAssumption DEF AcceptReply, Processed, TypeOK, Waits
    <3>4. told'.up = TRUE /\ told'.addr = addr'  BY <3>1
    <3>5. ServerInv'
      BY <1>5, <3>1, <3>4 DEF AcceptReply, ServerInv, NotUpWhenResolving, ToldIsCurrent
    <3>6. QED  BY <1>3, <1>5, <3>3, <3>5 DEF AcceptReply, TypeOK
  <2>3. CASE ~(~up \/ addr # packet[incoming].addr)
    <3>1. UNCHANGED <<up, addr, told>>  BY <1>5, <2>3 DEF AcceptReply
    <3>2. TypeOK'
      BY <1>3, <1>5, <3>1, RetriesAssumption DEF AcceptReply, Processed, TypeOK, Waits
    <3>3. ServerInv'
      BY <1>5, <3>1 DEF AcceptReply, ServerInv, NotUpWhenResolving, ToldIsCurrent
    <3>4. QED  BY <1>3, <1>5, <3>2, <3>3 DEF AcceptReply, TypeOK
  <2>4. QED  BY <2>2, <2>3
<1>6. CASE ReplyTimesOut
  <2>1. UNCHANGED <<outer, cpc, packet, incoming, addr>>
    BY <1>6 DEF ReplyTimesOut, callerVars, EnterWait
  <2>2. OwnerInv'  BY <2>1 DEF OwnerInv
  <2>3. count' <= silent' /\ count' \in 0..(Retries - 1) /\ silent' \in 0..Retries
    BY <1>6, RetriesAssumption DEF ReplyTimesOut, TypeOK
  <2>4. told' \in States /\ told'.up = up'  /\ (up' => told'.addr = addr')
    <3>1. [up |-> FALSE, addr |-> addr] \in States  BY DEF TypeOK, States
    <3>2. told \in States /\ told.up = up /\ (up => told.addr = addr)
      BY DEF TypeOK, ServerInv, ToldIsCurrent
    <3>3. CASE count + 1 < Retries
      BY <1>6, <3>2, <3>3 DEF ReplyTimesOut
    <3>4. CASE ~(count + 1 < Retries) /\ up
      <4>1. up' = FALSE /\ told' = [up |-> FALSE, addr |-> addr]
        BY <1>6, <3>4 DEF ReplyTimesOut
      <4>2. QED  BY <3>1, <4>1
    <3>5. CASE ~(count + 1 < Retries) /\ ~up
      <4>1. up' = FALSE /\ told' = told  BY <1>6, <3>5 DEF ReplyTimesOut
      <4>2. up = FALSE  BY <3>5 DEF TypeOK
      <4>3. QED  BY <3>2, <4>1, <4>2
    <3>6. QED  BY <3>3, <3>4, <3>5
  <2>5. TypeOK'
    BY <1>6, <2>1, <2>3, <2>4 DEF ReplyTimesOut, TypeOK, EnterWait, Waits
  <2>6. ServerInv'
    BY <1>6, <2>4 DEF ReplyTimesOut, EnterWait, ServerInv, NotUpWhenResolving, ToldIsCurrent, TypeOK
  <2>7. QED  BY <2>2, <2>3, <2>5, <2>6
<1>7. QED  BY <1>1, <1>2, <1>4, <1>5, <1>6 DEF MaintenanceStep

\* Every step preserves the inductive invariant.
LEMMA NextIInv == IInv /\ [Next]_vars => IInv'
<1>1. ASSUME IInv, UNCHANGED vars PROVE IInv'
  BY <1>1 DEF vars, IInv, TypeOK, OwnerInv, ServerInv, NotUpWhenResolving, ToldIsCurrent
<1>2. QED  BY <1>1, CallerStepIInv, MaintenanceStepIInv DEF Next

-----------------------------------------------------------------------------
\* However many threads deliver packets, and whenever timers expire.
THEOREM Invariance == Spec => []IInv
<1>1. QED  BY InitIInv, NextIInv, PTL DEF Spec

\* The packet m->incoming points to is on the stack of a thread that waits.
THEOREM IncomingSafe == Spec => []IncomingAlive
<1>1. IInv => IncomingAlive  BY NullAssumption DEF IInv, OwnerInv, IncomingAlive, TypeOK
<1>2. QED  BY <1>1, Invariance, PTL

\* The assertion before a server is announced holds, and the tunnel knows the
\* state the procedure is in.
THEOREM StateTold == Spec => [](NotUpWhenResolving /\ ToldIsCurrent)
<1>1. IInv => NotUpWhenResolving /\ ToldIsCurrent  BY DEF IInv, ServerInv
<1>2. QED  BY <1>1, Invariance, PTL

\* Losing the tunnel takes qualification_retries unanswered solicitations.
THEOREM LossNeedsRetries == Spec => LostOnlyAfterRetries
<1>1. ASSUME IInv, [Next]_vars, up, ~up' PROVE silent' = Retries
  <2>1. ReplyTimesOut
    BY <1>1 DEF Next, MaintenanceStep, CallerStep, ProcessBegin, LockOuter, Publish, Woken,
       ResolveFails, Resolved, Solicit, RejectReply, AcceptReply, IgnoreReply, DelayEnds, vars
  <2>2. up' # up  BY <1>1
  <2>3. ~(count + 1 < Retries)  BY <2>1, <2>2 DEF ReplyTimesOut
  <2>4. count \in Nat /\ silent \in 0..Retries /\ count <= silent
        /\ silent' = IF silent < Retries THEN silent + 1 ELSE silent
    BY <1>1, <2>1, RetriesAssumption DEF ReplyTimesOut, IInv, TypeOK
  <2>5. QED  BY <2>3, <2>4, RetriesAssumption
<1>2. QED  BY <1>1, Invariance, PTL DEF Spec, LostOnlyAfterRetries
=============================================================================
