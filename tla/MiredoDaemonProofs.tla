------------------------- MODULE MiredoDaemonProofs -------------------------
(***************************************************************************)
(* Proofs that nothing outlives the child of the miredo daemon and that    *)
(* the hook's policy rules are taken down, for any number of lives,        *)
(* addresses and outside events.  DaemonInv says who may be there at each  *)
(* place of the parent and the child: a helper that runs, and was neither  *)
(* killed nor abandoned, is that of the child, which is a client and does  *)
(* not exit before the helper has.  ServedInv says what the helper can     *)
(* count on, and HeldInv which rule is in place at each of its steps.      *)
(***************************************************************************)
EXTENDS MiredoDaemon, TLAPS

Addrs == Teredo \cup {NoAddr}
ChildPlaces == {"none", "zombie", "configure", "start", "mode", "run_async", "run_tunnel", "run",
                "stop_encap", "stop_maintenance", "stop_recv", "close", "wait_priv"}
Child == [pc : ChildPlaces, mode : {"client", "relay", "bad"}, code : {"ok", "fail", "signal"}]
Thread == [pc : {"none", "idle", "wrlock", "send", "recv"}, addr : Addrs]
Helper == [pc : {"none", "recv", "hook", "reply", "last", "gone"}, cfg : Addrs, old : Addrs]

DaemonTypes ==
    /\ life \in Nat /\ child \in Child /\ mnt \in Thread
    /\ priv \in [Lives -> Helper] /\ toPriv \in [Lives -> SUBSET Addrs]

Alive == child.pc \notin {"none", "zombie"}
Busy(l) == priv[l].pc \notin {"none", "gone"}

DaemonInv ==
    /\ DaemonTypes
    /\ child.pc = "none" <=> parent.pc \in {"read", "gone"}
    /\ Alive => life \in Lives
    /\ tunif # 0 => tunif = life /\ Alive /\ child.pc # "configure"
    /\ \A l \in Lives : l > life \/ (l = life /\ child.pc = "configure") => priv[l].pc = "none"
    /\ \A l \in Lives \ lost : Busy(l) => l = life /\ Alive /\ child.mode = "client"

-----------------------------------------------------------------------------
(* Who may be there *)

LEMMA DaemonInitSafe == DaemonInit => DaemonInv
BY DaemonAssumption DEF DaemonInit, DaemonInv, DaemonTypes, Alive, Busy, Addrs, ChildPlaces, Child,
   Thread, Helper, NoChild, NoMaintenance, NoHelper

\* The child goes on from one place to another.
LEMMA ChildGoesOn ==
    ASSUME DaemonInv, Alive, child' \in Child, child'.pc \notin {"none", "zombie", "configure"},
           child'.mode = child.mode, mnt' \in Thread, lost \subseteq lost',
           UNCHANGED <<parent, life, priv, toPriv, tunif>>
    PROVE  DaemonInv'
<1>1. DaemonTypes'
  BY DEF DaemonInv, DaemonTypes
<1>2. Alive' /\ Alive
  BY DEF Alive
<1>3. child'.pc # "none" /\ child.pc # "none"
  BY DEF Alive
<1>4. QED
  BY <1>1, <1>2, <1>3 DEF DaemonInv, Busy

\* The child exits, without an interface and without a helper that runs.
LEMMA ChildExits ==
    ASSUME DaemonInv, Alive, NEW c \in {"ok", "fail", "signal"}, Exit(c), tunif' = 0,
           mnt' \in Thread, lost \subseteq lost', life \notin lost' => ~Busy(life),
           UNCHANGED <<parent, life, priv, toPriv>>
    PROVE  DaemonInv'
<1>1. child' = [pc |-> "zombie", mode |-> "client", code |-> c]
  BY DEF Exit, NoChild
<1>2. DaemonTypes'
  BY <1>1 DEF DaemonInv, DaemonTypes, Child, ChildPlaces
<1>3. ~Alive' /\ child'.pc # "none" /\ child.pc # "none"
  BY <1>1 DEF Alive
<1>4. \A l \in Lives \ lost' : ~Busy(l)'
  BY DEF DaemonInv, Busy
<1>5. QED
  BY <1>1, <1>2, <1>3, <1>4 DEF DaemonInv

\* A thread of the child does something of its own.
LEMMA ThreadGoesOn ==
    ASSUME DaemonInv, mnt' \in Thread, toPriv' \in [Lives -> SUBSET Addrs],
           UNCHANGED <<parent, life, child, priv, tunif, lost>>
    PROVE  DaemonInv'
BY DEF DaemonInv, DaemonTypes, Alive, Busy

\* A helper that runs does something or ends.
LEMMA HelperGoesOn ==
    ASSUME DaemonInv, NEW l \in Lives, Busy(l), NEW h \in Helper, priv' = [priv EXCEPT ![l] = h],
           toPriv' \in [Lives -> SUBSET Addrs], lost \subseteq lost',
           UNCHANGED <<parent, life, child, mnt, tunif>>
    PROVE  DaemonInv'
<1>1. DaemonTypes'
  BY DEF DaemonInv, DaemonTypes
<1>2. \A k \in Lives : priv'[k] = IF k = l THEN h ELSE priv[k]
  BY DEF DaemonInv, DaemonTypes
<1>3. priv[l].pc # "none"
  BY DEF Busy
<1>4. \A k \in Lives : k > life \/ (k = life /\ child.pc = "configure") => priv'[k].pc = "none"
  BY <1>2, <1>3 DEF DaemonInv
<1>5. \A k \in Lives \ lost' : Busy(k)' => k = life /\ Alive /\ child.mode = "client"
  BY <1>2 DEF DaemonInv, Busy
<1>6. QED
  BY <1>1, <1>4, <1>5 DEF DaemonInv, Alive

LEMMA ParentSafe == ASSUME DaemonInv, ParentStep PROVE DaemonInv'
<1> USE DEF DaemonInv, DaemonTypes, Alive, Busy
<1>1. CASE Fork
  <2> USE <1>1 DEF Fork, threadVars, privVars, kernelVars
  <2>1. child.pc = "none" /\ tunif = 0 /\ \A l \in Lives \ lost : ~Busy(l)
    OBVIOUS
  <2>2. CASE life' = life + 1
    <3>1. life' \in Lives /\ parent'.pc = "wait"
      BY <2>2
    <3>2. child' \in Child /\ child'.pc = "configure"
      BY <2>2 DEF Child, ChildPlaces
    <3>3. \A l \in Lives : l > life' \/ l = life' => priv[l].pc = "none"
      BY <2>2, DaemonAssumption
    <3>4. QED
      BY <2>1, <2>2, <3>1, <3>2, <3>3
  <2>3. CASE UNCHANGED <<life, child>> /\ parent'.pc = "gone"
    BY <2>1, <2>3
  <2>4. QED
    BY <2>2, <2>3
<1>2. ASSUME child.pc = "zombie", Reaped(parent.retval),
             UNCHANGED <<life, threadVars, privVars, kernelVars, lost>>
      PROVE  DaemonInv'
  <2>1. child' = NoChild /\ child' \in Child /\ child'.pc = "none"
    BY <1>2 DEF Reaped, NoChild, Child, ChildPlaces
  <2>2. parent'.pc \in {"read", "gone"}
    BY <1>2 DEF Reaped
  <2>3. QED
    BY <1>2, <2>1, <2>2 DEF threadVars, privVars, kernelVars
<1>3. CASE Waitpid
  BY <1>2, <1>3 DEF Waitpid
<1>4. ASSUME NEW sig \in Signals \cup {"chld"}, Sigwait(sig) PROVE DaemonInv'
  <2> USE <1>4 DEF Sigwait
  <2>1. CASE sig = "chld" /\ child.pc = "zombie"
    BY <1>2, <2>1
  <2>2. CASE sig = "chld" /\ child.pc # "zombie"
    BY <2>2 DEF threadVars, privVars, kernelVars
  <2>3. CASE sig # "chld"
    BY <2>3 DEF threadVars, privVars, kernelVars, Signals
  <2>4. QED
    BY <2>1, <2>2, <2>3
<1>5. QED
  BY <1>1, <1>3, <1>4 DEF ParentStep

LEMMA ConfigureSafe == ASSUME DaemonInv, Configure PROVE DaemonInv'
<1> USE DEF Configure
<1>1. Alive /\ mnt \in Thread /\ life \in Lives /\ tunif = 0 /\ ~Busy(life) /\ child \in Child
  BY DEF DaemonInv, DaemonTypes, Alive, Busy
<1>2. CASE Exit("fail") /\ UNCHANGED <<privVars, tunif>>
  BY <1>1, <1>2, ChildExits DEF privVars, threadVars
<1>3. CASE child.mode # "bad" /\ tunif' = life /\ child' = [child EXCEPT !.pc = "start"]
  <2>1. child' \in Child /\ child'.pc = "start" /\ child'.mode = child.mode
    BY <1>1, <1>3 DEF Child, ChildPlaces
  <2>2. toPriv' = toPriv /\ mnt' = mnt
    BY <1>3, <1>1, <2>1 DEF threadVars, privVars, Exit, NoChild
  <2>3. child.mode = "client" => priv' = [priv EXCEPT ![life].pc = "recv"]
    BY <1>3, <2>1 DEF Exit, NoChild
  <2>4. child.mode # "client" => priv' = priv
    BY <1>3, <2>1 DEF Exit, NoChild
  <2>5. priv' \in [Lives -> Helper]
    BY <1>1, <2>3, <2>4 DEF DaemonInv, DaemonTypes, Helper
  <2>6. \A l \in Lives : l # life => priv'[l] = priv[l]
    BY <1>1, <2>3, <2>4 DEF DaemonInv, DaemonTypes
  <2>7. child.mode # "client" => ~Busy(life)'
    BY <1>1, <2>4 DEF Busy
  <2>8. life' = life /\ parent' = parent /\ lost' = lost
    OBVIOUS
  <2>9. QED
    BY <1>1, <1>3, <2>1, <2>2, <2>5, <2>6, <2>7, <2>8 DEF DaemonInv, DaemonTypes, Alive, Busy
<1>4. QED
  BY <1>2, <1>3

LEMMA MainSafe == ASSUME DaemonInv, MainStep PROVE DaemonInv'
<1>1. child \in Child /\ mnt \in Thread /\ NoMaintenance \in Thread /\ (Alive => life \in Lives)
  BY DEF DaemonInv, DaemonTypes, NoMaintenance, Thread, Addrs
<1>2. CASE Configure
  BY <1>2, ConfigureSafe
<1>3. CASE StartTeredo
  BY <1>1, <1>3, ChildGoesOn DEF StartTeredo, Alive, Child, ChildPlaces, parentVars, threadVars, privVars,
     kernelVars
<1>4. CASE SetMode
  <2>1. mnt' \in Thread
    BY <1>1, <1>4 DEF SetMode, teredo_set_client_mode, Thread, NoMaintenance
  <2>2. child' \in Child /\ child'.pc \in {"close", "run_async"} /\ child'.mode = child.mode
    BY <1>1, <1>4 DEF SetMode, Child, ChildPlaces
  <2>3. QED
    BY <1>4, <2>1, <2>2, ChildGoesOn DEF SetMode, Alive, parentVars, privVars, kernelVars
<1>5. CASE teredo_run_async
  BY <1>1, <1>5, ChildGoesOn DEF teredo_run_async, Alive, Child, ChildPlaces, parentVars, privVars, kernelVars
<1>6. CASE RunTunnel
  BY <1>1, <1>6, ChildGoesOn DEF RunTunnel, Alive, Child, ChildPlaces, parentVars, privVars, kernelVars
<1>7. CASE AwaitSignal
  BY <1>1, <1>7, ChildGoesOn DEF AwaitSignal, Alive, Child, ChildPlaces, parentVars, threadVars, privVars,
     kernelVars
<1>8. CASE StopEncap
  BY <1>1, <1>8, ChildGoesOn DEF StopEncap, Alive, Child, ChildPlaces, parentVars, privVars, kernelVars
<1>9. CASE StopMaintenance
  BY <1>1, <1>9, ChildGoesOn DEF StopMaintenance, Alive, Child, ChildPlaces, parentVars, privVars, kernelVars
<1>10. CASE StopReceiver
  BY <1>1, <1>10, ChildGoesOn DEF StopReceiver, Alive, Child, ChildPlaces, parentVars, privVars, kernelVars
<1>11. CASE CloseTunnel
  <2> USE <1>11 DEF CloseTunnel
  <2>1. CASE child.mode = "client"
    BY <1>1, <2>1, ChildGoesOn DEF Alive, Child, ChildPlaces, threadVars
  <2>2. CASE child.mode # "client"
    <3>1. life \in lost \/ ~Busy(life)
      BY <1>1, <2>2 DEF DaemonInv, Alive
    <3>2. child.code \in {"ok", "fail", "signal"}
      BY <1>1 DEF Child
    <3>3. QED
      BY <1>1, <2>2, <3>1, <3>2, ChildExits DEF Alive, threadVars
  <2>3. QED
    BY <2>1, <2>2
<1>12. CASE WaitHelper
  <2>1. child.code \in {"ok", "fail", "signal"}
    BY <1>1 DEF Child
  <2>2. QED
    BY <1>1, <1>12, <2>1, ChildExits DEF WaitHelper, Alive, Busy, threadVars, privVars
<1>13. QED
  BY <1>2, <1>3, <1>4, <1>5, <1>6, <1>7, <1>8, <1>9, <1>10, <1>11, <1>12 DEF MainStep

LEMMA ThreadsSafe ==
    ASSUME DaemonInv,
           CallbackStep \/ Announce \/ EncapPacket \/ EncapTransmit \/ ReceivePacket \/ ReceiveProcess
    PROVE  DaemonInv'
<1> USE DEF parentVars, privVars, kernelVars
<1>1. mnt \in Thread /\ toPriv \in [Lives -> SUBSET Addrs]
  BY DEF DaemonInv, DaemonTypes
<1>2. CASE EncapPacket \/ EncapTransmit \/ ReceivePacket \/ ReceiveProcess
  BY <1>1, <1>2, ThreadGoesOn DEF EncapPacket, EncapTransmit, ReceivePacket, ReceiveProcess
<1>3. CASE Announce
  BY <1>1, <1>3, ThreadGoesOn DEF Announce, Thread, Addrs
<1>4. CASE StateChange
  BY <1>1, <1>4, ThreadGoesOn DEF StateChange, Thread
<1>5. CASE SendSettings
  <2>1. mnt' \in Thread /\ toPriv' \in [Lives -> SUBSET Addrs]
    BY <1>1, <1>5 DEF SendSettings, CallbackDone, Thread
  <2>2. QED
    BY <1>5, <2>1, ThreadGoesOn DEF SendSettings
<1>6. CASE RecvResult
  BY <1>1, <1>6, ThreadGoesOn DEF RecvResult, CallbackDone, Thread
<1>7. QED
  BY <1>2, <1>3, <1>4, <1>5, <1>6 DEF CallbackStep

LEMMA HelperSafe ==
    ASSUME DaemonInv, NEW l \in Lives, PrivStep(l) \/ KillHelper(l)
    PROVE  DaemonInv'
<1> USE DEF parentVars, threadVars, kernelVars, At
<1>1. priv[l] \in Helper /\ priv \in [Lives -> Helper] /\ toPriv \in [Lives -> SUBSET Addrs]
  BY DEF DaemonInv, DaemonTypes
<1>2. CASE PrivRecv(l)
  <2>1. Busy(l) /\ toPriv' \in [Lives -> SUBSET Addrs]
    BY <1>1, <1>2 DEF PrivRecv, Busy
  <2>2. PICK h \in Helper : priv' = [priv EXCEPT ![l] = h]
    <3>1. CASE At(l, "last")
      <4>1. [priv[l] EXCEPT !.pc = "last"] \in Helper
        BY <1>1 DEF Helper
      <4>2. QED
        BY <3>1, <4>1
    <3>2. ASSUME NEW a \in toPriv[l],
                 priv' = [priv EXCEPT ![l].pc = IF tunif = l THEN "hook" ELSE "reply", ![l].cfg = a]
          PROVE  \E h \in Helper : priv' = [priv EXCEPT ![l] = h]
      <4>1. [priv[l] EXCEPT !.pc = IF tunif = l THEN "hook" ELSE "reply", !.cfg = a] \in Helper
        BY <1>1 DEF Helper
      <4>2. QED
        BY <1>1, <3>2, <4>1
    <3>3. QED
      BY <1>2, <3>1, <3>2 DEF PrivRecv
  <2>3. QED
    BY <1>2, <2>1, <2>2, HelperGoesOn DEF PrivRecv
<1>3. CASE PrivHook(l)
  <2>1. [priv[l] EXCEPT !.pc = "reply"] \in Helper /\ Busy(l) /\ lost \subseteq lost'
    BY <1>1, <1>3 DEF Helper, PrivHook, Busy
  <2>2. QED
    BY <1>1, <1>3, <2>1, HelperGoesOn DEF PrivHook
<1>4. CASE PrivReply(l)
  <2>1. /\ [priv[l] EXCEPT !.pc = "recv", !.old = priv[l].cfg] \in Helper
        /\ [priv[l] EXCEPT !.pc = "last"] \in Helper /\ Busy(l)
    BY <1>1, <1>4 DEF Helper, PrivReply, Busy
  <2>2. CASE fd[l] = "open"
    <3>1. priv' = [priv EXCEPT ![l] = [priv[l] EXCEPT !.pc = "recv", !.old = priv[l].cfg]]
      BY <1>1, <1>4, <2>2 DEF PrivReply
    <3>2. QED
      BY <1>1, <1>4, <2>1, <3>1, HelperGoesOn DEF PrivReply
  <2>3. CASE fd[l] # "open"
    BY <1>1, <1>4, <2>1, <2>3, HelperGoesOn DEF PrivReply
  <2>4. QED
    BY <2>2, <2>3
<1>5. [NoHelper EXCEPT !.pc = "gone"] \in Helper
  BY DEF NoHelper, Helper, Addrs
<1>6. CASE PrivLast(l)
  <2>1. Busy(l) /\ lost \subseteq lost'
    BY <1>6 DEF PrivLast, Busy
  <2>2. QED
    BY <1>1, <1>5, <1>6, <2>1, HelperGoesOn DEF PrivLast, Ends
<1>7. CASE KillHelper(l)
  <2>1. Busy(l) /\ lost \subseteq lost'
    BY <1>7 DEF KillHelper, Busy
  <2>2. QED
    BY <1>1, <1>5, <1>7, <2>1, HelperGoesOn DEF KillHelper, Ends
<1>8. QED
  BY <1>2, <1>3, <1>4, <1>6, <1>7 DEF PrivStep

LEMMA DaemonNextSafe == ASSUME DaemonInv, [DaemonNext]_dmvars PROVE DaemonInv'
<1>1. CASE KillChild
  <2>1. Alive /\ NoMaintenance \in Thread
    BY <1>1 DEF KillChild, Alive, NoMaintenance, Thread, Addrs
  <2>2. QED
    BY <1>1, <2>1, ChildExits DEF KillChild
<1>2. ASSUME NEW sig \in Signals, SendSignal(sig) PROVE DaemonInv'
  BY <1>2 DEF SendSignal, threadVars, privVars, kernelVars, DaemonInv, DaemonTypes, Alive, Busy
<1>3. CASE UNCHANGED dmvars
  BY <1>3 DEF dmvars, DaemonInv, DaemonTypes, Alive, Busy
<1>4. QED
  BY <1>1, <1>2, <1>3, ParentSafe, MainSafe, ThreadsSafe, HelperSafe DEF DaemonNext

\* For any number of lives: an interface is that of the child that lives, and
\* when the parent of miredo() is between two children or has ended no helper
\* runs but one whose child was killed or left it (destroy_dynamic_tunnel waits
\* for the others).
THEOREM DaemonSafe == DaemonSpec => []NothingOutlives
<1>1. DaemonInv => NothingOutlives
  BY DEF DaemonInv, NothingOutlives, Alive, Busy
<1>2. QED
  BY <1>1, DaemonInitSafe, DaemonNextSafe, PTL DEF DaemonSpec

-----------------------------------------------------------------------------
(* What the hook has set up *)

\* The rule of the helper's settings is in place once the hook has run for
\* them, that of OLD_ADDRESS before.
Held(h) == {IF h.pc = "reply" THEN h.cfg ELSE h.old} \ {NoAddr}

\* The interface, the socket and the maintenance thread are there as long as
\* the child needs them, and a life begins with nothing in flight.
ServedInv ==
    /\ fd \in [Lives -> {"open", "closed"}] /\ toChild \in [Lives -> BOOLEAN]
    /\ mnt.pc # "none" => child.mode = "client" /\ child.pc \in
         {"run_async", "run_tunnel", "run", "stop_encap", "stop_maintenance"}
    /\ Alive /\ child.pc # "configure" => tunif = life
    /\ Alive /\ child.mode = "client" /\ child.pc \notin {"configure", "wait_priv"} => fd[life] = "open"
    /\ \A l \in Lives : l > life \/ (l = life /\ child.pc = "configure") =>
          priv[l] = NoHelper /\ toPriv[l] = {} /\ toChild[l] = FALSE

\* As long as nothing went amiss, settings and answers alternate between the
\* maintenance thread and the helper, and the rules are those of the helper.
HeldInv ==
    lost = {} =>
      /\ (\A l \in Lives : ~Busy(l)) => rules = {}
      /\ \A l \in Lives : Busy(l) =>
           /\ rules = Held(priv[l])
           /\ mnt.pc # "recv" => toPriv[l] = {} /\ toChild[l] = FALSE /\ priv[l].pc \notin {"hook", "reply"}
           /\ toChild[l] = TRUE => toPriv[l] = {} /\ priv[l].pc \notin {"hook", "reply"}
           /\ priv[l].pc \in {"hook", "reply"} => toPriv[l] = {}

LEMMA ServedInit == DaemonInit => ServedInv /\ HeldInv
BY DaemonAssumption DEF DaemonInit, ServedInv, HeldInv, Alive, Busy, NoChild, NoMaintenance, NoHelper

\* The child goes on and keeps what it needs.
LEMMA ServedGoesOn ==
    ASSUME DaemonInv, ServedInv, Alive, child.pc \notin {"configure", "wait_priv"},
           child'.pc \notin {"none", "zombie", "configure", "wait_priv"}, child'.mode = child.mode,
           mnt'.pc # "none" => child.mode = "client" /\ child'.pc \in
             {"run_async", "run_tunnel", "run", "stop_encap", "stop_maintenance"},
           UNCHANGED <<life, privVars, tunif>>
    PROVE  ServedInv'
BY DEF ServedInv, Alive, privVars

\* The child, which has no thread left, exits.
LEMMA ServedExits ==
    ASSUME DaemonInv, ServedInv, NEW c, Exit(c), mnt'.pc = "none", UNCHANGED <<life, priv, toPriv>>,
           fd' \in [Lives -> {"open", "closed"}], toChild' \in [Lives -> BOOLEAN],
           \A l \in Lives : l > life => toChild'[l] = toChild[l]
    PROVE  ServedInv'
<1>1. child'.pc = "zombie"
  BY DEF Exit, NoChild
<1>2. QED
  BY <1>1 DEF ServedInv, Alive

LEMMA ServedParent == ASSUME DaemonInv, ServedInv, ParentStep PROVE ServedInv'
<1>0. ASSUME life \in Nat, life' = life + 1
      PROVE  \A l \in Lives : l > life' \/ l = life' => l > life
  BY <1>0, DaemonAssumption
<1> USE DEF ServedInv, Alive, threadVars, privVars, kernelVars
<1>1. CASE Fork
  <2> USE <1>1 DEF Fork
  <2>1. child.pc = "none" /\ life \in Nat
    BY DEF DaemonInv, DaemonTypes
  <2>2. CASE life' = life + 1
    <3>1. child'.pc = "configure" /\ mnt' = mnt /\ mnt.pc = "none"
      BY <2>1, <2>2
    <3>2. \A l \in Lives : l > life' \/ l = life' => l > life
      BY <1>0, <2>1, <2>2
    <3>3. QED
      BY <3>1, <3>2
  <2>3. CASE UNCHANGED <<life, child>>
    BY <2>1, <2>3
  <2>4. QED
    BY <2>2, <2>3
<1>2. ASSUME child.pc = "zombie", Reaped(parent.retval),
             UNCHANGED <<life, threadVars, privVars, kernelVars>>
      PROVE  ServedInv'
  <2>1. child'.pc = "none"
    BY <1>2 DEF Reaped, NoChild
  <2>2. QED
    BY <1>2, <2>1
<1>3. CASE Waitpid
  BY <1>2, <1>3 DEF Waitpid
<1>4. ASSUME NEW sig \in Signals \cup {"chld"}, Sigwait(sig) PROVE ServedInv'
  <2> USE <1>4 DEF Sigwait
  <2>1. CASE sig = "chld" /\ child.pc = "zombie"
    BY <1>2, <2>1
  <2>2. CASE ~(sig = "chld" /\ child.pc = "zombie")
    <3>1. UNCHANGED <<child, life, threadVars, privVars, kernelVars>>
      BY <2>2
    <3>2. QED
      BY <3>1
  <2>3. QED
    BY <2>1, <2>2
<1>5. QED
  BY <1>1, <1>3, <1>4 DEF ParentStep

LEMMA ServedMain == ASSUME DaemonInv, ServedInv, MainStep PROVE ServedInv'
<1> USE DEF parentVars, threadVars, kernelVars
<1>1. child \in Child /\ (Alive => life \in Lives) /\ mnt \in Thread /\ priv \in [Lives -> Helper]
  BY DEF DaemonInv, DaemonTypes
<1>2. CASE Configure
  <2> USE <1>2 DEF Configure
  <2>1. life \in Lives /\ mnt.pc = "none" /\ mnt' = mnt
    BY <1>1 DEF Alive, ServedInv
  <2>2. CASE Exit("fail") /\ UNCHANGED privVars
    BY <2>1, <2>2, ServedExits DEF privVars, ServedInv
  <2>3. CASE tunif' = life /\ child' = [child EXCEPT !.pc = "start"]
    <3>1. child'.pc = "start" /\ child'.mode = child.mode
      BY <1>1, <2>3 DEF Child
    <3>2. UNCHANGED <<toPriv, toChild, life>>
      BY <2>3, <3>1 DEF Exit, NoChild, privVars
    <3>3. /\ child.mode = "client" => fd' = [fd EXCEPT ![life] = "open"]
          /\ child.mode # "client" => fd' = fd
      BY <2>3, <3>1 DEF Exit, NoChild
    <3>4. \A l \in Lives : l # life => priv'[l] = priv[l]
      BY <1>1, <2>1, <2>3, <3>1 DEF Exit, NoChild
    <3>5. fd' \in [Lives -> {"open", "closed"}] /\ (child.mode = "client" => fd'[life] = "open")
      BY <2>1, <3>3 DEF ServedInv
    <3>6. QED
      BY <1>1, <2>1, <2>3, <3>1, <3>2, <3>4, <3>5 DEF ServedInv, Alive, DaemonInv, DaemonTypes
  <2>4. QED
    BY <2>2, <2>3
<1>3. CASE StartTeredo
  <2>1. mnt.pc = "none"
    BY <1>3 DEF StartTeredo, ServedInv
  <2>2. QED
    BY <1>1, <1>3, <2>1, ServedGoesOn DEF StartTeredo, Alive, Child
<1>4. CASE SetMode
  <2>1. mnt.pc = "none"
    BY <1>4 DEF SetMode, ServedInv
  <2>2. child'.pc \in {"close", "run_async"} /\ child'.mode = child.mode
    BY <1>1, <1>4 DEF SetMode, Child
  <2>3. mnt'.pc # "none" => child.mode = "client" /\ child'.pc = "run_async"
    BY <1>1, <1>4, <2>1 DEF SetMode, Child, NoMaintenance
  <2>4. QED
    BY <1>4, <2>2, <2>3, ServedGoesOn DEF SetMode, Alive
<1>5. CASE teredo_run_async \/ RunTunnel \/ AwaitSignal \/ StopEncap
  <2>1. mnt'.pc # "none" => child.mode = "client"
    BY <1>5 DEF teredo_run_async, RunTunnel, AwaitSignal, StopEncap, ServedInv
  <2>2. /\ child'.pc \in {"run_tunnel", "run", "stop_encap", "stop_maintenance"}
        /\ child'.mode = child.mode
    BY <1>1, <1>5 DEF teredo_run_async, RunTunnel, AwaitSignal, StopEncap, Child
  <2>3. QED
    BY <1>5, <2>1, <2>2, ServedGoesOn DEF teredo_run_async, RunTunnel, AwaitSignal, StopEncap, Alive
<1>6. CASE StopMaintenance \/ StopReceiver
  <2>1. mnt'.pc = "none"
    BY <1>6 DEF StopMaintenance, StopReceiver, ServedInv, NoMaintenance
  <2>2. child'.pc \in {"stop_recv", "close"} /\ child'.mode = child.mode
    BY <1>1, <1>6 DEF StopMaintenance, StopReceiver, Child
  <2>3. QED
    BY <1>6, <2>1, <2>2, ServedGoesOn DEF StopMaintenance, StopReceiver, Alive
<1>7. CASE CloseTunnel
  <2> USE <1>7 DEF CloseTunnel
  <2>1. mnt'.pc = "none" /\ life \in Lives /\ life \in Nat
    BY <1>1 DEF ServedInv, Alive, DaemonInv, DaemonTypes
  <2>2. CASE child.mode = "client"
    <3>1. child'.pc = "wait_priv" /\ UNCHANGED <<tunif, life, priv, toPriv>>
      BY <1>1, <2>2 DEF Child
    <3>2. fd' \in [Lives -> {"open", "closed"}] /\ toChild' \in [Lives -> BOOLEAN]
      BY <2>1, <2>2 DEF ServedInv
    <3>3. \A l \in Lives : l > life => toChild'[l] = toChild[l]
      BY <2>1, <2>2 DEF ServedInv
    <3>4. QED
      BY <2>1, <2>2, <3>1, <3>2, <3>3 DEF ServedInv, Alive
  <2>3. CASE child.mode # "client"
    BY <2>1, <2>3, ServedExits DEF ServedInv
  <2>4. QED
    BY <2>2, <2>3
<1>8. CASE WaitHelper
  <2>1. mnt.pc = "none" /\ mnt' = mnt
    BY <1>8 DEF WaitHelper, ServedInv
  <2>2. QED
    BY <1>8, <2>1, ServedExits DEF WaitHelper, privVars, ServedInv
<1>9. QED
  BY <1>2, <1>3, <1>4, <1>5, <1>6, <1>7, <1>8 DEF MainStep

LEMMA ServedThreads ==
    ASSUME DaemonInv, ServedInv,
           CallbackStep \/ Announce \/ EncapPacket \/ EncapTransmit \/ ReceivePacket \/ ReceiveProcess
    PROVE  ServedInv'
<1> USE DEF parentVars, privVars, kernelVars
<1>1. UNCHANGED <<life, child, tunif, priv, fd>>
  BY DEF CallbackStep, StateChange, SendSettings, RecvResult, Announce, EncapPacket, EncapTransmit,
     ReceivePacket, ReceiveProcess
<1>2. mnt' = mnt \/ mnt.pc # "none"
  BY DEF CallbackStep, StateChange, SendSettings, RecvResult, Announce, EncapPacket, EncapTransmit,
     ReceivePacket, ReceiveProcess
<1>3. /\ toChild' \in [Lives -> BOOLEAN]
      /\ \A l \in Lives : toChild[l] = FALSE => toChild'[l] = FALSE
  <2>1. CASE RecvResult
    BY <2>1 DEF RecvResult, ServedInv
  <2>2. CASE ~RecvResult
    BY <2>2 DEF CallbackStep, StateChange, SendSettings, Announce, EncapPacket, EncapTransmit,
       ReceivePacket, ReceiveProcess, ServedInv
  <2>3. QED
    BY <2>1, <2>2
<1>4. ASSUME NEW l \in Lives, l > life \/ (l = life /\ child.pc = "configure")
      PROVE  toPriv'[l] = toPriv[l]
  <2>1. CASE SendSettings
    <3>1. child.pc # "configure" /\ Alive
      BY <2>1 DEF SendSettings, ServedInv, Alive
    <3>2. l # life
      BY <1>4, <3>1, DaemonAssumption DEF DaemonInv, DaemonTypes
    <3>3. QED
      BY <2>1, <3>2 DEF SendSettings, DaemonInv, DaemonTypes
  <2>2. CASE ~SendSettings
    BY <2>2 DEF CallbackStep, StateChange, RecvResult, Announce, EncapPacket, EncapTransmit,
       ReceivePacket, ReceiveProcess
  <2>3. QED
    BY <2>1, <2>2
<1>5. QED
  BY <1>1, <1>2, <1>3, <1>4 DEF ServedInv, Alive

LEMMA ServedHelper ==
    ASSUME DaemonInv, ServedInv, NEW l \in Lives, PrivStep(l) \/ KillHelper(l)
    PROVE  ServedInv'
<1> USE DEF parentVars, threadVars, kernelVars, At
<1>1. Busy(l) /\ UNCHANGED <<life, child, tunif, mnt, fd>>
  BY DEF PrivStep, PrivRecv, PrivHook, PrivReply, PrivLast, KillHelper, Busy
<1>2. \A k \in Lives : k > life \/ (k = life /\ child.pc = "configure") => k # l
  BY <1>1 DEF ServedInv, Busy, NoHelper
<1>3. \A k \in Lives : k # l => priv'[k] = priv[k]
  BY DEF PrivStep, PrivRecv, PrivHook, PrivReply, PrivLast, KillHelper, Ends, DaemonInv, DaemonTypes
<1>4. \A k \in Lives : k # l => toPriv'[k] = toPriv[k]
  BY DEF PrivStep, PrivRecv, PrivHook, PrivReply, PrivLast, KillHelper, DaemonInv, DaemonTypes
<1>5. toChild' \in [Lives -> BOOLEAN] /\ \A k \in Lives : k # l => toChild'[k] = toChild[k]
  <2>1. CASE PrivReply(l)
    BY <2>1 DEF PrivReply, ServedInv
  <2>2. CASE ~PrivReply(l)
    BY <2>2 DEF PrivStep, PrivRecv, PrivHook, PrivLast, KillHelper, ServedInv
  <2>3. QED
    BY <2>1, <2>2
<1>6. QED
  BY <1>1, <1>2, <1>3, <1>4, <1>5 DEF ServedInv, Alive

LEMMA ServedNext == ASSUME DaemonInv, ServedInv, [DaemonNext]_dmvars PROVE ServedInv'
<1>1. CASE KillChild
  <2>1. life \in Lives /\ life \in Nat /\ mnt'.pc = "none"
    BY <1>1 DEF KillChild, DaemonInv, DaemonTypes, Alive, NoMaintenance
  <2>2. /\ fd' \in [Lives -> {"open", "closed"}] /\ toChild' \in [Lives -> BOOLEAN]
        /\ \A l \in Lives : l > life => toChild'[l] = toChild[l]
    BY <1>1, <2>1 DEF KillChild, ServedInv
  <2>3. QED
    BY <1>1, <2>1, <2>2, ServedExits DEF KillChild
<1>2. ASSUME NEW sig \in Signals, SendSignal(sig) PROVE ServedInv'
  BY <1>2 DEF SendSignal, threadVars, privVars, kernelVars, ServedInv, Alive
<1>3. CASE UNCHANGED dmvars
  BY <1>3 DEF dmvars, ServedInv, Alive
<1>4. QED
  BY <1>1, <1>2, <1>3, ServedParent, ServedMain, ServedThreads, ServedHelper DEF DaemonNext

\* Nothing happens to the helpers, and no answer is given up.
LEMMA HeldGoesOn ==
    ASSUME HeldInv, UNCHANGED <<priv, toPriv, rules>>, lost \subseteq lost',
           \A l \in Lives : toChild'[l] = toChild[l] \/ toChild'[l] = FALSE,
           lost' = {} /\ mnt'.pc # "recv" => mnt.pc # "recv"
    PROVE  HeldInv'
<1>1. SUFFICES ASSUME lost' = {} PROVE HeldInv'
  BY DEF HeldInv
<1>2. lost = {}
  BY <1>1
<1>3. (\A l \in Lives : ~Busy(l)') => rules' = {}
  BY <1>2 DEF HeldInv, Busy
<1>4. ASSUME NEW l \in Lives, Busy(l)'
      PROVE  /\ rules' = Held(priv'[l])
             /\ mnt'.pc # "recv" => toPriv'[l] = {} /\ toChild'[l] = FALSE /\ priv'[l].pc \notin {"hook", "reply"}
             /\ toChild'[l] = TRUE => toPriv'[l] = {} /\ priv'[l].pc \notin {"hook", "reply"}
             /\ priv'[l].pc \in {"hook", "reply"} => toPriv'[l] = {}
  <2>1. Busy(l) /\ priv'[l] = priv[l] /\ toPriv'[l] = toPriv[l]
    BY <1>4 DEF Busy
  <2>2. QED
    BY <1>1, <1>2, <2>1 DEF HeldInv
<1>5. QED
  BY <1>3, <1>4 DEF HeldInv

LEMMA HeldMain == ASSUME DaemonInv, ServedInv, HeldInv, MainStep PROVE HeldInv'
<1> USE DEF parentVars, threadVars, kernelVars
<1>1. CASE Configure
  <2> USE <1>1 DEF Configure
  <2>1. life \in Lives /\ priv[life] = NoHelper /\ toPriv[life] = {} /\ toChild[life] = FALSE
    BY DEF ServedInv, DaemonInv, Alive
  <2>2. CASE UNCHANGED privVars
    BY <2>2, HeldGoesOn DEF privVars
  <2>3. CASE ~UNCHANGED privVars
    <3>1. /\ priv' = [priv EXCEPT ![life].pc = "recv"] /\ UNCHANGED <<toPriv, toChild, rules, lost>>
      BY <2>3 DEF privVars
    <3>2. priv'[life].pc = "recv" /\ priv'[life].old = NoAddr
      BY <2>1, <3>1 DEF DaemonInv, DaemonTypes, NoHelper
    <3>3. \A l \in Lives \ lost : ~Busy(l)
      BY <2>1 DEF DaemonInv, Busy, NoHelper
    <3>4. \A l \in Lives \ lost : Busy(l)' => l = life
      BY <3>1, <3>3 DEF DaemonInv, DaemonTypes, Busy
    <3>5. lost = {} => rules = {} /\ rules' = Held(priv'[life])
      BY <3>1, <3>2, <3>3 DEF HeldInv, Held
    <3>6. Busy(life)'
      BY <3>2 DEF Busy
    <3>7. QED
      BY <2>1, <3>1, <3>2, <3>4, <3>5, <3>6 DEF HeldInv
  <2>4. QED
    BY <2>2, <2>3
<1>2. CASE CloseTunnel
  <2>1. mnt' = mnt /\ UNCHANGED <<priv, toPriv, rules, lost>>
    BY <1>2 DEF CloseTunnel
  <2>2. \A l \in Lives : toChild'[l] = toChild[l] \/ toChild'[l] = FALSE
    BY <1>2 DEF CloseTunnel, ServedInv
  <2>3. QED
    BY <2>1, <2>2, HeldGoesOn
<1>3. CASE SetMode
  <2>1. mnt.pc = "none"
    BY <1>3 DEF SetMode, ServedInv
  <2>2. QED
    BY <1>3, <2>1, HeldGoesOn DEF SetMode, privVars
<1>4. CASE StopMaintenance
  <2>1. lost \subseteq lost' /\ (lost' = {} => mnt.pc # "recv")
    BY <1>4 DEF StopMaintenance
  <2>2. QED
    BY <1>4, <2>1, HeldGoesOn DEF StopMaintenance, privVars
<1>5. CASE StartTeredo \/ teredo_run_async \/ RunTunnel \/ AwaitSignal \/ StopEncap \/ StopReceiver \/ WaitHelper
  <2>1. UNCHANGED <<mnt, privVars, rules, lost>>
    BY <1>5 DEF StartTeredo, teredo_run_async, RunTunnel, AwaitSignal, StopEncap, StopReceiver, WaitHelper
  <2>2. QED
    BY <2>1, HeldGoesOn DEF privVars
<1>6. QED
  BY <1>1, <1>2, <1>3, <1>4, <1>5 DEF MainStep

LEMMA HeldThreads ==
    ASSUME DaemonInv, ServedInv, HeldInv,
           CallbackStep \/ Announce \/ EncapPacket \/ EncapTransmit \/ ReceivePacket \/ ReceiveProcess
    PROVE  HeldInv'
<1> USE DEF parentVars, privVars, kernelVars
<1>1. CASE EncapPacket \/ EncapTransmit \/ ReceivePacket \/ ReceiveProcess \/ Announce \/ StateChange
  <2>1. mnt' = mnt \/ mnt.pc # "recv"
    BY <1>1 DEF EncapPacket, EncapTransmit, ReceivePacket, ReceiveProcess, Announce, StateChange
  <2>2. UNCHANGED <<priv, toPriv, toChild, rules, lost>>
    BY <1>1 DEF EncapPacket, EncapTransmit, ReceivePacket, ReceiveProcess, Announce, StateChange
  <2>3. QED
    BY <2>1, <2>2, HeldGoesOn
<1>2. ASSUME NEW l \in Lives, lost = {}, Busy(l) PROVE l = life
  BY <1>2 DEF DaemonInv
<1>3. CASE SendSettings
  <2> USE <1>3 DEF SendSettings
  <2>1. UNCHANGED <<priv, toChild, rules, lost>>
    OBVIOUS
  <2>2. CASE priv[life].pc = "gone"
    BY <2>1, <2>2, HeldGoesOn
  <2>3. CASE priv[life].pc # "gone"
    <3>1. mnt' = [mnt EXCEPT !.pc = "recv"] /\ mnt'.pc = "recv" /\ mnt.pc = "send"
      BY <2>3 DEF DaemonInv, DaemonTypes, Thread
    <3>2. \A l \in Lives : Busy(l)' = Busy(l)
      BY <2>1 DEF Busy
    <3>3. ASSUME NEW l \in Lives, lost = {}, Busy(l)
          PROVE  rules = Held(priv[l]) /\ toChild[l] = FALSE /\ priv[l].pc \notin {"hook", "reply"}
      BY <3>1, <3>3 DEF HeldInv
    <3>4. QED
      BY <2>1, <3>1, <3>2, <3>3 DEF HeldInv
  <2>4. QED
    BY <2>2, <2>3
<1>4. CASE RecvResult
  <2>1. UNCHANGED <<priv, toPriv, rules, lost>>
    BY <1>4 DEF RecvResult
  <2>2. \A l \in Lives : Busy(l)' = Busy(l)
    BY <2>1 DEF Busy
  <2>3. ASSUME NEW l \in Lives, lost = {}, Busy(l)
        PROVE  /\ rules = Held(priv[l]) /\ toChild'[l] = FALSE
               /\ toPriv[l] = {} /\ priv[l].pc \notin {"hook", "reply"}
    <3>1. l = life /\ priv[l].pc # "gone"
      BY <1>2, <2>3 DEF Busy
    <3>2. toChild[l] = TRUE /\ toChild'[l] = FALSE
      BY <1>4, <3>1 DEF RecvResult, ServedInv
    <3>3. QED
      BY <2>3, <3>2 DEF HeldInv
  <2>4. QED
    BY <2>1, <2>2, <2>3 DEF HeldInv
<1>5. QED
  BY <1>1, <1>3, <1>4 DEF CallbackStep

LEMMA HeldHelper ==
    ASSUME DaemonInv, ServedInv, HeldInv, NEW l \in Lives, PrivStep(l)
    PROVE  HeldInv'
<1> USE DEF parentVars, threadVars, kernelVars, At
<1>1. SUFFICES ASSUME lost' = {} PROVE HeldInv'
  BY DEF HeldInv
<1>2. lost = {} /\ Busy(l)
  BY <1>1 DEF PrivStep, PrivRecv, PrivHook, PrivReply, PrivLast, Busy
<1>3. l = life /\ Alive /\ tunif = l
  BY <1>2 DEF DaemonInv, ServedInv, Busy
<1>4. /\ rules = Held(priv[l])
      /\ mnt.pc # "recv" => toPriv[l] = {} /\ toChild[l] = FALSE /\ priv[l].pc \notin {"hook", "reply"}
      /\ toChild[l] = TRUE => toPriv[l] = {} /\ priv[l].pc \notin {"hook", "reply"}
      /\ priv[l].pc \in {"hook", "reply"} => toPriv[l] = {}
  BY <1>2 DEF HeldInv
<1>5. /\ priv \in [Lives -> Helper] /\ toPriv \in [Lives -> SUBSET Addrs]
      /\ toChild \in [Lives -> BOOLEAN] /\ mnt' = mnt
  BY DEF DaemonInv, DaemonTypes, ServedInv, PrivStep, PrivRecv, PrivHook, PrivReply, PrivLast
<1>6. \A k \in Lives : k # l => priv'[k] = priv[k] /\ ~Busy(k)
  BY <1>2, <1>3, <1>5 DEF PrivStep, PrivRecv, PrivHook, PrivReply, PrivLast, Ends, DaemonInv
<1>7. \A k \in Lives : k # l => ~Busy(k)'
  BY <1>6 DEF Busy
\* What is to be shown of the helper that runs.
<1>8. ASSUME Busy(l)', rules' = Held(priv'[l]),
             mnt.pc # "recv" => toPriv'[l] = {} /\ toChild'[l] = FALSE /\ priv'[l].pc \notin {"hook", "reply"},
             toChild'[l] = TRUE => toPriv'[l] = {} /\ priv'[l].pc \notin {"hook", "reply"},
             priv'[l].pc \in {"hook", "reply"} => toPriv'[l] = {}
      PROVE  HeldInv'
  BY <1>5, <1>7, <1>8 DEF HeldInv
<1>9. CASE PrivRecv(l)
  <2>1. priv[l].pc = "recv" /\ rules' = rules /\ toChild' = toChild
    BY <1>9 DEF PrivRecv
  <2>2. CASE toPriv[l] # {}
    <3>1. PICK a \in toPriv[l] : priv' = [priv EXCEPT ![l].pc = "hook", ![l].cfg = a]
      BY <1>3, <1>9, <2>2 DEF PrivRecv
    <3>2. priv'[l].pc = "hook" /\ priv'[l].old = priv[l].old /\ Busy(l)'
      BY <1>5, <3>1 DEF Helper, Busy
    <3>3. toPriv'[l] = {} /\ mnt.pc = "recv" /\ toChild[l] = FALSE
      BY <1>4, <1>5, <1>9, <2>2 DEF PrivRecv
    <3>4. QED
      BY <1>4, <1>8, <2>1, <3>2, <3>3 DEF Held
  <2>3. CASE toPriv[l] = {}
    <3>1. priv' = [priv EXCEPT ![l].pc = "last"] /\ toPriv' = toPriv
      BY <1>9, <2>3 DEF PrivRecv
    <3>2. priv'[l].pc = "last" /\ priv'[l].old = priv[l].old /\ Busy(l)'
      BY <1>5, <3>1 DEF Helper, Busy
    <3>3. QED
      BY <1>4, <1>8, <2>1, <2>3, <3>1, <3>2 DEF Held
  <2>4. QED
    BY <2>2, <2>3
<1>10. CASE PrivHook(l)
  <2>1. priv[l].pc = "hook" /\ UNCHANGED <<toPriv, toChild>> /\ rules' = HookRules(priv[l].old, priv[l].cfg)
    BY <1>1, <1>10 DEF PrivHook
  <2>2. priv'[l].pc = "reply" /\ priv'[l].cfg = priv[l].cfg /\ Busy(l)'
    BY <1>5, <1>10 DEF PrivHook, Helper, Busy
  <2>3. rules = {priv[l].old} \ {NoAddr}
    BY <1>4, <2>1 DEF Held
  <2>4. rules' = {priv[l].cfg} \ {NoAddr}
    BY <2>1, <2>3 DEF HookRules
  <2>5. rules' = Held(priv'[l])
    BY <2>2, <2>4 DEF Held
  <2>6. QED
    BY <1>4, <1>8, <2>1, <2>2, <2>5
<1>11. CASE PrivReply(l)
  <2>1. priv[l].pc = "reply" /\ UNCHANGED <<toPriv, rules>> /\ mnt.pc = "recv" /\ toPriv[l] = {}
    BY <1>4, <1>11 DEF PrivReply
  <2>2. fd[l] = "open"
    BY <1>3, <2>1 DEF ServedInv
  <2>3. priv' = [priv EXCEPT ![l].pc = "recv", ![l].old = priv[l].cfg]
    BY <1>11, <2>2 DEF PrivReply
  <2>4. priv'[l].pc = "recv" /\ priv'[l].old = priv[l].cfg /\ Busy(l)'
    BY <1>5, <2>3 DEF Helper, Busy
  <2>5. rules' = Held(priv'[l])
    BY <1>4, <2>1, <2>4 DEF Held
  <2>6. QED
    BY <1>8, <2>1, <2>4, <2>5
<1>12. CASE PrivLast(l)
  <2>1. priv[l].pc = "last" /\ rules' = HookRules(priv[l].old, NoAddr)
    BY <1>1, <1>3, <1>12 DEF PrivLast
  <2>2. rules = {priv[l].old} \ {NoAddr}
    BY <1>4, <2>1 DEF Held
  <2>3. rules' = {}
    BY <2>1, <2>2 DEF HookRules
  <2>4. ~Busy(l)'
    BY <1>5, <1>12 DEF PrivLast, Ends, Busy, NoHelper
  <2>5. QED
    BY <1>7, <2>3, <2>4 DEF HeldInv
<1>13. QED
  BY <1>9, <1>10, <1>11, <1>12 DEF PrivStep

LEMMA HeldNext == ASSUME DaemonInv, ServedInv, HeldInv, [DaemonNext]_dmvars PROVE HeldInv'
<1>1. CASE KillChild \/ \E l \in Lives : KillHelper(l)
  BY <1>1 DEF KillChild, KillHelper, HeldInv
<1>2. CASE ParentStep \/ (\E sig \in Signals : SendSignal(sig)) \/ UNCHANGED dmvars
  <2>1. UNCHANGED <<mnt, priv, toPriv, toChild, rules, lost>>
    BY <1>2 DEF ParentStep, Fork, Waitpid, Sigwait, SendSignal, dmvars, threadVars, privVars, kernelVars
  <2>2. QED
    BY <2>1, HeldGoesOn
<1>3. QED
  BY <1>1, <1>2, HeldMain, HeldThreads, HeldHelper DEF DaemonNext

\* For any number of lives and addresses: when no helper runs and nothing went
\* amiss in any life, the hook script that privproc.c runs has left no policy
\* rule behind, since its last run is given the OLD_ADDRESS of the rule in place.
THEOREM DaemonFrees == DaemonSpec => []RulesFreed
<1>1. HeldInv => RulesFreed
  BY DEF HeldInv, RulesFreed, Busy
<1>2. QED
  BY <1>1, DaemonInitSafe, DaemonNextSafe, ServedInit, ServedNext, HeldNext, PTL DEF DaemonSpec

=============================================================================
