------------------------------ MODULE Notifier ------------------------------
(***************************************************************************)
(* TKZMaiccu's postNotification: messages are shown one by one up to a     *)
(* burst, then collected in _postQueue and shown in groups; a timer shows  *)
(* what is left and clears the counter.                                    *)
(*                                                                         *)
(* It is called on two threads: the main thread (output and end of the     *)
(* child process) and the thread of distributiveObjectManager (statusUpdate*)
(* and tunnelUpdate).  Only the queue is guarded by @synchronized, so the  *)
(* method is modelled statement by statement, and each thread runs the     *)
(* timers scheduled on its own run loop when it is idle.                   *)
(***************************************************************************)
EXTENDS Integers, Sequences, SequencesExt

CONSTANTS
  Burst,      \* messages shown one by one, and size of a later group (5)
  MaxPosts    \* bound on the messages posted

ASSUME BurstAssumption == Burst \in Nat \ {0} /\ MaxPosts \in Nat

VARIABLES
  queue, shown, posts,                \* _postQueue, groups shown, messages queued so far
  count, reg,                         \* _postNotificationCount and its copy in a register
  timers, postTimer,                  \* live timers, _postTimer
  postAt                              \* where each thread is in postNotification

postVars == <<queue, shown, posts, count, reg, timers, postTimer, postAt>>

Posters == {"main", "do"}
Labels == {"idle", "add", "load", "store", "test", "flush", "cancel", "arm", "reset"}
Idle(t) == postAt[t] = "idle"
PostGoto(t, l) == postAt' = [postAt EXCEPT ![t] = l]
NoTimer == <<"main", 0>>

PostInit ==
  /\ queue = <<>> /\ shown = <<>> /\ posts = 0 /\ count = 0
  /\ timers = {} /\ postTimer = NoTimer
  /\ reg = [t \in Posters |-> 0] /\ postAt = [t \in Posters |-> "idle"]

(* A callback of the thread posts a message; the call first writes the log. *)
Post(t) ==
  /\ Idle(t) /\ posts < MaxPosts /\ PostGoto(t, "add")
  /\ UNCHANGED <<queue, shown, posts, count, reg, timers, postTimer>>

PostAdd(t) ==
  /\ postAt[t] = "add" /\ PostGoto(t, "load")
  /\ posts' = posts + 1 /\ queue' = Append(queue, posts')
  /\ UNCHANGED <<shown, count, reg, timers, postTimer>>

(* _postNotificationCount++ is not synchronized: a load and a store. *)
PostLoad(t) ==
  /\ postAt[t] = "load" /\ PostGoto(t, "store")
  /\ reg' = [reg EXCEPT ![t] = count]
  /\ UNCHANGED <<queue, shown, posts, count, timers, postTimer>>

PostStore(t) ==
  /\ postAt[t] = "store" /\ PostGoto(t, "test")
  /\ count' = reg[t] + 1
  /\ UNCHANGED <<queue, shown, posts, reg, timers, postTimer>>

ShowNow == count <= Burst \/ Len(queue) >= Burst

PostTest(t) ==
  /\ postAt[t] = "test"
  /\ PostGoto(t, IF ShowNow THEN "flush" ELSE "cancel")
  /\ UNCHANGED <<queue, shown, posts, count, reg, timers, postTimer>>

(* The whole queue as one notification, if there is any. *)
postGrowlNotification ==
  /\ shown' = IF queue = <<>> THEN shown ELSE Append(shown, queue)
  /\ queue' = <<>>

PostFlush(t) ==
  /\ postAt[t] = "flush" /\ PostGoto(t, "cancel")
  /\ postGrowlNotification
  /\ UNCHANGED <<posts, count, reg, timers, postTimer>>

PostCancel(t) ==
  /\ postAt[t] = "cancel" /\ PostGoto(t, "arm")
  /\ timers' = timers \ {postTimer}
  /\ UNCHANGED <<queue, shown, posts, count, reg, postTimer>>

(* Mutant: the timer is created once. *)
SlipPostArm(t) ==
  /\ postAt[t] = "arm" /\ PostGoto(t, "idle")
  /\ postTimer' = IF postTimer = NoTimer THEN <<t, posts>> ELSE postTimer
  /\ timers' = IF postTimer = NoTimer THEN timers \cup {postTimer'} ELSE timers
  /\ UNCHANGED <<queue, shown, posts, count, reg>>

(* The new timer belongs to the run loop of the posting thread. *)
PostArm(t) ==
  /\ postAt[t] = "arm" /\ PostGoto(t, "idle")
  /\ postTimer' = <<t, posts>> /\ timers' = timers \cup {postTimer'}
  /\ UNCHANGED <<queue, shown, posts, count, reg>>

(* resetStatusNotificationCount, on the run loop of the timer's thread. *)
TimerFires(t) ==
  /\ Idle(t) /\ PostGoto(t, "reset")
  /\ \E x \in timers : x[1] = t /\ timers' = timers \ {x}
  /\ count' = 0
  /\ UNCHANGED <<queue, shown, posts, reg, postTimer>>

ResetFlush(t) ==
  /\ postAt[t] = "reset" /\ PostGoto(t, "idle")
  /\ postGrowlNotification
  /\ UNCHANGED <<posts, count, reg, timers, postTimer>>

PostStep(t) ==
  \/ PostAdd(t) \/ PostLoad(t) \/ PostStore(t) \/ PostTest(t) \/ PostFlush(t)
  \/ PostCancel(t) \/ PostArm(t) \/ TimerFires(t) \/ ResetFlush(t)

PostNext == \E t \in Posters : Post(t) \/ PostStep(t)

(* Both run loops go on. *)
PostSpec ==
  PostInit /\ [][PostNext]_postVars /\ \A t \in Posters : WF_postVars(PostStep(t))

(***************************************************************************)
(* Properties.                                                             *)
(***************************************************************************)
PostTypeOK ==
  /\ queue \in Seq(Nat) /\ posts \in Nat /\ count \in Nat
  /\ reg \in [Posters -> Nat] /\ postAt \in [Posters -> Labels]
  /\ postTimer \in Posters \X Nat /\ timers \subseteq Posters \X Nat

(* Every queued message is shown in the end. *)
AllShown == queue # <<>> ~> queue = <<>>
=============================================================================
