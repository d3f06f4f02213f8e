----------------------------- MODULE Messaging ------------------------------
(***************************************************************************)
(* The messaging subsystem of gogoCLIENT: a CommunicationsManager in the   *)
(* client ("gogoc", the pipe's server) and one in its GUI ("gui"), each    *)
(* with a manager thread, a sender thread, a receiver thread and the       *)
(* application's thread that posts messages.  They share the send queue,   *)
(* its semaphore, the manager's state and the IO mutex of Servent.         *)
(* Windows is the platform whose pipes, threads and semaphores are         *)
(* finished (src/linux ends in #error), so it is the one modelled.         *)
(***************************************************************************)
EXTENDS Messages, FiniteSets

CONSTANTS
  Statuses, Tunnels, BrokerLists, HAccess,  \* what Retrieve*Info may return
  Configs,                 \* the HACCESS configurations the GUI may send
  Requests,                \* the requests the GUI may send
  MAX_QUEUE_ITEMS,         \* messagesender.cc: 512
  INITERRORS_THRESHOLD,    \* communicationsmgr.cc: 3
  PIPE_BUFSIZ,             \* packets that fit in the pipe (65000 bytes: a whole message)
  MaxPosts, Budget         \* bounds: posts of each application; posts and twice the ends of processes

Sides == {"gui", "gogoc"}
Other(s) == IF s = "gui" THEN "gogoc" ELSE "gui"

VARIABLES
  handle,   \* m_Handle: "none", "listening", "live" or "stale" (the peer has closed)
  wire,     \* the packets written by a side and not read by the other
  mgr,      \* the manager thread's place in Work
  status,   \* m_eManagerStatus; the sender state is derived from it
  errs,     \* nErrorCount
  snd,      \* the sender thread: pc and the bytes written of the front message
  rcv,      \* the receiver thread: pc, the packets read and the message made of them
  lock,     \* m_pSemIPCMutex: "free", its holder, or "lost" with a terminated holder
  queue,    \* m_SendQueue
  sem,      \* the count of m_pSemaphore
  app,      \* the thread that posts: pc and message
  nSeqNum,  \* the static sequence number of _WriteData
  posts, quits

mvars == <<handle, wire, mgr, status, errs, snd, rcv, lock, queue, sem, app, nSeqNum, posts, quits>>

NoSender == [pc |-> "none", nWritten |-> 0]
NoReceiver == [pc |-> "none", got |-> <<>>, msg |-> NULL]
Idle == [pc |-> "idle", msg |-> NULL]

MessagingInit ==
  /\ handle = [s \in Sides |-> "none"] /\ wire = [s \in Sides |-> <<>>]
  /\ mgr = [s \in Sides |-> "top"] /\ status = [s \in Sides |-> "DISCONNECTED"]
  /\ errs = [s \in Sides |-> 0]
  /\ snd = [s \in Sides |-> NoSender] /\ rcv = [s \in Sides |-> NoReceiver]
  /\ lock = [s \in Sides |-> "free"]
  /\ queue = [s \in Sides |-> <<>>] /\ sem = [s \in Sides |-> 0]
  /\ app = [s \in Sides |-> Idle] /\ nSeqNum = [s \in Sides |-> 0]
  /\ posts = [s \in Sides |-> 0] /\ quits = 0

Spent == posts["gui"] + posts["gogoc"] + 2 * quits

-----------------------------------------------------------------------------
(* The pipe (PipeIO, PipeServer, PipeClient and the system behind them).   *)

CanRead(s) == CASE wire[Other(s)] # <<>> -> "yes"
                [] wire[Other(s)] = <<>> /\ handle[s] = "live" -> "no"
                [] OTHER -> "error"

(* The client's end leaves what it wrote to be read; DisconnectNamedPipe   *)
(* at the server's end discards both directions.                           *)
CloseConnection(s) ==
  /\ handle' = [handle EXCEPT ![s] = "none",
                              ![Other(s)] = IF @ = "live" THEN "stale" ELSE @]
  /\ wire' = IF s = "gui" THEN [wire EXCEPT !["gogoc"] = <<>>] ELSE [t \in Sides |-> <<>>]

SetState(s, v) == status' = [status EXCEPT ![s] = v]

(* A failed assertion ends the process, and its handles close. *)
Gone(s) ==
  /\ CloseConnection(s)
  /\ mgr' = [mgr EXCEPT ![s] = "gone"] /\ SetState(s, "DISCONNECTED")
  /\ errs' = [errs EXCEPT ![s] = 0]
  /\ snd' = [snd EXCEPT ![s] = NoSender] /\ rcv' = [rcv EXCEPT ![s] = NoReceiver]
  /\ lock' = [lock EXCEPT ![s] = "free"]
  /\ queue' = [queue EXCEPT ![s] = <<>>] /\ sem' = [sem EXCEPT ![s] = 0]
  /\ app' = [app EXCEPT ![s] = Idle] /\ nSeqNum' = [nSeqNum EXCEPT ![s] = 0]

-----------------------------------------------------------------------------
(* The manager thread: CommunicationsManager::Work.                        *)

(* A terminated thread keeps the mutex it holds. *)
LockAfterStop(s) == IF lock[s] = "free" THEN "free" ELSE "lost"

(* _CleanupInstance up to the emptied queue: Stop waits 200 ms for a worker *)
(* and terminates it wherever it is.                                        *)
CleanupInstance(s) ==
  /\ mgr[s] = "top" /\ status[s] = "DISCONNECTED"
  /\ snd' = [snd EXCEPT ![s] = NoSender] /\ rcv' = [rcv EXCEPT ![s] = NoReceiver]
  /\ lock' = [lock EXCEPT ![s] = LockAfterStop(s)]
  /\ CloseConnection(s)
  /\ queue' = [queue EXCEPT ![s] = <<>>]
  /\ mgr' = [mgr EXCEPT ![s] = "reset"]
  /\ UNCHANGED <<status, errs, sem, app, nSeqNum, posts, quits>>

(* The end of MessageSender::Reset, and the state that lets Initialize begin. *)
ResetSemaphore(s) ==
  /\ mgr[s] = "reset"
  /\ sem' = [sem EXCEPT ![s] = 0]
  /\ SetState(s, "PENDINGCONNECTION")
  /\ mgr' = [mgr EXCEPT ![s] = "create"]
  /\ UNCHANGED <<handle, wire, errs, snd, rcv, lock, queue, app, nSeqNum, posts, quits>>

InitFailed(s) ==
  /\ errs' = [errs EXCEPT ![s] = @ + 1]
  /\ SetState(s, IF errs[s] + 1 > INITERRORS_THRESHOLD THEN "FATALERROR" ELSE "DISCONNECTED")
  /\ mgr' = [mgr EXCEPT ![s] = "top"]
  /\ UNCHANGED <<snd, rcv>>

StartWorkers(s) ==
  /\ snd' = [snd EXCEPT ![s].pc = "wait"] /\ rcv' = [rcv EXCEPT ![s].pc = "poll"]
  /\ mgr' = [mgr EXCEPT ![s] = "announce"]
  /\ UNCHANGED <<status, errs>>

(* The server's Initialize in two steps: the pipe is created, then a       *)
(* client is awaited.  A client that came and went makes it fail.          *)
CreateConnectionPoint ==
  /\ mgr["gogoc"] = "create"
  /\ \/ /\ handle' = [handle EXCEPT !["gogoc"] = "listening"]
        /\ mgr' = [mgr EXCEPT !["gogoc"] = "accept"]
        /\ UNCHANGED <<status, errs, snd, rcv>>
     \/ InitFailed("gogoc") /\ UNCHANGED handle
  /\ UNCHANGED <<wire, lock, queue, sem, app, nSeqNum, posts, quits>>

AcceptConnection ==
  /\ mgr["gogoc"] = "accept" /\ handle["gogoc"] # "listening"
  /\ IF handle["gogoc"] = "live" THEN StartWorkers("gogoc") ELSE InitFailed("gogoc")
  /\ UNCHANGED <<handle, wire, lock, queue, sem, app, nSeqNum, posts, quits>>

(* The client waits for an instance of the pipe and opens it. *)
Connect ==
  /\ mgr["gui"] = "create" /\ handle["gogoc"] = "listening"
  /\ \/ handle' = [s \in Sides |-> "live"] /\ StartWorkers("gui")
     \/ InitFailed("gui") /\ UNCHANGED handle
  /\ UNCHANGED <<wire, lock, queue, sem, app, nSeqNum, posts, quits>>

(* Back in Work, which takes the state for its own to set. *)
Announce(s) ==
  /\ mgr[s] = "announce"
  /\ SetState(s, "CONNECTED")
  /\ errs' = [errs EXCEPT ![s] = 0]
  /\ mgr' = [mgr EXCEPT ![s] = "top"]
  /\ UNCHANGED <<handle, wire, snd, rcv, lock, queue, sem, app, nSeqNum, posts, quits>>

AbandonPipe(s) ==
  /\ mgr[s] = "top" /\ status[s] = "FATALERROR"
  /\ mgr' = [mgr EXCEPT ![s] = "gone"]
  /\ UNCHANGED <<handle, wire, status, errs, snd, rcv, lock, queue, sem, app, nSeqNum, posts, quits>>

-----------------------------------------------------------------------------
(* The sender thread: SenderThread::Work over Servent::_WriteData.         *)

ReleaseLock(s) == lock' = [lock EXCEPT ![s] = "free"]

SenderFails(s) ==
  /\ SetState(s, "DISCONNECTED")
  /\ snd' = [snd EXCEPT ![s] = [NoSender EXCEPT !.pc = "dead"]]

(* The pipe is written without a look at what is there to read. *)
SlipSenderCheck(s) ==
  /\ snd[s].pc = "wait" /\ sem[s] > 0
  /\ \/ queue[s] = <<>> /\ Gone(s)
     \/ /\ queue[s] # <<>>
        /\ \/ /\ lock[s] # "free" \/ CanRead(s) # "error"
              /\ sem' = [sem EXCEPT ![s] = @ - 1]
              /\ snd' = [snd EXCEPT ![s].pc = "checked"]
              /\ UNCHANGED status
           \/ /\ lock[s] = "free" /\ CanRead(s) = "error"
              /\ sem' = [sem EXCEPT ![s] = @ - 1]
              /\ SenderFails(s)
        /\ UNCHANGED <<handle, wire, mgr, errs, rcv, lock, queue, app, nSeqNum>>
  /\ UNCHANGED <<posts, quits>>
(* The semaphore counts a message; assert( m_SendQueue.size() > 0 ).       *)
(* Nothing is written while there is something to read: the count is given *)
(* back.  When the mutex cannot be had in 15 s Servent::CanRead reports no *)
(* error and no data.                                                      *)
SenderCheck(s) ==
  /\ snd[s].pc = "wait" /\ sem[s] > 0
  /\ \/ queue[s] = <<>> /\ Gone(s)
     \/ /\ queue[s] # <<>>
        /\ \/ /\ lock[s] # "free" \/ CanRead(s) = "no"
              /\ sem' = [sem EXCEPT ![s] = @ - 1]
              /\ snd' = [snd EXCEPT ![s].pc = "checked"]
              /\ UNCHANGED status
           \/ /\ lock[s] = "free" /\ CanRead(s) = "error"
              /\ sem' = [sem EXCEPT ![s] = @ - 1]
              /\ SenderFails(s)
        /\ UNCHANGED <<handle, wire, mgr, errs, rcv, lock, queue, app, nSeqNum>>
  /\ UNCHANGED <<posts, quits>>

WriteData(s) ==
  /\ snd[s].pc = "checked"
  /\ \/ /\ lock[s] = "free"
        /\ lock' = [lock EXCEPT ![s] = "snd"]
        /\ snd' = [snd EXCEPT ![s] = [pc |-> "write", nWritten |-> 0]]
        /\ UNCHANGED status
     \/ /\ lock[s] # "free"       \* IOWAITTIMEOUT
        /\ SenderFails(s) /\ UNCHANGED lock
  /\ UNCHANGED <<handle, wire, mgr, errs, rcv, queue, sem, app, nSeqNum, posts, quits>>

(* One turn of _WriteData's loop; WriteFile blocks while the pipe is full. *)
WritePacket(s) ==
  /\ snd[s].pc = "write"
  /\ \/ /\ handle[s] # "live"
        /\ SenderFails(s) /\ ReleaseLock(s)
        /\ UNCHANGED <<wire, queue, nSeqNum>>
     \/ /\ handle[s] = "live" /\ Len(wire[s]) < PIPE_BUFSIZ
        /\ LET p == MakePacket(Head(queue[s]), snd[s].nWritten, nSeqNum[s]) IN
           /\ wire' = [wire EXCEPT ![s] = Append(@, p)]
           /\ IF IsLast(p)
              THEN /\ snd' = [snd EXCEPT ![s] = [pc |-> "wait", nWritten |-> 0]]
                   /\ queue' = [queue EXCEPT ![s] = Tail(@)]
                   /\ nSeqNum' = [nSeqNum EXCEPT ![s] = (@ + 1) % SeqModulus]
                   /\ ReleaseLock(s)
              ELSE /\ snd' = [snd EXCEPT ![s].nWritten = @ + Len(p.data)]
                   /\ UNCHANGED <<queue, nSeqNum, lock>>
        /\ UNCHANGED status
  /\ UNCHANGED <<handle, mgr, errs, rcv, sem, app, posts, quits>>

-----------------------------------------------------------------------------
(* The receiver thread: ReceiverThread::Work over Servent::_ReadData.      *)

ReceiverFails(s) ==
  /\ SetState(s, "DISCONNECTED")
  /\ rcv' = [rcv EXCEPT ![s] = [NoReceiver EXCEPT !.pc = "dead"]]

Poll(s) ==
  /\ rcv[s].pc = "poll" /\ lock[s] = "free"
  /\ \/ CanRead(s) = "error" /\ ReceiverFails(s)
     \/ CanRead(s) = "yes" /\ rcv' = [rcv EXCEPT ![s].pc = "ready"] /\ UNCHANGED status
  /\ UNCHANGED <<handle, wire, mgr, errs, snd, lock, queue, sem, app, nSeqNum, posts, quits>>

ReadData(s) ==
  /\ rcv[s].pc = "ready"
  /\ \/ /\ lock[s] = "free"
        /\ lock' = [lock EXCEPT ![s] = "rcv"]
        /\ rcv' = [rcv EXCEPT ![s].pc = "read"]
        /\ UNCHANGED status
     \/ /\ lock[s] # "free"       \* IOWAITTIMEOUT
        /\ ReceiverFails(s) /\ UNCHANGED lock
  /\ UNCHANGED <<handle, wire, mgr, errs, snd, queue, sem, app, nSeqNum, posts, quits>>

(* One turn of _ReadData's loop. *)
ReadPacket(s) ==
  /\ rcv[s].pc = "read"
  /\ \/ CanRead(s) = "error" /\ ReceiverFails(s) /\ ReleaseLock(s) /\ UNCHANGED wire
     \/ /\ CanRead(s) = "yes"
        /\ wire' = [wire EXCEPT ![Other(s)] = Tail(@)]
        /\ LET p == Head(wire[Other(s)])
               got == Append(rcv[s].got, p) IN
           IF ReadVerdict(rcv[s].got, p) # "NOERROR" THEN ReceiverFails(s) /\ ReleaseLock(s)
           ELSE /\ UNCHANGED status
                /\ IF IsLast(p)
                   THEN /\ rcv' = [rcv EXCEPT ![s] = [pc |-> "process", got |-> <<>>,
                                                      msg |-> AsMessage(Joined(got))]]
                        /\ ReleaseLock(s)
                   ELSE rcv' = [rcv EXCEPT ![s].got = got] /\ UNCHANGED lock
  /\ UNCHANGED <<handle, mgr, errs, snd, queue, sem, app, nSeqNum, posts, quits>>

-----------------------------------------------------------------------------
(* The message processors and the messengers behind them.                  *)

(* What the translators of each side make of a message for their handlers. *)
ClientTranslation(m) ==
  CASE m.msgid = "STATUSINFO" -> TranslateStatusInfo(m.data)
    [] m.msgid = "TUNNELINFO" -> TranslateTunnelInfo(m.data)
    [] m.msgid = "BROKERLIST" -> BuildBrokerList(m.data)
    [] m.msgid = "HACCESSSTATUSINFO" -> TranslateHACCESSStatusInfo(m.data)
    [] OTHER -> "MESSAGENOTIMPL"

ServerTranslation(m) ==
  CASE m.msgid = "HACCESSCONFIGINFO" -> TranslateHACCESSConfigInfo(m.data)
    [] m.msgid \in Requests -> m.msgid
    [] OTHER -> "MESSAGENOTIMPL"

(* The list in the broker list file, which is empty when there is no file  *)
(* to look into; NULL when the file cannot be read.                        *)
RetrieveBrokerList == BrokerLists \cup {NULL}

(* A copy of the HACCESS module's status; NULL is an error, the only       *)
(* result of a build without HACCESS (HAccess = {}).                       *)
RetrieveHACCESSStatusInfo == HAccess \cup {NULL}

(* What the client may answer: the information as Retrieve*Info finds it.  *)
Answers(m) ==
  CASE m.msgid = "REQUEST_STATUSINFO" -> {Send_StatusInfo(a) : a \in Statuses}
    [] m.msgid = "REQUEST_TUNNELINFO" -> {Send_TunnelInfo(a) : a \in Tunnels}
    [] m.msgid = "REQUEST_BROKERLIST" -> {Send_BrokerList(a) : a \in RetrieveBrokerList \ {<<>>, NULL}}
    [] m.msgid = "REQUEST_HACCESSSTATUSINFO" ->
         {Send_HACCESSStatusInfo(a) : a \in RetrieveHACCESSStatusInfo \ {NULL}}
    [] OTHER -> {}

(* The GUI's handlers end in its callbacks.  The client's prepare an       *)
(* answer; the broker list asserts that there is one to send, which        *)
(* RetrieveBrokerList does not promise.  What cannot be retrieved is not   *)
(* answered.                                                               *)
ProcessMessage(s) ==
  /\ rcv[s].pc = "process"
  /\ \/ /\ s = "gogoc"
        /\ \E r \in Answers(rcv[s].msg) :
             rcv' = [rcv EXCEPT ![s] = [NoReceiver EXCEPT !.pc = "reply", !.msg = r]]
        /\ UNCHANGED <<handle, wire, mgr, status, errs, snd, lock, queue, sem, app, nSeqNum>>
     \/ /\ s = "gui" \/ rcv[s].msg.msgid \notin {"REQUEST_STATUSINFO", "REQUEST_TUNNELINFO"}
        /\ rcv' = [rcv EXCEPT ![s] = [NoReceiver EXCEPT !.pc = "poll"]]
        /\ UNCHANGED <<handle, wire, mgr, status, errs, snd, lock, queue, sem, app, nSeqNum>>
     \/ /\ s = "gogoc" /\ rcv[s].msg.msgid = "REQUEST_BROKERLIST" /\ <<>> \in RetrieveBrokerList
        /\ Gone(s)
  /\ UNCHANGED <<posts, quits>>

Accepts(s) == status[s] = "CONNECTED" /\ Len(queue[s]) < MAX_QUEUE_ITEMS

(* ReleaseSemaphore fails at the maximum. *)
Counted(n) == IF n < MAX_QUEUE_ITEMS THEN n + 1 ELSE n

(* PostMessage by the receiver, which its manager stops before it resets   *)
(* the queue: nothing of it can be seen half done.                         *)
Reply(s) ==
  /\ rcv[s].pc = "reply"
  /\ IF Accepts(s)
     THEN /\ queue' = [queue EXCEPT ![s] = Append(@, rcv[s].msg)]
          /\ sem' = [sem EXCEPT ![s] = Counted(@)]
     ELSE UNCHANGED <<queue, sem>>
  /\ rcv' = [rcv EXCEPT ![s] = [NoReceiver EXCEPT !.pc = "poll"]]
  /\ UNCHANGED <<handle, wire, mgr, status, errs, snd, lock, app, nSeqNum, posts, quits>>

(* What the application's threads post: the send_*_info functions of the   *)
(* C wrapper, and the requests and configurations of the GUI.              *)
AppMessages(s) ==
  IF s = "gui"
  THEN {CreateMessage(r, <<>>) : r \in Requests} \cup {Send_HACCESSConfigInfo(a) : a \in Configs}
  ELSE {Send_StatusInfo(a) : a \in Statuses} \cup {Send_TunnelInfo(a) : a \in Tunnels}
         \cup {Send_BrokerList(a) : a \in BrokerLists \ {<<>>}}
         \cup {Send_HACCESSStatusInfo(a) : a \in HAccess}

(* PostMessage in three steps: the test, the push and the semaphore. *)
Post(s) ==
  /\ app[s].pc = "idle" /\ mgr[s] # "gone" /\ posts[s] < MaxPosts /\ Spent < Budget
  /\ Accepts(s)
  /\ \E m \in AppMessages(s) : app' = [app EXCEPT ![s] = [pc |-> "push", msg |-> m]]
  /\ posts' = [posts EXCEPT ![s] = @ + 1]
  /\ UNCHANGED <<handle, wire, mgr, status, errs, snd, rcv, lock, queue, sem, nSeqNum, quits>>

Push(s) ==
  /\ app[s].pc = "push"
  /\ queue' = [queue EXCEPT ![s] = Append(@, app[s].msg)]
  /\ app' = [app EXCEPT ![s] = [pc |-> "count", msg |-> NULL]]
  /\ UNCHANGED <<handle, wire, mgr, status, errs, snd, rcv, lock, sem, nSeqNum, posts, quits>>

Count(s) ==
  /\ app[s].pc = "count"
  /\ sem' = [sem EXCEPT ![s] = Counted(@)]
  /\ app' = [app EXCEPT ![s] = Idle]
  /\ UNCHANGED <<handle, wire, mgr, status, errs, snd, rcv, lock, queue, nSeqNum, posts, quits>>

(* A process ends, or starts again (initialize_messaging, or the GUI). *)
Quit(s) ==
  /\ mgr[s] # "gone" /\ Spent + 2 <= Budget
  /\ Gone(s)
  /\ quits' = quits + 1
  /\ UNCHANGED posts

Start(s) ==
  /\ mgr[s] = "gone" /\ status[s] # "FATALERROR"
  /\ mgr' = [mgr EXCEPT ![s] = "top"]
  /\ UNCHANGED <<handle, wire, status, errs, snd, rcv, lock, queue, sem, app, nSeqNum, posts, quits>>

-----------------------------------------------------------------------------
ManagerStep(s) == CleanupInstance(s) \/ ResetSemaphore(s) \/ Announce(s) \/ AbandonPipe(s)
SenderStep(s) == SenderCheck(s) \/ WriteData(s) \/ WritePacket(s)
ReceiverStep(s) == Poll(s) \/ ReadData(s) \/ ReadPacket(s) \/ ProcessMessage(s) \/ Reply(s)
PosterStep(s) == Push(s) \/ Count(s)

MessagingNext ==
  \/ CreateConnectionPoint \/ AcceptConnection \/ Connect
  \/ \E s \in Sides : ManagerStep(s) \/ SenderStep(s) \/ ReceiverStep(s) \/ PosterStep(s)
                        \/ Post(s) \/ Quit(s) \/ Start(s)

MessagingSpec == MessagingInit /\ [][MessagingNext]_mvars
-----------------------------------------------------------------------------
(* A string arrives as it was, a null one as the empty one. *)
StringsAsSent(a, strings) == [f \in DOMAIN a |-> IF f \in strings THEN Sent(a[f]) ELSE a[f]]

(* Of a list of brokers the names and the first distance arrive: the later *)
(* distances are taken at a wrong offset (BuildBrokerList).                *)
BrokersAsSent(got, list) ==
  /\ Len(got) = Len(list)
  /\ \A i \in DOMAIN got : got[i].szAddress = list[i].szAddress
  /\ got # <<>> => got[1] = list[1]

(* Whether side s is given something its peer may have sent. *)
Understood(s, m) ==
  CASE m.msgid = "STATUSINFO" -> s = "gui" /\ ClientTranslation(m) \in Statuses
    [] m.msgid = "TUNNELINFO" ->
         s = "gui" /\ \E a \in Tunnels :
           ClientTranslation(m) = StringsAsSent(a, {"szBrokerName"} \cup ToSet(TunnelStrings))
    [] m.msgid = "BROKERLIST" ->
         s = "gui" /\ \E a \in BrokerLists : BrokersAsSent(ClientTranslation(m), a)
    [] m.msgid = "HACCESSSTATUSINFO" -> s = "gui" /\ ClientTranslation(m) \in HAccess
    [] m.msgid = "HACCESSCONFIGINFO" ->
         s = "gogoc" /\ \E a \in Configs :
           ServerTranslation(m) = StringsAsSent(a, {"haccess_doc_root"})
    [] OTHER -> s = "gogoc" /\ m.msgid \in Requests /\ m.data = <<>>

(* Whatever a handler is given is something the other side sent: the       *)
(* packets of a message are never torn, mixed with those of another one or *)
(* of an earlier connection, and no read ends in one of _ReadData's        *)
(* desynchronisation errors.  Nothing is said of the distances of a broker *)
(* list after its first.                                                   *)
ReceivedAsSent ==
  \A s \in Sides :
    /\ rcv[s].pc = "process" => Understood(s, rcv[s].msg)
    /\ rcv[s].pc = "read" /\ wire[Other(s)] # <<>> =>
         ReadVerdict(rcv[s].got, Head(wire[Other(s)])) = "NOERROR"

(* The two sides never block each other: each sender in WriteFile on a full *)
(* pipe, each with the IO mutex its own receiver needs to empty the other   *)
(* one, would leave all four threads waiting for good.  The test for        *)
(* incoming data before a write and a pipe that holds a whole message keep  *)
(* that from happening, although both senders may pass the test at once.    *)
NoStandOff ==
  \E s \in Sides : ~ (/\ snd[s].pc = "write" /\ handle[s] = "live"
                      /\ Len(wire[s]) = PIPE_BUFSIZ /\ rcv[s].pc = "poll")

=============================================================================
