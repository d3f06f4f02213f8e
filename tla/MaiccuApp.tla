----------------------------- MODULE MaiccuApp -----------------------------
(***************************************************************************)
(* The Maiccu application: the menu that starts and stops one of the two   *)
(* clients (aiccu, gogoc) as a child process, the gogoc.conf it writes for *)
(* gogoc, the distributed object through which gogoc reports its status,   *)
(* and what becomes of those reports.  Every action but those of the       *)
(* clients and of the thread of distributiveObjectManager is a callback of *)
(* the main thread; the notifications it posts are in Notifier.            *)
(* With byHand the application is not running: an administrator edits      *)
(* gogoc.conf and starts gogoc from a shell.                               *)
(***************************************************************************)
EXTENDS GogocConfig

CONSTANTS
  MaxStarts,  \* bound on the launches of a client
  MaxChanges, \* bound on the changes of a setting
  MaxEdits,   \* bound on the edits of the file by hand
  Settings,   \* the settings of gogoc a user may enter
  HandMade,   \* the gogoc.conf an administrator starts from
  Lines       \* the lines <<name, value>> an administrator may put in it

VARIABLES
  byHand, alive,                      \* who runs gogoc; stage of the application
  settings, file, edits,              \* user defaults of gogoc, gogoc.conf
  adapter, runningAdapter,            \* the selected adapter and the one last started
  task, pending, title, starts,       \* _task, its termination notice, the menu item
  armed,                              \* readInBackgroundAndNotify is waiting
  client, tConf, asked,               \* gogoc: stage, tConf, settings it was started with
  root, linked, mail, info            \* the distributed object, a message of gogoc under
                                      \* way, gTunnelInfo holds something

edit == <<settings, file, edits>>
menu == <<adapter, runningAdapter, task, pending, title, starts, armed>>
gogoc == <<client, tConf, asked>>
objs == <<root, linked, mail, info>>
vars == <<byHand, alive, edit, menu, gogoc, objs>>

Adapters == {"aiccu", "gogoc"}
Running(a) == task[a] = "running"

(***************************************************************************)
(* Start of the application (TKZMaiccu init, the adapters' init).          *)
(***************************************************************************)
InitMenu ==
  /\ adapter \in Adapters /\ runningAdapter = adapter
  /\ task = [a \in Adapters |-> "none"] /\ pending = [a \in Adapters |-> FALSE]
  /\ armed = [a \in Adapters |-> FALSE]
  /\ title = "Start" /\ starts = 0

Init ==
  /\ byHand \in BOOLEAN /\ alive = IF byHand THEN "quit" ELSE "launching"
  /\ settings \in Settings /\ edits = 0
  /\ file = IF byHand THEN HandMade ELSE NoFile
  /\ InitMenu
  /\ client = "none" /\ tConf = NoConf /\ asked = settings
  /\ root = "none" /\ linked = FALSE /\ mail = FALSE /\ info = FALSE

(***************************************************************************)
(* Starting and stopping the client.                                       *)
(***************************************************************************)
(* The setters gogocAdapter's saveConfig calls, in order, on an empty      *)
(* configuration: the first refusal aborts it.                             *)
AppFile(s) ==
  (IF s.username = ""
     THEN ("auth_method" :> "anonymous") @@ ("broker_list" :> "anon")
     ELSE ("userid" :> s.username) @@ ("passwd" :> s.password)
          @@ ("auth_method" :> "any") @@ ("broker_list" :> "list"))
  @@ ("server" :> s.server) @@ ("tunnel_mode" :> s.tunnel_id) @@ ("template" :> "darwin")
  @@ ("if_tunnel_v6v4" :> "ok") @@ ("if_tunnel_v6udpv4" :> "ok") @@ ("log_stderr" :> "1")

SetterOrder ==
  <<"userid", "passwd", "auth_method", "broker_list", "server", "tunnel_mode", "template",
    "if_tunnel_v6v4", "if_tunnel_v6udpv4", "log_stderr">>

SaveConfigOk(s) ==
  /\ \A f \in DOMAIN AppFile(s) : AppFile(s)[f] \in Valid[f]
  /\ SaveOk(AppFile(s))

(* genericAdapter startFrom:withArgs: a new task and pipe; the observers   *)
(* of the previous ones are removed.                                       *)
NewTask(a, stage) ==
  /\ task' = [task EXCEPT ![a] = stage]
  /\ pending' = [pending EXCEPT ![a] = FALSE]
  /\ armed' = [armed EXCEPT ![a] = stage = "running"]
  /\ starts' = starts + 1

Launch(a) == NewTask(a, "running") /\ title' = "Stop"

(* launch raises an exception for a binary that cannot be run; the run     *)
(* loop catches it, and the menu item is not touched.                      *)
LaunchRaises(a) == NewTask(a, "raised") /\ UNCHANGED title

SaveFile == file' \in WriteConfigurationData(AppFile(settings), SetterOrder)

LaunchGogoc ==
  \/ /\ client' = "reading" /\ tConf' = NoConf /\ asked' = settings
     /\ Launch("gogoc")
  \/ LaunchRaises("gogoc") /\ UNCHANGED gogoc

(* Mutant: the menu item changes although nothing was launched. *)
SlipTitle ==
  \/ /\ ~SaveConfigOk(settings) /\ title' = "Stop"
     /\ UNCHANGED <<file, gogoc, task, pending, armed, starts>>
  \/ SaveConfigOk(settings) /\ SaveFile /\ LaunchGogoc

(* Mutant: an existing configuration file is not written again. *)
SlipStaleFile ==
  /\ SaveConfigOk(settings)
  /\ IF file = NoFile THEN SaveFile ELSE UNCHANGED file
  /\ LaunchGogoc

(* gogocAdapter startFrom: nothing is launched when saveConfig fails, for  *)
(* its settings or because the file cannot be opened.                      *)
StartGogoc ==
  \/ UNCHANGED <<file, gogoc, task, pending, armed, starts, title>>
  \/ SaveConfigOk(settings) /\ SaveFile /\ LaunchGogoc

(* TKZAiccuAdapter starts aiccu without writing its configuration. *)
StartAiccu == (Launch("aiccu") \/ LaunchRaises("aiccu")) /\ UNCHANGED <<file, gogoc>>

(* stopFrom interrupts the task, which goes on running until it ends. *)
StopAdapter ==
  title' = "Stop" /\ UNCHANGED <<file, gogoc, task, pending, armed, starts, runningAdapter>>

StartAdapter ==
  /\ starts < MaxStarts
  /\ runningAdapter' = adapter
  /\ IF adapter = "gogoc" THEN StartGogoc ELSE StartAiccu

startStopAdapter ==
  \/ Running(runningAdapter) /\ StopAdapter
  \/ ~Running(runningAdapter) /\ StartAdapter

startstopWasClicked ==
  /\ alive = "running"
  /\ startStopAdapter
  /\ UNCHANGED <<byHand, alive, settings, edits, adapter, objs>>

(* The permissions and the tun device are there, or the application ends;  *)
(* with --start the client is started at once.                             *)
applicationDidFinishLaunching ==
  /\ alive = "launching"
  /\ \/ alive' = "quit" /\ UNCHANGED <<file, gogoc, menu>>
     \/ alive' = "running" /\ UNCHANGED <<file, gogoc, menu>>
     \/ alive' = "running" /\ startStopAdapter /\ UNCHANGED adapter
  /\ UNCHANGED <<byHand, settings, edits, objs>>

applicationWillTerminate ==
  /\ alive = "running"
  /\ alive' = "quit"
  /\ UNCHANGED <<byHand, edit, menu, gogoc, objs>>

brokerPopUpHasChanged ==
  /\ alive = "running"
  /\ adapter' \in Adapters \ {adapter}
  /\ UNCHANGED <<byHand, alive, edit, runningAdapter, task, pending, title, starts, armed,
                 gogoc, objs>>

(* The account, server and tunnel fields write the selected adapter's user *)
(* defaults; only gogoc's are read when its client is started.             *)
SettingHasChanged ==
  /\ alive = "running" /\ adapter = "gogoc" /\ edits < MaxChanges
  /\ settings' \in Settings \ {settings}
  /\ edits' = edits + 1
  /\ UNCHANGED <<byHand, alive, file, menu, gogoc, objs>>

(***************************************************************************)
(* The callbacks of the child process.                                     *)
(***************************************************************************)
(* Output is read again only while the task is running. *)
dataReady(a) ==
  /\ alive = "running" /\ armed[a]
  /\ armed' = [armed EXCEPT ![a] = Running(a)]
  /\ UNCHANGED <<byHand, alive, edit, adapter, runningAdapter, task, pending, title,
                 starts, gogoc, objs>>

(* aiccuDidTerminate sets the menu item, whichever adapter reports; gogoc's *)
(* adapter forgets the tunnel.                                             *)
taskTerminated(a) ==
  /\ alive = "running" /\ pending[a] /\ pending' = [pending EXCEPT ![a] = FALSE]
  /\ title' = "Start"
  /\ info' = (info /\ a # "gogoc")
  /\ UNCHANGED <<byHand, alive, edit, adapter, runningAdapter, task, starts, armed,
                 gogoc, root, linked, mail>>

(***************************************************************************)
(* The distributed object.                                                 *)
(***************************************************************************)
(* distributiveObjectManager publishes the adapter that is the running one *)
(* when the thread gets there, once.                                       *)
distributiveObjectManager ==
  /\ alive # "quit" /\ root = "none" /\ root' = runningAdapter
  /\ UNCHANGED <<byHand, alive, edit, menu, gogoc, linked, mail, info>>

(* statusUpdate and tunnelUpdate of gogocAdapter; the aiccu adapter has no *)
(* such methods and the call is lost.                                      *)
ObjectReceives ==
  /\ alive = "running" /\ mail /\ mail' = FALSE
  /\ info' = (info \/ root = "gogoc")
  /\ UNCHANGED <<byHand, alive, edit, menu, gogoc, root, linked>>

(***************************************************************************)
(* The client processes.                                                   *)
(***************************************************************************)
EndTask(a) ==
  /\ task' = [task EXCEPT ![a] = "ended"]
  /\ pending' = [pending EXCEPT ![a] = TRUE]
  /\ UNCHANGED <<adapter, runningAdapter, title, starts, armed>>

(* Before anything else gogoc looks for the distributed object. *)
initialize_messaging == linked' = (root # "none" /\ alive # "quit")

(* Then it reads its configuration, and ends if that is refused. *)
tspInitialize ==
  /\ client = "reading"
  /\ initialize_messaging
  /\ tConf' = tspReadConfigFile(file)
  /\ client' = IF tConf' = NoConf THEN "none" ELSE "up"
  /\ IF tConf' = NoConf /\ ~byHand THEN EndTask("gogoc") ELSE UNCHANGED menu
  /\ UNCHANGED <<byHand, alive, edit, asked, root, mail, info>>

(* send_status_info, send_tunnel_info and send_broker_list. *)
ClientSends ==
  /\ client = "up" /\ linked /\ ~mail /\ mail' = TRUE
  /\ UNCHANGED <<byHand, alive, edit, menu, gogoc, root, linked, info>>

(* Interrupted, or by itself. *)
ClientEnds(a) ==
  /\ Running(a) /\ EndTask(a)
  /\ IF a = "gogoc" THEN client' = "none" /\ tConf' = NoConf ELSE UNCHANGED <<client, tConf>>
  /\ UNCHANGED <<byHand, alive, edit, asked, objs>>

(* The administrator edits gogoc.conf and runs gogoc. *)
EditFile ==
  /\ byHand /\ client = "none" /\ edits < MaxEdits /\ edits' = edits + 1
  /\ \E l \in Lines : file' = (l[1] :> l[2]) @@ file
  /\ UNCHANGED <<byHand, alive, settings, menu, gogoc, objs>>

RunByHand ==
  /\ byHand /\ client = "none" /\ client' = "reading" /\ tConf' = NoConf
  /\ UNCHANGED <<byHand, alive, edit, menu, asked, objs>>

StopByHand ==
  /\ byHand /\ client = "up" /\ client' = "none" /\ tConf' = NoConf
  /\ UNCHANGED <<byHand, alive, edit, menu, asked, objs>>

Next ==
  \/ applicationDidFinishLaunching \/ applicationWillTerminate
  \/ startstopWasClicked \/ brokerPopUpHasChanged \/ SettingHasChanged
  \/ distributiveObjectManager \/ ObjectReceives
  \/ tspInitialize \/ ClientSends
  \/ \E a \in Adapters : dataReady(a) \/ taskTerminated(a) \/ ClientEnds(a)
  \/ EditFile \/ RunByHand \/ StopByHand

Spec == Init /\ [][Next]_vars

(***************************************************************************)
(* Properties.                                                             *)
(***************************************************************************)
TypeOK ==
  /\ byHand \in BOOLEAN /\ alive \in {"launching", "running", "quit"}
  /\ adapter \in Adapters /\ runningAdapter \in Adapters
  /\ task \in [Adapters -> {"none", "running", "ended", "raised"}]
  /\ title \in {"Start", "Stop"} /\ client \in {"none", "reading", "up"}
  /\ root \in Adapters \cup {"none"}

(* A menu item that offers Stop is never left behind: a client is running, *)
(* or the notice of its end is on its way and will set the title again,    *)
(* also when the adapter was switched or a restart was refused in between. *)
(* A launch that raises has given up the notice of the previous task, so   *)
(* nothing is claimed until that adapter is started again.                 *)
TitleClears ==
  title = "Stop" => \E a \in Adapters : Running(a) \/ pending[a] \/ task[a] = "raised"

(* A client launched by the application works with the settings the user   *)
(* had when it was started, whatever was edited since and whatever file    *)
(* was there before, up to the outer blanks the file does not keep.  A     *)
(* file whose writing failed on the way is refused or has all of them: the *)
(* template, which must be there, is set after them.                       *)
ConfAsSet ==
  client = "up" /\ ~byHand =>
    /\ tConf["userid"] = Trim(asked.username)
    /\ asked.username # "" => tConf["passwd"] = Trim(asked.password)
    /\ tConf["server"] = asked.server
    /\ tConf["auth_method"] = "anonymous" <=> asked.username = ""
    /\ tConf["tunnel_mode"] = IF asked.tunnel_id = "" THEN "v6anyv4" ELSE asked.tunnel_id

=============================================================================
