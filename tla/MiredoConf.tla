------------------------------ MODULE MiredoConf ------------------------------
(***************************************************************************)
(* The configuration file of miredo: the list of settings of               *)
(* miredo/src/conf.c, and the two programs that read it.  The daemon       *)
(* (miredo() of miredo.c and relay_run() of relayd.c) reads it again after *)
(* each reload and hands a copy of the list to its child;                  *)
(* miredo-checkconf (checkconf.c) tells whether it is correct.             *)
(*                                                                         *)
(* The value of a setting is good or bad; that of RelayType names a mode.  *)
(* A name that resolves does so for both programs.                         *)
(***************************************************************************)
EXTENDS Integers, Sequences, SequencesExt

CONSTANTS
    Lines,     \* the lines a file may have: <<name, value>>, or what is no setting
    MaxLines   \* bound: the lines of a file

Files == UNION {[1..n -> Lines] : n \in 0..MaxLines}
IsSetting(l) == l[1] \notin {"comment", "incomplete", "too long"}

VARIABLES
    file,     \* the configuration file
    given,    \* a server is named on the command line of the daemon
    conf,     \* conf[p]: the list of process p: [list, tail, stray]
    reading,  \* reading[p]: lines read of the file, or -1
    state,    \* state[p]: what p is doing
    bad,      \* bad[p]: p has met an error, or (miredo-checkconf) a warning
    mode,     \* mode[p]: "client" or "relay"
    whole     \* the list of the child is from a file that was read to its end

confVars == <<file, given, conf, reading, state, bad, mode, whole>>
Processes == {"daemon", "child", "checkconf"}

-----------------------------------------------------------------------------
(* The list.  "tail" tells whether conf->tail is the last setting of the     *)
(* list: miredo_conf_get() does not move it when it takes that one.  "stray" *)
(* tells whether a setting was linked to one that was freed.                 *)

NoSettings == [list |-> <<>>, tail |-> FALSE, stray |-> FALSE]

miredo_conf_set(c, l) ==
    CASE c.list = <<>>             -> [c EXCEPT !.list = <<l>>, !.tail = TRUE]
      [] c.list # <<>> /\ c.tail   -> [c EXCEPT !.list = Append(@, l)]
      [] c.list # <<>> /\ ~c.tail  -> [c EXCEPT !.stray = TRUE, !.tail = FALSE]

\* The settings are still there when the file is read again.
SlipClear(c) == c
\* miredo_conf_clear() resets the head only.
miredo_conf_clear(c) == [c EXCEPT !.list = <<>>]

\* The first setting of a name, in any case of letters; 0 if there is none.
Find(c, name) ==
    LET at == {i \in 1..Len(c.list) : c.list[i][1] = name}
    IN  IF at = {} THEN 0 ELSE CHOOSE i \in at : \A j \in at : i <= j
Value(c, name) == IF Find(c, name) = 0 THEN "none" ELSE c.list[Find(c, name)][2]
\* miredo_conf_get() takes it from the list.
Taken(c, name) ==
    LET i == Find(c, name)
    IN  IF i = 0 THEN c
        ELSE [c EXCEPT !.list = RemoveAt(@, i), !.tail = @ /\ i # Len(c.list)]

-----------------------------------------------------------------------------
(* miredo_conf_read_file() *)

\* One line of the file.
ReadLine(p) ==
    /\ state[p] = "read" /\ reading[p] < Len(file)
    /\ LET l == file[reading[p] + 1]
       IN  /\ conf' = [conf EXCEPT ![p] = IF IsSetting(l) THEN miredo_conf_set(@, l) ELSE @]
           /\ bad' = [bad EXCEPT ![p] = @ \/ l[1] \in {"incomplete", "too long"}]
    /\ reading' = [reading EXCEPT ![p] = @ + 1]
    /\ UNCHANGED <<file, given, state, mode, whole>>

\* The end of the file, or an error: the file cannot be opened or read, or
\* memory is short.  The daemon goes on with what it has.
ReadEnds(p, ok) ==
    /\ state[p] = "read"
    /\ ok => reading[p] = Len(file)
    /\ reading' = [reading EXCEPT ![p] = -1]
    /\ state' = [state EXCEPT ![p] = IF p = "checkconf" /\ ~ok THEN "end" ELSE "SyslogFacility"]
    /\ bad' = [bad EXCEPT ![p] = @ \/ ~ok]
    /\ whole' = IF p = "daemon" THEN ok ELSE whole
    /\ UNCHANGED <<file, given, conf, mode>>

-----------------------------------------------------------------------------
(* What the programs take from the list, in this order *)

Order(p, m) ==
    CASE p = "checkconf" ->
           <<"SyslogFacility", "RelayType">>
             \o (IF m = "client" THEN <<"ServerAddress", "ServerAddress2">> ELSE <<"Prefix", "InterfaceMTU">>)
             \o <<"BindAddress", "BindPort", "InterfaceName", "end">>
      [] p = "child" ->
           <<"RelayType">>
             \o (IF m = "client"
                 THEN (IF given THEN <<>> ELSE <<"ServerAddress", "ServerAddress2">>)
                        \o <<"LocalDiscovery", "DiscoveryInterfaces", "DiscoveryNetmask">>
                 ELSE <<"Prefix", "InterfaceMTU">>)
             \o <<"BindAddress", "BindPort", "InterfaceName", "end">>

After(p, name, m) == LET o == Order(p, m) IN o[(CHOOSE i \in 1..Len(o) : o[i] = name) + 1]

\* ParseRelayType(): the mode after a setting, client unless told otherwise.
RelayType(name, v, m) == IF name = "RelayType" /\ v \notin {"none", "bad"} THEN v ELSE m

\* What is taken only if the setting before it was correct: a || b.
IsSecond(name) == name \in {"ServerAddress2", "InterfaceMTU", "BindPort"}

\* miredo-checkconf does not miss the address of the server.
SlipWrong(p, name, v) ==
    CASE name = "ServerAddress" -> IF p = "child" THEN {v = "none"} ELSE {v = "bad"}
      [] name = "ServerAddress2" /\ p = "child" -> {FALSE}
      [] name = "Prefix" /\ v = "none" /\ p = "checkconf" -> BOOLEAN
      [] name = "InterfaceName" -> {FALSE}
      [] OTHER -> {v = "bad"}
\* The value of a setting, or its absence, is an error for p.  The daemon does
\* not resolve the names of servers yet.  miredo-checkconf does not initialise
\* the prefix, so that an absent one may be an error.
Wrong(p, name, v) ==
    CASE name = "ServerAddress" -> IF p = "child" THEN {v = "none"} ELSE {v # "good"}
      [] name = "ServerAddress2" /\ p = "child" -> {FALSE}
      [] name = "Prefix" /\ v = "none" /\ p = "checkconf" -> BOOLEAN
      [] name = "InterfaceName" -> {FALSE}
      [] OTHER -> {v = "bad"}

\* miredo_checkconf() goes on after an error.
Check ==
    \E name \in {state["checkconf"]} \ {"read", "idle", "end", "done"} :
       LET v == Value(conf["checkconf"], name)
           m == RelayType(name, v, mode["checkconf"])
           next == After("checkconf", name, m)
       IN  \E wrong \in Wrong("checkconf", name, v) :
              /\ state' = [state EXCEPT !["checkconf"] =
                              IF v = "bad" /\ IsSecond(next) THEN After("checkconf", next, m) ELSE next]
              /\ conf' = [conf EXCEPT !["checkconf"] = Taken(@, name)]
              /\ bad' = [bad EXCEPT !["checkconf"] = @ \/ wrong]
              /\ mode' = [mode EXCEPT !["checkconf"] = m]
              /\ UNCHANGED <<file, given, reading, whole>>

\* miredo_checkconffile(): what is left in the list is superfluous.
CheckEnds ==
    /\ state["checkconf"] = "end"
    /\ bad' = [bad EXCEPT !["checkconf"] = @ \/ conf["checkconf"].list # <<>>]
    /\ conf' = [conf EXCEPT !["checkconf"] = NoSettings]
    /\ state' = [state EXCEPT !["checkconf"] = "done"]
    /\ UNCHANGED <<file, given, reading, mode, whole>>

\* miredo() takes one setting before it forks; a bad one does not matter.
Fork ==
    /\ state["daemon"] = "SyslogFacility"
    /\ LET c == Taken(conf["daemon"], "SyslogFacility")
       IN  \/ /\ conf' = [conf EXCEPT !["daemon"] = miredo_conf_clear(c), !["child"] = c]
             /\ state' = [state EXCEPT !["daemon"] = "wait", !["child"] = "RelayType"]
          \/ /\ conf' = [conf EXCEPT !["daemon"] = NoSettings]
             /\ state' = [state EXCEPT !["daemon"] = "exit"]
    /\ mode' = [mode EXCEPT !["child"] = "client"]
    /\ bad' = [bad EXCEPT !["child"] = FALSE]
    /\ UNCHANGED <<file, given, reading, whole>>

\* relay_run() gives up at the first error.
Configure ==
    \E name \in {state["child"]} \ {"idle", "end", "running", "outdated", "rejected"} :
       LET v == Value(conf["child"], name)
           m == RelayType(name, v, mode["child"])
       IN  \E wrong \in Wrong("child", name, v) :
              /\ state' = [state EXCEPT !["child"] = IF wrong THEN "rejected" ELSE After("child", name, m)]
              /\ conf' = [conf EXCEPT !["child"] = Taken(@, name)]
              /\ mode' = [mode EXCEPT !["child"] = m]
              /\ UNCHANGED <<file, given, reading, bad, whole>>

\* It warns of what is left and begins.
ConfigureEnds ==
    /\ state["child"] = "end"
    /\ bad' = [bad EXCEPT !["child"] = conf["child"].list # <<>>]
    /\ conf' = [conf EXCEPT !["child"] = NoSettings]
    /\ state' = [state EXCEPT !["child"] = "running"]
    /\ UNCHANGED <<file, given, reading, mode, whole>>

\* A child that rejects the file ends the daemon; SIGHUP ends one that runs and
\* the file is read again.
ChildEnds ==
    /\ state["child"] \in {"running", "outdated", "rejected"} /\ state["daemon"] = "wait"
    /\ state' = [state EXCEPT !["child"] = "idle",
                              !["daemon"] = IF state["child"] = "rejected" THEN "exit" ELSE "read"]
    /\ reading' = [reading EXCEPT !["daemon"] = IF state["child"] = "rejected" THEN -1 ELSE 0]
    /\ conf' = [conf EXCEPT !["child"] = NoSettings]
    /\ bad' = [bad EXCEPT !["daemon"] = FALSE, !["child"] = FALSE]
    /\ UNCHANGED <<file, given, mode, whole>>

\* The administrator runs miredo-checkconf, and starts the daemon.
Launch(p) ==
    /\ p # "child" /\ state[p] = "idle"
    /\ state' = [state EXCEPT ![p] = "read"]
    /\ reading' = [reading EXCEPT ![p] = 0]
    /\ UNCHANGED <<file, given, conf, bad, mode, whole>>

\* They add a line to the file or take one out, and check it again.
Edit ==
    /\ state["checkconf"] = "done" /\ state["child"] = "running"
    /\ \/ \E l \in Lines : Len(file) < MaxLines /\ file' = Append(file, l)
       \/ \E i \in 1..Len(file) : file' = RemoveAt(file, i)
    /\ state' = [state EXCEPT !["checkconf"] = "idle", !["child"] = "outdated"]
    /\ bad' = [bad EXCEPT !["checkconf"] = FALSE]
    /\ mode' = [mode EXCEPT !["checkconf"] = "client"]
    /\ UNCHANGED <<given, conf, reading, whole>>

ConfInit ==
    /\ file \in Files /\ given \in BOOLEAN
    /\ conf = [p \in Processes |-> NoSettings]
    /\ reading = [p \in Processes |-> -1]
    /\ state = [p \in Processes |-> "idle"]
    /\ bad = [p \in Processes |-> FALSE]
    /\ mode = [p \in Processes |-> "client"]
    /\ whole = FALSE

ConfNext ==
    \/ \E p \in Processes :
          Launch(p) \/ ReadLine(p) \/ ReadEnds(p, TRUE) \/ ReadEnds(p, FALSE)
    \/ Check \/ CheckEnds \/ Fork \/ Configure \/ ConfigureEnds \/ ChildEnds \/ Edit

ConfSpec == ConfInit /\ [][ConfNext]_confVars

-----------------------------------------------------------------------------
\* No setting is linked to one that miredo_conf_get() has freed, although it
\* leaves conf->tail at the one it took: every list is emptied before it is
\* filled again, also after a reload and when a file could only be read in part.
NoStraySetting == \A p \in Processes : ~conf[p].stray

\* A file with which miredo-checkconf is content makes relay_run() begin, if it
\* is read to its end.
CheckedStarts ==
    state["checkconf"] = "done" /\ ~bad["checkconf"] /\ whole => state["child"] # "rejected"

=============================================================================
