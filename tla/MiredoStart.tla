----------------------------- MODULE MiredoStart -----------------------------
(***************************************************************************)
(* Starting miredo: miredo_main() of miredo/src/main.c, with several       *)
(* instances that are started at the same time.  Each has a launcher,      *)
(* which waits at a pipe and returns a status to the shell, and a daemon,  *)
(* which locks the process-ID file, detaches, runs miredo() (module        *)
(* MiredoDaemon) and removes the file.                                     *)
(*                                                                         *)
(* lockf() locks an inode, and unlink() takes away its name only.          *)
(***************************************************************************)
EXTENDS Integers, FiniteSets

CONSTANTS
    Instances,   \* the instances
    MaxInodes    \* bound: process-ID files that are created in turn

Nobody == "nobody"
ASSUME StartAssumption == Nobody \notin Instances /\ MaxInodes \in Nat

VARIABLES
    foreground, \* foreground[i]: option -f
    where,      \* where[i]: where instance i is
    result,     \* result[i]: what its launcher has returned, or -1
    pipe,       \* pipe[i]: "open", "ok" (a status of 0 was written) or "closed"
    name,       \* the inode of the process-ID file, or 0
    pidfd,      \* pidfd[i]: the inode that i has open, or 0
    locker,     \* locker[n]: who holds the lock of inode n
    text,       \* text[n]: whose process ID is in it
    made        \* inodes made so far

startVars == <<foreground, where, result, pipe, name, pidfd, locker, text, made>>
Inodes == 1..MaxInodes
files == <<name, pidfd, locker, text, made>>

StartInit ==
    /\ foreground \in [Instances -> BOOLEAN]
    /\ where = [i \in Instances |-> "options"]
    /\ result = [i \in Instances |-> -1]
    /\ pipe = [i \in Instances |-> "open"]
    /\ name = 0 /\ pidfd = [i \in Instances |-> 0]
    /\ locker = [n \in Inodes |-> Nobody] /\ text = [n \in Inodes |-> Nobody]
    /\ made = 0

GoesTo(i, w) == where' = [where EXCEPT ![i] = w]

\* exit() closes the descriptors: the pipe and, with it the lock, the file.
Exits(i, c) ==
    /\ GoesTo(i, "gone")
    /\ pipe' = [pipe EXCEPT ![i] = IF @ = "open" THEN "closed" ELSE @]
    /\ pidfd' = [pidfd EXCEPT ![i] = 0]
    /\ locker' = [n \in Inodes |-> IF locker[n] = i THEN Nobody ELSE locker[n]]
    /\ result' = IF foreground[i] THEN [result EXCEPT ![i] = c] ELSE result
    /\ UNCHANGED <<foreground, name, made>>

-----------------------------------------------------------------------------
\* The command line, the files it names, the privileges and the diagnosis, each
\* of which may end the program before there is a daemon.
ParseOptions(i) ==
    /\ where[i] = "options"
    /\ \/ GoesTo(i, "security") /\ UNCHANGED result
       \/ \E c \in {0, 1, 2} : GoesTo(i, "ended") /\ result' = [result EXCEPT ![i] = c]
    /\ UNCHANGED <<foreground, pipe, files>>
InitSecurity(i) ==
    /\ where[i] = "security"
    /\ \/ GoesTo(i, "pidfile") /\ UNCHANGED result
       \/ GoesTo(i, "ended") /\ result' = [result EXCEPT ![i] = 1]
    /\ UNCHANGED <<foreground, pipe, files>>

(* The launcher reads a status from the pipe; its end is a failure. *)
LauncherReturns(i) ==
    /\ ~foreground[i] /\ where[i] \notin {"options", "security", "ended"}
    /\ result[i] = -1 /\ pipe[i] # "open"
    /\ result' = [result EXCEPT ![i] = IF pipe[i] = "ok" THEN 0 ELSE 1]
    /\ UNCHANGED <<foreground, where, pipe, files>>

-----------------------------------------------------------------------------
(* create_pidfile() *)

\* The file is emptied when it is opened.
SlipOpenPidfile(i) ==
    \/ /\ where[i] = "pidfile" /\ name # 0
       /\ pidfd' = [pidfd EXCEPT ![i] = name]
       /\ text' = [text EXCEPT ![name] = Nobody]
       /\ GoesTo(i, "lock")
       /\ UNCHANGED <<foreground, result, pipe, name, locker, made>>
    \/ /\ where[i] = "pidfile" /\ name = 0 /\ made < MaxInodes
       /\ name' = made + 1 /\ made' = made + 1
       /\ pidfd' = [pidfd EXCEPT ![i] = made + 1]
       /\ GoesTo(i, "lock")
       /\ UNCHANGED <<foreground, result, pipe, locker, text>>
OpenPidfile(i) ==
    /\ where[i] = "pidfile"
    /\ \/ /\ name # 0
          /\ pidfd' = [pidfd EXCEPT ![i] = name]
          /\ UNCHANGED <<name, made>>
       \/ /\ name = 0 /\ made < MaxInodes
          /\ name' = made + 1 /\ made' = made + 1
          /\ pidfd' = [pidfd EXCEPT ![i] = made + 1]
    /\ GoesTo(i, "lock")
    /\ UNCHANGED <<foreground, result, pipe, locker, text>>
OpenFails(i) == where[i] = "pidfile" /\ Exits(i, 1) /\ UNCHANGED text

\* lockf(F_TLOCK) does not wait.
LockPidfile(i) ==
    /\ where[i] = "lock"
    /\ \/ /\ locker[pidfd[i]] = Nobody
          /\ locker' = [locker EXCEPT ![pidfd[i]] = i]
          /\ GoesTo(i, "write")
          /\ UNCHANGED <<foreground, result, pipe, name, pidfd, text, made>>
       \/ locker[pidfd[i]] # Nobody /\ Exits(i, 1) /\ UNCHANGED text

\* ftruncate(), write(), fdatasync(), of which each may fail.
WritePidfile(i) ==
    /\ where[i] = "write"
    /\ text' = [text EXCEPT ![pidfd[i]] = i]
    /\ GoesTo(i, "detach")
    /\ UNCHANGED <<foreground, result, pipe, name, pidfd, locker, made>>
WriteFails(i) ==
    /\ where[i] = "write"
    /\ text' = [text EXCEPT ![pidfd[i]] = Nobody]
    /\ Exits(i, 1)

-----------------------------------------------------------------------------
\* In the background: setsid(), the standard streams and the status for the
\* launcher.
Detach(i) ==
    /\ where[i] = "detach"
    /\ \/ /\ GoesTo(i, "run")
          /\ pipe' = [pipe EXCEPT ![i] = IF foreground[i] THEN "closed" ELSE "ok"]
          /\ UNCHANGED <<foreground, result, files>>
       \/ ~foreground[i] /\ Exits(i, 1) /\ UNCHANGED text

\* miredo() returns.
RunEnds(i) ==
    /\ where[i] = "run"
    /\ GoesTo(i, "unlink")
    /\ UNCHANGED <<foreground, result, pipe, files>>
UnlinkPidfile(i) ==
    /\ where[i] = "unlink"
    /\ name' = 0
    /\ GoesTo(i, "close")
    /\ UNCHANGED <<foreground, result, pipe, pidfd, locker, text, made>>
ClosePidfile(i) == where[i] = "close" /\ \E c \in {0, 1} : Exits(i, c) /\ UNCHANGED text

\* The system kills the daemon.
Kill(i) ==
    /\ where[i] \in {"lock", "write", "detach", "run", "unlink", "close"}
    /\ Exits(i, 1) /\ UNCHANGED text

StartNext ==
    \E i \in Instances :
       \/ ParseOptions(i) \/ InitSecurity(i) \/ LauncherReturns(i)
       \/ OpenPidfile(i) \/ OpenFails(i) \/ LockPidfile(i) \/ WritePidfile(i) \/ WriteFails(i)
       \/ Detach(i) \/ RunEnds(i) \/ UnlinkPidfile(i) \/ ClosePidfile(i) \/ Kill(i)

StartSpec == StartInit /\ [][StartNext]_startVars

-----------------------------------------------------------------------------
\* While a daemon runs, the file it has locked has its process ID, whatever
\* other instances start, fail or end meanwhile: create_pidfile() does not touch
\* the file before it has the lock.
PidIsOwners == \A i \in Instances : where[i] \in {"detach", "run", "unlink"} => text[pidfd[i]] = i

=============================================================================
