-------------------------- MODULE MiredoStartProofs --------------------------
(***************************************************************************)
(* Proof that a running miredo finds its own process ID in the file it has *)
(* locked, for any number of instances and of files.  The invariant says   *)
(* that an instance past create_pidfile()'s lockf() holds the lock of the  *)
(* file it has open: two such instances have different files, so that the  *)
(* only writers of a file are its holder and those that held it before.    *)
(***************************************************************************)
EXTENDS MiredoStart, TLAPS

Holding == {"write", "detach", "run", "unlink", "close"}
Written == {"detach", "run", "unlink"}

Places == Holding \cup {"options", "security", "ended", "pidfile", "lock", "gone"}

StartTypes ==
    /\ where \in [Instances -> Places]
    /\ name \in 0..MaxInodes /\ made \in 0..MaxInodes
    /\ pidfd \in [Instances -> 0..MaxInodes]
    /\ locker \in [Inodes -> Instances \cup {Nobody}]
    /\ text \in [Inodes -> Instances \cup {Nobody}]

StartInv ==
    /\ StartTypes
    /\ \A i \in Instances : where[i] \in Holding \cup {"lock"} => pidfd[i] \in Inodes
    /\ \A i \in Instances : where[i] \in Holding => locker[pidfd[i]] = i
    /\ PidIsOwners

-----------------------------------------------------------------------------
\* An instance that ends lets go of its own lock only.
LEMMA ExitsSafe ==
    ASSUME StartInv, NEW i \in Instances, NEW c, Exits(i, c), UNCHANGED text
    PROVE  StartInv'
<1> USE StartAssumption DEF Inodes
<1>1. StartTypes'
  <2>1. where' \in [Instances -> Places]
    BY DEF StartInv, StartTypes, Exits, GoesTo, Places
  <2>2. name' \in 0..MaxInodes /\ made' \in 0..MaxInodes
    BY DEF StartInv, StartTypes, Exits, GoesTo
  <2>3. pidfd' \in [Instances -> 0..MaxInodes]
    BY DEF StartInv, StartTypes, Exits, GoesTo
  <2>4. locker' \in [Inodes -> Instances \cup {Nobody}]
    BY DEF StartInv, StartTypes, Exits, GoesTo
  <2>5. QED
    BY <2>1, <2>2, <2>3, <2>4 DEF StartInv, StartTypes
<1>2. \A j \in Instances : where'[j] = IF j = i THEN "gone" ELSE where[j]
  BY DEF StartInv, StartTypes, Exits, GoesTo
<1>3. \A j \in Instances : j # i => pidfd'[j] = pidfd[j]
  BY DEF StartInv, StartTypes, Exits
<1>4. ASSUME NEW j \in Instances, where'[j] \in Holding \cup {"lock"}
      PROVE  j # i /\ pidfd'[j] \in Inodes /\ where'[j] = where[j]
  BY <1>2, <1>3, <1>4 DEF StartInv, Holding
<1>5. ASSUME NEW j \in Instances, where'[j] \in Holding
      PROVE  locker'[pidfd'[j]] = j
  <2>1. j # i /\ pidfd'[j] \in Inodes /\ where'[j] = where[j]
    BY <1>4, <1>5
  <2>2. locker[pidfd[j]] = j /\ pidfd'[j] = pidfd[j]
    BY <2>1, <1>3, <1>5 DEF StartInv
  <2>3. QED
    BY <2>1, <2>2 DEF Exits
<1>6. PidIsOwners'
  BY <1>2, <1>3 DEF StartInv, PidIsOwners, Written
<1>7. QED
  BY <1>1, <1>4, <1>5, <1>6 DEF StartInv

\* Nor does anything change for a step that only moves from one place to another
\* where no more is asked.
LEMMA MoveSafe ==
    ASSUME StartInv, NEW i \in Instances, NEW w \in Places, GoesTo(i, w), UNCHANGED files,
           w \in Written => where[i] \in Written, w \in Holding => where[i] \in Holding,
           w # "lock"
    PROVE  StartInv'
<1> USE DEF Inodes
<1>1. StartTypes'
  BY DEF StartInv, StartTypes, GoesTo, files
<1>2. \A j \in Instances : where'[j] = IF j = i THEN w ELSE where[j]
  BY DEF StartInv, StartTypes, GoesTo
<1>3. PidIsOwners'
  BY <1>2 DEF StartInv, PidIsOwners, files, Written
<1>4. QED
  BY <1>1, <1>2, <1>3 DEF StartInv, files, Holding

-----------------------------------------------------------------------------
LEMMA InitSafe == StartInit => StartInv
BY StartAssumption DEF StartInit, StartInv, StartTypes, PidIsOwners, Inodes, Holding, Places

LEMMA OpenSafe ==
    ASSUME StartInv, NEW i \in Instances, OpenPidfile(i)
    PROVE  StartInv'
<1> USE StartAssumption DEF Inodes
<1>1. /\ where[i] = "pidfile" /\ where' = [where EXCEPT ![i] = "lock"]
      /\ UNCHANGED <<locker, text>>
  BY DEF OpenPidfile, GoesTo
<1>2. PICK n \in Inodes : /\ pidfd' = [pidfd EXCEPT ![i] = n]
                          /\ name' \in 0..MaxInodes /\ made' \in 0..MaxInodes
  <2>1. CASE name # 0 /\ pidfd' = [pidfd EXCEPT ![i] = name] /\ UNCHANGED <<name, made>>
    <3>1. name \in Inodes /\ name' \in 0..MaxInodes /\ made' \in 0..MaxInodes
      BY <2>1 DEF StartInv, StartTypes
    <3>2. QED
      BY <2>1, <3>1
  <2>2. CASE /\ made < MaxInodes /\ name' = made + 1 /\ made' = made + 1
             /\ pidfd' = [pidfd EXCEPT ![i] = made + 1]
    <3>1. made + 1 \in Inodes /\ made + 1 \in 0..MaxInodes
      BY <2>2 DEF StartInv, StartTypes
    <3>2. QED
      BY <2>2, <3>1
  <2>3. QED
    BY <2>1, <2>2 DEF OpenPidfile
<1>3. StartTypes'
  BY <1>1, <1>2 DEF StartInv, StartTypes, Places
<1>4. \A j \in Instances : /\ where'[j] = IF j = i THEN "lock" ELSE where[j]
                           /\ pidfd'[j] = IF j = i THEN n ELSE pidfd[j]
  BY <1>1, <1>2 DEF StartInv, StartTypes
<1>5. PidIsOwners'
  BY <1>1, <1>4 DEF StartInv, PidIsOwners
<1>6. QED
  BY <1>1, <1>3, <1>4, <1>5 DEF StartInv, Holding

LEMMA LockSafe ==
    ASSUME StartInv, NEW i \in Instances, LockPidfile(i)
    PROVE  StartInv'
<1> USE StartAssumption DEF Inodes
<1>1. CASE Exits(i, 1) /\ UNCHANGED text
  BY <1>1, ExitsSafe
<1>2. CASE /\ locker[pidfd[i]] = Nobody /\ locker' = [locker EXCEPT ![pidfd[i]] = i]
           /\ GoesTo(i, "write") /\ UNCHANGED <<name, pidfd, text, made>>
  <2>1. where[i] = "lock" /\ pidfd[i] \in Inodes
    BY DEF LockPidfile, StartInv
  <2>2. StartTypes'
    BY <1>2, <2>1 DEF StartInv, StartTypes, GoesTo, Places, Holding
  <2>3. \A j \in Instances : where'[j] = IF j = i THEN "write" ELSE where[j]
    BY <1>2 DEF StartInv, StartTypes, GoesTo
  <2>4. \A j \in Instances : where'[j] \in Holding \cup {"lock"} => pidfd'[j] \in Inodes
    BY <1>2, <2>1, <2>3 DEF StartInv, Holding
  <2>5. ASSUME NEW j \in Instances, where'[j] \in Holding
        PROVE  locker'[pidfd'[j]] = j
    <3>1. CASE j = i
      BY <1>2, <2>1, <3>1 DEF StartInv, StartTypes
    <3>2. CASE j # i
      <4>1. locker[pidfd[j]] = j /\ pidfd[j] \in Inodes
        BY <2>3, <2>5, <3>2 DEF StartInv
      <4>2. pidfd[j] # pidfd[i]
        BY <1>2, <4>1
      <4>3. QED
        BY <1>2, <4>1, <4>2 DEF StartInv, StartTypes
    <3>3. QED
      BY <3>1, <3>2
  <2>6. PidIsOwners'
    BY <1>2, <2>3 DEF StartInv, PidIsOwners
  <2>7. QED
    BY <2>2, <2>4, <2>5, <2>6 DEF StartInv
<1>3. QED
  BY <1>1, <1>2 DEF LockPidfile

\* Whoever writes a file holds its lock, so that it is nobody else's.
LEMMA WriteSafe ==
    ASSUME StartInv, NEW i \in Instances, where[i] = "write",
           NEW t \in Instances \cup {Nobody}, text' = [text EXCEPT ![pidfd[i]] = t]
    PROVE  /\ text' \in [Inodes -> Instances \cup {Nobody}] /\ text'[pidfd[i]] = t
           /\ \A j \in Instances : j # i /\ where[j] \in Written => text'[pidfd[j]] = j
<1> USE StartAssumption DEF Inodes
<1>1. pidfd[i] \in Inodes /\ locker[pidfd[i]] = i
  BY DEF StartInv, Holding
<1>2. text' \in [Inodes -> Instances \cup {Nobody}] /\ text'[pidfd[i]] = t
  BY <1>1 DEF StartInv, StartTypes
<1>3. ASSUME NEW j \in Instances, j # i, where[j] \in Written
      PROVE  text'[pidfd[j]] = j
  <2>1. locker[pidfd[j]] = j /\ pidfd[j] \in Inodes /\ text[pidfd[j]] = j
    BY <1>3 DEF StartInv, PidIsOwners, Holding, Written
  <2>2. pidfd[j] # pidfd[i]
    BY <1>1, <1>3, <2>1
  <2>3. QED
    BY <1>1, <2>1, <2>2 DEF StartInv, StartTypes
<1>4. QED
  BY <1>2, <1>3

LEMMA WritesSafe ==
    ASSUME StartInv, NEW i \in Instances, WritePidfile(i) \/ WriteFails(i)
    PROVE  StartInv'
<1> USE StartAssumption DEF Inodes
<1>0. where[i] = "write"
  BY DEF WritePidfile, WriteFails
<1>1. CASE WritePidfile(i)
  <2>1. /\ text' \in [Inodes -> Instances \cup {Nobody}] /\ text'[pidfd[i]] = i
        /\ \A j \in Instances : j # i /\ where[j] \in Written => text'[pidfd[j]] = j
    BY <1>0, <1>1, WriteSafe DEF WritePidfile
  <2>2. \A j \in Instances : where'[j] = IF j = i THEN "detach" ELSE where[j]
    BY <1>1 DEF WritePidfile, GoesTo, StartInv, StartTypes
  <2>3. StartTypes'
    BY <1>1, <2>1 DEF WritePidfile, GoesTo, StartInv, StartTypes, Places, Holding
  <2>4. PidIsOwners'
    BY <1>1, <2>1, <2>2 DEF WritePidfile, PidIsOwners, Written
  <2>5. QED
    BY <1>0, <1>1, <2>2, <2>3, <2>4 DEF WritePidfile, StartInv, Holding
<1>2. CASE WriteFails(i)
  <2>1. /\ text' \in [Inodes -> Instances \cup {Nobody}]
        /\ \A j \in Instances : j # i /\ where[j] \in Written => text'[pidfd[j]] = j
    BY <1>0, <1>2, WriteSafe DEF WriteFails
  <2>2. /\ \A j \in Instances : where'[j] = IF j = i THEN "gone" ELSE where[j]
        /\ \A j \in Instances : pidfd'[j] = IF j = i THEN 0 ELSE pidfd[j]
    BY <1>2 DEF WriteFails, Exits, GoesTo, StartInv, StartTypes
  <2>3. StartTypes'
    BY <1>2, <2>1 DEF WriteFails, Exits, GoesTo, StartInv, StartTypes, Places
  <2>4. PidIsOwners'
    BY <2>1, <2>2 DEF PidIsOwners, Written
  <2>5. \A j \in Instances : where'[j] \in Holding \cup {"lock"} =>
            j # i /\ where[j] = where'[j] /\ pidfd'[j] = pidfd[j] /\ pidfd[j] \in Inodes
    BY <2>2 DEF StartInv, Holding
  <2>6. ASSUME NEW j \in Instances, where'[j] \in Holding
        PROVE  locker'[pidfd'[j]] = j
    <3>1. j # i /\ pidfd'[j] = pidfd[j] /\ pidfd[j] \in Inodes /\ locker[pidfd[j]] = j
      BY <2>5, <2>6 DEF StartInv
    <3>2. QED
      BY <1>2, <3>1 DEF WriteFails, Exits
  <2>7. QED
    BY <2>3, <2>4, <2>5, <2>6 DEF StartInv
<1>3. QED
  BY <1>1, <1>2

\* The file's name goes; whoever has the file open keeps it.
LEMMA UnlinkSafe ==
    ASSUME StartInv, NEW i \in Instances, UnlinkPidfile(i)
    PROVE  StartInv'
<1> USE StartAssumption DEF Inodes
<1>1. \A j \in Instances : where'[j] = IF j = i THEN "close" ELSE where[j]
  BY DEF UnlinkPidfile, GoesTo, StartInv, StartTypes
<1>2. StartTypes'
  BY DEF UnlinkPidfile, GoesTo, StartInv, StartTypes, Places, Holding
<1>3. PidIsOwners'
  BY <1>1 DEF UnlinkPidfile, StartInv, PidIsOwners
<1>4. QED
  BY <1>1, <1>2, <1>3 DEF UnlinkPidfile, StartInv, Holding

LEMMA StepSafe == StartInv /\ [StartNext]_startVars => StartInv'
<1> SUFFICES ASSUME StartInv, [StartNext]_startVars PROVE StartInv'
  OBVIOUS
<1>1. CASE UNCHANGED startVars
  BY <1>1 DEF startVars, StartInv, StartTypes, PidIsOwners
<1>2. ASSUME NEW i \in Instances,
             \/ ParseOptions(i) \/ InitSecurity(i) \/ LauncherReturns(i)
             \/ OpenPidfile(i) \/ OpenFails(i) \/ LockPidfile(i) \/ WritePidfile(i) \/ WriteFails(i)
             \/ Detach(i) \/ RunEnds(i) \/ UnlinkPidfile(i) \/ ClosePidfile(i) \/ Kill(i)
      PROVE  StartInv'
  <2>1. CASE ParseOptions(i)
    <3>1. PICK w \in {"security", "ended"} : GoesTo(i, w) /\ UNCHANGED files
      BY <2>1 DEF ParseOptions
    <3>2. QED
      BY <3>1, MoveSafe DEF Written, Holding, Places
  <2>2. CASE InitSecurity(i)
    <3>1. PICK w \in {"pidfile", "ended"} : GoesTo(i, w) /\ UNCHANGED files
      BY <2>2 DEF InitSecurity
    <3>2. QED
      BY <3>1, MoveSafe DEF Written, Holding, Places
  <2>3. CASE LauncherReturns(i)
    BY <2>3 DEF LauncherReturns, files, StartInv, StartTypes, PidIsOwners
  <2>4. CASE OpenPidfile(i)
    BY <2>4, OpenSafe
  <2>5. CASE OpenFails(i) \/ ClosePidfile(i) \/ Kill(i)
    BY <2>5, ExitsSafe DEF OpenFails, ClosePidfile, Kill
  <2>6. CASE LockPidfile(i)
    BY <2>6, LockSafe
  <2>7. CASE WritePidfile(i) \/ WriteFails(i)
    BY <2>7, WritesSafe
  <2>8. CASE Detach(i)
    <3>1. CASE GoesTo(i, "run") /\ UNCHANGED files
      BY <2>8, <3>1, MoveSafe DEF Detach, Written, Holding, Places
    <3>2. QED
      BY <2>8, <3>1, ExitsSafe DEF Detach
  <2>9. CASE RunEnds(i)
    BY <2>9, MoveSafe DEF RunEnds, Written, Holding, Places
  <2>10. CASE UnlinkPidfile(i)
    BY <2>10, UnlinkSafe
  <2>11. QED
    BY <1>2, <2>1, <2>2, <2>3, <2>4, <2>5, <2>6, <2>7, <2>8, <2>9, <2>10
<1>3. QED
  BY <1>1, <1>2 DEF StartNext

-----------------------------------------------------------------------------
\* For any number of instances that start, fail, end or are killed at the same
\* time, the file a running miredo has locked holds its own process ID
\* (create_pidfile and the end of miredo_main, main.c).
THEOREM PidSafe == StartSpec => []PidIsOwners
<1>1. StartInv => PidIsOwners
  BY DEF StartInv
<1>2. QED
  BY <1>1, InitSafe, StepSafe, PTL DEF StartSpec
=============================================================================
