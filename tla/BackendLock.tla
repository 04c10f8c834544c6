---------------------------- MODULE BackendLock ----------------------------
(***************************************************************************)
(* acquireBackendLock (cmd/longmemeval/backend_lock.go): harness processes *)
(* that share a generator take an flock on a file they open by path and    *)
(* write their pid into it.  Each step is one system call.                 *)
(***************************************************************************)
EXTENDS Naturals, FiniteSets

CONSTANTS
    Procs,          \* positive pids
    MaxInodes,      \* bound: lock files ever created
    MaxLockFaults   \* bound: failing truncates and writes

ASSUME LockAssumption == MaxInodes \in Nat /\ \A p \in Procs : p \in Nat \ {0}

VARIABLES
    path,       \* the inode the lock path names, 0 when it names none
    made,       \* inodes created so far
    holder,     \* per inode: the process that has the flock, or 0
    pidRecord,  \* per inode: the recorded pid, 0 when empty
    lockPc,     \* per process: where it is
    fd,         \* per process: the inode it has open
    removals,   \* how often the lock file was removed
    lockFaults

lockVars == <<path, made, holder, pidRecord, lockPc, fd, removals, lockFaults>>

Inodes == 1 .. MaxInodes

LockInit ==
    /\ path = 0 /\ made = 0
    /\ holder = [i \in Inodes |-> 0]
    /\ pidRecord = [i \in Inodes |-> 0]
    /\ lockPc = [p \in Procs |-> "start"]
    /\ fd = [p \in Procs |-> 0]
    /\ removals = 0 /\ lockFaults = 0

Goes(p, from, to) == lockPc[p] = from /\ lockPc' = [lockPc EXCEPT ![p] = to]

(* os.OpenFile with O_CREATE, before the try and before the reclaim *)
OpenLock(p) ==
    /\ \/ Goes(p, "start", "try")
       \/ Goes(p, "reopen", "block")
    /\ \/ path # 0 /\ fd' = [fd EXCEPT ![p] = path] /\ UNCHANGED <<path, made>>
       \/ /\ path = 0 /\ made < MaxInodes
          /\ made' = made + 1 /\ path' = made'
          /\ fd' = [fd EXCEPT ![p] = made']
    /\ UNCHANGED <<holder, pidRecord, removals, lockFaults>>

(* LOCK_EX|LOCK_NB *)
TryLock(p) ==
    /\ \/ /\ Goes(p, "try", "truncate") /\ holder[fd[p]] = 0
          /\ holder' = [holder EXCEPT ![fd[p]] = p]
       \/ /\ Goes(p, "try", "read") /\ holder[fd[p]] # 0
          /\ UNCHANGED holder
    /\ UNCHANGED <<path, made, pidRecord, fd, removals, lockFaults>>

(* LOCK_EX of the reclaim *)
BlockLock(p) ==
    /\ Goes(p, "block", "truncate") /\ holder[fd[p]] = 0
    /\ holder' = [holder EXCEPT ![fd[p]] = p]
    /\ UNCHANGED <<path, made, pidRecord, fd, removals, lockFaults>>

(* Truncate and WriteAt: in between the record is empty *)
Record(p) ==
    /\ \/ Goes(p, "truncate", "write") /\ pidRecord' = [pidRecord EXCEPT ![fd[p]] = 0]
       \/ Goes(p, "write", "held") /\ pidRecord' = [pidRecord EXCEPT ![fd[p]] = p]
    /\ UNCHANGED <<path, made, holder, fd, removals, lockFaults>>

Unlocked(p) == [holder EXCEPT ![fd[p]] = IF @ = p THEN 0 ELSE @]

(* a failed record: unlock, close and remove the file by its path *)
RecordFails(p) ==
    /\ lockFaults < MaxLockFaults /\ lockFaults' = lockFaults + 1
    /\ lockPc[p] \in {"truncate", "write"}
    /\ lockPc' = [lockPc EXCEPT ![p] = "remove"]
    /\ holder' = Unlocked(p)
    /\ fd' = [fd EXCEPT ![p] = 0]
    /\ UNCHANGED <<path, made, pidRecord, removals>>

RemoveLock(p) ==
    /\ Goes(p, "remove", "refused")
    /\ path' = 0
    /\ removals' = removals + (IF path = 0 THEN 0 ELSE 1)
    /\ UNCHANGED <<made, holder, pidRecord, fd, lockFaults>>

(* isProcessAlive *)
Alive(pid) == pid # 0 /\ lockPc[pid] # "dead"

(* os.ReadFile by the path: no file, or a live pid, and the run exits 75; a
   record that is empty or names a dead process starts the reclaim *)
ReadRecord(p) ==
    /\ fd' = [fd EXCEPT ![p] = 0]
    /\ IF path = 0 \/ Alive(pidRecord[path])
       THEN Goes(p, "read", "refused")
       ELSE Goes(p, "read", "reopen")
    /\ UNCHANGED <<path, made, holder, pidRecord, removals, lockFaults>>

(* mutant: the file is removed with the lock *)
ReleaseRemoves(p) ==
    /\ Goes(p, "held", "done")
    /\ holder' = Unlocked(p) /\ fd' = [fd EXCEPT ![p] = 0]
    /\ path' = 0
    /\ UNCHANGED <<made, pidRecord, removals, lockFaults>>

(* the release function keeps the file and its record *)
Release(p) ==
    /\ Goes(p, "held", "done")
    /\ holder' = Unlocked(p) /\ fd' = [fd EXCEPT ![p] = 0]
    /\ UNCHANGED <<path, made, pidRecord, removals, lockFaults>>

(* a process exits or is killed: the kernel drops its lock *)
Die(p) ==
    /\ lockPc[p] \notin {"start", "dead"}
    /\ lockPc' = [lockPc EXCEPT ![p] = "dead"]
    /\ holder' = [i \in Inodes |-> IF holder[i] = p THEN 0 ELSE holder[i]]
    /\ fd' = [fd EXCEPT ![p] = 0]
    /\ UNCHANGED <<path, made, pidRecord, removals, lockFaults>>

LockStep(p) ==
    \/ OpenLock(p) \/ TryLock(p) \/ BlockLock(p) \/ Record(p) \/ RecordFails(p)
    \/ RemoveLock(p) \/ ReadRecord(p) \/ Release(p)

LockNext == \E p \in Procs : LockStep(p) \/ Die(p)

(* a process runs on; who holds the lock releases it *)
LockFairness == \A p \in Procs : WF_lockVars(LockStep(p))

LockSpec == LockInit /\ [][LockNext]_lockVars /\ LockFairness

-----------------------------------------------------------------------------
(* Properties *)

InUse == {p \in Procs : lockPc[p] = "held"}

(* One run at a time uses the generator.  Removing the lock file after a
   failed write, while others have it open, lets one more in each time. *)
OneRunPerBackend == Cardinality(InUse) =< 1 + removals

=============================================================================
