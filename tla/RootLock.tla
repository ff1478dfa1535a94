------------------------------ MODULE RootLock ------------------------------
(* A lock file that its holder removes: TryAcquireIn and lockNamed            *)
(* (src/internal/lock/root.go) and Release (src/internal/lock/lock.go).       *)
(*                                                                            *)
(* The system locks the open file (an inode), not its name: a process may     *)
(* lock a file whose name has been removed or given to another file.          *)
EXTENDS Naturals

CONSTANTS
    Lockers,      \* processes
    NoLocker,     \* a file nobody has locked
    RootAttempts, \* rootAttempts
    MaxFiles      \* bound: files created under the name

ASSUME RootLockConstants ==
    RootAttempts \in Nat \ {0} /\ MaxFiles \in Nat \ {0} /\ NoLocker \notin Lockers

VARIABLES
    lockName,  \* the file the name refers to; 0 when there is none
    lockFiles,     \* files created so far
    lockedBy,  \* the process that has locked each file
    locker     \* each process

rootLockVars == <<lockName, lockFiles, lockedBy, locker>>

Away == [at |-> "away", file |-> 0, attempt |-> 0, contended |-> FALSE]

RootLockTypeOK ==
    /\ lockName \in 0 .. MaxFiles /\ lockFiles \in 0 .. MaxFiles
    /\ lockedBy \in [1 .. MaxFiles -> Lockers \cup {NoLocker}]
    /\ locker \in [Lockers -> [at : {"away", "open", "lock", "confirm", "held", "removed", "refused"},
                               file : 0 .. MaxFiles, attempt : 0 .. RootAttempts, contended : BOOLEAN]]

RootLockInit ==
    /\ lockName = 0 /\ lockFiles = 0
    /\ lockedBy = [f \in 1 .. MaxFiles |-> NoLocker]
    /\ locker = [p \in Lockers |-> Away]

File(p) == locker[p].file

Unlocked(p) == lockedBy' = [lockedBy EXCEPT ![File(p)] = NoLocker]

-----------------------------------------------------------------------------
(* The history "contended": another process had the lock during the attempt.  *)
Contend ==
    [q \in Lockers |->
        IF locker[q].at \in {"open", "lock", "confirm"}
        THEN [locker[q] EXCEPT !.contended = TRUE] ELSE locker[q]]

Busy == \E p \in Lockers : locker[p].at \in {"confirm", "held", "removed"}

TryAcquireIn(p) ==
    /\ locker[p].at = "away"
    /\ locker' = [locker EXCEPT ![p].at = "open", ![p].contended = Busy]
    /\ UNCHANGED <<lockName, lockFiles, lockedBy>>

(* OpenFile with O_CREATE.                                                    *)
OpenName(p) ==
    /\ locker[p].at = "open"
    /\ \/ lockName # 0 /\ UNCHANGED <<lockName, lockFiles>>
       \/ lockName = 0 /\ lockFiles < MaxFiles /\ lockFiles' = lockFiles + 1 /\ lockName' = lockFiles + 1
    /\ locker' = [locker EXCEPT ![p].at = "lock", ![p].file = lockName', ![p].attempt = @ + 1]
    /\ UNCHANGED lockedBy

(* lockFile does not wait.                                                    *)
LockFile(p) ==
    /\ locker[p].at = "lock"
    /\ IF lockedBy[File(p)] = NoLocker
       THEN /\ lockedBy' = [lockedBy EXCEPT ![File(p)] = p]
            /\ locker' = [Contend EXCEPT ![p] = [locker[p] EXCEPT !.at = "confirm"]]
       ELSE /\ locker' = [locker EXCEPT ![p].at = "refused"]
            /\ UNCHANGED lockedBy
    /\ UNCHANGED <<lockName, lockFiles>>

(* Mutant: a lock on a removed file counts.                                   *)
AnyFile(p) == TRUE

SameFile(p) == lockName = File(p)

(* lockNamed keeps the lock only when the name still refers to the file.      *)
Confirm(p) ==
    /\ locker[p].at = "confirm"
    /\ IF SameFile(p)
       THEN locker' = [locker EXCEPT ![p].at = "held"] /\ UNCHANGED lockedBy
       ELSE /\ Unlocked(p)
            /\ locker' = [locker EXCEPT ![p].at =
                    IF locker[p].attempt = RootAttempts THEN "refused" ELSE "open"]
    /\ UNCHANGED <<lockName, lockFiles>>

(* Release removes the name first, whatever file it refers to, then unlocks.  *)
RemoveName(p) ==
    /\ locker[p].at = "held"
    /\ lockName' = 0
    /\ locker' = [locker EXCEPT ![p].at = "removed"]
    /\ UNCHANGED <<lockFiles, lockedBy>>

UnlockRemoved(p) ==
    /\ locker[p].at = "removed"
    /\ Unlocked(p)
    /\ locker' = [locker EXCEPT ![p] = Away]
    /\ UNCHANGED <<lockName, lockFiles>>

(* A killed process leaves the file; the system drops its lock.               *)
KillLocker(p) ==
    /\ locker[p].at \in {"lock", "confirm", "held", "removed"}
    /\ lockedBy' = [f \in 1 .. MaxFiles |-> IF lockedBy[f] = p THEN NoLocker ELSE lockedBy[f]]
    /\ locker' = [locker EXCEPT ![p] = Away]
    /\ UNCHANGED <<lockName, lockFiles>>

RootLockNext ==
    \E p \in Lockers :
        \/ TryAcquireIn(p) \/ OpenName(p) \/ LockFile(p) \/ Confirm(p)
        \/ RemoveName(p) \/ UnlockRemoved(p) \/ KillLocker(p)

RootLockSpec == RootLockInit /\ [][RootLockNext]_rootLockVars

-----------------------------------------------------------------------------
(* Two processes never hold the lock at once, although its file is removed    *)
(* and created again under them; and TryAcquireIn says that another process   *)
(* holds the lock only when one held it during the attempt: a file left by a  *)
(* killed holder refuses nobody.                                              *)
LockIsExclusive ==
    /\ RootLockTypeOK
    /\ \A p, q \in Lockers : locker[p].at = "held" /\ locker[q].at = "held" => p = q
    /\ \A p \in Lockers : locker[p].at = "refused" => locker[p].contended
=============================================================================
