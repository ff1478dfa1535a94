---------------------------- MODULE Credentials -----------------------------
(* The stored credential of one environment: the configuration holds an       *)
(* opaque reference, the credential store of the operating system the PAT and *)
(* the latest session behind it (src/internal/app/auth_credentials.go,        *)
(* environment.go and patStore of src/internal/auth/credentials.go).          *)
EXTENDS ConfigurationUpdate

CONSTANTS
    Refs,            \* references StorePAT draws; each is drawn once
    NoRef,
    MaxPATs          \* bound: PATs entered

ASSUME CredentialAssumption == NoRef \notin Refs /\ MaxPATs \in Nat

VARIABLES
    store,           \* the PAT (0: none) and the session (the PAT it is of) behind each reference
    refLock,         \* lockReference
    task,            \* the command of each process
    pats,            \* PATs entered so far
    remains             \* references left behind, as the user was told, or whose command died

credentialVars == <<store, refLock, task, pats, remains>>

NoTask == [op |-> "none", at |-> "idle", ref |-> NoRef, pat |-> 0]
Operations == {"login", "logout", "add", "remove"}

CredentialTypeOK ==
    /\ configuration.credential \in Refs \cup {NoRef} /\ configuration.environment \in BOOLEAN
    /\ store \in [Refs -> [pat : 0 .. MaxPATs, session : 0 .. MaxPATs]]
    /\ \A p \in Updaters :
        /\ task[p].op \in Operations \cup {"none", "save_session"}
        /\ task[p].at \in {"idle", "command", "delete", "locked", "deleted"}

CredentialInit ==
    /\ store = [r \in Refs |-> [pat |-> 0, session |-> 0]]
    /\ refLock = [r \in Refs |-> NoUpdater]
    /\ task = [p \in Updaters |-> NoTask]
    /\ pats = 0 /\ remains = {}

Enter(p, op) ==
    /\ task[p].at = "idle" /\ update[p].at = "none"
    /\ op = "login" => pats < MaxPATs /\ configuration.environment
    /\ task' = [task EXCEPT ![p] = [NoTask EXCEPT !.op = op, !.at = "command"]]
    /\ Enqueue(p)
    /\ UNCHANGED <<configuration, configLock, updateFaults, store, refLock, pats, remains>>

(* Mutant: a stored PAT is changed without the lock of its reference.              *)
AnyHolder(r) == TRUE

ReferenceFree(r) == refLock[r] = NoUpdater

CredentialTurn(p, op) == update[p].at = "mutate" /\ task[p].op = op

(* Store of a first PAT: it is stored before the reference to it.             *)
StoreNewPAT(p) ==
    /\ CredentialTurn(p, "login") /\ configuration.environment /\ configuration.credential = NoRef
    /\ \/ \E r \in Refs :
            /\ NoFault /\ pats < MaxPATs /\ store[r].pat = 0 /\ r \notin remains /\ \A q \in Updaters : task[q].ref # r
            /\ store' = [store EXCEPT ![r].pat = pats + 1] /\ pats' = pats + 1
            /\ task' = [task EXCEPT ![p].ref = r]
            /\ Proceed(p, [configuration EXCEPT !.credential = r], FALSE)
       \/ Fault /\ Refuse(p) /\ UNCHANGED <<store, task, pats>>
    /\ UNCHANGED <<refLock, remains>>

(* ReplacePAT under the reference's lock; the old session may stay, and is of *)
(* another PAT then.                                                          *)
ReplacePAT(p) ==
    LET r == configuration.credential IN
    /\ CredentialTurn(p, "login") /\ configuration.environment /\ r # NoRef
    /\ \/ /\ ReferenceFree(r) /\ pats < MaxPATs /\ pats' = pats + 1 /\ LeaveUnchanged(p)
          /\ \/ NoFault /\ store' = [store EXCEPT ![r] = [pat |-> pats', session |-> 0]]
             \/ Fault /\ store' = [store EXCEPT ![r].pat = pats']
       \/ Fault /\ UNCHANGED <<store, pats>> /\ Refuse(p)
    /\ UNCHANGED <<refLock, task, remains>>

(* Remove of a stored PAT clears the reference first.                         *)
ClearReference(p) ==
    /\ CredentialTurn(p, "logout") /\ configuration.environment
    /\ IF configuration.credential = NoRef THEN LeaveUnchanged(p) /\ UNCHANGED task
       ELSE /\ Proceed(p, [configuration EXCEPT !.credential = NoRef], TRUE)
            /\ task' = [task EXCEPT ![p].ref = configuration.credential]
    /\ UNCHANGED <<updateFaults, store, refLock, pats, remains>>

(* Add, and Remove of an environment without a stored PAT.                    *)
ChangeEnvironment(p) ==
    /\ task[p].op \in {"add", "remove"} /\ update[p].at = "mutate"
    /\ IF task[p].op = "add" /\ ~configuration.environment
       THEN Proceed(p, [configuration EXCEPT !.environment = TRUE], FALSE)
       ELSE IF task[p].op = "remove" /\ configuration.environment /\ configuration.credential = NoRef
       THEN Proceed(p, [configuration EXCEPT !.environment = FALSE], FALSE)
       ELSE Refuse(p)
    /\ UNCHANGED <<updateFaults, credentialVars>>

(* The environment was removed while the command waited.                      *)
EnvironmentGone(p) ==
    /\ task[p].op \in {"login", "logout"} /\ update[p].at = "mutate" /\ ~configuration.environment
    /\ Refuse(p)
    /\ UNCHANGED <<updateFaults, credentialVars>>

-----------------------------------------------------------------------------
(* DeletePAT, as the rollback of a login and as the post-save of a logout.    *)

MustDelete(p) == (task[p].op = "login" /\ update[p].at = "rollback") \/ update[p].at = "post"

Deleted(p, done) ==
    IF update[p].at = "post" THEN PostSaved(p, done) ELSE RolledBack(p)

(* A login reports the entry its rollback leaves behind.                      *)
DeleteFails(p, r) ==
    /\ Fault /\ Deleted(p, FALSE)
    /\ remains' = IF update[p].at = "rollback" THEN remains \cup {r} ELSE remains
    /\ task' = [task EXCEPT ![p].at = "command"]

DeleteSession(p) ==
    LET r == task[p].ref IN
    /\ MustDelete(p) /\ task[p].at = "command"
    /\ \/ ReferenceFree(r) /\ NoFault
          /\ refLock' = [refLock EXCEPT ![r] = p] /\ store' = [store EXCEPT ![r].session = 0]
          /\ task' = [task EXCEPT ![p].at = "delete"] /\ UNCHANGED <<configLock, update, remains>>
       \/ DeleteFails(p, r) /\ UNCHANGED <<refLock, store>>
    /\ UNCHANGED <<configuration, pats>>

DeleteEntry(p) ==
    LET r == task[p].ref IN
    /\ task[p].at = "delete"
    /\ \/ NoFault /\ Deleted(p, TRUE) /\ store' = [store EXCEPT ![r].pat = 0]
          /\ task' = [task EXCEPT ![p].at = "command"] /\ UNCHANGED remains
       \/ DeleteFails(p, r) /\ UNCHANGED store
    /\ refLock' = [refLock EXCEPT ![r] = NoUpdater]
    /\ UNCHANGED <<configuration, pats>>

(* A logout has nothing staged.                                               *)
NothingStaged(p) ==
    /\ update[p].at = "rollback" /\ task[p].op # "login"
    /\ RolledBack(p)
    /\ UNCHANGED <<configuration, updateFaults, credentialVars>>

(* orphanedCredentialError: the reference is gone for good, the entry is not. *)
Orphaned(p) == task[p].op = "logout" /\ update[p].result = "installed" /\ update[p].missed

EndCommand(p) ==
    /\ task[p].at = "command" /\ update[p].at = "ended"
    /\ remains' = IF Orphaned(p) THEN remains \cup {task[p].ref} ELSE remains
    /\ task' = [task EXCEPT ![p] = NoTask] /\ update' = [update EXCEPT ![p] = NoUpdate]
    /\ UNCHANGED <<configuration, configLock, updateFaults, store, refLock, pats>>

-----------------------------------------------------------------------------
(* SaveSession of a command that signed in with the PAT behind r: refused     *)
(* unless it is still the one stored.                                         *)
CheckSession(p, r) ==
    /\ task[p].at = "idle" /\ update[p].at = "none"
    /\ ReferenceFree(r) /\ store[r].pat # 0
    /\ refLock' = [refLock EXCEPT ![r] = p]
    /\ task' = [task EXCEPT ![p] = [op |-> "save_session", at |-> "locked", ref |-> r, pat |-> store[r].pat]]
    /\ UNCHANGED <<updateVars, store, pats, remains>>

WriteSession(p) ==
    LET r == task[p].ref IN
    /\ task[p].at = "locked"
    /\ \/ NoFault /\ store' = [store EXCEPT ![r].session = task[p].pat]
       \/ Fault /\ UNCHANGED store
    /\ refLock' = [refLock EXCEPT ![r] = NoUpdater]
    /\ task' = [task EXCEPT ![p] = NoTask]
    /\ UNCHANGED <<configuration, configLock, update, pats, remains>>

KillUpdater(p) ==
    /\ task[p].at # "idle" /\ Fault
    /\ DropUpdate(p)
    /\ refLock' = [r \in Refs |-> IF refLock[r] = p THEN NoUpdater ELSE refLock[r]]
    /\ remains' = IF task[p].op \in Operations /\ task[p].ref # NoRef THEN remains \cup {task[p].ref} ELSE remains
    /\ task' = [task EXCEPT ![p] = NoTask]
    /\ UNCHANGED <<store, pats>>

CredentialStep(p) ==
    \/ \E op \in Operations : Enter(p, op)
    \/ UpdateStep(p) /\ UNCHANGED credentialVars
    \/ StoreNewPAT(p) \/ ReplacePAT(p) \/ ClearReference(p) \/ ChangeEnvironment(p) \/ EnvironmentGone(p)
    \/ DeleteSession(p) \/ DeleteEntry(p) \/ NothingStaged(p) \/ EndCommand(p)
    \/ \E r \in Refs : CheckSession(p, r)
    \/ WriteSession(p) \/ KillUpdater(p)

(* The environment is in the configuration or not yet; workspaces take no     *)
(* part.                                                                      *)
CredentialSpec ==
    /\ configuration \in [environment : BOOLEAN, credential : {NoRef}, workspaces : {{}}]
    /\ UpdateInit /\ CredentialInit
    /\ [][\E p \in Updaters : CredentialStep(p)]_<<updateVars, credentialVars>>

-----------------------------------------------------------------------------
(* The reference in the configuration names a stored PAT of an environment    *)
(* that exists, whatever fails and whenever a command dies.  A stored PAT is  *)
(* referred to, or being worked on, unless its command died or told the user  *)
(* where it stays.  No session outlives its PAT.                              *)
CredentialsAgree ==
    /\ UpdateTypeOK /\ CredentialTypeOK
    /\ LET r == configuration.credential IN r # NoRef => configuration.environment /\ store[r].pat # 0
    /\ \A r \in Refs : store[r].pat # 0 =>
        r = configuration.credential \/ r \in remains \/ \E p \in Updaters : task[p].ref = r
    /\ \A r \in Refs : store[r].session # 0 => store[r].pat # 0
=============================================================================
