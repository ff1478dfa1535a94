------------------------- MODULE WorkspaceRegistry --------------------------
(* The registered workspaces and the directories they name: create, clone,    *)
(* register, unregister, delete, and the commands that work in one, of        *)
(* src/internal/workspace.  The registry is part of the configuration; a      *)
(* lifecycle lease on the path of a root, shared by its users, keeps deletion *)
(* out.  A workspace is the identity in its manifest: every create and clone  *)
(* makes a new directory with a new identity.                                 *)
EXTENDS ConfigurationUpdate

CONSTANTS
    Roots,           \* paths of workspace roots
    NoRoot,
    MaxIDs           \* bound: workspaces ever made

ASSUME RegistryAssumption == NoRoot \notin Roots /\ MaxIDs \in Nat \ {0}

VARIABLES
    place,           \* the workspace at each path (0: nothing there)
    staged,          \* workspaces renamed to their tombstone
    undone,          \* workspaces whose manifest the undo of a failed creation removed
    work,            \* the command of each process
    lastID           \* workspaces made so far

registryVars == <<place, staged, undone, work, lastID>>

(* id, root: of the workspace the command is about, or makes.  dir, source:   *)
(* the workspace found at the path it leases.                                 *)
NoWork == [op |-> "none", at |-> "idle", id |-> 0, root |-> NoRoot, dir |-> 0, source |-> NoRoot, lease |-> "none"]

RegistryTypeOK ==
    /\ configuration.workspaces \subseteq [id : 1 .. MaxIDs, root : Roots]
    /\ place \in [Roots -> 0 .. MaxIDs] /\ staged \cup undone \subseteq 1 .. MaxIDs
    /\ \A r \in Roots : place[r] \notin staged
    /\ \A p \in Updaters :
        /\ work[p].at \in {"idle", "resolved", "found", "leased", "working", "update", "undo"}
        /\ work[p].lease \in {"none", "shared", "exclusive"}
        /\ \A q \in Updaters : q # p /\ work[p].lease = "exclusive" /\ work[q].lease # "none" => work[q].source # work[p].source

RegistryInit ==
    /\ lastID = Cardinality(configuration.workspaces)
    /\ place = [r \in Roots |-> IF [id |-> 1, root |-> r] \in configuration.workspaces THEN 1 ELSE 0]
    /\ staged = {} /\ undone = {}
    /\ work = [p \in Updaters |-> NoWork]

Idle(p) == work[p].at = "idle" /\ update[p].at = "none"
Manifest(r) == IF place[r] \in undone THEN 0 ELSE place[r]
IsRegistered(id, r) == [id |-> id, root |-> r] \in configuration.workspaces

-----------------------------------------------------------------------------
(* The lifecycle lease: beginWorkspaceUse, acquireDeletion.                   *)

Others(p, modes) == \E q \in Updaters \ {p} : work[q].source = work[p].source /\ work[q].lease \in modes

(* Resolve: a registration whose manifest agrees.                             *)
ResolveWorkspace(p, op) ==
    /\ Idle(p)
    /\ \E r \in Roots :
        /\ IsRegistered(Manifest(r), r)
        /\ work' = [work EXCEPT ![p] = [NoWork EXCEPT !.op = op, !.at = "resolved", !.id = place[r], !.source = r]]
    /\ UNCHANGED <<updateVars, place, staged, undone, lastID>>

(* The directory and manifest are noted before the lease is asked for; a      *)
(* deletion does not wait for it.                                             *)
NoteRoot(p) ==
    /\ work[p].at = "resolved"
    /\ LET dir == place[work[p].source] IN
        work' = [work EXCEPT ![p] = IF dir = 0 THEN NoWork ELSE [@ EXCEPT !.at = "found", !.dir = dir]]
    /\ UNCHANGED <<updateVars, place, staged, undone, lastID>>

Lease(p) ==
    LET exclusive == work[p].op = "delete" IN
    /\ work[p].at = "found"
    /\ IF Others(p, IF exclusive THEN {"shared", "exclusive"} ELSE {"exclusive"})
       THEN exclusive /\ work' = [work EXCEPT ![p] = NoWork]
       ELSE work' = [work EXCEPT ![p].at = "leased", ![p].lease = IF exclusive THEN "exclusive" ELSE "shared"]
    /\ UNCHANGED <<updateVars, place, staged, undone, lastID>>

(* Mutant: nothing is checked again after the wait for the lease.             *)
TrustNotes(p) == TRUE

(* validate: the same directory with the same manifest is still there.        *)
StillThere(p) == work[p].dir # 0 /\ Manifest(work[p].source) = work[p].dir

(* Clone, and it alone, asks for the identity it resolved as well.            *)
Validate(p) ==
    LET w == work[p] IN
    /\ w.at = "leased" /\ w.op \in {"work", "delete"}
    /\ IF ~StillThere(p) THEN work' = [work EXCEPT ![p] = NoWork] /\ UNCHANGED update
       ELSE IF w.op = "work" THEN work' = [work EXCEPT ![p].at = "working"] /\ UNCHANGED update
       ELSE work' = [work EXCEPT ![p].at = "update", ![p].root = w.source] /\ Enqueue(p)
    /\ UNCHANGED <<configuration, configLock, updateFaults, place, staged, undone, lastID>>

Finish(p) ==
    /\ work[p].at = "working"
    /\ work' = [work EXCEPT ![p] = NoWork]
    /\ UNCHANGED <<updateVars, place, staged, undone, lastID>>

-----------------------------------------------------------------------------
(* Create, clone and register.                                                *)

(* createRoot, and the rename of cloneRoot: before the configuration lock and *)
(* without a lease on the new root.                                           *)
Make(p, op, r) ==
    /\ place[r] = 0 /\ lastID < MaxIDs
    /\ lastID' = lastID + 1 /\ place' = [place EXCEPT ![r] = lastID']
    /\ work' = [work EXCEPT ![p].op = op, ![p].at = "update", ![p].id = lastID', ![p].root = r]
    /\ Enqueue(p)
    /\ UNCHANGED <<configuration, configLock, updateFaults, staged, undone>>

Create(p) == Idle(p) /\ \E r \in Roots : Make(p, "create", r)

Clone(p) ==
    /\ work[p].at = "leased" /\ work[p].op = "clone"
    /\ IF StillThere(p) /\ work[p].dir = work[p].id
       THEN \E r \in Roots \ {work[p].source} : Make(p, "clone", r)
       ELSE work' = [work EXCEPT ![p] = NoWork] /\ UNCHANGED <<updateVars, place, staged, undone, lastID>>

Register(p) ==
    /\ Idle(p)
    /\ \E r \in Roots :
        /\ Manifest(r) # 0
        /\ work' = [work EXCEPT ![p] = [NoWork EXCEPT !.op = "register", !.at = "update", !.id = place[r], !.root = r]]
    /\ Enqueue(p)
    /\ UNCHANGED <<configuration, configLock, updateFaults, place, staged, undone, lastID>>

(* Mutant: the manifest read before the wait for the lock is relied on.       *)
RelyOnEarlierRead(p) == TRUE

ManifestUnchanged(p) == Manifest(work[p].root) = work[p].id

RegistryTurn(p, ops) == update[p].at = "mutate" /\ work[p].op \in ops

(* applyRegistration; a name in use refuses as well.                          *)
ApplyRegistration(p) ==
    LET w == work[p] IN
    /\ RegistryTurn(p, {"create", "clone", "register"})
    /\ \/ /\ ManifestUnchanged(p)
          /\ \A other \in configuration.workspaces : other.id # w.id /\ other.root # w.root
          /\ Proceed(p, [configuration EXCEPT !.workspaces = @ \cup {[id |-> w.id, root |-> w.root]}], FALSE)
       \/ Refuse(p)
    /\ UNCHANGED <<updateFaults, registryVars>>

(* Unregister takes whatever its name stands for under the lock.              *)
Unregister(p) ==
    /\ Idle(p)
    /\ work' = [work EXCEPT ![p] = [NoWork EXCEPT !.op = "unregister", !.at = "update"]]
    /\ Enqueue(p)
    /\ UNCHANGED <<configuration, configLock, updateFaults, place, staged, undone, lastID>>

ApplyUnregistration(p) ==
    /\ RegistryTurn(p, {"unregister"})
    /\ \/ \E reg \in configuration.workspaces : Proceed(p, [configuration EXCEPT !.workspaces = @ \ {reg}], FALSE)
       \/ Refuse(p)
    /\ UNCHANGED <<updateFaults, registryVars>>

-----------------------------------------------------------------------------
(* Delete: the root is renamed to its tombstone under the configuration lock  *)
(* and removed after the registration.                                        *)

StageDeletion(p) ==
    LET w == work[p] IN
    /\ RegistryTurn(p, {"delete"})
    /\ IF IsRegistered(w.id, w.root) /\ Manifest(w.root) = w.id /\ StillThere(p) /\ w.id \notin staged
       THEN \/ /\ NoFault
               /\ place' = [place EXCEPT ![w.root] = 0] /\ staged' = staged \cup {w.id}
               /\ Proceed(p, [configuration EXCEPT !.workspaces = @ \ {[id |-> w.id, root |-> w.root]}], FALSE)
            \/ Fault /\ Refuse(p) /\ UNCHANGED <<place, staged>>
       ELSE NoFault /\ Refuse(p) /\ UNCHANGED <<place, staged>>
    /\ UNCHANGED <<undone, work, lastID>>

(* A path made anew meanwhile cannot be renamed over.                         *)
RollBack(p) ==
    LET w == work[p] IN
    /\ update[p].at = "rollback"
    /\ IF w.op = "delete"
       THEN \/ NoFault /\ place[w.root] = 0 /\ place' = [place EXCEPT ![w.root] = w.id] /\ staged' = staged \ {w.id}
            \/ NoFault /\ place[w.root] # 0 /\ UNCHANGED <<place, staged>>
            \/ Fault /\ place[w.root] = 0 /\ UNCHANGED <<place, staged>>
       ELSE NoFault /\ UNCHANGED <<place, staged>>
    /\ RolledBack(p)
    /\ UNCHANGED <<configuration, undone, work, lastID>>

-----------------------------------------------------------------------------
(* After the transaction.                                                     *)

(* registrationInstalled: a failure after the new registry took effect.       *)
InEffect(p) == update[p].result \in {"ok", "installed"}

Updated(p) ==
    LET w == work[p] IN
    /\ w.at = "update" /\ update[p].at = "ended"
    /\ update' = [update EXCEPT ![p] = NoUpdate]
    /\ IF w.op \in {"create", "clone"} /\ ~InEffect(p)
       THEN work' = [work EXCEPT ![p].at = "undo"] /\ NoFault /\ UNCHANGED staged
       ELSE /\ work' = [work EXCEPT ![p] = NoWork]
            /\ \/ NoFault /\ staged' = (IF w.op = "delete" /\ InEffect(p) THEN staged \ {w.id} ELSE staged)
               \/ Fault /\ w.op = "delete" /\ InEffect(p) /\ UNCHANGED staged
    /\ UNCHANGED <<configuration, configLock, place, undone, lastID>>

(* Create's finalizer removes what it made, wherever the directory is now,    *)
(* and keeps one that holds more.                                             *)
UndoCreate(p) ==
    LET w == work[p] IN
    /\ w.at = "undo" /\ w.op = "create"
    /\ \/ NoFault /\ place' = [r \in Roots |-> IF place[r] = w.id THEN 0 ELSE place[r]] /\ undone' = undone \cup {w.id}
       \/ NoFault /\ undone' = undone \cup {w.id} /\ UNCHANGED place
       \/ Fault /\ UNCHANGED <<place, undone>>
    /\ work' = [work EXCEPT ![p] = NoWork]
    /\ UNCHANGED <<configuration, configLock, update, staged, lastID>>

(* Clone removes whatever is at the path by then.                             *)
UndoClone(p) ==
    LET w == work[p] IN
    /\ w.at = "undo" /\ w.op = "clone"
    /\ undone' = undone \cup ({place[w.root]} \ {0})
    /\ \/ NoFault /\ place' = [place EXCEPT ![w.root] = 0]
       \/ Fault /\ UNCHANGED place
    /\ work' = [work EXCEPT ![p] = NoWork]
    /\ UNCHANGED <<configuration, configLock, update, staged, lastID>>

KillCommand(p) ==
    /\ work[p].at # "idle" /\ Fault
    /\ DropUpdate(p)
    /\ work' = [work EXCEPT ![p] = NoWork]
    /\ UNCHANGED <<place, staged, undone, lastID>>

RegistryStep(p) ==
    \/ \E op \in {"work", "clone", "delete"} : ResolveWorkspace(p, op)
    \/ NoteRoot(p) \/ Lease(p) \/ Validate(p) \/ Finish(p)
    \/ Create(p) \/ Clone(p) \/ Register(p) \/ Unregister(p)
    \/ UpdateStep(p) /\ UNCHANGED registryVars
    \/ ApplyRegistration(p) \/ ApplyUnregistration(p) \/ StageDeletion(p) \/ RollBack(p)
    \/ Updated(p) \/ UndoCreate(p) \/ UndoClone(p) \/ KillCommand(p)

(* No workspace, or one that is registered; the credential takes no part.     *)
RegistrySpec ==
    /\ configuration \in [environment : BOOLEAN, workspaces : {{}} \cup {{[id |-> 1, root |-> r]} : r \in Roots}]
    /\ UpdateInit /\ RegistryInit
    /\ [][\E p \in Updaters : RegistryStep(p)]_<<updateVars, registryVars>>

-----------------------------------------------------------------------------
(* A registration names a workspace that is there, or whose deletion failed   *)
(* half-way and left it at its tombstone: never one that a deletion removed   *)
(* while the registration waited, nor one whose creation was taken back       *)
(* although its registration is in effect.  (Except that the undo of a failed *)
(* creation removes it from under one who registered it meanwhile.)           *)
RegisteredIsKept ==
    \A reg \in configuration.workspaces :
        Manifest(reg.root) = reg.id \/ reg.id \in staged \cup undone

(* A command works in the directory it validated: it is not deleted, moved or *)
(* replaced under its lease, however long it waited for it.                   *)
WorkIsInPlace ==
    \A p \in Updaters :
        work[p].at = "working" => place[work[p].source] = work[p].dir \/ work[p].dir \in undone

(* Neither the registry nor a command that works in a root is left with a     *)
(* workspace that a deletion, a clone or a registration of others took away.  *)
WorkspacesAreSafe == RegistryTypeOK /\ RegisteredIsKept /\ WorkIsInPlace
=============================================================================
