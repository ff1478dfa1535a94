-------------------------- MODULE WorkspaceProofs ---------------------------
(* What is proved of the registered workspaces and the directories they name, *)
(* and of the artifacts that pulls replace in one of them.                    *)
EXTENDS WorkspaceRegistry, BundleTransaction, FiniteSetTheorems, SequenceTheorems, TLAPS

-----------------------------------------------------------------------------
(* The inductive invariant of WorkspaceRegistry.                              *)

Past == {"save", "restore", "rollback"}
Holding == {"mutate", "post"} \cup Past

Registrations == [id : 1 .. MaxIDs, root : Roots]

Configurations == [environment : BOOLEAN, workspaces : SUBSET Registrations]

Updates ==
    [at : {"none", "queued", "ended"} \cup Holding, before : Configurations \cup {{}},
     next : Configurations \cup {{}}, post : BOOLEAN, missed : BOOLEAN, result : UpdateResults]

Works ==
    [op : {"none", "work", "clone", "delete", "create", "register", "unregister"},
     at : {"idle", "resolved", "found", "leased", "working", "update", "undo"},
     id : 0 .. MaxIDs, root : Roots \cup {NoRoot}, dir : 0 .. MaxIDs, source : Roots \cup {NoRoot},
     lease : {"none", "shared", "exclusive"}]

Names(c, id) == \E reg \in c.workspaces : reg.id = id

There(reg, pl, st, un) == pl[reg.root] = reg.id \/ reg.id \in st \cup un

(* Every registration of c is of a workspace that is there, or lost to a      *)
(* deletion or an undo that is known; no workspace is registered twice.       *)
Fine(c, pl, st, un) ==
    /\ \A reg \in c.workspaces : There(reg, pl, st, un)
    /\ \A a, b \in c.workspaces : a.id = b.id => a = b

(* How the place of a command and of its transaction go together.             *)
Plain(w, u, n) ==
    /\ w.at = "idle" => w = NoWork
    /\ w.at = "update" <=> u.at # "none"
    /\ w.at = "update" => w.op \in {"delete", "create", "clone", "register", "unregister"}
    /\ w.at \in {"resolved", "found", "leased", "working"} => w.op \in {"work", "clone", "delete"}
    /\ w.at = "undo" => w.op \in {"create", "clone"}
    /\ w.op \in {"work", "clone", "delete"} => w.id \in 1 .. n /\ w.source \in Roots
    /\ w.op = "delete" /\ w.at \in {"leased", "update"} => w.lease = "exclusive"
    /\ w.op = "delete" /\ w.at = "update" => w.root = w.source
    /\ w.op \in {"create", "clone", "register"} /\ w.at \in {"update", "undo"} => w.root \in Roots /\ w.id \in 1 .. n
    /\ w.at \in {"leased", "working"} => w.lease # "none"
    /\ w.at = "working" => w.dir # 0
    /\ u.at # "post" /\ ~u.post

(* The holder of the configuration's lock: the old and the new configuration  *)
(* are fine, and a deletion has its workspace at the tombstone.               *)
Staging(w, u, c, pl, st, un) ==
    /\ u.at \in {"mutate", "save", "rollback"} => c = u.before
    /\ u.at = "restore" => c = u.next
    /\ u.at \in Past =>
        /\ u.before \in Configurations /\ u.next \in Configurations
        /\ Fine(u.before, pl, st, un) /\ Fine(u.next, pl, st, un)
    /\ w.op = "delete" /\ u.at \in Past =>
        /\ w.id \in st /\ ~Names(u.next, w.id)
        /\ [id |-> w.id, root |-> w.root] \in u.before.workspaces

(* A deletion whose new registry took effect and that has not yet removed     *)
(* the tombstone.                                                             *)
Deleted(w, u) ==
    w.op = "delete" /\ w.at = "update" /\ u.at = "ended" /\ u.result \in {"ok", "installed"}

RegistryTyped ==
    /\ configuration \in Configurations /\ configLock \in Updaters \cup {NoUpdater}
    /\ updateFaults \in 0 .. UpdateFaults /\ lastID \in 0 .. MaxIDs
    /\ place \in [Roots -> 0 .. lastID] /\ staged \in SUBSET (1 .. lastID) /\ undone \in SUBSET (1 .. MaxIDs)
    /\ work \in [Updaters -> Works] /\ update \in [Updaters -> Updates]

(* A workspace is at one path, and not at its tombstone as well.              *)
PlacesApart ==
    /\ \A r \in Roots : place[r] \notin staged
    /\ \A a, b \in Roots : place[a] = place[b] /\ place[a] # 0 => a = b

LeasesApart ==
    \A p, q \in Updaters :
        p # q /\ work[p].lease = "exclusive" /\ work[q].lease # "none" => work[q].source # work[p].source

(* Nobody's configuration names the workspace of such a deletion any more.    *)
DeletedIsGone ==
    \A p \in Updaters : Deleted(work[p], update[p]) =>
        /\ work[p].id \in staged /\ ~Names(configuration, work[p].id)
        /\ \A q \in Updaters \ {p} :
            /\ update[q].at \in Past => ~Names(update[q].before, work[p].id) /\ ~Names(update[q].next, work[p].id)
            /\ Deleted(work[q], update[q]) => work[q].id # work[p].id

RegistryInv ==
    /\ RegistryTyped
    /\ \A p \in Updaters : Plain(work[p], update[p], lastID)
    /\ \A p \in Updaters : Staging(work[p], update[p], configuration, place, staged, undone)
    /\ \A p \in Updaters : configLock = p <=> update[p].at \in Holding
    /\ Fine(configuration, place, staged, undone)
    /\ PlacesApart /\ LeasesApart /\ DeletedIsGone /\ WorkIsInPlace

-----------------------------------------------------------------------------
(* What a step of p may do to the directories, the tombstones, the            *)
(* configurations and the leases the others rely on.                          *)

PlacesMove(p) ==
    /\ undone \subseteq undone'
    /\ \A r \in Roots : place[r] # 0 =>
        \/ place'[r] = place[r] \/ place[r] \in undone'
        \/ work[p].lease = "exclusive" /\ r = work[p].source /\ place[r] \in staged'

StagedMoves(p) ==
    \A id \in staged :
        \/ id \in staged'
        \/ Deleted(work[p], update[p]) /\ id = work[p].id
        \/ configLock = p /\ update[p].at \in Past /\ Names(update[p].before, id)

LockFollows(p, u) ==
    \/ u.at \in Holding /\ configLock' = p /\ configLock \in {p, NoUpdater}
    \/ u.at \notin Holding /\ configLock' = NoUpdater /\ configLock = p
    \/ u.at \notin Holding /\ configLock' = configLock /\ configLock # p

ConfigurationMoves(p) ==
    \/ configuration' = configuration
    \/ /\ configLock = p /\ update[p].at \in Past
       /\ configuration' \in {update[p].before, update[p].next}

PlansKeep(p, u) ==
    u.at \in Past => \A id : Names(u.before, id) \/ Names(u.next, id) =>
        \/ Names(configuration, id) \/ id \notin staged
        \/ update[p].at \in Past /\ (Names(update[p].before, id) \/ Names(update[p].next, id))

LeaseKept(p, w) ==
    \A q \in Updaters \ {p} :
        /\ w.lease = "exclusive" /\ work[q].lease # "none" => work[q].source # w.source
        /\ work[q].lease = "exclusive" /\ w.lease # "none" => work[q].source # w.source

DeletionTold(p, w, u) ==
    Deleted(w, u) =>
        /\ configLock = p /\ update[p].at \in Past /\ Names(update[p].before, w.id)
        /\ w.id \in staged' /\ ~Names(configuration', w.id)

NewTyped ==
    /\ configuration' \in Configurations /\ updateFaults' \in 0 .. UpdateFaults
    /\ lastID \in 0 .. lastID' /\ lastID' \in 0 .. MaxIDs
    /\ place' \in [Roots -> 0 .. lastID'] /\ staged' \in SUBSET (1 .. lastID')
    /\ undone' \in SUBSET (1 .. MaxIDs)

(* The invariant implies the property.                                        *)
LEMMA InvSafe == ASSUME RegistryInv PROVE WorkspacesAreSafe
<1>1. RegistryTypeOK
    <2>1. configuration.workspaces \subseteq [id : 1 .. MaxIDs, root : Roots]
        BY DEF RegistryInv, RegistryTyped, Configurations, Registrations
    <2>2. place \in [Roots -> 0 .. MaxIDs] /\ staged \cup undone \subseteq 1 .. MaxIDs
        BY RegistryAssumption DEF RegistryInv, RegistryTyped
    <2>3. \A r \in Roots : place[r] \notin staged
        BY DEF RegistryInv, PlacesApart
    <2>4. \A p \in Updaters :
            /\ work[p].at \in {"idle", "resolved", "found", "leased", "working", "update", "undo"}
            /\ work[p].lease \in {"none", "shared", "exclusive"}
        BY DEF RegistryInv, RegistryTyped, Works
    <2>5. \A p, q \in Updaters :
            q # p /\ work[p].lease = "exclusive" /\ work[q].lease # "none" => work[q].source # work[p].source
        BY DEF RegistryInv, LeasesApart
    <2> QED
        BY <2>1, <2>2, <2>3, <2>4, <2>5 DEF RegistryTypeOK
<1>2. RegisteredIsKept
    BY DEF RegistryInv, Fine, There, RegisteredIsKept, Manifest
<1> QED
    BY <1>1, <1>2 DEF WorkspacesAreSafe, RegistryInv

LEMMA CommandFacts ==
    ASSUME RegistryInv, NEW p \in Updaters
    PROVE  /\ RegistryTyped /\ work[p] \in Works /\ update[p] \in Updates
           /\ Plain(work[p], update[p], lastID)
           /\ Staging(work[p], update[p], configuration, place, staged, undone)
           /\ configLock = p <=> update[p].at \in Holding
           /\ configLock \in Updaters \cup {NoUpdater} /\ p # NoUpdater
    BY UpdateAssumption DEF RegistryInv, RegistryTyped

(* A fine configuration stays fine unless it names what leaves its tombstone. *)
LEMMA FineKept ==
    ASSUME RegistryInv, NEW p \in Updaters, PlacesMove(p), StagedMoves(p),
           NEW c \in Configurations, Fine(c, place, staged, undone),
           \A reg \in c.workspaces : reg.id \in staged => reg.id \in staged'
    PROVE  Fine(c, place', staged', undone')
<1>1. ASSUME NEW reg \in c.workspaces PROVE There(reg, place', staged', undone')
    <2>1. reg.id \in 1 .. MaxIDs /\ reg.root \in Roots /\ reg.id # 0
        BY DEF Configurations, Registrations
    <2>2. There(reg, place, staged, undone)
        BY DEF Fine
    <2> QED
        BY <2>1, <2>2 DEF There, PlacesMove
<1> QED
    BY <1>1 DEF Fine

(* Another command's transaction and directory are as they were.              *)
LEMMA OtherKept ==
    ASSUME RegistryInv, NEW p \in Updaters, NEW q \in Updaters, q # p,
           PlacesMove(p), StagedMoves(p), ConfigurationMoves(p), lastID \in 0 .. lastID', lastID' \in Nat
    PROVE  /\ Plain(work[q], update[q], lastID')
           /\ Staging(work[q], update[q], configuration', place', staged', undone')
           /\ work[q].at = "working" => place'[work[q].source] = work[q].dir \/ work[q].dir \in undone'
<1> DEFINE w == work[q]
           u == update[q]
<1>1. /\ w \in Works /\ u \in Updates /\ Plain(w, u, lastID) /\ Staging(w, u, configuration, place, staged, undone)
      /\ (configLock = q <=> u.at \in Holding)
    BY CommandFacts
<1>2. w.at = "working" => place[w.source] = w.dir \/ w.dir \in undone
    BY DEF RegistryInv, WorkIsInPlace
<1>3. \A id : Deleted(work[p], update[p]) /\ id = work[p].id /\ u.at \in Past => ~Names(u.before, id) /\ ~Names(u.next, id)
    BY DEF RegistryInv, DeletedIsGone
<1>4. work[p].lease = "exclusive" /\ w.lease # "none" => w.source # work[p].source
    BY DEF RegistryInv, LeasesApart
<1> HIDE DEF w, u
<1>5. Plain(w, u, lastID')
    <2>1. 1 .. lastID \subseteq 1 .. lastID'
        OBVIOUS
    <2> QED
        BY <1>1, <2>1 DEF Plain
<1>6. w.at = "working" => place'[w.source] = w.dir \/ w.dir \in undone'
    <2> SUFFICES ASSUME w.at = "working" PROVE place'[w.source] = w.dir \/ w.dir \in undone'
        OBVIOUS
    <2>1. w.lease # "none" /\ w.dir # 0
        BY <1>1 DEF Plain
    <2>2. CASE w.dir \in undone
        BY <2>2 DEF PlacesMove
    <2>3. CASE w.source \in Roots /\ place[w.source] = w.dir
        BY <1>4, <2>1, <2>3 DEF PlacesMove
    <2>4. w.source \in Roots
        BY <1>1 DEF Plain
    <2> QED
        BY <1>2, <2>2, <2>3, <2>4
<1>7. Staging(w, u, configuration', place', staged', undone')
    <2>1. u.at \in Holding => configLock # p /\ configuration' = configuration
        BY <1>1, CommandFacts DEF ConfigurationMoves
    <2>2. ASSUME u.at \in Past, NEW c \in Configurations, c = u.before \/ c = u.next,
                 Fine(c, place, staged, undone)
          PROVE  Fine(c, place', staged', undone')
        <3>1. configLock # p
            BY <2>1, <2>2 DEF Holding
        <3>2. ASSUME NEW reg \in c.workspaces, reg.id \in staged PROVE reg.id \in staged'
            <4>1. Names(c, reg.id)
                BY DEF Names
            <4> QED
                BY <1>3, <2>2, <3>1, <3>2, <4>1 DEF StagedMoves
        <3> QED
            BY <2>2, <3>2, FineKept
    <2>3. ASSUME u.at \in Past
          PROVE  /\ u.before \in Configurations /\ u.next \in Configurations
                 /\ Fine(u.before, place', staged', undone') /\ Fine(u.next, place', staged', undone')
        <3>1. /\ u.before \in Configurations /\ u.next \in Configurations
              /\ Fine(u.before, place, staged, undone) /\ Fine(u.next, place, staged, undone)
            BY <1>1, <2>3 DEF Staging
        <3> QED
            BY <2>2, <2>3, <3>1
    <2>4. ASSUME w.op = "delete", u.at \in Past
          PROVE  /\ w.id \in staged' /\ ~Names(u.next, w.id) /\ [id |-> w.id, root |-> w.root] \in u.before.workspaces
        <3>1. /\ w.id \in staged /\ ~Names(u.next, w.id) /\ [id |-> w.id, root |-> w.root] \in u.before.workspaces
            BY <1>1, <2>4 DEF Staging
        <3>2. Names(u.before, w.id)
            BY <3>1 DEF Names
        <3>3. configLock # p
            BY <2>1, <2>4 DEF Holding
        <3> QED
            BY <1>3, <2>4, <3>1, <3>2, <3>3 DEF StagedMoves
    <2>5. u.at \in {"mutate", "save", "rollback", "restore"} => configuration' = configuration
        BY <2>1 DEF Holding, Past
    <2> QED
        BY <1>1, <2>3, <2>4, <2>5 DEF Staging
<1> QED
    BY <1>5, <1>6, <1>7 DEF w, u

(* A step of one command keeps the invariant when it leaves the others alone. *)
LEMMA StepKeeps ==
    ASSUME RegistryInv, NEW p \in Updaters, NEW w \in Works, NEW u \in Updates,
           work' = [work EXCEPT ![p] = w], update' = [update EXCEPT ![p] = u],
           NewTyped, PlacesMove(p), StagedMoves(p), ConfigurationMoves(p), LockFollows(p, u),
           PlansKeep(p, u), LeaseKept(p, w), DeletionTold(p, w, u), PlacesApart',
           Fine(configuration', place', staged', undone'), Plain(w, u, lastID'),
           Staging(w, u, configuration', place', staged', undone'),
           w.at = "working" => place'[w.source] = w.dir \/ w.dir \in undone'
    PROVE  RegistryInv'
<1>1. /\ work' \in [Updaters -> Works] /\ update' \in [Updaters -> Updates]
      /\ work'[p] = w /\ update'[p] = u
      /\ \A q \in Updaters : q # p => work'[q] = work[q] /\ update'[q] = update[q]
    BY DEF RegistryInv, RegistryTyped
<1>2. NoUpdater \notin Updaters
    BY UpdateAssumption
<1>3. configLock \in Updaters \cup {NoUpdater} /\ \A q \in Updaters : configLock = q <=> update[q].at \in Holding
    BY DEF RegistryInv, RegistryTyped
<1>4. configLock' \in Updaters \cup {NoUpdater} /\ \A q \in Updaters : configLock' = q <=> update'[q].at \in Holding
    <2>1. configLock' \in Updaters \cup {NoUpdater}
        BY <1>3 DEF LockFollows
    <2>2. ASSUME NEW q \in Updaters PROVE configLock' = q <=> update'[q].at \in Holding
        <3>1. CASE q = p
            BY <1>1, <1>2, <3>1 DEF LockFollows
        <3>2. CASE q # p
            BY <1>1, <1>2, <1>3, <3>2 DEF LockFollows
        <3> QED
            BY <3>1, <3>2
    <2> QED
        BY <2>1, <2>2
<1>5. RegistryTyped'
    BY <1>1, <1>4 DEF RegistryTyped, NewTyped
<1>6. lastID \in 0 .. lastID' /\ lastID' \in Nat
    BY RegistryAssumption DEF NewTyped
<1>7. ASSUME NEW q \in Updaters
      PROVE  /\ Plain(work[q], update[q], lastID)' /\ Staging(work[q], update[q], configuration, place, staged, undone)'
             /\ (work[q].at = "working" => place[work[q].source] = work[q].dir \/ work[q].dir \in undone)'
    <2>1. CASE q = p
        BY <1>1, <2>1
    <2>2. CASE q # p
        BY <1>1, <1>6, <2>2, OtherKept
    <2> QED
        BY <2>1, <2>2
<1>8. LeasesApart'
    <2> SUFFICES ASSUME NEW a \in Updaters, NEW b \in Updaters, a # b,
                        work'[a].lease = "exclusive", work'[b].lease # "none"
                 PROVE  work'[b].source # work'[a].source
        BY DEF LeasesApart
    <2>1. CASE a = p
        BY <1>1, <2>1 DEF LeaseKept
    <2>2. CASE b = p
        BY <1>1, <2>2 DEF LeaseKept
    <2>3. CASE a # p /\ b # p
        BY <1>1, <2>3 DEF RegistryInv, LeasesApart
    <2> QED
        BY <2>1, <2>2, <2>3
<1>9. ASSUME NEW a \in Updaters, Deleted(work[a], update[a])'
      PROVE  /\ work'[a].id \in staged' /\ ~Names(configuration', work'[a].id)
             /\ \A q \in Updaters \ {a} :
                /\ update'[q].at \in Past => ~Names(update'[q].before, work'[a].id) /\ ~Names(update'[q].next, work'[a].id)
                /\ Deleted(work'[q], update'[q]) => work'[q].id # work'[a].id
    <2>1. CASE a = p
        <3>1. /\ configLock = p /\ update[p].at \in Past /\ Names(update[p].before, w.id)
              /\ w.id \in staged' /\ ~Names(configuration', w.id)
            BY <1>1, <1>9, <2>1 DEF DeletionTold
        <3>2. ASSUME NEW q \in Updaters, q # p PROVE update'[q].at \notin Past
            BY <1>1, <1>3, <3>1, <3>2 DEF Holding
        <3>3. ASSUME NEW q \in Updaters, q # p, Deleted(work'[q], update'[q]) PROVE work'[q].id # w.id
            BY <1>1, <3>1, <3>3 DEF RegistryInv, DeletedIsGone
        <3> QED
            BY <1>1, <2>1, <3>1, <3>2, <3>3
    <2>2. CASE a # p
        <3> DEFINE id == work[a].id
        <3>1. /\ Deleted(work[a], update[a]) /\ work'[a].id = id
            BY <1>1, <1>9, <2>2
        <3>2. /\ id \in staged /\ ~Names(configuration, id)
              /\ \A q \in Updaters \ {a} :
                /\ update[q].at \in Past => ~Names(update[q].before, id) /\ ~Names(update[q].next, id)
                /\ Deleted(work[q], update[q]) => work[q].id # id
            BY <3>1 DEF RegistryInv, DeletedIsGone
        <3> HIDE DEF id
        <3>3. id \in staged'
            BY <2>2, <3>2 DEF StagedMoves
        <3>4. ~Names(configuration', id)
            BY <2>2, <3>2 DEF ConfigurationMoves
        <3>5. u.at \in Past => ~Names(u.before, id) /\ ~Names(u.next, id)
            BY <2>2, <3>2 DEF PlansKeep
        <3>6. Deleted(w, u) => w.id # id
            BY <2>2, <3>2 DEF DeletionTold
        <3> QED
            BY <1>1, <2>2, <3>1, <3>2, <3>3, <3>4, <3>5, <3>6
    <2> QED
        BY <2>1, <2>2
<1>10. DeletedIsGone'
    BY <1>9 DEF DeletedIsGone
<1>11. WorkIsInPlace'
    BY <1>7 DEF WorkIsInPlace
<1> QED
    BY <1>4, <1>5, <1>7, <1>8, <1>10, <1>11 DEF RegistryInv

-----------------------------------------------------------------------------
(* Small facts the actions share.                                             *)

LEMMA FaultTyped == ASSUME RegistryInv, NoFault \/ Fault PROVE updateFaults' \in 0 .. UpdateFaults
    BY UpdateAssumption DEF RegistryInv, RegistryTyped, Fault, NoFault

LEMMA NoWorkTyped ==
    /\ NoWork \in Works /\ NoWork.at = "idle" /\ NoWork.op = "none" /\ NoWork.lease = "none"
    BY RegistryAssumption DEF NoWork, Works

LEMMA NoUpdateTyped ==
    /\ NoUpdate \in Updates /\ NoUpdate.at = "none" /\ ~NoUpdate.post
    BY DEF NoUpdate, Updates, UpdateResults

(* A lease given up, or kept on the same root.                                *)
LEMMA SameLease ==
    ASSUME RegistryInv, NEW p \in Updaters, NEW w,
           w.lease = "none" \/ (w.lease = work[p].lease /\ w.source = work[p].source)
    PROVE  LeaseKept(p, w)
    BY DEF LeaseKept, RegistryInv, LeasesApart

(* A step that changes no file: neither the configuration nor a directory.    *)
LEMMA QuietKeeps ==
    ASSUME RegistryInv, NEW p \in Updaters, NEW w \in Works, NEW u \in Updates,
           work' = [work EXCEPT ![p] = w], update' = [update EXCEPT ![p] = u],
           UNCHANGED <<configuration, place, staged, undone, lastID>>, NoFault \/ Fault, LockFollows(p, u),
           PlansKeep(p, u), LeaseKept(p, w), ~Deleted(w, u), Plain(w, u, lastID),
           Staging(w, u, configuration, place, staged, undone),
           w.at = "working" => place[w.source] = w.dir \/ w.dir \in undone
    PROVE  RegistryInv'
<1>1. NewTyped
    BY FaultTyped, RegistryAssumption DEF NewTyped, RegistryInv, RegistryTyped
<1>2. PlacesMove(p) /\ StagedMoves(p) /\ ConfigurationMoves(p) /\ DeletionTold(p, w, u)
    BY DEF PlacesMove, StagedMoves, ConfigurationMoves, DeletionTold
<1>3. PlacesApart' /\ Fine(configuration', place', staged', undone')
    BY DEF RegistryInv, PlacesApart
<1>4. Plain(w, u, lastID') /\ Staging(w, u, configuration', place', staged', undone')
    OBVIOUS
<1> QED
    BY <1>1, <1>2, <1>3, <1>4, StepKeeps

(* A step of a command that is not in a transaction.                          *)
LEMMA OutsideKeeps ==
    ASSUME RegistryInv, NEW p \in Updaters, NEW w \in Works, work' = [work EXCEPT ![p] = w],
           UNCHANGED <<updateVars, place, staged, undone, lastID>>, update[p].at = "none",
           LeaseKept(p, w), Plain(w, update[p], lastID),
           w.at = "working" => place[w.source] = w.dir \/ w.dir \in undone
    PROVE  RegistryInv'
<1> DEFINE u == update[p]
<1>1. /\ u \in Updates /\ update' = [update EXCEPT ![p] = u]
      /\ UNCHANGED <<configuration, configLock, updateFaults, place, staged, undone, lastID>>
    BY CommandFacts DEF updateVars, RegistryTyped
<1>2. LockFollows(p, u)
    BY <1>1, CommandFacts DEF LockFollows, Holding, Past
<1>3. PlansKeep(p, u) /\ ~Deleted(w, u) /\ Staging(w, u, configuration, place, staged, undone)
    BY DEF PlansKeep, Past, Deleted, Staging
<1> HIDE DEF u
<1>4. Plain(w, u, lastID)
    BY DEF u
<1> QED
    BY <1>1, <1>2, <1>3, <1>4, QuietKeeps DEF NoFault

LEMMA IdlePlain == ASSUME NEW u, NEW n, u.at = "none", ~u.post PROVE Plain(NoWork, u, n)
    BY NoWorkTyped DEF Plain

-----------------------------------------------------------------------------
(* One lemma per action: before the transaction.                              *)

LEMMA ResolveKeeps ==
    ASSUME RegistryInv, NEW p \in Updaters, NEW op \in {"work", "clone", "delete"}, ResolveWorkspace(p, op)
    PROVE  RegistryInv'
<1>1. PICK r \in Roots :
        /\ IsRegistered(Manifest(r), r)
        /\ work' = [work EXCEPT ![p] = [NoWork EXCEPT !.op = op, !.at = "resolved", !.id = place[r], !.source = r]]
    BY DEF ResolveWorkspace
<1> DEFINE w == [NoWork EXCEPT !.op = op, !.at = "resolved", !.id = place[r], !.source = r]
<1>2. /\ configuration \in Configurations /\ place \in [Roots -> 0 .. lastID] /\ lastID \in 0 .. MaxIDs
    BY DEF RegistryInv, RegistryTyped
<1>3. /\ work' = [work EXCEPT ![p] = w] /\ update[p].at = "none" /\ UNCHANGED <<updateVars, place, staged, undone, lastID>>
    BY <1>1 DEF ResolveWorkspace, Idle
<1>4. Manifest(r) \in 1 .. MaxIDs
    BY <1>1, <1>2 DEF IsRegistered, Configurations, Registrations
<1>5. place[r] \in 1 .. lastID /\ place[r] \in 0 .. MaxIDs
    BY <1>2, <1>4, RegistryAssumption DEF Manifest
<1>6. w \in Works /\ w.op = op /\ w.at = "resolved" /\ w.id = place[r] /\ w.source = r /\ w.lease = "none"
    BY <1>5, NoWorkTyped DEF Works
<1> HIDE DEF w
<1>7. ~update[p].post
    BY CommandFacts DEF Plain
<1>8. Plain(w, update[p], lastID)
    BY <1>3, <1>5, <1>6, <1>7 DEF Plain
<1>9. LeaseKept(p, w)
    BY <1>6, SameLease
<1> QED
    BY <1>3, <1>6, <1>8, <1>9, OutsideKeeps

LEMMA NoteRootKeeps == ASSUME RegistryInv, NEW p \in Updaters, NoteRoot(p) PROVE RegistryInv'
<1> DEFINE dir == place[work[p].source]
           w == [work[p] EXCEPT !.at = "found", !.dir = dir]
<1>1. /\ work[p].at = "resolved" /\ UNCHANGED <<updateVars, place, staged, undone, lastID>>
      /\ work' = [work EXCEPT ![p] = IF dir = 0 THEN NoWork ELSE w]
    BY DEF NoteRoot
<1>2. /\ work[p] \in Works /\ Plain(work[p], update[p], lastID) /\ place \in [Roots -> 0 .. lastID]
      /\ lastID \in 0 .. MaxIDs
    BY CommandFacts DEF RegistryTyped
<1>3. update[p].at = "none" /\ ~update[p].post /\ work[p].source \in Roots
    BY <1>1, <1>2 DEF Plain
<1>4. CASE dir = 0
    BY <1>1, <1>3, <1>4, NoWorkTyped, IdlePlain, SameLease, OutsideKeeps
<1>5. CASE dir # 0
    <2>1. dir \in 0 .. MaxIDs
        BY <1>2, <1>3, RegistryAssumption
    <2>2. /\ w \in Works /\ w.at = "found" /\ w.op = work[p].op /\ w.id = work[p].id /\ w.source = work[p].source
          /\ w.lease = work[p].lease /\ w.root = work[p].root
        BY <1>2, <2>1 DEF Works
    <2>3. work' = [work EXCEPT ![p] = w]
        BY <1>1, <1>5
    <2> HIDE DEF w
    <2>4. Plain(w, update[p], lastID)
        BY <1>1, <1>2, <2>2 DEF Plain
    <2> QED
        BY <1>1, <1>3, <2>2, <2>3, <2>4, SameLease, OutsideKeeps
<1> QED
    BY <1>4, <1>5

LEMMA LeaseKeeps == ASSUME RegistryInv, NEW p \in Updaters, Lease(p) PROVE RegistryInv'
<1> DEFINE exclusive == work[p].op = "delete"
           lease == IF exclusive THEN "exclusive" ELSE "shared"
           w == [work[p] EXCEPT !.at = "leased", !.lease = lease]
<1>1. work[p].at = "found" /\ UNCHANGED <<updateVars, place, staged, undone, lastID>>
    BY DEF Lease
<1>2. work[p] \in Works /\ Plain(work[p], update[p], lastID)
    BY CommandFacts
<1>3. update[p].at = "none" /\ ~update[p].post
    BY <1>1, <1>2 DEF Plain
<1>4. CASE work' = [work EXCEPT ![p] = NoWork]
    BY <1>1, <1>3, <1>4, NoWorkTyped, IdlePlain, SameLease, OutsideKeeps
<1>5. CASE ~Others(p, IF exclusive THEN {"shared", "exclusive"} ELSE {"exclusive"}) /\ work' = [work EXCEPT ![p] = w]
    <2>1. lease \in {"shared", "exclusive"} /\ (work[p].op = "delete" <=> lease = "exclusive")
        OBVIOUS
    <2>2. \A q \in Updaters \ {p} : work[q].source = work[p].source =>
            work[q].lease # "exclusive" /\ (lease = "exclusive" => work[q].lease # "shared")
        BY <1>5 DEF Others
    <2> HIDE DEF lease
    <2>3. /\ w \in Works /\ w.at = "leased" /\ w.op = work[p].op /\ w.id = work[p].id /\ w.source = work[p].source
          /\ w.lease = lease /\ w.root = work[p].root
        BY <1>2, <2>1 DEF Works
    <2> HIDE DEF w
    <2>4. Plain(w, update[p], lastID)
        BY <1>1, <1>2, <2>1, <2>3 DEF Plain
    <2>5. \A q \in Updaters : work[q].lease \in {"none", "shared", "exclusive"}
        BY DEF RegistryInv, RegistryTyped, Works
    <2>6. LeaseKept(p, w)
        BY <2>2, <2>3, <2>5 DEF LeaseKept
    <2> QED
        BY <1>1, <1>3, <1>5, <2>3, <2>4, <2>6, OutsideKeeps
<1> QED
    BY <1>4, <1>5 DEF Lease

(* A command queues for the configuration's lock.                             *)
LEMMA QueuesKeeps ==
    ASSUME RegistryInv, NEW p \in Updaters, NEW w \in Works, work' = [work EXCEPT ![p] = w], Enqueue(p),
           UNCHANGED <<configuration, configLock, updateFaults, place, staged, undone, lastID>>,
           update[p].at = "none", LeaseKept(p, w), w.at = "update",
           \A u : u.at = "queued" /\ ~u.post => Plain(w, u, lastID)
    PROVE  RegistryInv'
<1> DEFINE u == [NoUpdate EXCEPT !.at = "queued"]
<1>1. update' = [update EXCEPT ![p] = u]
    BY DEF Enqueue
<1>2. u \in Updates /\ u.at = "queued" /\ ~u.post
    BY NoUpdateTyped DEF Updates
<1> HIDE DEF u
<1>3. LockFollows(p, u)
    BY <1>2, CommandFacts DEF LockFollows, Holding, Past
<1>4. PlansKeep(p, u) /\ ~Deleted(w, u) /\ Staging(w, u, configuration, place, staged, undone)
    BY <1>2 DEF PlansKeep, Past, Deleted, Staging
<1>5. Plain(w, u, lastID)
    BY <1>2
<1> QED
    BY <1>1, <1>2, <1>3, <1>4, <1>5, QuietKeeps DEF NoFault

LEMMA ValidateKeeps == ASSUME RegistryInv, NEW p \in Updaters, Validate(p) PROVE RegistryInv'
<1>1. /\ work[p].at = "leased" /\ work[p].op \in {"work", "delete"}
      /\ UNCHANGED <<configuration, configLock, updateFaults, place, staged, undone, lastID>>
    BY DEF Validate
<1>2. /\ work[p] \in Works /\ Plain(work[p], update[p], lastID)
    BY CommandFacts
<1>3. update[p].at = "none" /\ ~update[p].post
    BY <1>1, <1>2 DEF Plain
<1>4. CASE work' = [work EXCEPT ![p] = NoWork] /\ UNCHANGED update
    BY <1>1, <1>3, <1>4, NoWorkTyped, IdlePlain, SameLease, OutsideKeeps DEF updateVars
<1>5. CASE StillThere(p) /\ work[p].op = "work" /\ work' = [work EXCEPT ![p].at = "working"] /\ UNCHANGED update
    <2> DEFINE w == [work[p] EXCEPT !.at = "working"]
    <2>1. /\ w \in Works /\ w.at = "working" /\ w.op = work[p].op /\ w.id = work[p].id /\ w.source = work[p].source
          /\ w.lease = work[p].lease /\ w.root = work[p].root /\ w.dir = work[p].dir
        BY <1>2 DEF Works
    <2>2. work' = [work EXCEPT ![p] = w]
        BY <1>5
    <2> HIDE DEF w
    <2>3. w.dir # 0 /\ place[w.source] = w.dir
        BY <1>5, <2>1 DEF StillThere, Manifest
    <2>4. w.lease # "none"
        BY <1>1, <1>2, <2>1 DEF Plain
    <2>5. Plain(w, update[p], lastID)
        BY <1>1, <1>2, <1>5, <2>1, <2>3, <2>4 DEF Plain
    <2> QED
        BY <1>1, <1>3, <1>5, <2>1, <2>2, <2>3, <2>5, SameLease, OutsideKeeps DEF updateVars
<1>6. CASE /\ work[p].op = "delete" /\ Enqueue(p)
           /\ work' = [work EXCEPT ![p].at = "update", ![p].root = work[p].source]
    <2> DEFINE w == [work[p] EXCEPT !.at = "update", !.root = work[p].source]
    <2>1. /\ w \in Works /\ w.at = "update" /\ w.op = "delete" /\ w.id = work[p].id /\ w.source = work[p].source
          /\ w.lease = work[p].lease /\ w.root = work[p].source
        BY <1>2, <1>6 DEF Works
    <2>2. work' = [work EXCEPT ![p] = w]
        BY <1>2, <1>6, CommandFacts DEF RegistryTyped
    <2> HIDE DEF w
    <2>3. w.id \in 1 .. lastID /\ w.source \in Roots /\ w.lease = "exclusive"
        BY <1>1, <1>2, <1>6, <2>1 DEF Plain
    <2>4. \A u : u.at = "queued" /\ ~u.post => Plain(w, u, lastID)
        BY <2>1, <2>3 DEF Plain
    <2> QED
        BY <1>1, <1>3, <1>6, <2>1, <2>2, <2>4, SameLease, QueuesKeeps
<1> QED
    BY <1>1, <1>4, <1>5, <1>6 DEF Validate

LEMMA FinishKeeps == ASSUME RegistryInv, NEW p \in Updaters, Finish(p) PROVE RegistryInv'
<1>1. /\ work[p].at = "working" /\ work' = [work EXCEPT ![p] = NoWork]
      /\ UNCHANGED <<updateVars, place, staged, undone, lastID>>
    BY DEF Finish
<1>2. update[p].at = "none" /\ ~update[p].post
    BY <1>1, CommandFacts DEF Plain
<1> QED
    BY <1>1, <1>2, NoWorkTyped, IdlePlain, SameLease, OutsideKeeps

(* A workspace is made at a free path, with an identity nobody has.           *)
LEMMA MakeKeeps ==
    ASSUME RegistryInv, NEW p \in Updaters, NEW r \in Roots, NEW op \in {"create", "clone"},
           \/ op = "create" /\ work[p].at = "idle"
           \/ op = "clone" /\ work[p].at = "leased" /\ work[p].op = "clone",
           Make(p, op, r)
    PROVE  RegistryInv'
<1> DEFINE new == lastID + 1
           w == [work[p] EXCEPT !.op = op, !.at = "update", !.id = new, !.root = r]
           u == [NoUpdate EXCEPT !.at = "queued"]
<1>1. /\ place[r] = 0 /\ lastID < MaxIDs /\ lastID' = new /\ place' = [place EXCEPT ![r] = new]
      /\ update' = [update EXCEPT ![p] = u] /\ UNCHANGED <<configuration, configLock, updateFaults, staged, undone>>
    BY DEF Make, Enqueue
<1>2. /\ work[p] \in Works /\ Plain(work[p], update[p], lastID) /\ RegistryTyped
    BY CommandFacts
<1>3. /\ lastID \in 0 .. MaxIDs /\ new \in 1 .. MaxIDs /\ lastID \in 0 .. new /\ new \notin 0 .. lastID /\ new \in 1 .. new
    BY <1>1, <1>2, RegistryAssumption DEF RegistryTyped
<1>4. work' = [work EXCEPT ![p] = w]
    BY <1>1, <1>2 DEF Make, RegistryTyped
<1>5. update[p].at = "none"
    BY <1>2 DEF Plain
<1> HIDE DEF new
<1>6. /\ w \in Works /\ w.at = "update" /\ w.op = op /\ w.id = new /\ w.root = r /\ w.source = work[p].source
      /\ w.lease = work[p].lease
    <2>1. new \in 0 .. MaxIDs /\ work[p] \in Works /\ op \in {"create", "clone"}
        BY <1>2, <1>3
    <2> QED
        BY <2>1 DEF Works
<1>7. u \in Updates /\ u.at = "queued" /\ ~u.post
    BY NoUpdateTyped DEF Updates
<1> HIDE DEF w, u
<1>8. op = "clone" => work[p].source \in Roots
    BY <1>2, <1>6 DEF Plain
<1>9. Plain(w, u, lastID')
    BY <1>1, <1>3, <1>6, <1>7, <1>8 DEF Plain
<1>10. /\ place' \in [Roots -> 0 .. new] /\ place'[r] = new /\ \A q \in Roots : q # r => place'[q] = place[q]
       /\ \A q \in Roots : place[q] \in 0 .. lastID
    <2>1. /\ place \in [Roots -> 0 .. lastID] /\ 0 .. lastID \subseteq 0 .. new
        BY <1>2, <1>3 DEF RegistryTyped
    <2> QED
        BY <1>1, <1>3, <2>1
<1>11. NewTyped
    <2>1. 1 .. lastID \subseteq 1 .. new
        BY <1>3
    <2> QED
        BY <1>1, <1>2, <1>3, <1>10, <2>1, FaultTyped DEF NewTyped, RegistryTyped, NoFault
<1>12. PlacesMove(p) /\ StagedMoves(p) /\ ConfigurationMoves(p)
    BY <1>1, <1>10 DEF PlacesMove, StagedMoves, ConfigurationMoves
<1>13. LockFollows(p, u)
    BY <1>1, <1>5, <1>7, CommandFacts DEF LockFollows, Holding, Past
<1>14. PlansKeep(p, u) /\ DeletionTold(p, w, u) /\ Staging(w, u, configuration', place', staged', undone')
    BY <1>7 DEF PlansKeep, DeletionTold, Staging, Deleted, Past
<1>15. LeaseKept(p, w)
    BY <1>6, SameLease
<1>16. PlacesApart'
    <2>1. staged \subseteq 1 .. lastID
        BY <1>2 DEF RegistryTyped
    <2>2. new \notin staged
        BY <1>3, <2>1
    <2>3. \A q \in Roots : place[q] # new
        BY <1>3, <1>10
    <2> QED
        BY <1>1, <1>10, <2>2, <2>3 DEF PlacesApart, RegistryInv
<1>17. Fine(configuration', place', staged', undone')
    <2>1. configuration \in Configurations /\ Fine(configuration, place, staged, undone)
        BY <1>2 DEF RegistryInv, RegistryTyped
    <2>2. \A reg \in configuration.workspaces : reg.id \in staged => reg.id \in staged'
        BY <1>1
    <2> QED
        BY <1>1, <1>12, <2>1, <2>2, FineKept
<1>18. w.at # "working"
    BY <1>6
<1> QED
    BY <1>1, <1>4, <1>6, <1>7, <1>9, <1>11, <1>12, <1>13, <1>14, <1>15, <1>16, <1>17, <1>18, StepKeeps

LEMMA CreateKeeps == ASSUME RegistryInv, NEW p \in Updaters, Create(p) PROVE RegistryInv'
    BY MakeKeeps DEF Create, Idle

LEMMA CloneKeeps == ASSUME RegistryInv, NEW p \in Updaters, Clone(p) PROVE RegistryInv'
<1>1. work[p].at = "leased" /\ work[p].op = "clone"
    BY DEF Clone
<1>2. CASE \E r \in Roots : Make(p, "clone", r)
    BY <1>1, <1>2, MakeKeeps
<1>3. CASE work' = [work EXCEPT ![p] = NoWork] /\ UNCHANGED <<updateVars, place, staged, undone, lastID>>
    <2>1. update[p].at = "none" /\ ~update[p].post
        BY <1>1, CommandFacts DEF Plain
    <2> QED
        BY <1>3, <2>1, NoWorkTyped, IdlePlain, SameLease, OutsideKeeps
<1> QED
    BY <1>2, <1>3 DEF Clone

LEMMA RegisterKeeps == ASSUME RegistryInv, NEW p \in Updaters, Register(p) PROVE RegistryInv'
<1>1. PICK r \in Roots :
        /\ Manifest(r) # 0
        /\ work' = [work EXCEPT ![p] = [NoWork EXCEPT !.op = "register", !.at = "update", !.id = place[r], !.root = r]]
    BY DEF Register
<1> DEFINE w == [NoWork EXCEPT !.op = "register", !.at = "update", !.id = place[r], !.root = r]
<1>2. /\ work' = [work EXCEPT ![p] = w] /\ update[p].at = "none" /\ Enqueue(p)
      /\ UNCHANGED <<configuration, configLock, updateFaults, place, staged, undone, lastID>>
    BY <1>1 DEF Register, Idle
<1>3. place \in [Roots -> 0 .. lastID] /\ lastID \in 0 .. MaxIDs
    BY CommandFacts DEF RegistryTyped
<1>4. place[r] \in 1 .. lastID /\ place[r] \in 0 .. MaxIDs
    BY <1>1, <1>3, RegistryAssumption DEF Manifest
<1>5. w \in Works /\ w.op = "register" /\ w.at = "update" /\ w.id = place[r] /\ w.root = r /\ w.lease = "none"
    BY <1>4, NoWorkTyped DEF Works
<1> HIDE DEF w
<1>6. \A u : u.at = "queued" /\ ~u.post => Plain(w, u, lastID)
    BY <1>4, <1>5 DEF Plain
<1> QED
    BY <1>2, <1>5, <1>6, SameLease, QueuesKeeps

LEMMA UnregisterKeeps == ASSUME RegistryInv, NEW p \in Updaters, Unregister(p) PROVE RegistryInv'
<1> DEFINE w == [NoWork EXCEPT !.op = "unregister", !.at = "update"]
<1>1. /\ work' = [work EXCEPT ![p] = w] /\ update[p].at = "none" /\ Enqueue(p)
      /\ UNCHANGED <<configuration, configLock, updateFaults, place, staged, undone, lastID>>
    BY DEF Unregister, Idle
<1>2. w \in Works /\ w.op = "unregister" /\ w.at = "update" /\ w.lease = "none"
    BY NoWorkTyped DEF Works
<1> HIDE DEF w
<1>3. \A u : u.at = "queued" /\ ~u.post => Plain(w, u, lastID)
    BY <1>2 DEF Plain
<1> QED
    BY <1>1, <1>2, <1>3, SameLease, QueuesKeeps

-----------------------------------------------------------------------------
(* One lemma per action: in the transaction.                                  *)

(* The transaction moves on or ends, with the directories as they are.        *)
LEMMA TransactionKeeps ==
    ASSUME RegistryInv, NEW p \in Updaters, work[p].at = "update", NEW u \in Updates,
           update' = [update EXCEPT ![p] = u], UNCHANGED <<work, place, staged, undone, lastID>>, NoFault \/ Fault,
           LockFollows(p, u), ConfigurationMoves(p), PlansKeep(p, u), DeletionTold(p, work[p], u),
           u.at \notin {"none", "post"}, ~u.post,
           Staging(work[p], u, configuration', place, staged, undone)
    PROVE  RegistryInv'
<1> DEFINE w == work[p]
<1>1. /\ w \in Works /\ work' = [work EXCEPT ![p] = w] /\ Plain(w, update[p], lastID) /\ RegistryTyped
      /\ Staging(w, update[p], configuration, place, staged, undone)
    BY CommandFacts DEF RegistryTyped
<1>2. configuration' \in Configurations /\ Fine(configuration', place', staged', undone')
    BY <1>1 DEF ConfigurationMoves, Staging, RegistryInv, RegistryTyped
<1>3. NewTyped
    BY <1>1, <1>2, FaultTyped, RegistryAssumption DEF NewTyped, RegistryTyped
<1>4. PlacesMove(p) /\ StagedMoves(p) /\ PlacesApart'
    BY DEF PlacesMove, StagedMoves, PlacesApart, RegistryInv
<1>5. LeaseKept(p, w)
    BY SameLease
<1>6. Plain(w, u, lastID')
    BY <1>1 DEF Plain
<1>7. Staging(w, u, configuration', place', staged', undone') /\ w.at # "working"
    OBVIOUS
<1> QED
    BY <1>1, <1>2, <1>3, <1>4, <1>5, <1>6, <1>7, StepKeeps

LEMMA EndedTyped == ASSUME NEW u \in Updates, u.at = "ended" PROVE
        /\ u.at \notin {"none", "post"} /\ u.at \notin Holding /\ u.at \notin Past
        /\ \A w, c, pl, st, un : Staging(w, u, c, pl, st, un)
        /\ \A p : PlansKeep(p, u)
    BY DEF Staging, Holding, Past, PlansKeep

LEMMA LockKeeps ==
    ASSUME RegistryInv, NEW p \in Updaters, LockConfiguration(p), UNCHANGED registryVars PROVE RegistryInv'
<1> DEFINE u == [update[p] EXCEPT !.at = "mutate", !.before = configuration]
<1>1. /\ update' = [update EXCEPT ![p] = u] /\ update[p].at = "queued" /\ configLock = NoUpdater /\ configLock' = p
      /\ UNCHANGED <<configuration, updateFaults, work, place, staged, undone, lastID>>
    BY CommandFacts DEF LockConfiguration, registryVars, RegistryTyped
<1>2. update[p] \in Updates /\ configuration \in Configurations /\ Plain(work[p], update[p], lastID)
    BY CommandFacts DEF RegistryTyped
<1>3. u \in Updates /\ u.at = "mutate" /\ u.before = configuration /\ u.post = update[p].post
    BY <1>2 DEF Updates, Holding
<1> HIDE DEF u
<1>4. work[p].at = "update" /\ ~u.post
    BY <1>1, <1>2, <1>3 DEF Plain
<1>5. LockFollows(p, u) /\ ConfigurationMoves(p) /\ PlansKeep(p, u) /\ DeletionTold(p, work[p], u)
    BY <1>1, <1>3 DEF LockFollows, ConfigurationMoves, PlansKeep, DeletionTold, Deleted, Holding, Past
<1>6. Staging(work[p], u, configuration', place, staged, undone)
    BY <1>1, <1>3 DEF Staging, Past
<1> QED
    BY <1>1, <1>3, <1>4, <1>5, <1>6, TransactionKeeps DEF NoFault

LEMMA TimeOutKeeps ==
    ASSUME RegistryInv, NEW p \in Updaters, LockTimesOut(p), UNCHANGED registryVars PROVE RegistryInv'
<1> DEFINE u == [NoUpdate EXCEPT !.at = "ended", !.result = "failed"]
<1>1. /\ update' = [update EXCEPT ![p] = u] /\ update[p].at = "queued"
      /\ UNCHANGED <<configuration, configLock, updateFaults, work, place, staged, undone, lastID>>
    BY DEF LockTimesOut, registryVars
<1>2. u \in Updates /\ u.at = "ended" /\ u.result = "failed" /\ ~u.post
    BY NoUpdateTyped DEF Updates, UpdateResults
<1> HIDE DEF u
<1>3. work[p].at = "update"
    BY <1>1, CommandFacts DEF Plain
<1>4. LockFollows(p, u) /\ ConfigurationMoves(p) /\ DeletionTold(p, work[p], u)
    BY <1>1, <1>2, CommandFacts DEF LockFollows, ConfigurationMoves, DeletionTold, Deleted, Holding, Past
<1> QED
    BY <1>1, <1>2, <1>3, <1>4, EndedTyped, TransactionKeeps DEF NoFault

(* What the mutator finds.                                                    *)
LEMMA MutatorFacts ==
    ASSUME RegistryInv, NEW p \in Updaters, update[p].at = "mutate"
    PROVE  /\ update[p] \in Updates /\ update[p].before = configuration /\ configLock = p
           /\ work[p] \in Works /\ work[p].at = "update" /\ ~update[p].post
           /\ configuration \in Configurations /\ Fine(configuration, place, staged, undone)
    BY CommandFacts DEF Staging, Plain, Holding, RegistryInv, RegistryTyped

(* EndUpdate by the holder of the lock.                                       *)
LEMMA EndKeeps ==
    ASSUME RegistryInv, NEW p \in Updaters, update[p].at \in Holding, NEW result \in UpdateResults,
           EndUpdate(p, result), UNCHANGED <<work, place, staged, undone, lastID>>, NoFault \/ Fault,
           ConfigurationMoves(p),
           work[p].op = "delete" /\ result \in {"ok", "installed"} =>
                update[p].at \in Past /\ configuration' = update[p].next
    PROVE  RegistryInv'
<1> DEFINE u == [NoUpdate EXCEPT !.at = "ended", !.result = result, !.missed = update[p].missed]
<1>1. update' = [update EXCEPT ![p] = u] /\ configLock' = NoUpdater
    BY DEF EndUpdate
<1>2. /\ update[p] \in Updates /\ Plain(work[p], update[p], lastID) /\ configLock = p
      /\ Staging(work[p], update[p], configuration, place, staged, undone)
    BY CommandFacts
<1>3. u \in Updates /\ u.at = "ended" /\ u.result = result /\ ~u.post
    BY <1>2, NoUpdateTyped DEF Updates
<1> HIDE DEF u
<1>4. work[p].at = "update"
    BY <1>2 DEF Plain, Holding, Past
<1>5. LockFollows(p, u)
    BY <1>1, <1>2, <1>3, EndedTyped DEF LockFollows
<1>6. DeletionTold(p, work[p], u)
    <2> SUFFICES ASSUME work[p].op = "delete", result \in {"ok", "installed"}
                 PROVE  /\ configLock = p /\ update[p].at \in Past /\ Names(update[p].before, work[p].id)
                        /\ work[p].id \in staged' /\ ~Names(configuration', work[p].id)
        BY <1>3 DEF DeletionTold, Deleted
    <2>1. /\ work[p].id \in staged /\ ~Names(update[p].next, work[p].id)
          /\ [id |-> work[p].id, root |-> work[p].root] \in update[p].before.workspaces
        BY <1>2 DEF Staging
    <2> QED
        BY <1>2, <2>1 DEF Names
<1> QED
    BY <1>1, <1>3, <1>4, <1>5, <1>6, EndedTyped, TransactionKeeps

LEMMA RefuseKeeps ==
    ASSUME RegistryInv, NEW p \in Updaters, update[p].at = "mutate", Refuse(p), NoFault \/ Fault,
           UNCHANGED <<work, place, staged, undone, lastID>>
    PROVE  RegistryInv'
    BY EndKeeps DEF Refuse, Holding, UpdateResults, ConfigurationMoves

(* Advance and the like: the transaction goes on past its mutator.            *)
LEMMA GoesOnKeeps ==
    ASSUME RegistryInv, NEW p \in Updaters, update[p].at \in Past, NEW at \in {"restore", "rollback"},
           Advance(p, at), UNCHANGED registryVars, NoFault \/ Fault,
           configuration' = (IF at = "rollback" THEN update[p].before ELSE update[p].next)
    PROVE  RegistryInv'
<1> DEFINE u == [update[p] EXCEPT !.at = at]
<1>1. /\ update' = [update EXCEPT ![p] = u] /\ configLock' = configLock
      /\ UNCHANGED <<work, place, staged, undone, lastID>>
    BY DEF Advance, registryVars
<1>2. /\ update[p] \in Updates /\ Plain(work[p], update[p], lastID) /\ configLock = p /\ p # NoUpdater
      /\ Staging(work[p], update[p], configuration, place, staged, undone)
    BY CommandFacts DEF Holding
<1>3. /\ u \in Updates /\ u.at = at /\ u.before = update[p].before /\ u.next = update[p].next
      /\ u.post = update[p].post
    BY <1>2 DEF Updates, Holding, Past
<1> HIDE DEF u
<1>4. work[p].at = "update" /\ ~u.post
    BY <1>2, <1>3 DEF Plain, Past
<1>5. LockFollows(p, u) /\ ConfigurationMoves(p)
    BY <1>1, <1>2, <1>3 DEF LockFollows, ConfigurationMoves, Holding, Past
<1>6. PlansKeep(p, u) /\ DeletionTold(p, work[p], u)
    BY <1>3 DEF PlansKeep, DeletionTold, Deleted
<1>7. Staging(work[p], u, configuration', place, staged, undone)
    BY <1>2, <1>3 DEF Staging, Past
<1> QED
    BY <1>1, <1>3, <1>4, <1>5, <1>6, <1>7, TransactionKeeps

LEMMA SaveKeeps ==
    ASSUME RegistryInv, NEW p \in Updaters, SaveConfiguration(p), UNCHANGED registryVars PROVE RegistryInv'
<1>1. /\ update[p].at = "save" /\ ~update[p].post /\ update[p].at \in Past /\ update[p].at \in Holding
      /\ configLock = p /\ configuration = update[p].before
      /\ UNCHANGED <<work, place, staged, undone, lastID>>
    BY CommandFacts DEF SaveConfiguration, Plain, Staging, Past, Holding, registryVars
<1>2. \/ NoFault /\ configuration' = update[p].next /\ EndUpdate(p, "ok")
      \/ Fault /\ UNCHANGED configuration /\ Advance(p, "rollback")
      \/ Fault /\ configuration' = update[p].next /\ Advance(p, "restore")
    BY <1>1 DEF SaveConfiguration
<1>3. CASE NoFault /\ configuration' = update[p].next /\ EndUpdate(p, "ok")
    <2>1. ConfigurationMoves(p) /\ "ok" \in UpdateResults
        BY <1>1, <1>3 DEF ConfigurationMoves, UpdateResults
    <2> QED
        BY <1>1, <1>3, <2>1, EndKeeps
<1>4. CASE Fault /\ UNCHANGED configuration /\ Advance(p, "rollback")
    BY <1>1, <1>4, GoesOnKeeps
<1>5. CASE Fault /\ configuration' = update[p].next /\ Advance(p, "restore")
    BY <1>1, <1>5, GoesOnKeeps
<1> QED
    BY <1>2, <1>3, <1>4, <1>5

LEMMA RestoreKeeps ==
    ASSUME RegistryInv, NEW p \in Updaters, RestoreConfiguration(p), UNCHANGED registryVars PROVE RegistryInv'
<1>1. /\ update[p].at = "restore" /\ ~update[p].post /\ update[p].at \in Past /\ update[p].at \in Holding
      /\ configLock = p /\ configuration = update[p].next
      /\ UNCHANGED <<work, place, staged, undone, lastID>>
    BY CommandFacts DEF RestoreConfiguration, Plain, Staging, Past, Holding, registryVars
<1>2. \/ NoFault /\ configuration' = update[p].before /\ Advance(p, "rollback")
      \/ Fault /\ UNCHANGED configuration /\ EndUpdate(p, "installed")
    BY <1>1 DEF RestoreConfiguration, StayInstalled
<1>3. CASE NoFault /\ configuration' = update[p].before /\ Advance(p, "rollback")
    BY <1>1, <1>3, GoesOnKeeps
<1>4. CASE Fault /\ UNCHANGED configuration /\ EndUpdate(p, "installed")
    <2>1. ConfigurationMoves(p) /\ "installed" \in UpdateResults
        BY <1>4 DEF ConfigurationMoves, UpdateResults
    <2> QED
        BY <1>1, <1>4, <2>1, EndKeeps
<1> QED
    BY <1>2, <1>3, <1>4

(* Proceed without a change to a directory.                                   *)
LEMMA ProceedKeeps ==
    ASSUME RegistryInv, NEW p \in Updaters, update[p].at = "mutate", NEW next \in Configurations,
           Proceed(p, next, FALSE), NoFault, UNCHANGED registryVars, work[p].op # "delete",
           Fine(next, place, staged, undone),
           \A id : Names(next, id) => Names(configuration, id) \/ id \notin staged
    PROVE  RegistryInv'
<1> DEFINE u == [update[p] EXCEPT !.at = "save", !.next = next, !.post = FALSE]
<1>1. /\ update' = [update EXCEPT ![p] = u]
      /\ UNCHANGED <<configuration, configLock, work, place, staged, undone, lastID>>
    BY CommandFacts DEF Proceed, registryVars, RegistryTyped
<1>2. /\ update[p] \in Updates /\ update[p].before = configuration /\ configLock = p /\ work[p].at = "update"
      /\ configuration \in Configurations /\ Fine(configuration, place, staged, undone)
    BY MutatorFacts
<1>3. u \in Updates /\ u.at = "save" /\ u.next = next /\ ~u.post /\ u.before = update[p].before
    BY <1>2 DEF Updates, Holding, Past
<1> HIDE DEF u
<1>4. LockFollows(p, u) /\ ConfigurationMoves(p) /\ DeletionTold(p, work[p], u)
    BY <1>1, <1>2, <1>3 DEF LockFollows, ConfigurationMoves, DeletionTold, Deleted, Holding, Past
<1>5. PlansKeep(p, u)
    BY <1>2, <1>3 DEF PlansKeep
<1>6. Staging(work[p], u, configuration', place, staged, undone)
    BY <1>1, <1>2, <1>3 DEF Staging
<1> QED
    BY <1>1, <1>2, <1>3, <1>4, <1>5, <1>6, TransactionKeeps

LEMMA NextTyped ==
    ASSUME configuration \in Configurations, NEW W \in SUBSET Registrations
    PROVE  /\ [configuration EXCEPT !.workspaces = W] \in Configurations
           /\ [configuration EXCEPT !.workspaces = W].workspaces = W
    BY DEF Configurations

LEMMA ApplyRegistrationKeeps == ASSUME RegistryInv, NEW p \in Updaters, ApplyRegistration(p) PROVE RegistryInv'
<1> DEFINE w == work[p]
           new == [id |-> w.id, root |-> w.root]
           W == configuration.workspaces \cup {new}
           next == [configuration EXCEPT !.workspaces = W]
<1>1. /\ update[p].at = "mutate" /\ w.op \in {"create", "clone", "register"}
      /\ UNCHANGED <<updateFaults, registryVars>>
    BY DEF ApplyRegistration, RegistryTurn
<1>2. CASE Refuse(p)
    BY <1>1, <1>2, RefuseKeeps DEF NoFault, registryVars
<1>3. CASE /\ ManifestUnchanged(p) /\ Proceed(p, next, FALSE)
           /\ \A other \in configuration.workspaces : other.id # w.id /\ other.root # w.root
    <2>1. /\ configuration \in Configurations /\ Fine(configuration, place, staged, undone)
          /\ w.at = "update" /\ Plain(w, update[p], lastID) /\ lastID \in 0 .. MaxIDs
        BY <1>1, MutatorFacts, CommandFacts DEF RegistryTyped
    <2>2. w.root \in Roots /\ w.id \in 1 .. lastID /\ w.id \in 1 .. MaxIDs /\ w.id # 0
        BY <1>1, <2>1, RegistryAssumption DEF Plain
    <2>3. place[w.root] = w.id
        BY <1>3, <2>2 DEF ManifestUnchanged, Manifest
    <2>4. w.id \notin staged
        BY <2>2, <2>3 DEF RegistryInv, PlacesApart
    <2>5. W \in SUBSET Registrations
        BY <2>1, <2>2 DEF Configurations, Registrations
    <2>6. next \in Configurations /\ next.workspaces = W
        BY <2>1, <2>5, NextTyped
    <2>7. new.id = w.id /\ new.root = w.root
        OBVIOUS
    <2>8. Proceed(p, next, FALSE)
        BY <1>3
    <2> HIDE DEF next, new
    <2>9. Fine(next, place, staged, undone)
        BY <1>3, <2>1, <2>3, <2>6, <2>7 DEF Fine, There
    <2>10. \A id : Names(next, id) => Names(configuration, id) \/ id \notin staged
        BY <2>4, <2>6, <2>7 DEF Names
    <2> QED
        BY <1>1, <2>6, <2>8, <2>9, <2>10, ProceedKeeps DEF NoFault
<1> QED
    BY <1>2, <1>3 DEF ApplyRegistration

LEMMA ApplyUnregistrationKeeps == ASSUME RegistryInv, NEW p \in Updaters, ApplyUnregistration(p) PROVE RegistryInv'
<1>1. update[p].at = "mutate" /\ work[p].op = "unregister" /\ UNCHANGED <<updateFaults, registryVars>>
    BY DEF ApplyUnregistration, RegistryTurn
<1>2. CASE Refuse(p)
    BY <1>1, <1>2, RefuseKeeps DEF NoFault, registryVars
<1>3. ASSUME NEW old \in configuration.workspaces,
             Proceed(p, [configuration EXCEPT !.workspaces = configuration.workspaces \ {old}], FALSE)
      PROVE  RegistryInv'
    <2> DEFINE W == configuration.workspaces \ {old}
               next == [configuration EXCEPT !.workspaces = W]
    <2>1. configuration \in Configurations /\ Fine(configuration, place, staged, undone)
        BY <1>1, MutatorFacts
    <2>2. W \in SUBSET Registrations
        BY <2>1 DEF Configurations
    <2>3. next \in Configurations /\ next.workspaces = W
        BY <2>1, <2>2, NextTyped
    <2>4. Proceed(p, next, FALSE)
        BY <1>3
    <2> HIDE DEF next
    <2>5. Fine(next, place, staged, undone) /\ \A id : Names(next, id) => Names(configuration, id)
        BY <2>1, <2>3 DEF Fine, Names
    <2> QED
        BY <1>1, <2>3, <2>4, <2>5, ProceedKeeps DEF NoFault
<1> QED
    BY <1>2, <1>3 DEF ApplyUnregistration

LEMMA StageDeletionKeeps == ASSUME RegistryInv, NEW p \in Updaters, StageDeletion(p) PROVE RegistryInv'
<1> DEFINE w == work[p]
           id == w.id
           gone == [id |-> w.id, root |-> w.root]
           W == configuration.workspaces \ {gone}
           next == [configuration EXCEPT !.workspaces = W]
           u == [update[p] EXCEPT !.at = "save", !.next = next, !.post = FALSE]
<1>1. update[p].at = "mutate" /\ w.op = "delete" /\ UNCHANGED <<undone, work, lastID>>
    BY DEF StageDeletion, RegistryTurn
<1>2. CASE Refuse(p) /\ (NoFault \/ Fault) /\ UNCHANGED <<place, staged>>
    BY <1>1, <1>2, RefuseKeeps
<1>3. CASE /\ IsRegistered(w.id, w.root) /\ Manifest(w.root) = w.id /\ NoFault
           /\ place' = [place EXCEPT ![w.root] = 0] /\ staged' = staged \cup {w.id} /\ Proceed(p, next, FALSE)
    <2>1. /\ update[p] \in Updates /\ update[p].before = configuration /\ configLock = p
          /\ w \in Works /\ w.at = "update" /\ configuration \in Configurations
          /\ Fine(configuration, place, staged, undone)
        BY <1>1, MutatorFacts
    <2>2. RegistryTyped /\ Plain(w, update[p], lastID)
        BY CommandFacts
    <2>3. w.id \in 1 .. lastID /\ w.id # 0 /\ w.root \in Roots /\ w.root = w.source /\ w.lease = "exclusive"
        BY <1>1, <2>1, <2>2 DEF Plain
    <2>4. /\ place \in [Roots -> 0 .. lastID] /\ lastID \in 0 .. MaxIDs /\ staged \in SUBSET (1 .. lastID)
          /\ place[w.root] = w.id
        BY <1>3, <2>2, <2>3 DEF RegistryTyped, Manifest
    <2>5. /\ place' \in [Roots -> 0 .. lastID] /\ place'[w.root] = 0
          /\ \A r \in Roots : r # w.root => place'[r] = place[r]
        <3>1. 0 \in 0 .. lastID
            BY <2>4, RegistryAssumption
        <3> QED
            BY <1>3, <2>3, <2>4, <3>1
    <2>6. W \in SUBSET Registrations
        BY <2>1 DEF Configurations
    <2>7. next \in Configurations /\ next.workspaces = W
        BY <2>1, <2>6, NextTyped
    <2>8. gone \in configuration.workspaces /\ gone.id = w.id /\ gone.root = w.root
        BY <1>3 DEF IsRegistered
    <2>9. Proceed(p, next, FALSE)
        BY <1>3
    <2> HIDE DEF next
    <2>10. update' = [update EXCEPT ![p] = u] /\ UNCHANGED <<configuration, configLock>>
        BY <2>2, <2>9 DEF Proceed, RegistryTyped
    <2>11. u \in Updates /\ u.at = "save" /\ u.next = next /\ ~u.post /\ u.before = configuration
        BY <2>1, <2>7 DEF Updates, Holding, Past
    <2> HIDE DEF u, gone
    <2>12. ~Names(next, w.id)
        BY <2>1, <2>7, <2>8 DEF Names, Fine
    <2>13. PlacesMove(p) /\ StagedMoves(p) /\ ConfigurationMoves(p)
        BY <1>1, <1>3, <2>3, <2>4, <2>5, <2>10 DEF PlacesMove, StagedMoves, ConfigurationMoves
    <2>14. Fine(configuration', place', staged', undone') /\ Fine(next, place', staged', undone')
        <3>1. Fine(configuration, place', staged', undone')
            BY <1>3, <2>1, <2>13, FineKept
        <3> QED
            BY <2>7, <2>10, <3>1 DEF Fine
    <2>15. PlacesApart'
        <3>1. 0 \notin staged \cup {w.id}
            BY <2>3, <2>4
        <3>2. \A r \in Roots : r # w.root => place[r] # w.id /\ place[r] \notin staged
            BY <2>3, <2>4 DEF RegistryInv, PlacesApart
        <3>3. \A a, b \in Roots : place[a] = place[b] /\ place[a] # 0 => a = b
            BY DEF RegistryInv, PlacesApart
        <3>4. \A r \in Roots : place'[r] \notin staged'
            BY <1>3, <2>5, <3>1, <3>2
        <3>5. \A a, b \in Roots : place'[a] = place'[b] /\ place'[a] # 0 => a = b
            BY <2>5, <3>3
        <3> QED
            BY <3>4, <3>5 DEF PlacesApart
    <2>16. NewTyped
        <3>1. lastID \in 0 .. lastID
            BY <2>4, RegistryAssumption
        <3>2. staged \cup {w.id} \in SUBSET (1 .. lastID)
            BY <2>3, <2>4
        <3> QED
            BY <1>1, <1>3, <2>1, <2>2, <2>4, <2>5, <2>10, <3>1, <3>2, FaultTyped DEF NewTyped, RegistryTyped
    <2>17. LockFollows(p, u) /\ DeletionTold(p, w, u) /\ LeaseKept(p, w)
        BY <2>1, <2>10, <2>11, SameLease DEF LockFollows, DeletionTold, Deleted, Holding, Past
    <2>18. PlansKeep(p, u)
        BY <2>7, <2>11 DEF PlansKeep, Names
    <2>19. Plain(w, u, lastID') /\ w.at # "working"
        BY <1>1, <2>1, <2>2, <2>11 DEF Plain
    <2>20. Staging(w, u, configuration', place', staged', undone')
        <3>1. w.id \in staged' /\ [id |-> w.id, root |-> w.root] \in u.before.workspaces
            BY <1>3, <2>8, <2>11 DEF gone
        <3> QED
            BY <2>1, <2>7, <2>10, <2>11, <2>12, <2>14, <3>1 DEF Staging
    <2>21. work' = [work EXCEPT ![p] = w]
        BY <1>1, <2>2 DEF RegistryTyped
    <2> QED
        BY <2>1, <2>10, <2>11, <2>13, <2>14, <2>15, <2>16, <2>17, <2>18, <2>19, <2>20, <2>21, StepKeeps
<1> QED
    BY <1>2, <1>3 DEF StageDeletion

LEMMA RollBackKeeps == ASSUME RegistryInv, NEW p \in Updaters, RollBack(p) PROVE RegistryInv'
<1> DEFINE w == work[p]
           u == [NoUpdate EXCEPT !.at = "ended", !.result = "failed", !.missed = update[p].missed]
<1>1. /\ update[p].at = "rollback" /\ UNCHANGED <<configuration, undone, work, lastID>>
      /\ EndUpdate(p, "failed")
    BY DEF RollBack, RolledBack
<1>2. CASE (NoFault \/ Fault) /\ UNCHANGED <<place, staged>>
    BY <1>1, <1>2, EndKeeps DEF Holding, Past, UpdateResults, ConfigurationMoves
<1>3. CASE /\ w.op = "delete" /\ NoFault /\ place[w.root] = 0
           /\ place' = [place EXCEPT ![w.root] = w.id] /\ staged' = staged \ {w.id}
    <2>1. /\ w \in Works /\ update[p] \in Updates /\ Plain(w, update[p], lastID) /\ RegistryTyped /\ configLock = p
          /\ Staging(w, update[p], configuration, place, staged, undone)
        BY <1>1, CommandFacts DEF Holding, Past
    <2>2. /\ configuration = update[p].before /\ w.id \in staged
          /\ [id |-> w.id, root |-> w.root] \in configuration.workspaces
        BY <1>1, <1>3, <2>1 DEF Staging, Past
    <2>3. w.id \in 1 .. lastID /\ w.id # 0 /\ w.root \in Roots /\ w.at = "update"
        BY <1>1, <1>3, <2>1 DEF Plain
    <2>4. /\ place \in [Roots -> 0 .. lastID] /\ lastID \in 0 .. MaxIDs /\ staged \in SUBSET (1 .. lastID)
          /\ configuration \in Configurations /\ Fine(configuration, place, staged, undone)
        BY <2>1 DEF RegistryTyped, RegistryInv
    <2>5. /\ place' \in [Roots -> 0 .. lastID] /\ place'[w.root] = w.id
          /\ \A r \in Roots : r # w.root => place'[r] = place[r]
        <3>1. w.id \in 0 .. lastID
            BY <2>3, <2>4, RegistryAssumption
        <3> QED
            BY <1>3, <2>3, <2>4, <3>1
    <2>6. update' = [update EXCEPT ![p] = u] /\ configLock' = NoUpdater
        BY <1>1 DEF EndUpdate
    <2>7. u \in Updates /\ u.at = "ended" /\ u.result = "failed" /\ ~u.post
        BY <2>1, NoUpdateTyped DEF Updates, UpdateResults
    <2> HIDE DEF u
    <2>8. Names(update[p].before, w.id)
        BY <2>2 DEF Names
    <2>9. PlacesMove(p) /\ StagedMoves(p) /\ ConfigurationMoves(p)
        BY <1>1, <1>3, <2>1, <2>5, <2>8 DEF PlacesMove, StagedMoves, ConfigurationMoves, Past
    <2>10. Fine(configuration', place', staged', undone')
        <3>1. ASSUME NEW reg \in configuration.workspaces PROVE There(reg, place', staged', undone')
            <4>1. reg.id \in 1 .. MaxIDs /\ reg.root \in Roots /\ reg.id # 0
                BY <2>4 DEF Configurations, Registrations
            <4>2. CASE reg.id = w.id
                <5>1. reg = [id |-> w.id, root |-> w.root]
                    BY <2>2, <2>4, <4>2 DEF Fine
                <5> QED
                    BY <2>5, <5>1 DEF There
            <4>3. CASE reg.id # w.id
                <5>1. There(reg, place, staged, undone)
                    BY <2>4 DEF Fine
                <5> QED
                    BY <1>1, <1>3, <2>5, <4>1, <4>3, <5>1 DEF There
            <4> QED
                BY <4>2, <4>3
        <3> QED
            BY <1>1, <2>4, <3>1 DEF Fine
    <2>11. PlacesApart'
        <3>1. \A r \in Roots : place[r] \notin staged /\ place[r] # w.id
            BY <2>2 DEF RegistryInv, PlacesApart
        <3>2. \A a, b \in Roots : place[a] = place[b] /\ place[a] # 0 => a = b
            BY DEF RegistryInv, PlacesApart
        <3>3. \A r \in Roots : place'[r] \notin staged'
            BY <1>3, <2>5, <3>1
        <3>4. \A a, b \in Roots : place'[a] = place'[b] /\ place'[a] # 0 => a = b
            BY <2>5, <3>1, <3>2
        <3> QED
            BY <3>3, <3>4 DEF PlacesApart
    <2>12. NewTyped
        <3>1. lastID \in 0 .. lastID
            BY <2>4, RegistryAssumption
        <3>2. staged' \in SUBSET (1 .. lastID)
            BY <1>3, <2>4
        <3> QED
            BY <1>1, <1>3, <2>1, <2>4, <2>5, <3>1, <3>2, FaultTyped DEF NewTyped, RegistryTyped
    <2>13. LockFollows(p, u) /\ DeletionTold(p, w, u) /\ LeaseKept(p, w) /\ PlansKeep(p, u)
        BY <2>1, <2>6, <2>7, SameLease DEF LockFollows, DeletionTold, Deleted, PlansKeep, Holding, Past
    <2>14. Plain(w, u, lastID') /\ w.at # "working" /\ Staging(w, u, configuration', place', staged', undone')
        BY <1>1, <2>1, <2>3, <2>7, EndedTyped DEF Plain
    <2>15. work' = [work EXCEPT ![p] = w]
        BY <1>1, <2>1 DEF RegistryTyped
    <2> QED
        BY <2>1, <2>6, <2>7, <2>9, <2>10, <2>11, <2>12, <2>13, <2>14, <2>15, StepKeeps
<1> QED
    BY <1>2, <1>3 DEF RollBack

-----------------------------------------------------------------------------
(* One lemma per action: after the transaction.                               *)

LEMMA UpdatedKeeps == ASSUME RegistryInv, NEW p \in Updaters, Updated(p) PROVE RegistryInv'
<1> DEFINE w == [work[p] EXCEPT !.at = "undo"]
<1>1. /\ work[p].at = "update" /\ update[p].at = "ended" /\ update' = [update EXCEPT ![p] = NoUpdate]
      /\ UNCHANGED <<configuration, configLock, place, undone, lastID>>
    BY DEF Updated
<1>2. /\ work[p] \in Works /\ Plain(work[p], update[p], lastID) /\ RegistryTyped /\ configLock # p
    BY <1>1, CommandFacts DEF Holding, Past
<1>3. LockFollows(p, NoUpdate) /\ PlansKeep(p, NoUpdate)
    BY <1>1, <1>2, NoUpdateTyped DEF LockFollows, PlansKeep, Holding, Past
<1>4. CASE work[p].op \in {"create", "clone"} /\ work' = [work EXCEPT ![p].at = "undo"] /\ NoFault /\ UNCHANGED staged
    <2>1. /\ w \in Works /\ w.at = "undo" /\ w.op = work[p].op /\ w.id = work[p].id /\ w.source = work[p].source
          /\ w.lease = work[p].lease /\ w.root = work[p].root
        BY <1>2 DEF Works
    <2>2. work' = [work EXCEPT ![p] = w]
        BY <1>4
    <2> HIDE DEF w
    <2>3. Plain(w, NoUpdate, lastID)
        BY <1>1, <1>2, <1>4, <2>1, NoUpdateTyped DEF Plain
    <2>4. LeaseKept(p, w) /\ ~Deleted(w, NoUpdate) /\ Staging(w, NoUpdate, configuration, place, staged, undone)
        BY <2>1, SameLease, NoUpdateTyped DEF Deleted, Staging, Past
    <2>5. w.at # "working"
        BY <2>1
    <2> QED
        BY <1>1, <1>3, <1>4, <2>1, <2>2, <2>3, <2>4, <2>5, NoUpdateTyped, QuietKeeps
<1>5. CASE /\ work' = [work EXCEPT ![p] = NoWork] /\ (NoFault \/ Fault)
           /\ \/ UNCHANGED staged
              \/ work[p].op = "delete" /\ InEffect(p) /\ staged' = staged \ {work[p].id}
    <2>1. Deleted(work[p], update[p]) \/ UNCHANGED staged
        BY <1>1, <1>5 DEF Deleted, InEffect
    <2>2. PlacesMove(p) /\ StagedMoves(p) /\ ConfigurationMoves(p)
        BY <1>1, <1>5, <2>1 DEF PlacesMove, StagedMoves, ConfigurationMoves
    <2>3. staged' \subseteq staged
        BY <1>5
    <2>4. NewTyped
        <3>1. lastID \in 0 .. lastID
            BY <1>2, RegistryAssumption DEF RegistryTyped
        <3> QED
            BY <1>1, <1>2, <1>5, <2>3, <3>1, FaultTyped DEF NewTyped, RegistryTyped
    <2>5. Fine(configuration', place', staged', undone')
        <3>1. configuration \in Configurations /\ Fine(configuration, place, staged, undone)
            BY <1>2 DEF RegistryTyped, RegistryInv
        <3>2. Deleted(work[p], update[p]) => ~Names(configuration, work[p].id)
            BY DEF RegistryInv, DeletedIsGone
        <3>3. \A reg \in configuration.workspaces : reg.id \in staged => reg.id \in staged'
            BY <1>5, <2>1, <3>2 DEF Names
        <3> QED
            BY <1>1, <2>2, <3>1, <3>3, FineKept
    <2>6. PlacesApart'
        BY <1>1, <2>3 DEF PlacesApart, RegistryInv
    <2>7. Plain(NoWork, NoUpdate, lastID') /\ LeaseKept(p, NoWork) /\ DeletionTold(p, NoWork, NoUpdate)
        BY NoWorkTyped, NoUpdateTyped, IdlePlain, SameLease DEF DeletionTold, Deleted
    <2>8. Staging(NoWork, NoUpdate, configuration', place', staged', undone') /\ NoWork.at # "working"
        BY NoWorkTyped, NoUpdateTyped DEF Staging, Past
    <2>9. work' = [work EXCEPT ![p] = NoWork] /\ NoWork \in Works /\ NoUpdate \in Updates
        BY <1>5, NoWorkTyped, NoUpdateTyped
    <2> QED
        BY <1>1, <1>3, <2>2, <2>4, <2>5, <2>6, <2>7, <2>8, <2>9, StepKeeps
<1> QED
    BY <1>4, <1>5 DEF Updated

(* A failed creation takes back what it made, or what is there by then.       *)
LEMMA UndoKeeps ==
    ASSUME RegistryInv, NEW p \in Updaters, work[p].at = "undo", work' = [work EXCEPT ![p] = NoWork],
           UNCHANGED <<configuration, configLock, update, staged, lastID>>, NoFault \/ Fault,
           undone \subseteq undone' /\ undone' \in SUBSET (1 .. MaxIDs), place' \in [Roots -> 0 .. lastID],
           \A r \in Roots : place'[r] = place[r] \/ (place'[r] = 0 /\ place[r] \in undone' \cup {0})
    PROVE  RegistryInv'
<1> DEFINE u == update[p]
<1>1. /\ u \in Updates /\ u.at = "none" /\ ~u.post /\ RegistryTyped /\ configLock # p
    BY CommandFacts DEF Plain, Holding, Past
<1>2. update' = [update EXCEPT ![p] = u]
    BY <1>1 DEF RegistryTyped
<1>3. LockFollows(p, u) /\ PlansKeep(p, u)
    BY <1>1 DEF LockFollows, PlansKeep, Holding, Past
<1>4. DeletionTold(p, NoWork, u) /\ Staging(NoWork, u, configuration', place', staged', undone')
    BY <1>1, NoWorkTyped DEF DeletionTold, Deleted, Staging, Past
<1> HIDE DEF u
<1>5. PlacesMove(p) /\ StagedMoves(p) /\ ConfigurationMoves(p)
    BY DEF PlacesMove, StagedMoves, ConfigurationMoves
<1>6. NewTyped
    <2>1. lastID \in 0 .. lastID
        BY <1>1, RegistryAssumption DEF RegistryTyped
    <2> QED
        BY <1>1, <2>1, FaultTyped DEF NewTyped, RegistryTyped
<1>7. Fine(configuration', place', staged', undone')
    <2>1. configuration \in Configurations /\ Fine(configuration, place, staged, undone)
        BY <1>1 DEF RegistryTyped, RegistryInv
    <2>2. \A reg \in configuration.workspaces : reg.id \in staged => reg.id \in staged'
        OBVIOUS
    <2> QED
        BY <1>5, <2>1, <2>2, FineKept
<1>8. PlacesApart'
    <2>1. 0 \notin staged
        BY <1>1, RegistryAssumption DEF RegistryTyped
    <2> QED
        BY <2>1 DEF PlacesApart, RegistryInv
<1>9. Plain(NoWork, u, lastID') /\ LeaseKept(p, NoWork) /\ NoWork.at # "working"
    BY <1>1, NoWorkTyped, IdlePlain, SameLease
<1> QED
    BY <1>1, <1>2, <1>3, <1>4, <1>5, <1>6, <1>7, <1>8, <1>9, NoWorkTyped, StepKeeps

LEMMA UndoFacts ==
    ASSUME RegistryInv, NEW p \in Updaters, work[p].at = "undo"
    PROVE  /\ work[p].id \in 1 .. MaxIDs /\ work[p].root \in Roots
           /\ place \in [Roots -> 0 .. lastID] /\ \A r \in Roots : place[r] \in 0 .. MaxIDs
           /\ undone \in SUBSET (1 .. MaxIDs) /\ 0 \in 0 .. lastID
<1>1. /\ Plain(work[p], update[p], lastID) /\ place \in [Roots -> 0 .. lastID] /\ lastID \in 0 .. MaxIDs
      /\ undone \in SUBSET (1 .. MaxIDs)
    BY CommandFacts DEF RegistryTyped
<1>2. work[p].id \in 1 .. lastID /\ work[p].root \in Roots
    BY <1>1 DEF Plain
<1> QED
    BY <1>1, <1>2, RegistryAssumption

LEMMA UndoCreateKeeps == ASSUME RegistryInv, NEW p \in Updaters, UndoCreate(p) PROVE RegistryInv'
<1>1. /\ work[p].at = "undo" /\ work' = [work EXCEPT ![p] = NoWork]
      /\ UNCHANGED <<configuration, configLock, update, staged, lastID>> /\ (NoFault \/ Fault)
    BY DEF UndoCreate
<1>2. CASE UNCHANGED place /\ undone' \in {undone, undone \cup {work[p].id}}
    <2>1. undone \subseteq undone' /\ undone' \in SUBSET (1 .. MaxIDs) /\ place' \in [Roots -> 0 .. lastID]
        BY <1>1, <1>2, UndoFacts
    <2>2. \A r \in Roots : place'[r] = place[r]
        BY <1>2
    <2> QED
        BY <1>1, <2>1, <2>2, UndoKeeps
<1>3. CASE /\ place' = [r \in Roots |-> IF place[r] = work[p].id THEN 0 ELSE place[r]]
           /\ undone' = undone \cup {work[p].id}
    <2>1. undone \subseteq undone' /\ undone' \in SUBSET (1 .. MaxIDs) /\ place' \in [Roots -> 0 .. lastID]
        BY <1>1, <1>3, UndoFacts
    <2>2. \A r \in Roots : place'[r] = place[r] \/ (place'[r] = 0 /\ place[r] \in undone' \cup {0})
        BY <1>3
    <2> QED
        BY <1>1, <2>1, <2>2, UndoKeeps
<1> QED
    BY <1>2, <1>3 DEF UndoCreate

LEMMA UndoCloneKeeps == ASSUME RegistryInv, NEW p \in Updaters, UndoClone(p) PROVE RegistryInv'
<1> DEFINE r0 == work[p].root
<1>1. /\ work[p].at = "undo" /\ work' = [work EXCEPT ![p] = NoWork] /\ undone' = undone \cup ({place[r0]} \ {0})
      /\ UNCHANGED <<configuration, configLock, update, staged, lastID>> /\ (NoFault \/ Fault)
      /\ (UNCHANGED place \/ place' = [place EXCEPT ![r0] = 0])
    BY DEF UndoClone
<1>2. r0 \in Roots /\ place \in [Roots -> 0 .. lastID] /\ undone \in SUBSET (1 .. MaxIDs) /\ 0 \in 0 .. lastID
    BY <1>1, UndoFacts
<1>3. place[r0] \in 0 .. MaxIDs
    BY <1>1, <1>2, UndoFacts
<1> HIDE DEF r0
<1>4. {place[r0]} \ {0} \in SUBSET (1 .. MaxIDs)
    BY <1>3, RegistryAssumption
<1>5. undone \subseteq undone' /\ undone' \in SUBSET (1 .. MaxIDs)
    BY <1>1, <1>2, <1>4
<1>6. place' \in [Roots -> 0 .. lastID]
    BY <1>1, <1>2
<1>7. \A r \in Roots : place'[r] = place[r] \/ (place'[r] = 0 /\ place[r] \in undone' \cup {0})
    BY <1>1, <1>2
<1> QED
    BY <1>1, <1>5, <1>6, <1>7, UndoKeeps

LEMMA KillKeeps == ASSUME RegistryInv, NEW p \in Updaters, KillCommand(p) PROVE RegistryInv'
<1>1. /\ Fault /\ update' = [update EXCEPT ![p] = NoUpdate] /\ work' = [work EXCEPT ![p] = NoWork]
      /\ configLock' = (IF configLock = p THEN NoUpdater ELSE configLock)
      /\ UNCHANGED <<configuration, place, staged, undone, lastID>>
    BY DEF KillCommand, DropUpdate
<1>2. LockFollows(p, NoUpdate) /\ PlansKeep(p, NoUpdate)
    BY <1>1, NoUpdateTyped DEF LockFollows, PlansKeep, Holding, Past
<1>3. LeaseKept(p, NoWork) /\ ~Deleted(NoWork, NoUpdate) /\ Plain(NoWork, NoUpdate, lastID)
    BY NoWorkTyped, NoUpdateTyped, IdlePlain, SameLease DEF Deleted
<1>4. Staging(NoWork, NoUpdate, configuration, place, staged, undone) /\ NoWork.at # "working"
    BY NoWorkTyped, NoUpdateTyped DEF Staging, Past
<1> QED
    BY <1>1, <1>2, <1>3, <1>4, NoWorkTyped, NoUpdateTyped, QuietKeeps

-----------------------------------------------------------------------------
LEMMA RegistryStart ==
    ASSUME configuration \in [environment : BOOLEAN, workspaces : {{}} \cup {{[id |-> 1, root |-> r]} : r \in Roots}],
           UpdateInit, RegistryInit
    PROVE  RegistryInv
<1> DEFINE W == configuration.workspaces
<1>1. configuration \in Configurations /\ lastID \in 0 .. MaxIDs /\ W \in SUBSET [id : {1}, root : Roots]
      /\ (W # {} => lastID = 1) /\ \A a, b \in W : a = b
    <2>1. 1 \in 1 .. MaxIDs /\ 0 \in 0 .. MaxIDs /\ 1 \in 0 .. MaxIDs
        BY RegistryAssumption
    <2>2. CASE W = {}
        <3>1. lastID = 0
            BY <2>2, FS_EmptySet DEF RegistryInit
        <3> QED
            BY <2>1, <2>2, <3>1 DEF Configurations, Registrations
    <2>3. ASSUME NEW r \in Roots, W = {[id |-> 1, root |-> r]}
          PROVE  /\ configuration \in Configurations /\ lastID \in 0 .. MaxIDs /\ W \in SUBSET [id : {1}, root : Roots]
                 /\ (W # {} => lastID = 1) /\ \A a, b \in W : a = b
        <3>1. lastID = 1
            BY <2>3, FS_Singleton DEF RegistryInit
        <3> QED
            BY <2>1, <2>3, <3>1 DEF Configurations, Registrations
    <2> QED
        BY <2>2, <2>3
<1>2. /\ place = [r \in Roots |-> IF [id |-> 1, root |-> r] \in W THEN 1 ELSE 0]
      /\ staged = {} /\ undone = {} /\ work = [p \in Updaters |-> NoWork] /\ update = [p \in Updaters |-> NoUpdate]
      /\ configLock = NoUpdater /\ updateFaults = 0
    BY DEF RegistryInit, UpdateInit
<1> HIDE DEF W
<1>3. RegistryTyped
    <2>1. place \in [Roots -> 0 .. lastID]
        BY <1>1, <1>2, RegistryAssumption
    <2>2. 0 \in 0 .. UpdateFaults
        BY UpdateAssumption
    <2> QED
        BY <1>1, <1>2, <2>1, <2>2, NoWorkTyped, NoUpdateTyped DEF RegistryTyped
<1>4. \A p \in Updaters : Plain(work[p], update[p], lastID)
    BY <1>2, IdlePlain, NoUpdateTyped
<1>5. \A p \in Updaters : Staging(work[p], update[p], configuration, place, staged, undone) /\ ~Deleted(work[p], update[p])
    BY <1>2, NoWorkTyped, NoUpdateTyped DEF Staging, Deleted, Past
<1>6. \A p \in Updaters : configLock = p <=> update[p].at \in Holding
    BY <1>2, NoUpdateTyped, UpdateAssumption DEF Holding, Past
<1>7. Fine(configuration, place, staged, undone)
    BY <1>1, <1>2 DEF Fine, There, W
<1>8. PlacesApart
    BY <1>1, <1>2 DEF PlacesApart
<1>9. LeasesApart /\ DeletedIsGone /\ WorkIsInPlace
    BY <1>2, <1>5, NoWorkTyped DEF LeasesApart, DeletedIsGone, WorkIsInPlace
<1> QED
    BY <1>3, <1>4, <1>5, <1>6, <1>7, <1>8, <1>9 DEF RegistryInv

LEMMA RegistryStepKeeps == ASSUME RegistryInv, NEW p \in Updaters, RegistryStep(p) PROVE RegistryInv'
<1>1. CASE \E op \in {"work", "clone", "delete"} : ResolveWorkspace(p, op)
    BY <1>1, ResolveKeeps
<1>2. CASE NoteRoot(p) \/ Lease(p) \/ Validate(p) \/ Finish(p)
    BY <1>2, NoteRootKeeps, LeaseKeeps, ValidateKeeps, FinishKeeps
<1>3. CASE Create(p) \/ Clone(p) \/ Register(p) \/ Unregister(p)
    BY <1>3, CreateKeeps, CloneKeeps, RegisterKeeps, UnregisterKeeps
<1>4. CASE UpdateStep(p) /\ UNCHANGED registryVars
    BY <1>4, LockKeeps, TimeOutKeeps, SaveKeeps, RestoreKeeps DEF UpdateStep
<1>5. CASE ApplyRegistration(p) \/ ApplyUnregistration(p) \/ StageDeletion(p) \/ RollBack(p)
    BY <1>5, ApplyRegistrationKeeps, ApplyUnregistrationKeeps, StageDeletionKeeps, RollBackKeeps
<1>6. CASE Updated(p) \/ UndoCreate(p) \/ UndoClone(p) \/ KillCommand(p)
    BY <1>6, UpdatedKeeps, UndoCreateKeeps, UndoCloneKeeps, KillKeeps
<1> QED
    BY <1>1, <1>2, <1>3, <1>4, <1>5, <1>6 DEF RegistryStep

(* However many commands create, clone, register, unregister and delete, and  *)
(* whatever fails, a registration names a workspace that is there or is known *)
(* to be at its tombstone or taken back, and a command works in the directory *)
(* it validated under its lease (workspace lifecycle of manager.go,           *)
(* workspace_mutation.go and config.go).                                      *)
THEOREM WorkspacesStaySafe == RegistrySpec => []WorkspacesAreSafe
<1>1. /\ configuration \in [environment : BOOLEAN, workspaces : {{}} \cup {{[id |-> 1, root |-> r]} : r \in Roots}]
      /\ UpdateInit /\ RegistryInit
      => RegistryInv
    BY RegistryStart
<1>2. RegistryInv /\ [\E p \in Updaters : RegistryStep(p)]_<<updateVars, registryVars>> => RegistryInv'
    <2> SUFFICES ASSUME RegistryInv, [\E p \in Updaters : RegistryStep(p)]_<<updateVars, registryVars>>
                 PROVE  RegistryInv'
        OBVIOUS
    <2>1. CASE \E p \in Updaters : RegistryStep(p)
        BY <2>1, RegistryStepKeeps
    <2>2. CASE UNCHANGED <<updateVars, registryVars>>
        <3>1. UNCHANGED <<configuration, configLock, update, updateFaults, place, staged, undone, work, lastID>>
            BY <2>2 DEF updateVars, registryVars
        <3> QED
            BY <3>1 DEF RegistryInv, RegistryTyped, PlacesApart, LeasesApart, DeletedIsGone, WorkIsInPlace
    <2> QED
        BY <2>1, <2>2
<1>3. RegistryInv => WorkspacesAreSafe
    BY InvSafe
<1> QED
    BY <1>1, <1>2, <1>3, PTL DEF RegistrySpec

-----------------------------------------------------------------------------
(* The inductive invariant of BundleTransaction, without sweeps that fail.    *)

Dir == [target : Content, staging : Content, backup : Content, left : {{}}]

(* Where a target stands: a content is the one expected, or was torn or       *)
(* edited since.                                                              *)
Spoilt(c) == ~c.whole \/ c.edit # "no"
Like(c, x) == c.gen = x.gen /\ c.marked = x.marked /\ (c = x \/ Spoilt(c))
Has(d, target, staging, backup) ==
    Like(d.target, target) /\ Like(d.staging, staging) /\ Like(d.backup, backup)

Clear(d) == d.staging = None /\ d.backup = None

(* No transaction is under way.                                               *)
Resting(t, d) ==
    /\ d.target.whole /\ ~d.target.marked /\ ~d.backup.marked
    /\ t # Workbook => d.backup = None
    /\ d.target = None => d.backup.whole

(* One is prepared: the original, and what is to replace it.                  *)
Pending(d, o, g) ==
    /\ \/ Has(d, o, Marked(g), None) \/ Has(d, None, Marked(g), o) \/ Has(d, Marked(g), None, o)
       \/ Has(d, None, None, o) \/ Has(d, o, None, None)
    /\ d.backup.whole /\ (d.target.gen # g => d.target.whole)
Waits(d, o, g) ==
    Like(d.target, o) /\ d.target.whole /\ d.target.edit # "quiet" /\ d.staging = Marked(g) /\ d.backup = None
IsAside(d, o, g) ==
    d.target = None /\ d.staging = Marked(g) /\ Like(d.backup, o) /\ d.backup.whole
Installed(d, o, g) ==
    /\ d.target.gen = g /\ d.target.marked /\ d.target.whole /\ Like(d.target, Marked(g))
    /\ d.target.edit # "quiet" /\ d.staging = None /\ Like(d.backup, o) /\ d.backup.whole
Back(d, o) == Like(d.target, o) /\ d.target.whole /\ Clear(d)

(* One is committed.                                                          *)
Replaced(d, g) == d.target.gen = g /\ d.target.whole /\ d.staging = None
Done(d, g) == Replaced(d, g) /\ ~d.target.marked /\ d.backup = None

Original(t) == prepared.original[t]

Standing(t, d) ==
    IF committed # NoJournal
    THEN Replaced(d, committed.gen) /\ (prepared = NoJournal => Done(d, committed.gen))
    ELSE IF prepared # NoJournal THEN Pending(d, Original(t), prepared.gen) ELSE Resting(t, d)

(* The generation that recovery leaves in place.                              *)
Held(d, o) ==
    IF committed # NoJournal THEN committed.gen
    ELSE IF prepared # NoJournal THEN o.gen
    ELSE IF Exists(d.target) THEN d.target.gen ELSE d.backup.gen
HeldAt(t) == Held(dirs[t], Original(t))

KnownContent(c) == c.gen <= pulls + 1 /\ (c.gen = 0 => c = None)
KnownDir(d) ==
    /\ KnownContent(d.target) /\ KnownContent(d.staging) /\ KnownContent(d.backup)
    /\ d.staging.edit = "no" /\ d.backup.edit # "quiet"

Journal == [gen : 0 .. MaxPulls + 1, had : SUBSET BundleTargets, original : [BundleTargets -> Content]]

(* What a journal says of the targets it found.                               *)
KnownJournal(j) ==
    j # NoJournal =>
        /\ j.gen = pulls + 1 /\ pulls > 0
        /\ \A t \in BundleTargets :
            /\ j.original[t].gen <= pulls /\ (j.original[t].gen = 0 => j.original[t] = None)
            /\ t \in j.had <=> j.original[t] # None
            /\ j.original[t].whole /\ ~j.original[t].marked /\ j.original[t].edit # "quiet"

(* The workspace and its journals.                                            *)
Workspace ==
    /\ dirs \in [BundleTargets -> Dir] /\ prepared \in Journal /\ committed \in Journal
    /\ pulls \in 0 .. MaxPulls /\ bundles \subseteq 2 .. pulls + 1
    /\ reported \in [BundleTargets -> 0 .. MaxPulls + 1]
    /\ KnownJournal(prepared) /\ KnownJournal(committed)
    /\ \A t \in BundleTargets :
        /\ KnownDir(dirs[t]) /\ Standing(t, dirs[t])
        /\ HeldAt(t) >= reported[t]
    /\ \A t, u \in BundleTargets : HeldAt(t) \in bundles => HeldAt(u) >= HeldAt(t)

Recovering == {"recover", "undo", "redo", "unprepare", "uncommit"}
Replacing == {"stage", "replace", "replaceIn"}
Quiet == prepared = NoJournal /\ committed = NoJournal
Pended == prepared # NoJournal /\ committed = NoJournal

Succeeding ==
    \/ command.goal = "finish" /\ command.at # "idle"
    \/ command.at = "leave" /\ command.result = "ok" /\ command.kind # "other"
    \/ command.at = "replaced"

(* The command.                                                               *)
Aims ==
    /\ command.at # "idle" => command.goal \in {"begin", "rollback", "finish"}
    /\ command.goal # "none" => command.at # "idle"
    /\ command.at \notin {"idle", "leave"} => command.result = "none"
    /\ command.at \in Recovering \cup {"sweep", "check"} /\ command.goal = "begin" /\ command.kind # "other"
        => pulls < MaxPulls
    /\ Succeeding =>
        /\ command.kind # "other" /\ ~Pended
        /\ \A t \in PullTargets : dirs[t].target.gen = pulls + 1
    /\ command.result = "conflict" =>
        /\ Pended
        /\ \E t \in BundleTargets :
            Spoilt(dirs[t].target) \/ Spoilt(dirs[t].staging) \/ Spoilt(dirs[t].backup)

RecoveryAt ==
    /\ command.at \in {"undo", "redo"} => command.i <= Len(Entries)
    /\ command.at = "undo" =>
        /\ Pended
        /\ \A t \in BundleTargets : dirs[t].target.edit # "quiet"
        /\ \A j \in 1 .. Len(Entries) : j > command.i => Back(dirs[Entries[j]], Original(Entries[j]))
    /\ command.at = "redo" =>
        /\ committed # NoJournal
        /\ \A j \in 1 .. Len(Entries) : j > command.i => Done(dirs[Entries[j]], committed.gen)
    /\ command.at = "unprepare" =>
        /\ ~Quiet
        /\ \A t \in BundleTargets :
            IF Pended THEN Back(dirs[t], Original(t)) ELSE Done(dirs[t], committed.gen)
    /\ command.at = "uncommit" => prepared = NoJournal

PullAt ==
    /\ command.at \in Replacing \cup {"sweep", "check", "journal", "restore", "replaced"} =>
        Quiet /\ command.kind # "other" /\ command.goal = "begin"
    /\ command.at = "sweep" =>
        /\ command.i > 0
        /\ \A j \in 1 .. Len(Entries) :
            j < command.i /\ Entries[j] \in PullTargets => Clear(dirs[Entries[j]])
    /\ command.at \in {"check", "stage"} => \A t \in PullTargets : Clear(dirs[t])
    /\ command.at \in Replacing \cup {"journal"} => pulls > 0 /\ bundles \subseteq 2 .. pulls
    /\ command.at \in {"stage", "replace", "journal"} =>
        \A t \in PullTargets : dirs[t].target.gen <= pulls /\ dirs[t].target.edit # "quiet"
    /\ command.at \in {"replace", "replaceIn", "restore", "replaced"} => command.kind = "single"
    /\ command.at = "journal" =>
        /\ command.kind = "bundle"
        /\ \A t \in BundleTargets : dirs[t].staging = Generation(pulls + 1) /\ dirs[t].backup = None
    /\ command.at \in {"replace", "replaceIn"} => dirs[Workbook].staging = Generation(pulls + 1)
    /\ command.at = "replace" => dirs[Workbook].backup = None
    /\ command.at \in {"replaceIn", "restore"} => dirs[Workbook].target = None

CommitAt ==
    /\ command.at \in {"aside", "install", "mark"} =>
        /\ Pended /\ command.kind = "bundle" /\ command.goal = "begin" /\ command.i > 0
        /\ \A j \in 1 .. Len(Entries) :
            LET d == dirs[Entries[j]]
                o == Original(Entries[j])
            IN IF j < command.i THEN Installed(d, o, prepared.gen)
               ELSE IF j = command.i /\ command.at = "install" THEN IsAside(d, o, prepared.gen)
               ELSE Waits(d, o, prepared.gen)
    /\ command.at = "install" => command.i <= Len(Entries)
    /\ command.at = "mark" => command.i > Len(Entries)

BundleInv == BundleTypeOK /\ Workspace /\ Aims /\ RecoveryAt /\ PullAt /\ CommitAt

-----------------------------------------------------------------------------
(* Targets, contents and directories.                                         *)

LEMMA EntriesKnown ==
    /\ Len(Entries) \in Nat \ {0} /\ Workbook \in BundleTargets /\ Workbook = Entries[Len(Entries)]
    /\ \A i \in 1 .. Len(Entries) : Entries[i] \in BundleTargets
    /\ \A t \in BundleTargets : \E i \in 1 .. Len(Entries) : t = Entries[i]
    /\ \A i, j \in 1 .. Len(Entries) : i # j => Entries[i] # Entries[j]
BY BundleConstants DEF BundleTargets, Workbook

Generations == 0 .. MaxPulls + 1
Edits == {"no", "quiet", "given", "raced"}

LEMMA ContentTyped ==
    \A c \in Content : c.gen \in Generations /\ c.gen \in Nat /\ c.marked \in BOOLEAN /\ c.whole \in BOOLEAN /\ c.edit \in Edits
BY BundleConstants DEF Content, Generations, Edits

LEMMA SameContent ==
    \A c, x \in Content :
        c.gen = x.gen /\ c.marked = x.marked /\ c.whole = x.whole /\ c.edit = x.edit => c = x
BY DEF Content

LEMMA GenerationIs ==
    ASSUME NEW g \in Generations
    PROVE  /\ Generation(g) \in Content /\ Generation(g).gen = g /\ Generation(g).marked = FALSE
           /\ Generation(g).whole = TRUE /\ Generation(g).edit = "no"
           /\ Marked(g) \in Content /\ Marked(g).gen = g /\ Marked(g).marked = TRUE
           /\ Marked(g).whole = TRUE /\ Marked(g).edit = "no"
BY DEF Generations, Generation, Marked, Content

LEMMA NoneIs ==
    /\ None \in Content /\ None.gen = 0 /\ None.marked = FALSE /\ None.whole = TRUE /\ None.edit = "no"
    /\ None = Generation(0)
<1>1. 0 \in Generations
    BY BundleConstants DEF Generations
<1> QED
    BY <1>1, GenerationIs DEF None

Edited(c, e) == [c EXCEPT !.edit = e]
Half(c) == [c EXCEPT !.whole = FALSE]
Unmarked(c) == [c EXCEPT !.marked = FALSE]

LEMMA ContentChanges ==
    ASSUME NEW c \in Content
    PROVE  /\ \A e \in Edits : /\ Edited(c, e) \in Content /\ Edited(c, e).gen = c.gen /\ Edited(c, e).edit = e
                               /\ Edited(c, e).marked = c.marked /\ Edited(c, e).whole = c.whole
           /\ Half(c) \in Content /\ Half(c).gen = c.gen /\ Half(c).edit = c.edit
           /\ Half(c).marked = c.marked /\ Half(c).whole = FALSE
           /\ Unmarked(c) \in Content /\ Unmarked(c).gen = c.gen /\ Unmarked(c).edit = c.edit
           /\ Unmarked(c).marked = FALSE /\ Unmarked(c).whole = c.whole
BY DEF Content, Edited, Half, Unmarked, Edits

Put(d, side, c) == [d EXCEPT ![side] = c]

LEMMA DirTyped ==
    \A d \in Dir : d.target \in Content /\ d.staging \in Content /\ d.backup \in Content /\ d.left = {}
BY DEF Dir

LEMMA DirIs ==
    ASSUME NEW d \in Dir, NEW c \in Content
    PROVE  /\ Put(d, "target", c) \in Dir /\ Put(d, "target", c).target = c
           /\ Put(d, "target", c).staging = d.staging /\ Put(d, "target", c).backup = d.backup
           /\ Put(d, "staging", c) \in Dir /\ Put(d, "staging", c).staging = c
           /\ Put(d, "staging", c).target = d.target /\ Put(d, "staging", c).backup = d.backup
           /\ Put(d, "backup", c) \in Dir /\ Put(d, "backup", c).backup = c
           /\ Put(d, "backup", c).target = d.target /\ Put(d, "backup", c).staging = d.staging
BY DEF Dir, Put

-----------------------------------------------------------------------------
(* The workspace and the command, changed one at a time.                      *)

CommandStates ==
    [at : {"idle", "recover", "undo", "redo", "unprepare", "uncommit", "sweep",
           "check", "stage", "journal", "aside", "install", "sync", "mark",
           "replace", "replaceIn", "restore", "replaced", "leave"},
     kind : {"other", "single", "bundle"}, overwrite : BOOLEAN,
     goal : {"none", "begin", "rollback", "finish"}, i : 0 .. Len(Entries) + 1,
     result : {"none", "ok", "error", "refused", "conflict"}]

LEMMA WorkspaceTypes ==
    ASSUME Workspace
    PROVE  /\ \A t \in BundleTargets : dirs[t] \in Dir /\ Original(t) \in Content
           /\ prepared.gen \in Generations /\ committed.gen \in Generations
           /\ pulls \in Nat /\ pulls + 1 \in Generations /\ pulls <= MaxPulls
           /\ \A b \in bundles : b \in Nat /\ b > 0 /\ b <= pulls + 1
           /\ \A t \in BundleTargets : reported[t] \in Nat /\ reported[t] <= MaxPulls + 1
BY BundleConstants DEF Workspace, Journal, Original, Generations

LEMMA BundleTyping ==
    ASSUME Workspace, command \in CommandStates, mishaps \in 0 .. BundleFaults
    PROVE  BundleTypeOK
<1>1. \A t \in BundleTargets :
        /\ dirs[t].target \in Content /\ dirs[t].staging \in Content /\ dirs[t].backup \in Content
        /\ dirs[t].left \subseteq Content
    BY WorkspaceTypes, DirTyped
<1>2. prepared.gen \in 0 .. MaxPulls + 1 /\ committed.gen \in 0 .. MaxPulls + 1
    BY WorkspaceTypes DEF Generations
<1>3. pulls \in 0 .. MaxPulls /\ bundles \subseteq 2 .. MaxPulls + 1 /\ reported \in [BundleTargets -> 0 .. MaxPulls + 1]
    BY BundleConstants DEF Workspace
<1> QED
    BY <1>1, <1>2, <1>3 DEF BundleTypeOK, CommandStates

LEMMA CommandTyped ==
    BundleTypeOK =>
        /\ command \in CommandStates /\ mishaps \in 0 .. BundleFaults
        /\ command.i \in Nat /\ command.i <= Len(Entries) + 1
BY EntriesKnown DEF BundleTypeOK, CommandStates

(* One target's directories change and keep what recovery will leave there.   *)
LEMMA OneDir ==
    ASSUME Workspace, NEW t \in BundleTargets, NEW d \in Dir, dirs' = [dirs EXCEPT ![t] = d],
           UNCHANGED <<prepared, committed, pulls, bundles, reported>>,
           KnownDir(d), Standing(t, d), Held(d, Original(t)) = HeldAt(t)
    PROVE  Workspace' /\ \A u \in BundleTargets : dirs'[u] = IF u = t THEN d ELSE dirs[u]
<1>1. /\ dirs' \in [BundleTargets -> Dir]
      /\ \A u \in BundleTargets : dirs'[u] = IF u = t THEN d ELSE dirs[u]
    BY DEF Workspace
<1>2. \A u \in BundleTargets : Original(u)' = Original(u)
    BY DEF Original
<1>3. \A u \in BundleTargets : HeldAt(u)' = HeldAt(u)
    BY <1>1, <1>2 DEF HeldAt, Held
<1>4. \A u \in BundleTargets : KnownDir(dirs[u])' /\ Standing(u, dirs[u])'
    BY <1>1, <1>2 DEF Workspace, KnownDir, KnownContent, Standing
<1>5. KnownJournal(prepared)' /\ KnownJournal(committed)'
    BY DEF Workspace, KnownJournal
<1> QED
    BY <1>1, <1>3, <1>4, <1>5 DEF Workspace

LEMMA DirsStay ==
    ASSUME Workspace, UNCHANGED <<dirs, prepared, committed, pulls, bundles, reported>>
    PROVE  Workspace'
<1>1. \A u \in BundleTargets : Original(u)' = Original(u) /\ HeldAt(u)' = HeldAt(u)
    BY DEF Original, HeldAt, Held
<1>2. \A u \in BundleTargets : KnownDir(dirs[u])' /\ Standing(u, dirs[u])'
    BY <1>1 DEF Workspace, KnownDir, KnownContent, Standing
<1>3. KnownJournal(prepared)' /\ KnownJournal(committed)'
    BY DEF Workspace, KnownJournal
<1> QED
    BY <1>1, <1>2, <1>3 DEF Workspace

(* A command that leaves.                                                     *)
LEMMA Leaves ==
    ASSUME command \in CommandStates, command.at # "idle", Aims,
           NEW result \in {"ok", "error", "refused", "conflict"}, Leave(result),
           command.goal = "finish" \/ (result = "ok" /\ command.kind # "other") =>
                /\ command.kind # "other" /\ ~Pended'
                /\ \A t \in PullTargets : dirs'[t].target.gen = pulls' + 1,
           result = "conflict" =>
                /\ Pended'
                /\ \E t \in BundleTargets :
                    Spoilt(dirs'[t].target) \/ Spoilt(dirs'[t].staging) \/ Spoilt(dirs'[t].backup)
    PROVE  command' \in CommandStates /\ Aims' /\ RecoveryAt' /\ PullAt' /\ CommitAt'
<1>1. /\ command' \in CommandStates /\ command'.at = "leave" /\ command'.result = result
      /\ command'.goal = command.goal /\ command'.kind = command.kind
    BY DEF Leave, CommandStates
<1>2. PullTargets' = PullTargets
    BY <1>1 DEF PullTargets
<1>3. command.goal # "none"
    BY DEF Aims
<1>4. Aims'
    BY <1>1, <1>2, <1>3 DEF Aims, Succeeding, Recovering, Spoilt, CommandStates
<1>5. RecoveryAt' /\ PullAt' /\ CommitAt'
    BY <1>1 DEF RecoveryAt, PullAt, CommitAt, Replacing
<1> QED
    BY <1>1, <1>4, <1>5

-----------------------------------------------------------------------------
(* The command begins, is killed, and recovers.                               *)

Rest == command \in CommandStates /\ mishaps \in 0 .. BundleFaults /\ Aims /\ RecoveryAt /\ PullAt /\ CommitAt

LEMMA RestIs == BundleInv <=> Workspace /\ Rest
BY BundleTyping, CommandTyped DEF BundleInv, Rest

(* Edits that were made while no command ran stay in their place.            *)
KeepsEdits == \A t \in BundleTargets : dirs[t].target.edit = "quiet" => dirs'[t].target.edit = "quiet"

LEMMA DirsStayKept ==
    ASSUME UNCHANGED dirs PROVE KeepsEdits
BY DEF KeepsEdits

LEMMA MishapCounted ==
    ASSUME mishaps \in 0 .. BundleFaults, Mishap \/ UNCHANGED mishaps PROVE mishaps' \in 0 .. BundleFaults
BY BundleConstants DEF Mishap

LEMMA BeginCommandIsSafe ==
    ASSUME Workspace, Rest, BeginCommand PROVE Workspace' /\ Rest' /\ KeepsEdits
<1>1. PICK kind \in {"other", "single", "bundle"}, overwrite \in BOOLEAN :
        /\ kind # "other" => pulls < MaxPulls
        /\ command' = [Ready EXCEPT !.at = "recover", !.goal = "begin", !.kind = kind, !.overwrite = overwrite]
    BY DEF BeginCommand
<1>7. 0 \in 0 .. Len(Entries) + 1
    BY EntriesKnown
<1>2. /\ command' \in CommandStates /\ command'.at = "recover" /\ command'.goal = "begin"
      /\ command'.kind = kind /\ command'.result = "none"
    BY <1>1, <1>7 DEF Ready, CommandStates
<1>3. Workspace' /\ KeepsEdits
    BY DirsStay, DirsStayKept DEF BeginCommand
<1>4. Aims'
    BY <1>1, <1>2 DEF Aims, Succeeding, BeginCommand
<1>5. RecoveryAt' /\ PullAt' /\ CommitAt'
    BY <1>2 DEF RecoveryAt, PullAt, CommitAt, Replacing
<1>6. mishaps' \in 0 .. BundleFaults
    BY DEF Rest, BeginCommand
<1> QED
    BY <1>2, <1>3, <1>4, <1>5, <1>6 DEF Rest

LEMMA CrashCommandIsSafe ==
    ASSUME Workspace, Rest, CrashCommand PROVE Workspace' /\ Rest' /\ KeepsEdits
<1>1. /\ command' \in CommandStates /\ command'.at = "idle" /\ command'.goal = "none"
      /\ command'.kind = "other" /\ command'.result = "none"
    BY EntriesKnown DEF Ready, CommandStates, CrashCommand
<1>2. Workspace' /\ KeepsEdits
    BY DirsStay, DirsStayKept DEF CrashCommand
<1>3. Aims'
    BY <1>1 DEF Aims, Succeeding, Recovering
<1>4. RecoveryAt' /\ PullAt' /\ CommitAt'
    BY <1>1 DEF RecoveryAt, PullAt, CommitAt, Replacing
<1>5. mishaps' \in 0 .. BundleFaults
    BY MishapCounted DEF Rest, CrashCommand
<1> QED
    BY <1>1, <1>2, <1>3, <1>4, <1>5 DEF Rest

(* The command goes on after a recovery, which has left no journal.           *)
LEMMA GoesOnRecovered ==
    ASSUME Workspace', Rest, command.at \in {"recover", "uncommit"}, Quiet', Recovered,
           UNCHANGED <<pulls, dirs>>
    PROVE  command' \in CommandStates /\ Aims' /\ RecoveryAt' /\ PullAt' /\ CommitAt'
<1>1. command \in CommandStates /\ Aims /\ command.goal \in {"begin", "rollback", "finish"}
    BY DEF Rest, Aims
<1>2. ~Pended'
    BY DEF Pended, Quiet
<1>3. command.goal = "finish" => command.kind # "other" /\ \A t \in PullTargets : dirs'[t].target.gen = pulls' + 1
    BY <1>1 DEF Aims, Succeeding
<1>4. CASE Leave("ok") /\ (command.goal = "finish" \/ command.kind = "other")
    BY <1>1, <1>2, <1>3, <1>4, Leaves
<1>5. CASE Leave("error") /\ command.goal = "rollback"
    BY <1>1, <1>5, Leaves
<1>6. CASE /\ command.goal = "begin" /\ command.kind # "other"
           /\ command' = [command EXCEPT !.at = "sweep", !.i = IF command.kind = "single" THEN Len(Entries) ELSE 1]
    <2> DEFINE first == IF command.kind = "single" THEN Len(Entries) ELSE 1
    <2>4. first \in 0 .. Len(Entries) + 1 /\ first > 0
        BY EntriesKnown
    <2>6. first = 1 \/ (command.kind = "single" /\ first = Len(Entries))
        OBVIOUS
    <2>7. command' = [command EXCEPT !.at = "sweep", !.i = first]
        BY <1>6
    <2> HIDE DEF first
    <2>1. /\ command' \in CommandStates /\ command'.at = "sweep" /\ command'.i = first /\ command'.goal = "begin"
          /\ command'.kind = command.kind /\ command'.kind # "other" /\ command'.result = command.result
        BY <1>1, <1>6, <2>4, <2>7 DEF CommandStates
    <2>2. Aims'
        BY <1>1, <1>6, <2>1 DEF Aims, Succeeding, Recovering
    <2>5. ASSUME NEW j \in 1 .. Len(Entries), j < command'.i PROVE Entries[j] \notin PullTargets'
        <3>1. command'.kind = "single" /\ j < Len(Entries)
            BY <2>1, <2>5, <2>6, EntriesKnown
        <3> QED
            BY <3>1, EntriesKnown DEF PullTargets, Workbook
    <2>3. RecoveryAt' /\ PullAt' /\ CommitAt'
        BY <1>6, <2>1, <2>4, <2>5, EntriesKnown DEF RecoveryAt, PullAt, CommitAt, Replacing, Quiet
    <2> QED
        BY <2>1, <2>2, <2>3
<1> QED
    BY <1>1, <1>4, <1>5, <1>6 DEF Recovered

(* A recovery that fails: after a commit the pull has succeeded all the same. *)
LEMMA GoesWrong ==
    ASSUME Rest, command.at \in Recovering, NEW result \in {"error", "conflict"}, RecoveryFails(result),
           pulls' = pulls,
           command.goal = "finish" => ~Pended' /\ \A t \in BundleTargets : dirs'[t].target.gen = dirs[t].target.gen,
           result = "conflict" =>
                /\ Pended'
                /\ \E t \in BundleTargets :
                    Spoilt(dirs'[t].target) \/ Spoilt(dirs'[t].staging) \/ Spoilt(dirs'[t].backup)
    PROVE  command' \in CommandStates /\ Aims' /\ RecoveryAt' /\ PullAt' /\ CommitAt'
<1>1. command \in CommandStates /\ Aims /\ command.at # "idle" /\ command.at # "leave"
    BY DEF Rest, Recovering
<1>2. PullTargets \subseteq BundleTargets
    BY EntriesKnown DEF PullTargets
<1>3. CASE command.goal = "finish"
    <2>1. command.kind # "other" /\ \A t \in PullTargets : dirs'[t].target.gen = pulls' + 1
        BY <1>1, <1>2, <1>3 DEF Aims, Succeeding
    <2>2. Leave("ok")
        BY <1>3 DEF RecoveryFails
    <2> QED
        BY <1>1, <1>3, <2>1, <2>2, Leaves
<1>4. CASE command.goal # "finish"
    <2>1. Leave(result)
        BY <1>4 DEF RecoveryFails
    <2> QED
        BY <1>1, <1>4, <2>1, Leaves
<1> QED
    BY <1>3, <1>4

(* A target of a prepared transaction is in one of three states.              *)
LEMMA PendingCases ==
    ASSUME NEW d \in Dir, NEW o \in Content, NEW g \in Generations, o.gen < g, o.gen = 0 => o = None,
           KnownDir(d), Pending(d, o, g)
    PROVE  /\ d.backup # None =>
                /\ o # None /\ Like(d.backup, o)
                /\ d.target = None \/ (Like(d.target, Marked(g)) /\ d.staging = None)
                /\ d.staging = None \/ Like(d.staging, Marked(g))
           /\ d.backup = None /\ o # None =>
                Like(d.target, o) /\ d.target.whole /\ (d.staging = None \/ Like(d.staging, Marked(g)))
           /\ o = None =>
                /\ d.backup = None
                /\ d.target = None \/ (Like(d.target, Marked(g)) /\ d.staging = None)
                /\ d.staging = None \/ Like(d.staging, Marked(g))
<1>1. /\ Like(d.target, None) => d.target = None
      /\ Like(d.staging, None) => d.staging = None
      /\ Like(d.backup, None) => d.backup = None
    BY NoneIs DEF KnownDir, KnownContent, Like
<1>2. d.target.gen \in Nat /\ d.staging.gen \in Nat /\ d.backup.gen \in Nat /\ o.gen \in Nat /\ g \in Nat
    BY DirTyped, ContentTyped DEF Generations
<1>3. Marked(g).gen = g
    BY GenerationIs
<1>7. g # 0
    BY <1>2
<1>4. Like(d.backup, o) /\ o # None => d.backup # None
    BY <1>1, <1>2, NoneIs DEF Like
<1>5. d.target.gen # g /\ Pending(d, o, g) => d.target.whole
    BY DEF Pending
<1>6. Like(d.target, o) => d.target.gen # g
    BY <1>2 DEF Like
<1> QED
    BY <1>1, <1>3, <1>4, <1>5, <1>6, <1>7 DEF Pending, Has

(* What the journal says of a target, and where the target stands.            *)
LEMMA PendedIs ==
    ASSUME Workspace, Pended, NEW t \in BundleTargets
    PROVE  /\ dirs[t] \in Dir /\ Original(t) \in Content /\ prepared.gen \in Generations
           /\ prepared.gen = pulls + 1 /\ Original(t).gen < prepared.gen
           /\ Original(t).gen = 0 => Original(t) = None
           /\ t \in prepared.had <=> Original(t) # None
           /\ Original(t).whole /\ ~Original(t).marked /\ Original(t).edit # "quiet"
           /\ KnownDir(dirs[t]) /\ Pending(dirs[t], Original(t), prepared.gen)
<1>1. dirs[t] \in Dir /\ Original(t) \in Content /\ prepared.gen \in Generations /\ pulls \in Nat
    BY WorkspaceTypes
<1>2. prepared # NoJournal /\ committed = NoJournal
    BY DEF Pended
<1>3. KnownDir(dirs[t]) /\ Standing(t, dirs[t]) /\ KnownJournal(prepared)
    BY DEF Workspace
<1>4. Pending(dirs[t], Original(t), prepared.gen)
    BY <1>2, <1>3 DEF Standing
<1>5. /\ prepared.gen = pulls + 1
      /\ Original(t).gen <= pulls /\ (Original(t).gen = 0 => Original(t) = None)
      /\ t \in prepared.had <=> Original(t) # None
      /\ Original(t).whole /\ ~Original(t).marked /\ Original(t).edit # "quiet"
    BY <1>2, <1>3 DEF KnownJournal, Original
<1>6. Original(t).gen < prepared.gen
    BY <1>1, <1>5, ContentTyped
<1> QED
    BY <1>1, <1>3, <1>4, <1>5, <1>6

(* A journal is refused only if something of its own was torn or edited.      *)
LEMMA RefusalHasCause ==
    ASSUME NEW d \in Dir, NEW o \in Content, NEW g \in Generations, o.gen < g, o.gen = 0 => o = None,
           KnownDir(d), Pending(d, o, g), ~Spoilt(d.target), ~Spoilt(d.staging), ~Spoilt(d.backup)
    PROVE  /\ Exists(d.staging) => d.staging = Marked(g)
           /\ IF o # None /\ ~Exists(d.backup) THEN d.target = o
              ELSE (o # None => d.backup = o) /\ (Exists(d.target) => d.target = Marked(g))
BY PendingCases DEF Like, Exists

LEMMA RecoverIsSafe ==
    ASSUME Workspace, Rest, RecoverBundleTransaction PROVE Workspace' /\ Rest' /\ KeepsEdits
<1>1. Workspace' /\ KeepsEdits
    BY DirsStay, DirsStayKept DEF RecoverBundleTransaction
<1>2. /\ command \in CommandStates /\ command.at = "recover" /\ Aims /\ mishaps' \in 0 .. BundleFaults
      /\ command.result = "none" /\ UNCHANGED <<dirs, pulls, prepared, committed>>
    BY DEF Rest, RecoverBundleTransaction, Aims
<1>3. Len(Entries) \in 0 .. Len(Entries) + 1
    BY EntriesKnown
<1>4. CASE committed # NoJournal /\ command' = [command EXCEPT !.at = "redo", !.i = Len(Entries)]
    <2>1. /\ command' \in CommandStates /\ command'.at = "redo" /\ command'.i = Len(Entries)
          /\ command'.goal = command.goal /\ command'.kind = command.kind /\ command'.result = command.result
        BY <1>2, <1>3, <1>4 DEF CommandStates
    <2>2. PullTargets' = PullTargets
        BY <2>1 DEF PullTargets
    <2>3. Aims'
        BY <1>2, <2>1, <2>2 DEF Aims, Succeeding, Recovering, Pended
    <2>4. RecoveryAt' /\ PullAt' /\ CommitAt'
        BY <1>2, <1>4, <2>1, EntriesKnown DEF RecoveryAt, PullAt, CommitAt, Replacing
    <2> QED
        BY <1>1, <1>2, <2>1, <2>3, <2>4 DEF Rest
<1>5. CASE committed = NoJournal /\ prepared = NoJournal /\ Recovered
    <2>1. Quiet'
        BY <1>2, <1>5 DEF Quiet
    <2> QED
        BY <1>1, <1>2, <1>5, <2>1, GoesOnRecovered DEF Rest
<1>6. ASSUME committed = NoJournal, prepared # NoJournal
      PROVE  /\ Pended /\ Pended' /\ command.goal # "finish"
             /\ \A t \in BundleTargets :
                /\ Original(t)' = Original(t)
                /\ ~Spoilt(dirs[t].target) /\ ~Spoilt(dirs[t].staging) /\ ~Spoilt(dirs[t].backup)
                    => RollbackEntryValid(t, prepared)
    <2>1. Pended /\ Pended'
        BY <1>2, <1>6 DEF Pended
    <2>2. command.goal # "finish"
        BY <1>2, <2>1 DEF Aims, Succeeding
    <2>3. ASSUME NEW t \in BundleTargets,
                 ~Spoilt(dirs[t].target), ~Spoilt(dirs[t].staging), ~Spoilt(dirs[t].backup)
          PROVE  RollbackEntryValid(t, prepared)
        <3>1. /\ Exists(dirs[t].staging) => dirs[t].staging = Marked(prepared.gen)
              /\ IF Original(t) # None /\ ~Exists(dirs[t].backup) THEN dirs[t].target = Original(t)
                 ELSE /\ Original(t) # None => dirs[t].backup = Original(t)
                      /\ Exists(dirs[t].target) => dirs[t].target = Marked(prepared.gen)
            BY <2>1, <2>3, PendedIs, RefusalHasCause
        <3> QED
            BY <2>1, <3>1, PendedIs DEF RollbackEntryValid, Ours, Original
    <2> QED
        BY <1>2, <2>1, <2>2, <2>3 DEF Original
<1>7. CASE /\ committed = NoJournal /\ prepared # NoJournal /\ RollbackValid
           /\ command' = [command EXCEPT !.at = "undo", !.i = Len(Entries)]
    <2>1. /\ command' \in CommandStates /\ command'.at = "undo" /\ command'.i = Len(Entries)
          /\ command'.goal = command.goal /\ command'.kind = command.kind /\ command'.result = command.result
        BY <1>2, <1>3, <1>7 DEF CommandStates
    <2>2. Aims'
        BY <1>2, <1>6, <1>7, <2>1 DEF Aims, Succeeding, Recovering
    <2>3. ASSUME NEW t \in BundleTargets PROVE dirs[t].target.edit # "quiet"
        <3>1. RollbackEntryValid(t, prepared) /\ Pended
            BY <1>6, <1>7 DEF RollbackValid
        <3>2. \/ dirs[t].target = Original(t) \/ dirs[t].target = None \/ dirs[t].target = Marked(prepared.gen)
            BY <3>1 DEF RollbackEntryValid, Ours, Exists, Original
        <3> QED
            BY <3>1, <3>2, PendedIs, NoneIs, GenerationIs
    <2>4. RecoveryAt' /\ PullAt' /\ CommitAt'
        BY <1>2, <1>6, <1>7, <2>1, <2>3, EntriesKnown DEF RecoveryAt, PullAt, CommitAt, Replacing
    <2> QED
        BY <1>1, <1>2, <2>1, <2>2, <2>4 DEF Rest
<1>8. CASE committed = NoJournal /\ prepared # NoJournal /\ ~RollbackValid /\ RecoveryFails("conflict")
    <2>1. \E t \in BundleTargets :
            Spoilt(dirs'[t].target) \/ Spoilt(dirs'[t].staging) \/ Spoilt(dirs'[t].backup)
        BY <1>2, <1>6, <1>8 DEF RollbackValid
    <2>2. command.at \in Recovering /\ pulls' = pulls
        BY <1>2 DEF Recovering
    <2> QED
        BY <1>1, <1>2, <1>6, <1>8, <2>1, <2>2, GoesWrong DEF Rest
<1> QED
    BY <1>4, <1>5, <1>7, <1>8 DEF RecoverBundleTransaction

-----------------------------------------------------------------------------
(* Rollback.                                                                  *)

(* While a transaction is prepared, what a target's directories become is     *)
(* safe if it is again one of the states that the journal knows.              *)
LEMMA PendedDir ==
    ASSUME Workspace, Pended, NEW t \in BundleTargets, NEW d \in Dir, dirs' = [dirs EXCEPT ![t] = d],
           UNCHANGED <<prepared, committed, pulls, bundles, reported>>,
           KnownDir(d), Pending(d, Original(t), prepared.gen)
    PROVE  /\ Workspace' /\ Pended'
           /\ \A u \in BundleTargets :
                dirs'[u] = (IF u = t THEN d ELSE dirs[u]) /\ Original(u)' = Original(u)
<1>1. Standing(t, d) /\ Held(d, Original(t)) = HeldAt(t)
    BY DEF Standing, Held, HeldAt, Pended
<1>2. Workspace' /\ \A u \in BundleTargets : dirs'[u] = IF u = t THEN d ELSE dirs[u]
    BY <1>1, OneDir
<1> QED
    BY <1>2 DEF Pended, Original

(* The removal of one place, and what a failed removal leaves.                *)
LEMMA RemovedIs ==
    ASSUME Workspace, NEW d \in Dir, KnownDir(d)
    PROVE  /\ KnownDir(Put(d, "target", None)) /\ KnownDir(Put(d, "staging", None))
           /\ KnownDir(Put(d, "backup", None))
           /\ d.target # None => KnownDir(Put(d, "target", Half(d.target)))
           /\ d.staging # None => KnownDir(Put(d, "staging", Half(d.staging)))
           /\ d.backup # None => KnownDir(Put(d, "backup", Half(d.backup)))
<1>1. d.target \in Content /\ d.staging \in Content /\ d.backup \in Content
    BY DirTyped
<1>2. None \in Content /\ KnownContent(None) /\ None.edit = "no"
    BY NoneIs, WorkspaceTypes DEF KnownContent
<1>3. KnownContent(d.target) /\ KnownContent(d.staging) /\ KnownContent(d.backup)
      /\ d.staging.edit = "no" /\ d.backup.edit # "quiet"
    BY DEF KnownDir
<1>4. \A c \in Content : KnownContent(c) /\ c # None =>
        Half(c) \in Content /\ KnownContent(Half(c)) /\ Half(c).edit = c.edit
    BY ContentChanges DEF KnownContent
<1>5. ASSUME NEW c \in Content, KnownContent(c)
      PROVE  /\ KnownDir(Put(d, "target", c))
             /\ c.edit = "no" => KnownDir(Put(d, "staging", c))
             /\ c.edit # "quiet" => KnownDir(Put(d, "backup", c))
    BY <1>3, <1>5, DirIs DEF KnownDir
<1> QED
    BY <1>1, <1>2, <1>3, <1>4, <1>5

LEMMA LikeHalf ==
    \A c, x \in Content : Like(c, x) => Like(Half(c), x) /\ Half(c).gen = c.gen
BY ContentChanges DEF Like, Spoilt

LEMMA LikeNone == Like(None, None) /\ None.whole
BY NoneIs DEF Like

(* A target that has been undone is not looked at again.                      *)
LEMMA UndoGoesOn ==
    ASSUME Workspace', Rest, command.at = "undo", Pended', UNCHANGED <<command, pulls>>,
           mishaps' \in 0 .. BundleFaults, Entry \in BundleTargets, command.i \in 1 .. Len(Entries),
           NEW d \in Dir, d.target.edit # "quiet",
           \A u \in BundleTargets : dirs'[u] = (IF u = Entry THEN d ELSE dirs[u]) /\ Original(u)' = Original(u)
    PROVE  Rest'
<1>1. /\ command \in CommandStates /\ Aims /\ RecoveryAt /\ Pended
      /\ command.result = "none" /\ command.goal # "finish"
    BY DEF Rest, Aims, RecoveryAt, Succeeding
<1>2. Aims'
    BY <1>1 DEF Aims, Succeeding
<1>3. \A j \in 1 .. Len(Entries) : j > command.i => dirs'[Entries[j]] = dirs[Entries[j]]
    BY EntriesKnown DEF Entry
<1>4. RecoveryAt'
    BY <1>1, <1>3, EntriesKnown DEF RecoveryAt
<1>5. PullAt' /\ CommitAt'
    BY <1>1 DEF PullAt, CommitAt, Replacing
<1> QED
    BY <1>1, <1>2, <1>4, <1>5 DEF Rest

LEMMA UndoGoesWrong ==
    ASSUME Workspace', Rest, command.at = "undo", Pended', mishaps' \in 0 .. BundleFaults,
           RecoveryFails("error"), pulls' = pulls
    PROVE  Rest'
<1>1. command.goal # "finish" /\ command.at \in Recovering
    BY DEF Rest, Aims, RecoveryAt, Succeeding, Recovering
<1> QED
    BY <1>1, GoesWrong DEF Rest

(* The states of a target that a rollback brings about.                       *)
LEMMA UndoneIs ==
    ASSUME NEW d \in Dir, NEW o \in Content, NEW g \in Generations, KnownDir(d), Pending(d, o, g),
           o.gen < g, o.gen = 0 => o = None, o.whole
    PROVE  /\ d.target # None /\ (d.backup # None \/ o = None) =>
                /\ Pending(Put(d, "target", None), o, g)
                /\ Pending(Put(d, "target", Half(d.target)), o, g)
           /\ d.backup # None /\ d.target = None =>
                Pending(Put(Put(d, "target", d.backup), "backup", None), o, g)
           /\ d.backup = None /\ (o # None \/ d.target = None) /\ d.staging # None =>
                /\ Pending(Put(d, "staging", None), o, g)
                /\ Pending(Put(d, "staging", Half(d.staging)), o, g)
           /\ d.backup = None /\ (o # None \/ d.target = None) /\ d.staging = None => Back(d, o)
<1>1. /\ d.target \in Content /\ d.staging \in Content /\ d.backup \in Content /\ None \in Content
      /\ None.gen = 0 /\ Marked(g) \in Content /\ Marked(g).gen = g
    BY DirTyped, NoneIs, GenerationIs
<1>8. g \in Nat /\ o.gen \in Nat
    BY ContentTyped DEF Generations
<1>9. g # 0
    BY <1>8
<1>2. d.backup.whole /\ (d.target.gen # g => d.target.whole)
    BY DEF Pending
<1>3. Like(None, None) /\ None.whole
    BY LikeNone
<1>4. CASE d.target # None /\ (d.backup # None \/ o = None)
    <2>1. Like(d.target, Marked(g)) /\ d.staging = None /\ Like(d.backup, o)
        BY <1>3, <1>4, PendingCases
    <2>2. Like(Half(d.target), Marked(g)) /\ Half(d.target).gen = g /\ Half(d.target) \in Content
        BY <1>1, <2>1, LikeHalf, ContentChanges DEF Like
    <2>3. /\ Put(d, "target", None).target = None /\ Put(d, "target", None).staging = d.staging
          /\ Put(d, "target", None).backup = d.backup
          /\ Put(d, "target", Half(d.target)).target = Half(d.target)
          /\ Put(d, "target", Half(d.target)).staging = d.staging
          /\ Put(d, "target", Half(d.target)).backup = d.backup
        BY <1>1, <2>2, DirIs, ZenonT(30)
    <2>4. Pending(Put(d, "target", None), o, g)
        BY <1>1, <1>2, <1>3, <1>4, <1>9, <2>1, <2>3 DEF Pending, Has
    <2>5. Pending(Put(d, "target", Half(d.target)), o, g)
        BY <1>1, <1>2, <1>3, <1>4, <1>9, <2>1, <2>2, <2>3 DEF Pending, Has
    <2> QED
        BY <1>4, <2>4, <2>5
<1>5. CASE d.backup # None /\ d.target = None
    <2>1. Like(d.backup, o) /\ (d.staging = None \/ Like(d.staging, Marked(g)))
        BY <1>5, PendingCases
    <2> DEFINE b == Put(d, "target", d.backup)
               c == Put(b, "backup", None)
    <2>2. b \in Dir /\ b.target = d.backup /\ b.staging = d.staging
        BY <1>1, DirIs
    <2> HIDE DEF b
    <2>3. c.target = d.backup /\ c.staging = d.staging /\ c.backup = None
        BY <1>1, <2>2, DirIs
    <2> HIDE DEF c
    <2>4. Pending(c, o, g)
        BY <1>2, <1>3, <2>1, <2>3 DEF Pending, Has
    <2> QED
        BY <1>5, <2>4 DEF b, c
<1>6. CASE d.backup = None /\ (o # None \/ d.target = None) /\ d.staging # None
    <2>1. Like(d.target, o) /\ d.target.whole /\ Like(d.staging, Marked(g))
        BY <1>3, <1>6, PendingCases
    <2>2. Like(Half(d.staging), Marked(g)) /\ Half(d.staging) \in Content
        BY <1>1, <2>1, LikeHalf, ContentChanges
    <2> QED
        BY <1>1, <1>2, <1>3, <1>6, <2>1, <2>2, DirIs, ZenonT(30) DEF Pending, Has
<1>7. CASE d.backup = None /\ (o # None \/ d.target = None) /\ d.staging = None
    <2>1. Like(d.target, o) /\ d.target.whole
        BY <1>3, <1>7, PendingCases
    <2> QED
        BY <1>1, <1>7, <2>1 DEF Back, Clear
<1> QED
    BY <1>4, <1>5, <1>6, <1>7

LEMMA GoneIs ==
    ASSUME NEW t, NEW side, Gone(t, side)
    PROVE  dirs' = [dirs EXCEPT ![t] = Put(dirs[t], side, None)]
BY DEF Gone, Put

LEMMA TornIs ==
    ASSUME NEW t, NEW side, Torn(t, side)
    PROVE  \/ UNCHANGED dirs
           \/ dirs[t][side] # None /\ dirs' = [dirs EXCEPT ![t] = Put(dirs[t], side, Half(dirs[t][side]))]
BY DEF Torn, Put, Half, Exists

LEMMA MovedIs ==
    ASSUME NEW t, NEW from, NEW to, MovedDir(t, from, to)
    PROVE  dirs' = [dirs EXCEPT ![t] = Put(Put(dirs[t], to, dirs[t][from]), from, None)]
BY DEF MovedDir, Put

LEMMA MovedDirIs ==
    ASSUME NEW d \in Dir, NEW c \in Content
    PROVE  /\ Put(Put(d, "target", c), "backup", None) \in Dir
           /\ Put(Put(d, "target", c), "backup", None).target = c
           /\ Put(Put(d, "target", c), "backup", None).staging = d.staging
           /\ Put(Put(d, "target", c), "backup", None).backup = None
           /\ Put(Put(d, "backup", c), "target", None) \in Dir
           /\ Put(Put(d, "backup", c), "target", None).backup = c
           /\ Put(Put(d, "backup", c), "target", None).staging = d.staging
           /\ Put(Put(d, "backup", c), "target", None).target = None
           /\ Put(Put(d, "target", c), "staging", None) \in Dir
           /\ Put(Put(d, "target", c), "staging", None).target = c
           /\ Put(Put(d, "target", c), "staging", None).staging = None
           /\ Put(Put(d, "target", c), "staging", None).backup = d.backup
<1>1. None \in Content
    BY NoneIs
<1> DEFINE b == Put(d, "target", c)
           a == Put(d, "backup", c)
<1>2. b \in Dir /\ b.target = c /\ b.staging = d.staging /\ b.backup = d.backup
    BY DirIs
<1>3. a \in Dir /\ a.backup = c /\ a.staging = d.staging /\ a.target = d.target
    BY DirIs
<1> HIDE DEF a, b
<1>4. /\ Put(b, "backup", None) \in Dir /\ Put(b, "backup", None).target = c
      /\ Put(b, "backup", None).staging = d.staging /\ Put(b, "backup", None).backup = None
      /\ Put(b, "staging", None) \in Dir /\ Put(b, "staging", None).target = c
      /\ Put(b, "staging", None).staging = None /\ Put(b, "staging", None).backup = d.backup
    BY <1>1, <1>2, DirIs
<1>5. /\ Put(a, "target", None) \in Dir /\ Put(a, "target", None).backup = c
      /\ Put(a, "target", None).staging = d.staging /\ Put(a, "target", None).target = None
    BY <1>1, <1>3, DirIs
<1> QED
    BY <1>4, <1>5 DEF a, b

(* One change of a rollback, after which the command goes on or fails.        *)
LEMMA UndoChangeIsSafe ==
    ASSUME Workspace, Rest, command.at = "undo", Pended, Entry \in BundleTargets,
           command.i \in 1 .. Len(Entries), NEW d \in Dir, dirs' = [dirs EXCEPT ![Entry] = d],
           UNCHANGED <<prepared, committed, pulls, bundles, reported>>, mishaps' \in 0 .. BundleFaults,
           KnownDir(d), Pending(d, Original(Entry), prepared.gen), d.target.edit # "quiet",
           UNCHANGED command \/ RecoveryFails("error")
    PROVE  Workspace' /\ Rest' /\ KeepsEdits
<1>1. /\ Workspace' /\ Pended'
      /\ \A u \in BundleTargets :
            dirs'[u] = (IF u = Entry THEN d ELSE dirs[u]) /\ Original(u)' = Original(u)
    BY PendedDir
<1>2. Rest'
    BY <1>1, UndoGoesOn, UndoGoesWrong
<1>3. \A t \in BundleTargets : dirs[t].target.edit # "quiet"
    BY DEF Rest, RecoveryAt
<1> QED
    BY <1>1, <1>2, <1>3 DEF KeepsEdits

LEMMA UndoEntryIsSafe ==
    ASSUME Workspace, Rest, UndoEntry PROVE Workspace' /\ Rest' /\ KeepsEdits
<1> DEFINE t == Entry
           d == dirs[t]
           o == Original(t)
           g == prepared.gen
<1>1. /\ command.at = "undo" /\ Pended /\ command \in CommandStates
      /\ UNCHANGED <<prepared, committed, pulls, bundles, reported>>
      /\ \A u \in BundleTargets : dirs[u].target.edit # "quiet"
      /\ command.i > 0 /\ command.i <= Len(Entries)
    BY DEF UndoEntry, Rest, RecoveryAt
<1>2. command.i \in 1 .. Len(Entries) /\ t \in BundleTargets
    BY <1>1, EntriesKnown DEF CommandStates, Entry
<1>3. mishaps' \in 0 .. BundleFaults
    BY <1>1, MishapCounted DEF UndoEntry, Remove, Rename, Rest
<1>4. /\ d \in Dir /\ o \in Content /\ g \in Generations /\ o.gen < g /\ (o.gen = 0 => o = None)
      /\ t \in prepared.had <=> o # None
      /\ o.whole /\ KnownDir(d) /\ Pending(d, o, g)
    BY <1>1, <1>2, PendedIs
<1>5. d.target.edit # "quiet" /\ None.edit # "quiet" /\ d.backup.edit # "quiet"
    BY <1>1, <1>2, <1>4, NoneIs DEF KnownDir
<1>6. d.target \in Content /\ d.staging \in Content /\ d.backup \in Content /\ None \in Content
    BY <1>4, DirTyped, NoneIs
<1>7. Half(d.target).edit # "quiet" /\ Half(d.target) \in Content /\ Half(d.staging) \in Content
    BY <1>5, <1>6, ContentChanges
<1>8. ASSUME UNCHANGED dirs, RecoveryFails("error") PROVE Workspace' /\ Rest' /\ KeepsEdits
    <2>1. Workspace' /\ KeepsEdits
        BY <1>1, <1>8, DirsStay, DirsStayKept
    <2>2. Pended'
        BY <1>1 DEF Pended
    <2> QED
        BY <1>1, <1>3, <1>8, <2>1, <2>2, UndoGoesWrong
<1>9. CASE (d.backup # None \/ o = None) /\ d.target # None /\ Remove(t, "target", UNCHANGED command, RecoveryFails("error"))
    <2>1. Pending(Put(d, "target", None), o, g) /\ Pending(Put(d, "target", Half(d.target)), o, g)
        BY <1>4, <1>9, UndoneIs
    <2>2. /\ KnownDir(Put(d, "target", None)) /\ KnownDir(Put(d, "target", Half(d.target)))
          /\ Put(d, "target", None) \in Dir /\ Put(d, "target", Half(d.target)) \in Dir
          /\ Put(d, "target", None).target = None /\ Put(d, "target", Half(d.target)).target = Half(d.target)
        BY <1>4, <1>6, <1>7, <1>9, RemovedIs, DirIs
    <2>3. CASE Gone(t, "target") /\ UNCHANGED command
        BY <1>1, <1>2, <1>3, <1>5, <2>1, <2>2, <2>3, GoneIs, UndoChangeIsSafe
    <2>4. CASE Torn(t, "target") /\ RecoveryFails("error")
        <3>1. UNCHANGED dirs \/ dirs' = [dirs EXCEPT ![t] = Put(d, "target", Half(d.target))]
            BY <2>4, TornIs
        <3> QED
            BY <1>1, <1>2, <1>3, <1>5, <1>7, <1>8, <2>1, <2>2, <2>4, <3>1, UndoChangeIsSafe
    <2> QED
        BY <1>9, <2>3, <2>4 DEF Remove
<1>10. CASE /\ d.backup # None /\ d.target = None
            /\ \/ Rename(t, "backup", "target", UNCHANGED command)
               \/ Mishap /\ UNCHANGED dirs /\ RecoveryFails("error")
    <2> DEFINE c == Put(Put(d, "target", d.backup), "backup", None)
    <2>1. Pending(c, o, g)
        BY <1>4, <1>10, UndoneIs
    <2>2. c \in Dir /\ c.target = d.backup /\ c.staging = d.staging /\ c.backup = None
        BY <1>4, <1>6, MovedDirIs, ZenonT(30)
    <2>3. KnownDir(c)
        BY <1>4, <2>2, NoneIs, WorkspaceTypes DEF KnownDir, KnownContent
    <2>4. CASE Rename(t, "backup", "target", UNCHANGED command)
        <3>1. dirs' = [dirs EXCEPT ![t] = c] /\ UNCHANGED command
            BY <2>4, MovedIs DEF Rename
        <3> HIDE DEF c
        <3> QED
            BY <1>1, <1>2, <1>3, <1>5, <2>1, <2>2, <2>3, <3>1, UndoChangeIsSafe
    <2> QED
        BY <1>8, <1>10, <2>4
<1>11. CASE /\ d.backup = None /\ (o # None \/ d.target = None) /\ d.staging # None
            /\ Remove(t, "staging", UNCHANGED command, RecoveryFails("error"))
    <2>1. Pending(Put(d, "staging", None), o, g) /\ Pending(Put(d, "staging", Half(d.staging)), o, g)
        BY <1>4, <1>11, UndoneIs
    <2>2. /\ KnownDir(Put(d, "staging", None)) /\ KnownDir(Put(d, "staging", Half(d.staging)))
          /\ Put(d, "staging", None) \in Dir /\ Put(d, "staging", Half(d.staging)) \in Dir
          /\ Put(d, "staging", None).target = d.target /\ Put(d, "staging", Half(d.staging)).target = d.target
        BY <1>4, <1>6, <1>7, <1>11, RemovedIs, DirIs
    <2>3. CASE Gone(t, "staging") /\ UNCHANGED command
        BY <1>1, <1>2, <1>3, <1>5, <2>1, <2>2, <2>3, GoneIs, UndoChangeIsSafe
    <2>4. CASE Torn(t, "staging") /\ RecoveryFails("error")
        <3>1. UNCHANGED dirs \/ dirs' = [dirs EXCEPT ![t] = Put(d, "staging", Half(d.staging))]
            BY <2>4, TornIs
        <3> QED
            BY <1>1, <1>2, <1>3, <1>5, <1>8, <2>1, <2>2, <2>4, <3>1, UndoChangeIsSafe
    <2> QED
        BY <1>11, <2>3, <2>4 DEF Remove
<1>12. CASE /\ d.backup = None /\ (o # None \/ d.target = None) /\ d.staging = None
            /\ command' = [command EXCEPT !.i = @ - 1] /\ UNCHANGED dirs
    <2>1. Back(d, o)
        BY <1>4, <1>12, UndoneIs
    <2>2. Workspace' /\ KeepsEdits /\ Pended' /\ \A u \in BundleTargets : Original(u)' = Original(u)
        BY <1>1, <1>12, DirsStay, DirsStayKept DEF Pended, Original
    <2>3. /\ command' \in CommandStates /\ command'.at = "undo" /\ command'.i = command.i - 1
          /\ command'.goal = command.goal /\ command'.kind = command.kind /\ command'.result = command.result
        BY <1>1, <1>2, <1>12, EntriesKnown DEF CommandStates
    <2>4. Aims'
        BY <1>1, <1>12, <2>2, <2>3 DEF Rest, Aims, Succeeding
    <2>5. \A j \in 1 .. Len(Entries) : j > command.i - 1 => j > command.i \/ j = command.i
        BY <1>2, EntriesKnown
    <2>6. \A j \in 1 .. Len(Entries) : j > command'.i => Back(dirs[Entries[j]], Original(Entries[j]))'
        <3> SUFFICES ASSUME NEW j \in 1 .. Len(Entries), j > command'.i
                     PROVE  Back(dirs[Entries[j]], Original(Entries[j]))
            BY <1>12, <2>2, EntriesKnown
        <3>1. CASE j > command.i
            BY <1>1, <3>1 DEF Rest, RecoveryAt
        <3>2. CASE j = command.i
            BY <2>1, <3>2 DEF Entry
        <3> QED
            BY <2>3, <2>5, <3>1, <3>2
    <2>7. RecoveryAt'
        BY <1>1, <1>2, <1>12, <2>2, <2>3, <2>6, EntriesKnown DEF RecoveryAt
    <2>8. PullAt' /\ CommitAt'
        BY <2>3 DEF PullAt, CommitAt, Replacing
    <2> QED
        BY <1>3, <2>2, <2>3, <2>4, <2>7, <2>8 DEF Rest
<1>13. \/ /\ d.backup # None \/ o = None
          /\ d.target # None /\ Remove(t, "target", UNCHANGED command, RecoveryFails("error"))
       \/ /\ d.backup # None /\ d.target = None
          /\ \/ Rename(t, "backup", "target", UNCHANGED command)
             \/ Mishap /\ UNCHANGED dirs /\ RecoveryFails("error")
       \/ /\ d.backup = None /\ (o # None \/ d.target = None) /\ d.staging # None
          /\ Remove(t, "staging", UNCHANGED command, RecoveryFails("error"))
       \/ /\ d.backup = None /\ (o # None \/ d.target = None) /\ d.staging = None
          /\ command' = [command EXCEPT !.i = @ - 1] /\ UNCHANGED dirs
    <2>1. o = None => d.backup = None
        BY <1>4, PendingCases
    <2>2. t \in prepared.had <=> o # None
        BY <1>4
    <2> QED
        BY <2>1, <2>2 DEF UndoEntry, Exists
<1> QED
    BY <1>9, <1>10, <1>11, <1>12, <1>13

-----------------------------------------------------------------------------
(* The cleanup after a commit.                                                *)

LEMMA CommittedIs ==
    ASSUME Workspace, committed # NoJournal, NEW t \in BundleTargets
    PROVE  /\ dirs[t] \in Dir /\ KnownDir(dirs[t]) /\ Replaced(dirs[t], committed.gen)
           /\ prepared = NoJournal => Done(dirs[t], committed.gen)
           /\ committed.gen = pulls + 1 /\ committed.gen \in Nat /\ committed.gen > 0
<1>1. dirs[t] \in Dir /\ committed.gen \in Generations /\ pulls \in Nat
    BY WorkspaceTypes
<1>2. KnownDir(dirs[t]) /\ Standing(t, dirs[t]) /\ KnownJournal(committed)
    BY DEF Workspace
<1>3. committed.gen = pulls + 1
    BY <1>2 DEF KnownJournal
<1> QED
    BY <1>1, <1>2, <1>3 DEF Standing

(* One change of the cleanup, after which the command goes on or fails.       *)
LEMMA RedoChangeIsSafe ==
    ASSUME Workspace, Rest, command.at = "redo", committed # NoJournal, prepared # NoJournal,
           Entry \in BundleTargets, command.i \in 1 .. Len(Entries),
           NEW d \in Dir, dirs' = [dirs EXCEPT ![Entry] = d],
           UNCHANGED <<prepared, committed, pulls, bundles, reported>>, mishaps' \in 0 .. BundleFaults,
           KnownDir(d), Replaced(d, committed.gen), d.target.edit = dirs[Entry].target.edit,
           UNCHANGED command \/ RecoveryFails("error")
    PROVE  Workspace' /\ Rest' /\ KeepsEdits
<1>1. Standing(Entry, d) /\ Held(d, Original(Entry)) = HeldAt(Entry)
    BY DEF Standing, Held, HeldAt
<1>2. Workspace' /\ \A u \in BundleTargets : dirs'[u] = IF u = Entry THEN d ELSE dirs[u]
    BY <1>1, OneDir
<1>3. ~Pended /\ ~Pended'
    BY DEF Pended
<1>4. /\ command \in CommandStates /\ Aims /\ RecoveryAt /\ command.result = "none"
      /\ command.goal \in {"begin", "rollback", "finish"}
    BY DEF Rest, Aims
<1>5. \A u \in BundleTargets : dirs'[u].target.gen = dirs[u].target.gen
    BY <1>2, CommittedIs DEF Replaced
<1>8. KeepsEdits
    BY <1>2 DEF KeepsEdits
<1>6. CASE UNCHANGED command
    <2>1. PullTargets \subseteq BundleTargets /\ PullTargets' = PullTargets
        BY <1>6, EntriesKnown DEF PullTargets
    <2>2. Aims'
        BY <1>3, <1>4, <1>5, <1>6, <2>1 DEF Aims, Succeeding
    <2>3. \A j \in 1 .. Len(Entries) : j > command.i => dirs'[Entries[j]] = dirs[Entries[j]]
        BY <1>2, EntriesKnown DEF Entry
    <2>4. RecoveryAt'
        BY <1>4, <1>6, <2>3, EntriesKnown DEF RecoveryAt
    <2>5. PullAt' /\ CommitAt'
        BY <1>6 DEF PullAt, CommitAt, Replacing
    <2>6. command' \in CommandStates
        BY <1>4, <1>6
    <2> QED
        BY <1>2, <1>8, <2>2, <2>4, <2>5, <2>6 DEF Rest
<1>7. CASE RecoveryFails("error")
    <2>1. command.at \in Recovering
        BY DEF Recovering
    <2>2. command' \in CommandStates /\ Aims' /\ RecoveryAt' /\ PullAt' /\ CommitAt'
        BY <1>3, <1>5, <1>7, <2>1, GoesWrong
    <2> QED
        BY <1>2, <1>8, <2>2 DEF Rest
<1> QED
    BY <1>6, <1>7

LEMMA RecoveryFailsSafely ==
    ASSUME Workspace, Rest, command.at \in Recovering, RecoveryFails("error"), mishaps' \in 0 .. BundleFaults,
           UNCHANGED <<dirs, prepared, committed, pulls, bundles, reported>>
    PROVE  Workspace' /\ Rest' /\ KeepsEdits
<1>1. Workspace' /\ KeepsEdits
    BY DirsStay, DirsStayKept
<1>2. command.goal = "finish" => ~Pended'
    BY DEF Rest, Aims, Succeeding, Recovering, Pended
<1> QED
    BY <1>1, <1>2, GoesWrong DEF Rest

LEMMA RedoEntryIsSafe ==
    ASSUME Workspace, Rest, RedoEntry PROVE Workspace' /\ Rest' /\ KeepsEdits
<1> DEFINE t == Entry
           d == dirs[t]
           g == committed.gen
<1>1. /\ command.at = "redo" /\ committed # NoJournal /\ command \in CommandStates
      /\ UNCHANGED <<prepared, committed, pulls, bundles, reported>>
      /\ command.i > 0 /\ command.i <= Len(Entries) /\ command.at \in Recovering
    BY DEF RedoEntry, Rest, RecoveryAt, Recovering
<1>2. command.i \in 1 .. Len(Entries) /\ t \in BundleTargets
    BY <1>1, EntriesKnown DEF CommandStates, Entry
<1>3. mishaps' \in 0 .. BundleFaults
    BY <1>1, MishapCounted DEF RedoEntry, Remove, Rest
<1>4. /\ d \in Dir /\ KnownDir(d) /\ Replaced(d, g) /\ (prepared = NoJournal => Done(d, g))
      /\ d.target \in Content /\ d.backup \in Content /\ d.target.marked \in BOOLEAN /\ None \in Content
    BY <1>1, <1>2, CommittedIs, DirTyped, ContentTyped, NoneIs
<1>5. CASE /\ d.target.marked /\ dirs' = [dirs EXCEPT ![t].target.marked = FALSE] /\ UNCHANGED command
    <2> DEFINE c == Put(d, "target", Unmarked(d.target))
    <2>1. dirs' = [dirs EXCEPT ![t] = c]
        BY <1>5 DEF Put, Unmarked
    <2>6. /\ Unmarked(d.target) \in Content
          /\ Unmarked(d.target).gen = d.target.gen /\ Unmarked(d.target).whole = d.target.whole
          /\ Unmarked(d.target).edit = d.target.edit
        BY <1>4, ContentChanges
    <2>2. c \in Dir /\ c.target = Unmarked(d.target) /\ c.staging = d.staging /\ c.backup = d.backup
        BY <1>4, <2>6, DirIs
    <2>3. prepared # NoJournal /\ g # 0
        BY <1>1, <1>2, <1>4, <1>5, CommittedIs DEF Done
    <2> HIDE DEF c
    <2>4. Replaced(c, g)
        BY <1>4, <2>2, <2>6 DEF Replaced
    <2>5. KnownDir(c)
        BY <1>4, <2>2, <2>3, <2>6 DEF KnownDir, KnownContent, Replaced
    <2> QED
        BY <1>1, <1>2, <1>3, <1>5, <2>1, <2>2, <2>3, <2>4, <2>5, <2>6, RedoChangeIsSafe
<1>6. CASE /\ ~d.target.marked /\ d.backup # None
           /\ Remove(t, "backup", UNCHANGED command, RecoveryFails("error"))
    <2>1. prepared # NoJournal
        BY <1>4, <1>6 DEF Done
    <2>6. Half(d.backup) \in Content
        BY <1>4, ContentChanges
    <2>7. KnownDir(Put(d, "backup", None)) /\ KnownDir(Put(d, "backup", Half(d.backup)))
        BY <1>4, <1>6, RemovedIs
    <2>2. /\ Put(d, "backup", None) \in Dir /\ Put(d, "backup", Half(d.backup)) \in Dir
          /\ Put(d, "backup", None).target = d.target /\ Put(d, "backup", Half(d.backup)).target = d.target
          /\ Put(d, "backup", None).staging = d.staging /\ Put(d, "backup", Half(d.backup)).staging = d.staging
        BY <1>4, <2>6, DirIs
    <2>3. Replaced(Put(d, "backup", None), g) /\ Replaced(Put(d, "backup", Half(d.backup)), g)
        BY <1>4, <2>2 DEF Replaced
    <2>4. CASE Gone(t, "backup") /\ UNCHANGED command
        BY <1>1, <1>2, <1>3, <2>1, <2>2, <2>3, <2>4, <2>7, GoneIs, RedoChangeIsSafe
    <2>5. CASE Torn(t, "backup") /\ RecoveryFails("error")
        <3>1. UNCHANGED dirs \/ dirs' = [dirs EXCEPT ![t] = Put(d, "backup", Half(d.backup))]
            BY <2>5, TornIs
        <3> QED
            BY <1>1, <1>2, <1>3, <2>1, <2>2, <2>3, <2>5, <2>7, <3>1, RedoChangeIsSafe, RecoveryFailsSafely
    <2> QED
        BY <1>6, <2>4, <2>5 DEF Remove
<1>7. CASE /\ ~d.target.marked /\ d.backup = None
           /\ command' = [command EXCEPT !.i = @ - 1] /\ UNCHANGED dirs
    <2>1. Done(d, g)
        BY <1>4, <1>7 DEF Done
    <2>2. Workspace' /\ KeepsEdits
        BY <1>1, <1>7, DirsStay, DirsStayKept
    <2>3. /\ command' \in CommandStates /\ command'.at = "redo" /\ command'.i = command.i - 1
          /\ command'.goal = command.goal /\ command'.kind = command.kind /\ command'.result = command.result
        BY <1>1, <1>2, <1>7, EntriesKnown DEF CommandStates
    <2>4. PullTargets' = PullTargets
        BY <2>3 DEF PullTargets
    <2>5. Aims'
        BY <1>1, <1>7, <2>3, <2>4 DEF Rest, Aims, Succeeding, Pended
    <2>6. \A j \in 1 .. Len(Entries) : j > command'.i => Done(dirs[Entries[j]], committed.gen)'
        <3> SUFFICES ASSUME NEW j \in 1 .. Len(Entries), j > command'.i
                     PROVE  Done(dirs[Entries[j]], committed.gen)
            BY <1>1, <1>7
        <3>1. CASE j > command.i
            BY <1>1, <3>1 DEF Rest, RecoveryAt
        <3>2. CASE j = command.i
            BY <2>1, <3>2 DEF Entry
        <3>3. j > command.i \/ j = command.i
            BY <1>2, <2>3, EntriesKnown
        <3> QED
            BY <3>1, <3>2, <3>3
    <2>7. RecoveryAt'
        BY <1>1, <1>2, <1>7, <2>3, <2>6, EntriesKnown DEF RecoveryAt
    <2>8. PullAt' /\ CommitAt'
        BY <2>3 DEF PullAt, CommitAt, Replacing
    <2> QED
        BY <1>3, <2>2, <2>3, <2>5, <2>7, <2>8 DEF Rest
<1>8. CASE UNCHANGED dirs /\ RecoveryFails("error")
    BY <1>1, <1>3, <1>8, RecoveryFailsSafely
<1>9. \/ d.target.marked /\ dirs' = [dirs EXCEPT ![t].target.marked = FALSE] /\ UNCHANGED command
      \/ /\ ~d.target.marked /\ d.backup # None
         /\ Remove(t, "backup", UNCHANGED command, RecoveryFails("error"))
      \/ ~d.target.marked /\ d.backup = None /\ command' = [command EXCEPT !.i = @ - 1] /\ UNCHANGED dirs
      \/ UNCHANGED dirs /\ RecoveryFails("error")
    <2>1. d.target.gen = g /\ d.staging = None
        BY <1>4 DEF Replaced
    <2> QED
        BY <2>1 DEF RedoEntry, Exists
<1> QED
    BY <1>5, <1>6, <1>7, <1>8, <1>9

LEMMA AllEntriesDoneIsSafe ==
    ASSUME Workspace, Rest, AllEntriesDone PROVE Workspace' /\ Rest' /\ KeepsEdits
<1>1. /\ command.at \in {"undo", "redo"} /\ command.i = 0 /\ command \in CommandStates
      /\ UNCHANGED <<dirs, prepared, committed, pulls, bundles, reported>>
      /\ command.at \in Recovering /\ Aims /\ RecoveryAt /\ mishaps' \in 0 .. BundleFaults
    BY MishapCounted DEF AllEntriesDone, Rest, Recovering
<1>2. Workspace' /\ KeepsEdits
    BY <1>1, DirsStay, DirsStayKept
<1>3. CASE Continue("unprepare")
    <2>1. /\ command' \in CommandStates /\ command'.at = "unprepare" /\ command'.i = command.i
          /\ command'.goal = command.goal /\ command'.kind = command.kind /\ command'.result = command.result
        BY <1>1, <1>3 DEF CommandStates, Continue
    <2>2. PullTargets' = PullTargets
        BY <2>1 DEF PullTargets
    <2>3. Aims'
        BY <1>1, <2>1, <2>2 DEF Aims, Succeeding, Pended, Recovering
    <2>4. ASSUME NEW t \in BundleTargets
          PROVE  IF Pended THEN Back(dirs[t], Original(t)) ELSE Done(dirs[t], committed.gen)
        <3>1. PICK j \in 1 .. Len(Entries) : t = Entries[j]
            BY EntriesKnown
        <3>2. j > command.i
            BY <1>1
        <3> QED
            BY <1>1, <3>1, <3>2 DEF RecoveryAt, Pended
    <2>5. ~Quiet
        BY <1>1 DEF RecoveryAt, Pended, Quiet
    <2>6. \A t \in BundleTargets :
            (IF Pended THEN Back(dirs[t], Original(t)) ELSE Done(dirs[t], committed.gen))'
        BY <1>1, <2>4 DEF Pended, Original
    <2>7. RecoveryAt'
        BY <1>1, <2>1, <2>5, <2>6 DEF RecoveryAt, Quiet
    <2>8. PullAt' /\ CommitAt'
        BY <2>1 DEF PullAt, CommitAt, Replacing
    <2> QED
        BY <1>1, <1>2, <2>1, <2>3, <2>7, <2>8 DEF Rest
<1>4. CASE RecoveryFails("error")
    BY <1>1, <1>4, RecoveryFailsSafely
<1> QED
    BY <1>3, <1>4 DEF AllEntriesDone

(* When the prepared record goes, every target is as it was or replaced.      *)
LEMMA UnprepareKeeps ==
    ASSUME Workspace, Rest, command.at = "unprepare", prepared' = NoJournal,
           UNCHANGED <<dirs, committed, pulls, bundles, reported>>
    PROVE  Workspace' /\ KeepsEdits /\ ~Pended'
<1>1. RecoveryAt
    BY DEF Rest
<1>2. ASSUME NEW t \in BundleTargets
      PROVE  Standing(t, dirs[t])' /\ HeldAt(t)' = HeldAt(t) /\ KnownDir(dirs[t])'
    <2>1. KnownDir(dirs[t]) /\ Standing(t, dirs[t])
        BY DEF Workspace
    <2>2. KnownDir(dirs[t])'
        BY <2>1 DEF KnownDir, KnownContent
    <2>3. CASE committed # NoJournal
        <3>1. Done(dirs[t], committed.gen)
            BY <1>1, <2>3 DEF RecoveryAt, Pended
        <3> QED
            BY <2>2, <2>3, <3>1 DEF Standing, HeldAt, Held, Done
    <2>4. CASE committed = NoJournal
        <3>1. Back(dirs[t], Original(t)) /\ Pended
            BY <1>1, <2>4 DEF RecoveryAt, Pended, Quiet
        <3>2. Resting(t, dirs[t])
            BY <3>1, PendedIs, NoneIs DEF Back, Clear, Resting, Like
        <3>3. HeldAt(t) = Original(t).gen
            BY <3>1 DEF HeldAt, Held, Pended
        <3>4. HeldAt(t)' = IF Exists(dirs[t].target) THEN dirs[t].target.gen ELSE dirs[t].backup.gen
            BY <2>4 DEF HeldAt, Held
        <3>5. dirs[t].backup = None /\ dirs[t].target.gen = Original(t).gen
            BY <3>1 DEF Back, Clear, Like
        <3>6. HeldAt(t)' = HeldAt(t)
            BY <3>3, <3>4, <3>5, NoneIs DEF Exists
        <3> QED
            BY <2>2, <2>4, <3>2, <3>6 DEF Standing
    <2> QED
        BY <2>3, <2>4
<1>3. KnownJournal(prepared)' /\ KnownJournal(committed)'
    BY DEF Workspace, KnownJournal
<1>4. prepared' \in Journal
    BY BundleConstants, NoneIs DEF Journal, NoJournal
<1> QED
    BY <1>2, <1>3, <1>4 DEF Workspace, KeepsEdits, Pended

LEMMA RemovePreparedIsSafe ==
    ASSUME Workspace, Rest, RemovePrepared PROVE Workspace' /\ Rest' /\ KeepsEdits
<1>1. /\ command.at = "unprepare" /\ command \in CommandStates /\ command.at \in Recovering
      /\ UNCHANGED <<dirs, committed, pulls, bundles, reported>>
      /\ Aims /\ RecoveryAt /\ mishaps' \in 0 .. BundleFaults
    BY MishapCounted DEF RemovePrepared, Rest, Recovering
<1>2. CASE prepared' = NoJournal /\ Continue("uncommit")
    <2>1. /\ command' \in CommandStates /\ command'.at = "uncommit" /\ command'.i = command.i
          /\ command'.goal = command.goal /\ command'.kind = command.kind /\ command'.result = command.result
        BY <1>1, <1>2 DEF CommandStates, Continue
    <2>2. PullTargets' = PullTargets
        BY <2>1 DEF PullTargets
    <2>3. Workspace' /\ KeepsEdits /\ ~Pended'
        BY <1>1, <1>2, UnprepareKeeps
    <2>4. Aims'
        BY <1>1, <2>1, <2>2, <2>3 DEF Aims, Succeeding, Recovering
    <2>5. RecoveryAt' /\ PullAt' /\ CommitAt'
        BY <1>2, <2>1 DEF RecoveryAt, PullAt, CommitAt, Replacing
    <2> QED
        BY <1>1, <2>1, <2>3, <2>4, <2>5 DEF Rest
<1>3. CASE prepared' = NoJournal /\ RecoveryFails("error")
    <2>1. Workspace' /\ KeepsEdits /\ ~Pended'
        BY <1>1, <1>3, UnprepareKeeps
    <2> QED
        BY <1>1, <1>3, <2>1, GoesWrong DEF Rest
<1>4. CASE prepared' = prepared /\ RecoveryFails("error")
    BY <1>1, <1>4, RecoveryFailsSafely
<1> QED
    BY <1>2, <1>3, <1>4 DEF RemovePrepared

LEMMA UncommitKeeps ==
    ASSUME Workspace, Rest, prepared = NoJournal, committed' = NoJournal,
           UNCHANGED <<dirs, prepared, pulls, bundles, reported>>
    PROVE  Workspace' /\ KeepsEdits /\ Quiet'
<1>1. ASSUME NEW t \in BundleTargets
      PROVE  Standing(t, dirs[t])' /\ HeldAt(t)' = HeldAt(t) /\ KnownDir(dirs[t])'
    <2>1. KnownDir(dirs[t]) /\ Standing(t, dirs[t])
        BY DEF Workspace
    <2>2. KnownDir(dirs[t])'
        BY <2>1 DEF KnownDir, KnownContent
    <2>3. CASE committed # NoJournal
        <3>1. Done(dirs[t], committed.gen) /\ committed.gen > 0
            BY <2>3, CommittedIs
        <3>2. dirs[t].target # None /\ HeldAt(t) = committed.gen
            BY <2>3, <3>1, CommittedIs, NoneIs DEF Done, Replaced, HeldAt, Held
        <3>3. Resting(t, dirs[t])
            BY <3>1, <3>2, NoneIs DEF Done, Replaced, Resting
        <3>4. HeldAt(t)' = dirs[t].target.gen
            BY <3>2 DEF HeldAt, Held, Exists
        <3> QED
            BY <2>2, <3>1, <3>2, <3>3, <3>4 DEF Standing, Done, Replaced
    <2>4. CASE committed = NoJournal
        BY <2>1, <2>2, <2>4 DEF Standing, HeldAt, Held
    <2> QED
        BY <2>3, <2>4
<1>2. KnownJournal(prepared)' /\ KnownJournal(committed)'
    BY DEF Workspace, KnownJournal
<1>3. committed' \in Journal
    BY BundleConstants, NoneIs DEF Journal, NoJournal
<1> QED
    BY <1>1, <1>2, <1>3 DEF Workspace, KeepsEdits, Quiet

LEMMA RemoveCommittedIsSafe ==
    ASSUME Workspace, Rest, RemoveCommitted PROVE Workspace' /\ Rest' /\ KeepsEdits
<1>1. /\ command.at = "uncommit" /\ command.at \in Recovering /\ prepared = NoJournal
      /\ UNCHANGED <<dirs, prepared, pulls, bundles, reported>> /\ mishaps' \in 0 .. BundleFaults
    BY MishapCounted DEF RemoveCommitted, Rest, Recovering, RecoveryAt
<1>2. CASE committed' = NoJournal /\ Recovered
    <2>1. Workspace' /\ KeepsEdits /\ Quiet'
        BY <1>1, <1>2, UncommitKeeps
    <2> QED
        BY <1>1, <1>2, <2>1, GoesOnRecovered DEF Rest
<1>3. CASE committed' = NoJournal /\ RecoveryFails("error")
    <2>1. Workspace' /\ KeepsEdits /\ ~Pended'
        BY <1>1, <1>3, UncommitKeeps DEF Quiet, Pended
    <2> QED
        BY <1>1, <1>3, <2>1, GoesWrong DEF Rest
<1>4. CASE committed' = committed /\ RecoveryFails("error")
    BY <1>1, <1>4, RecoveryFailsSafely
<1> QED
    BY <1>2, <1>3, <1>4 DEF RemoveCommitted

-----------------------------------------------------------------------------
(* The sweep, the look for edits, and staging.                                *)

LEMMA QuietIs ==
    ASSUME Workspace, Quiet, NEW t \in BundleTargets
    PROVE  /\ dirs[t] \in Dir /\ KnownDir(dirs[t]) /\ Resting(t, dirs[t])
           /\ HeldAt(t) = Version(t) /\ Version(t) >= reported[t]
           /\ \A u \in BundleTargets : Version(t) \in bundles => Version(u) >= Version(t)
<1>1. \A u \in BundleTargets : HeldAt(u) = Version(u)
    BY DEF HeldAt, Held, Version, Quiet
<1> QED
    BY <1>1 DEF Workspace, Standing, Quiet

LEMMA VersionTyped ==
    ASSUME Workspace PROVE \A t \in BundleTargets : Version(t) \in Nat /\ Version(t) <= pulls + 1
BY WorkspaceTypes, DirTyped, ContentTyped DEF Version, Workspace, KnownDir, KnownContent

(* Without a journal, a target may keep its version or get a newer one that   *)
(* no bundle has made.                                                        *)
LEMMA QuietDirs ==
    ASSUME Workspace, Quiet, UNCHANGED <<prepared, committed, bundles, reported>>,
           pulls' \in Nat, pulls <= pulls', pulls' <= MaxPulls, dirs' \in [BundleTargets -> Dir],
           \A t \in BundleTargets :
                /\ KnownDir(dirs[t])' /\ Resting(t, dirs'[t])
                /\ Version(t)' = Version(t) \/ (Version(t)' \in Nat /\ Version(t)' >= Version(t) /\ Version(t)' \notin bundles)
    PROVE  Workspace' /\ Quiet'
<1>1. Quiet'
    BY DEF Quiet
<1>2. \A t \in BundleTargets : HeldAt(t)' = Version(t)'
    BY <1>1 DEF HeldAt, Held, Version, Quiet
<1>3. \A t \in BundleTargets : Standing(t, dirs[t])'
    BY <1>1 DEF Standing, Quiet, Resting
<1>4. KnownJournal(prepared)' /\ KnownJournal(committed)'
    BY <1>1 DEF KnownJournal, Quiet
<1>5. bundles' \subseteq 2 .. pulls' + 1 /\ pulls' \in 0 .. MaxPulls
    <2>1. pulls' \in 0 .. MaxPulls /\ pulls \in Nat /\ bundles \subseteq 2 .. pulls + 1
        BY BundleConstants, WorkspaceTypes DEF Workspace
    <2>2. \A a, b \in Nat : a <= b => 2 .. a + 1 \subseteq 2 .. b + 1
        OBVIOUS
    <2> QED
        BY <2>1, <2>2
<1>6. \A t \in BundleTargets : Version(t)' >= reported'[t] /\ Version(t)' \in Nat /\ Version(t)' >= Version(t)
    BY QuietIs, VersionTyped, WorkspaceTypes
<1>7. \A t, u \in BundleTargets : Version(t)' \in bundles' => Version(u)' >= Version(t)'
    <2> SUFFICES ASSUME NEW t \in BundleTargets, NEW u \in BundleTargets, Version(t)' \in bundles'
                 PROVE  Version(u)' >= Version(t)'
        OBVIOUS
    <2>1. Version(t)' = Version(t)
        OBVIOUS
    <2>2. Version(u) >= Version(t)
        BY <2>1, QuietIs
    <2>3. Version(t)' \in Nat /\ Version(u) \in Nat /\ Version(u)' \in Nat /\ Version(u)' >= Version(u)
        BY <1>6, VersionTyped
    <2> QED
        BY <2>1, <2>2, <2>3
<1> QED
    BY <1>1, <1>2, <1>3, <1>4, <1>5, <1>6, <1>7 DEF Workspace

(* The sweep leaves the target or, in its place, the backup.                  *)
Swept(d) == [d EXCEPT !.staging = None, !.backup = None, !.left = {},
                      !.target = IF Exists(d.target) THEN d.target ELSE d.backup]

LEMMA SweptIs ==
    ASSUME NEW d \in Dir
    PROVE  /\ Swept(d) \in Dir /\ Clear(Swept(d))
           /\ Swept(d).target = IF Exists(d.target) THEN d.target ELSE d.backup
BY NoneIs DEF Swept, Dir, Clear

LEMMA SweepEntryIs ==
    ASSUME Workspace, ~StuckBackups, SweepEntry, Entry \in BundleTargets
    PROVE  \/ dirs' = [dirs EXCEPT ![Entry] = Swept(dirs[Entry])] /\ NextEntry /\ UNCHANGED mishaps
           \/ Mishap /\ UNCHANGED dirs /\ Leave("error")
<1> DEFINE d == dirs[Entry]
           live == Exists(d.target)
           restored == IF live \/ Backups(Entry) = {} THEN {} ELSE {Oldest(Backups(Entry))}
           swept == [d EXCEPT
                !.staging = None, !.backup = None, !.left = {},
                !.target = IF restored = {} THEN @ ELSE Oldest(Backups(Entry))]
<1>1. d \in Dir /\ d.left = {} /\ d.backup \in Content
    BY WorkspaceTypes, DirTyped
<1>2. Backups(Entry) = IF Exists(d.backup) THEN {d.backup} ELSE {}
    BY <1>1 DEF Backups
<1>3. Exists(d.backup) => Oldest(Backups(Entry)) = d.backup
    <2> SUFFICES ASSUME Exists(d.backup) PROVE Oldest({d.backup}) = d.backup
        BY <1>2
    <2>1. d.backup.gen <= d.backup.gen
        BY <1>1, ContentTyped
    <2> QED
        BY <2>1 DEF Oldest
<1>4. (IF restored = {} THEN d.target ELSE Oldest(Backups(Entry))) = IF live THEN d.target ELSE d.backup
    BY <1>2, <1>3 DEF Exists
<1>5. swept = Swept(d)
    BY <1>1, <1>4 DEF Swept, Dir
<1>6. \/ dirs' = [dirs EXCEPT ![Entry] = swept] /\ NextEntry /\ UNCHANGED mishaps
      \/ Mishap /\ UNCHANGED dirs /\ Leave("error")
    BY DEF SweepEntry
<1> QED
    BY <1>5, <1>6

LEMMA PullStagesAre ==
    ASSUME Rest, command.at \in Replacing \cup {"sweep", "check", "journal", "restore", "replaced"}
    PROVE  /\ Quiet /\ command.kind # "other" /\ command.goal = "begin" /\ command.result = "none"
           /\ command \in CommandStates /\ Aims /\ PullAt /\ mishaps \in 0 .. BundleFaults
BY DEF Rest, PullAt, Aims, Replacing

LEMMA SweepEntryIsSafe ==
    ASSUME Workspace, Rest, ~StuckBackups, SweepEntry PROVE Workspace' /\ Rest' /\ KeepsEdits
<1> DEFINE t == Entry
           d == dirs[t]
<1>1. /\ command.at = "sweep" /\ command.i <= Len(Entries) /\ command.i > 0
      /\ UNCHANGED <<prepared, committed, pulls, bundles, reported>>
      /\ Quiet /\ command.kind # "other" /\ command.goal = "begin" /\ command.result = "none"
      /\ command \in CommandStates /\ Aims /\ PullAt /\ mishaps \in 0 .. BundleFaults
    BY PullStagesAre DEF SweepEntry, PullAt
<1>2. command.i \in 1 .. Len(Entries) /\ t \in BundleTargets
    BY <1>1, EntriesKnown DEF CommandStates, Entry
<1>3. CASE dirs' = [dirs EXCEPT ![t] = Swept(d)] /\ NextEntry /\ UNCHANGED mishaps
    <2>1. d \in Dir /\ KnownDir(d) /\ Resting(t, d)
        BY <1>1, <1>2, QuietIs
    <2>2. /\ Swept(d) \in Dir /\ Swept(d).staging = None /\ Swept(d).backup = None
          /\ Swept(d).target = IF Exists(d.target) THEN d.target ELSE d.backup
        BY <2>1, SweptIs DEF Clear
    <2>3. KnownDir(Swept(d))
        BY <2>1, <2>2, NoneIs, WorkspaceTypes DEF KnownDir, KnownContent
    <2>4. Resting(t, Swept(d))
        BY <2>1, <2>2, NoneIs DEF Resting, Exists
    <2> DEFINE s == Swept(d)
    <2>5. dirs' \in [BundleTargets -> Dir] /\ \A u \in BundleTargets : dirs'[u] = IF u = t THEN s ELSE dirs[u]
        BY <1>3, <2>2 DEF Workspace
    <2> HIDE DEF s
    <2>14. s.backup = None /\ s.target = IF Exists(d.target) THEN d.target ELSE d.backup
        BY <2>2 DEF s
    <2>15. KnownDir(s) /\ Resting(t, s)
        BY <2>3, <2>4 DEF s
    <2>6. ASSUME NEW u \in BundleTargets, u = t PROVE Version(u)' = Version(u)
        <3>1. dirs'[u] = s /\ dirs[u] = d
            BY <2>5, <2>6
        <3>2. Version(u)' = IF s.target # None THEN s.target.gen ELSE s.backup.gen
            BY <3>1 DEF Version, Exists
        <3>3. Version(u) = IF d.target # None THEN d.target.gen ELSE d.backup.gen
            BY <3>1 DEF Version, Exists
        <3> HIDE DEF d
        <3> QED
            BY <2>14, <3>2, <3>3, NoneIs DEF Exists
    <2>7. ASSUME NEW u \in BundleTargets
          PROVE  KnownDir(dirs[u])' /\ Resting(u, dirs'[u]) /\ Version(u)' = Version(u)
        <3>1. CASE u = t
            BY <1>1, <2>5, <2>6, <2>15, <3>1 DEF KnownDir, KnownContent
        <3>2. CASE u # t
            BY <1>1, <2>5, <3>2, QuietIs DEF KnownDir, KnownContent, Version
        <3> QED
            BY <3>1, <3>2
    <2>8. Workspace' /\ Quiet'
        BY <1>1, <2>5, <2>7, WorkspaceTypes, QuietDirs
    <2>9. KeepsEdits
        BY <2>5, <2>14, NoneIs DEF KeepsEdits, Exists
    <2>10. /\ command' \in CommandStates /\ command'.at = "sweep" /\ command'.i = command.i + 1
           /\ command'.goal = command.goal /\ command'.kind = command.kind /\ command'.result = command.result
        <3>1. command.i + 1 \in 0 .. Len(Entries) + 1
            BY <1>2, EntriesKnown
        <3> QED
            BY <1>1, <1>2, <1>3, <3>1, SMTT(30) DEF CommandStates, NextEntry
    <2>11. Aims'
        BY <1>1, <2>10 DEF Aims, Succeeding
    <2>12. \A j \in 1 .. Len(Entries) : j < command'.i /\ Entries[j] \in PullTargets' => Clear(dirs'[Entries[j]])
        <3> SUFFICES ASSUME NEW j \in 1 .. Len(Entries), j < command'.i, Entries[j] \in PullTargets'
                     PROVE  Clear(dirs'[Entries[j]])
            OBVIOUS
        <3>4. Entries[j] \in PullTargets
            BY <2>10 DEF PullTargets
        <3>1. CASE j = command.i
            BY <1>2, <2>2, <2>5, <3>1 DEF Clear, Entry, s
        <3>2. CASE j < command.i
            <4>1. Clear(dirs[Entries[j]])
                BY <1>1, <3>2, <3>4 DEF PullAt
            <4>2. Entries[j] # t /\ Entries[j] \in BundleTargets
                BY <1>2, <3>2, EntriesKnown DEF Entry
            <4> QED
                BY <2>5, <4>1, <4>2
        <3>3. j = command.i \/ j < command.i
            BY <1>2, <2>10, EntriesKnown
        <3> QED
            BY <3>1, <3>2, <3>3
    <2>13. RecoveryAt' /\ PullAt' /\ CommitAt'
        BY <1>1, <1>2, <2>8, <2>10, <2>12 DEF RecoveryAt, PullAt, CommitAt, Replacing
    <2> QED
        BY <1>1, <1>3, <2>8, <2>9, <2>10, <2>11, <2>13 DEF Rest
<1>4. CASE Mishap /\ UNCHANGED dirs /\ Leave("error")
    <2>1. Workspace' /\ KeepsEdits
        BY <1>1, <1>4, DirsStay, DirsStayKept
    <2> QED
        BY <1>1, <1>4, <2>1, MishapCounted, Leaves DEF Rest
<1> QED
    BY <1>2, <1>3, <1>4, SweepEntryIs

LEMMA SweepDoneIsSafe ==
    ASSUME Workspace, Rest, SweepDone PROVE Workspace' /\ Rest' /\ KeepsEdits
<1>1. /\ command.at = "sweep" /\ command.i > Len(Entries)
      /\ UNCHANGED <<dirs, prepared, committed, pulls, bundles, reported, mishaps>>
      /\ Quiet /\ command.kind # "other" /\ command.goal = "begin" /\ command.result = "none"
      /\ command \in CommandStates /\ Aims /\ PullAt /\ mishaps \in 0 .. BundleFaults
    BY PullStagesAre DEF SweepDone
<1>2. Workspace' /\ KeepsEdits
    BY <1>1, DirsStay, DirsStayKept
<1>3. /\ command' \in CommandStates /\ command'.at = "check" /\ command'.i = command.i
      /\ command'.goal = command.goal /\ command'.kind = command.kind /\ command'.result = command.result
    BY <1>1 DEF CommandStates, SweepDone, Continue
<1>4. Aims'
    BY <1>1, <1>3 DEF Aims, Succeeding
<1>5. \A t \in PullTargets' : Clear(dirs'[t])
    <2> SUFFICES ASSUME NEW t \in PullTargets PROVE Clear(dirs[t])
        BY <1>1, <1>3 DEF PullTargets
    <2>1. PICK j \in 1 .. Len(Entries) : t = Entries[j]
        BY EntriesKnown DEF PullTargets
    <2>2. j < command.i
        BY <1>1, EntriesKnown DEF CommandStates
    <2> QED
        BY <1>1, <2>1, <2>2 DEF PullAt
<1>6. RecoveryAt' /\ PullAt' /\ CommitAt'
    BY <1>1, <1>3, <1>5 DEF RecoveryAt, PullAt, CommitAt, Replacing, Quiet
<1> QED
    BY <1>1, <1>2, <1>3, <1>4, <1>6 DEF Rest

LEMMA CheckDirtyIsSafe ==
    ASSUME Workspace, Rest, CheckDirty
    PROVE  /\ Workspace' /\ Rest'
           /\ \A t \in BundleTargets : dirs[t].target.edit = "quiet" =>
                \/ dirs'[t].target.edit = "quiet"
                \/ t = Workbook /\ command.at = "check" /\ command.overwrite
<1> DEFINE w == dirs[Workbook]
           given == Put(w, "target", Edited(w.target, "given"))
<1>1. /\ command.at = "check" /\ UNCHANGED <<prepared, committed, bundles, reported, mishaps>>
      /\ Quiet /\ command.kind # "other" /\ command.goal = "begin" /\ command.result = "none"
      /\ command \in CommandStates /\ Aims /\ PullAt /\ mishaps \in 0 .. BundleFaults
    BY PullStagesAre DEF CheckDirty
<1>2. Workbook \in BundleTargets /\ Workbook \in PullTargets /\ PullTargets \subseteq BundleTargets
    BY EntriesKnown DEF PullTargets
<1>3. CASE Leave("refused") /\ UNCHANGED <<dirs, pulls>>
    <2>1. Workspace'
        BY <1>1, <1>3, DirsStay
    <2> QED
        BY <1>1, <1>3, <2>1, Leaves DEF Rest
<1>4. CASE /\ Continue("stage") /\ pulls' = pulls + 1
           /\ \A t \in PullTargets : Dirty(t) => command.overwrite /\ t = Workbook
           /\ dirs' = IF Dirty(Workbook) THEN [dirs EXCEPT ![Workbook].target.edit = "given"] ELSE dirs
    <2>1. w \in Dir /\ KnownDir(w) /\ Resting(Workbook, w) /\ w.target \in Content
        BY <1>1, <1>2, QuietIs, DirTyped
    <2>2. /\ Edited(w.target, "given") \in Content /\ Edited(w.target, "given").gen = w.target.gen
          /\ Edited(w.target, "given").edit = "given" /\ Edited(w.target, "given").marked = w.target.marked
          /\ Edited(w.target, "given").whole = w.target.whole
        BY <2>1, ContentChanges DEF Edits
    <2>3. given \in Dir /\ given.target = Edited(w.target, "given") /\ given.staging = w.staging /\ given.backup = w.backup
        BY <2>1, <2>2, DirIs
    <2>4. [dirs EXCEPT ![Workbook].target.edit = "given"] = [dirs EXCEPT ![Workbook] = given]
        BY DEF Put, Edited
    <2> HIDE DEF given
    <2>5. /\ dirs' \in [BundleTargets -> Dir]
          /\ \A u \in BundleTargets : dirs'[u] = IF u = Workbook /\ Dirty(Workbook) THEN given ELSE dirs[u]
        BY <1>2, <1>4, <2>3, <2>4 DEF Workspace
    <2>6. pulls < MaxPulls /\ pulls \in Nat /\ pulls' \in Nat /\ pulls <= pulls' /\ pulls' <= MaxPulls
        <3>1. pulls < MaxPulls /\ pulls \in Nat
            BY <1>1, WorkspaceTypes DEF Aims
        <3> QED
            BY <1>4, <3>1, BundleConstants
    <2>7. Dirty(Workbook) => w.target # None
        BY NoneIs DEF Dirty
    <2>8. Dirty(Workbook) => given.target # None
        BY <2>1, <2>2, <2>3, <2>7, NoneIs DEF KnownDir, KnownContent
    <2>9. ASSUME NEW u \in BundleTargets
          PROVE  KnownDir(dirs[u])' /\ Resting(u, dirs'[u]) /\ Version(u)' = Version(u)
        <3>1. ASSUME NEW c \in Content, KnownContent(c) PROVE KnownContent(c)'
            <4>1. c.gen <= pulls + 1 /\ c.gen \in Nat /\ (c.gen = 0 => c = None)
                BY <3>1, ContentTyped DEF KnownContent
            <4>2. c.gen <= pulls' + 1
                BY <2>6, <4>1
            <4> QED
                BY <4>1, <4>2 DEF KnownContent
        <3>2. dirs[u] \in Dir /\ KnownDir(dirs[u]) /\ Resting(u, dirs[u])
            BY <1>1, QuietIs
        <3>3. dirs[u].target \in Content /\ dirs[u].staging \in Content /\ dirs[u].backup \in Content
            BY <3>2, DirTyped
        <3>4. /\ dirs[u].target.gen <= pulls' + 1 /\ dirs[u].staging.gen <= pulls' + 1 /\ dirs[u].backup.gen <= pulls' + 1
              /\ dirs[u].target.gen = 0 => dirs[u].target = None
              /\ dirs[u].staging.gen = 0 => dirs[u].staging = None
              /\ dirs[u].backup.gen = 0 => dirs[u].backup = None
              /\ dirs[u].staging.edit = "no" /\ dirs[u].backup.edit # "quiet"
            BY <3>1, <3>2, <3>3 DEF KnownDir, KnownContent
        <3>5. CASE ~(u = Workbook /\ Dirty(Workbook))
            <4>1. dirs'[u] = dirs[u]
                BY <2>5, <3>5
            <4> QED
                BY <3>2, <3>4, <4>1 DEF KnownDir, KnownContent, Version
        <3>6. CASE u = Workbook /\ Dirty(Workbook)
            <4>1. dirs'[u] = given
                BY <2>5, <3>6
            <4>2. /\ dirs[u] = w /\ given.target # None /\ w.target # None
                  /\ given.target.gen = w.target.gen /\ given.target.marked = w.target.marked
                  /\ given.target.whole = w.target.whole /\ given.staging = w.staging /\ given.backup = w.backup
                BY <2>2, <2>3, <2>7, <2>8, <3>6
            <4>3. w.target.gen # 0
                BY <3>4, <4>2
            <4>4. KnownDir(dirs[u])'
                BY <3>4, <4>1, <4>2, <4>3 DEF KnownDir, KnownContent
            <4>5. Resting(u, dirs'[u])
                BY <3>2, <4>1, <4>2 DEF Resting
            <4>6. Version(u)' = Version(u)
                BY <4>1, <4>2 DEF Version, Exists
            <4> QED
                BY <4>4, <4>5, <4>6
        <3> QED
            BY <3>5, <3>6
    <2>10. Workspace' /\ Quiet'
        BY <1>1, <2>5, <2>6, <2>9, QuietDirs
    <2>11. /\ command' \in CommandStates /\ command'.at = "stage" /\ command'.i = command.i
           /\ command'.goal = command.goal /\ command'.kind = command.kind /\ command'.result = command.result
        BY <1>1, <1>4 DEF CommandStates, Continue
    <2>12. PullTargets' = PullTargets
        BY <2>11 DEF PullTargets
    <2>13. Aims'
        BY <1>1, <2>11 DEF Aims, Succeeding, Recovering
    <2>14. \A t \in PullTargets : Clear(dirs'[t])
        BY <1>1, <1>2, <2>3, <2>5 DEF PullAt, Clear
    <2>15. pulls' > 0 /\ bundles' \subseteq 2 .. pulls'
        BY <1>1, <1>4, <2>6 DEF Workspace
    <2>16. ASSUME NEW t \in PullTargets PROVE dirs'[t].target.gen <= pulls' /\ dirs'[t].target.edit # "quiet"
        <3>1. t \in BundleTargets /\ (Dirty(t) => t = Workbook)
            BY <1>2, <1>4
        <3>2. KnownDir(dirs[t])
            BY <1>1, <3>1, QuietIs
        <3>3. dirs[t].target.gen <= pulls'
            BY <1>4, <3>2 DEF KnownDir, KnownContent
        <3>4. ~Dirty(t) => dirs[t].target.edit = "no"
            BY DEF Dirty
        <3> QED
            BY <2>2, <2>3, <2>5, <3>1, <3>3, <3>4
    <2>17. RecoveryAt' /\ PullAt' /\ CommitAt'
        BY <1>1, <2>10, <2>11, <2>12, <2>14, <2>15, <2>16 DEF RecoveryAt, PullAt, CommitAt, Replacing
    <2>18. \A t \in BundleTargets : dirs[t].target.edit = "quiet" =>
                dirs'[t].target.edit = "quiet" \/ (t = Workbook /\ command.overwrite)
        BY <1>2, <1>4, <2>5
    <2> QED
        BY <1>1, <2>10, <2>11, <2>13, <2>17, <2>18 DEF Rest
<1> QED
    BY <1>3, <1>4 DEF CheckDirty

LEMMA StageIsSafe ==
    ASSUME Workspace, Rest, Stage PROVE Workspace' /\ Rest' /\ KeepsEdits
<1> DEFINE new == Generation(pulls + 1)
<1>1. /\ command.at = "stage" /\ UNCHANGED <<prepared, committed, pulls, bundles, reported, mishaps>>
      /\ Quiet /\ command.kind # "other" /\ command.goal = "begin" /\ command.result = "none"
      /\ command \in CommandStates /\ Aims /\ PullAt /\ mishaps \in 0 .. BundleFaults
    BY PullStagesAre DEF Stage, Replacing
<1>2. Workbook \in BundleTargets /\ Workbook \in PullTargets /\ PullTargets \subseteq BundleTargets
    BY EntriesKnown DEF PullTargets
<1>17. pulls \in Nat /\ pulls <= MaxPulls /\ pulls + 1 \in Generations
    BY WorkspaceTypes
<1>3. new \in Content /\ new.gen = pulls + 1 /\ new.edit = "no"
    BY <1>17, GenerationIs
<1>18. pulls + 1 # 0
    BY <1>17
<1>4. \A t \in BundleTargets : dirs'[t] = IF t \in PullTargets THEN Put(dirs[t], "staging", new) ELSE dirs[t]
    BY DEF Stage, Put
<1> HIDE DEF new
<1>5. ASSUME NEW t \in BundleTargets
      PROVE  /\ dirs'[t] \in Dir /\ dirs'[t].target = dirs[t].target /\ dirs'[t].backup = dirs[t].backup
             /\ t \in PullTargets => dirs'[t].staging = new
             /\ KnownDir(dirs[t])' /\ Resting(t, dirs'[t]) /\ Version(t)' = Version(t)
    <2>1. dirs[t] \in Dir /\ KnownDir(dirs[t]) /\ Resting(t, dirs[t])
        BY <1>1, QuietIs
    <2>2. /\ dirs'[t] \in Dir /\ dirs'[t].target = dirs[t].target /\ dirs'[t].backup = dirs[t].backup
          /\ dirs'[t].staging = new \/ (dirs'[t].staging = dirs[t].staging /\ t \notin PullTargets)
        BY <1>3, <1>4, <2>1, DirIs
    <2>3. KnownDir(dirs[t])'
        BY <1>1, <1>3, <1>17, <1>18, <2>1, <2>2 DEF KnownDir, KnownContent
    <2> QED
        BY <2>1, <2>2, <2>3 DEF Resting, Version
<1>6. dirs' = [t \in BundleTargets |-> dirs'[t]]
    BY DEF Stage
<1>7. dirs' \in [BundleTargets -> Dir]
    BY <1>5, <1>6
<1>8. Workspace' /\ Quiet'
    BY <1>1, <1>5, <1>7, <1>17, QuietDirs
<1>9. /\ command' \in CommandStates /\ command'.at = (IF command.kind = "bundle" THEN "journal" ELSE "replace")
      /\ command'.goal = command.goal /\ command'.kind = command.kind /\ command'.result = command.result
    BY <1>1 DEF CommandStates, Continue, Stage
<1>10. command.kind # "bundle" => command.kind = "single"
    BY <1>1 DEF CommandStates
<1>11. PullTargets' = PullTargets
    BY <1>9 DEF PullTargets
<1>12. Aims'
    BY <1>1, <1>9 DEF Aims, Succeeding, Recovering
<1>13. /\ \A t \in PullTargets : dirs'[t].backup = None
       /\ \A t \in PullTargets : dirs'[t].target.gen <= pulls' /\ dirs'[t].target.edit # "quiet"
       /\ pulls' > 0 /\ bundles' \subseteq 2 .. pulls'
    BY <1>1, <1>2, <1>5 DEF PullAt, Clear, Replacing
<1>14. \A t \in PullTargets : dirs'[t].staging = Generation(pulls' + 1)
    BY <1>1, <1>2, <1>5 DEF new
<1>15. command.kind = "bundle" => PullTargets = BundleTargets
    BY DEF PullTargets
<1>16. RecoveryAt' /\ PullAt' /\ CommitAt'
    BY <1>1, <1>2, <1>8, <1>9, <1>10, <1>11, <1>13, <1>14, <1>15 DEF RecoveryAt, PullAt, CommitAt, Replacing
<1> QED
    BY <1>1, <1>5, <1>8, <1>9, <1>12, <1>16 DEF Rest, KeepsEdits

-----------------------------------------------------------------------------
(* The transaction: journal, set aside, install, commit.                      *)

LEMMA LikeItself == \A c \in Content : Like(c, c)
BY DEF Like

LEMMA WriteJournalIsSafe ==
    ASSUME Workspace, Rest, WriteJournal PROVE Workspace' /\ Rest' /\ KeepsEdits
<1> DEFINE new == Marked(pulls + 1)
           journal == [gen |-> pulls + 1, had |-> {t \in BundleTargets : Exists(dirs[t].target)},
                       original |-> [t \in BundleTargets |-> dirs[t].target]]
<1>1. /\ command.at = "journal" /\ UNCHANGED <<committed, pulls, reported>> /\ bundles' = bundles \cup {pulls + 1}
      /\ Quiet /\ command.kind # "other" /\ command.goal = "begin" /\ command.result = "none"
      /\ command \in CommandStates /\ Aims /\ PullAt /\ mishaps' \in 0 .. BundleFaults
    BY PullStagesAre, MishapCounted DEF WriteJournal
<1>2. pulls \in Nat /\ pulls <= MaxPulls /\ pulls + 1 \in Generations
    BY WorkspaceTypes
<1>3. new \in Content /\ new.gen = pulls + 1 /\ new.edit = "no" /\ new.whole /\ new.marked
    BY <1>2, GenerationIs
<1>4. pulls + 1 # 0 /\ pulls > 0 /\ pulls + 1 \in Nat
    BY <1>1, <1>2 DEF PullAt
<1>5. command.kind = "bundle" /\ PullTargets = BundleTargets
    BY <1>1 DEF PullAt, PullTargets
<1>6. \A t \in BundleTargets : dirs'[t] = Put(dirs[t], "staging", new)
    BY DEF WriteJournal, Put
<1> HIDE DEF new
<1>7. ASSUME NEW t \in BundleTargets
      PROVE  /\ dirs[t] \in Dir /\ dirs[t].target \in Content
             /\ dirs'[t] \in Dir /\ dirs'[t].target = dirs[t].target /\ dirs'[t].backup = None
             /\ dirs'[t].staging = new
             /\ KnownDir(dirs[t])' /\ Resting(t, dirs'[t]) /\ HeldAt(t) = dirs[t].target.gen
             /\ dirs[t].target.gen <= pulls /\ dirs[t].target.edit # "quiet" /\ ~dirs[t].target.marked
             /\ dirs[t].target.whole /\ (dirs[t].target.gen = 0 => dirs[t].target = None)
    <2>1. dirs[t] \in Dir /\ KnownDir(dirs[t]) /\ Resting(t, dirs[t]) /\ HeldAt(t) = Version(t)
        BY <1>1, QuietIs
    <2>2. /\ dirs'[t] \in Dir /\ dirs'[t].target = dirs[t].target /\ dirs'[t].backup = dirs[t].backup
          /\ dirs'[t].staging = new
        BY <1>3, <1>6, <2>1, DirIs
    <2>3. dirs[t].backup = None /\ dirs[t].target.gen <= pulls /\ dirs[t].target.edit # "quiet"
        BY <1>1, <1>5 DEF PullAt
    <2>4. KnownDir(dirs[t])'
        BY <1>1, <1>2, <1>3, <1>4, <2>1, <2>2 DEF KnownDir, KnownContent
    <2>5. Version(t) = dirs[t].target.gen
        BY <2>3, NoneIs DEF Version, Exists
    <2>6. dirs[t].target.gen = 0 => dirs[t].target = None
        BY <2>1 DEF KnownDir, KnownContent
    <2> QED
        BY <2>1, <2>2, <2>3, <2>4, <2>5, <2>6, DirTyped DEF Resting
<1>8. dirs' \in [BundleTargets -> Dir] /\ KeepsEdits
    <2>1. dirs' = [t \in BundleTargets |-> dirs'[t]]
        BY DEF WriteJournal
    <2> QED
        BY <1>7, <2>1 DEF KeepsEdits
<1>9. /\ journal \in Journal /\ journal # NoJournal /\ journal.gen = pulls + 1
      /\ \A t \in BundleTargets : journal.original[t] = dirs[t].target
      /\ \A t \in BundleTargets : t \in journal.had <=> dirs[t].target # None
    BY <1>2, <1>4, <1>7 DEF Journal, NoJournal, Generations, Exists
<1>10. bundles' \subseteq 2 .. pulls' + 1
    <2>1. bundles \subseteq 2 .. pulls + 1
        BY DEF Workspace
    <2>2. pulls + 1 \in 2 .. pulls + 1
        BY <1>2, <1>4
    <2> QED
        BY <1>1, <2>1, <2>2
<1>11. /\ prepared' = journal \/ prepared' = NoJournal
       /\ \/ prepared' = journal /\ command' = [command EXCEPT !.at = "aside", !.i = 1]
          \/ Leave("error")
    BY DEF WriteJournal
<1> HIDE DEF journal
<1>12. ASSUME NEW t \in BundleTargets PROVE Standing(t, dirs[t])' /\ HeldAt(t)' = HeldAt(t)
    <2>1. CASE prepared' = journal
        <3>1. Original(t)' = dirs[t].target /\ prepared'.gen = pulls + 1 /\ prepared' # NoJournal /\ committed' = NoJournal
            BY <1>1, <1>9, <2>1 DEF Original, Quiet
        <3>2. Has(dirs'[t], dirs[t].target, new, None)
            BY <1>3, <1>7, LikeItself, NoneIs DEF Has
        <3>3. Pending(dirs'[t], dirs[t].target, pulls + 1)
            BY <1>7, <3>2, NoneIs DEF Pending, new
        <3> QED
            BY <1>7, <3>1, <3>3 DEF Standing, HeldAt, Held
    <2>2. CASE prepared' = NoJournal
        BY <1>1, <1>7, <2>2, NoneIs DEF Standing, HeldAt, Held, Quiet, Exists
    <2> QED
        BY <1>11, <2>1, <2>2
<1>13. KnownJournal(prepared)' /\ KnownJournal(committed)'
    <2>1. KnownJournal(committed)'
        BY <1>1 DEF KnownJournal, Quiet
    <2>2. CASE prepared' = journal
        BY <1>1, <1>4, <1>7, <1>9, <2>1, <2>2 DEF KnownJournal
    <2>3. CASE prepared' = NoJournal
        BY <2>1, <2>3 DEF KnownJournal
    <2> QED
        BY <1>11, <2>2, <2>3
<1>14. prepared' \in Journal /\ committed' \in Journal
    BY <1>1, <1>9, <1>11 DEF Workspace, Quiet
<1>15. \A t, u \in BundleTargets : HeldAt(t)' \in bundles' => HeldAt(u)' >= HeldAt(t)'
    <2> SUFFICES ASSUME NEW t \in BundleTargets, NEW u \in BundleTargets, HeldAt(t) \in bundles'
                 PROVE  HeldAt(u) >= HeldAt(t)
        BY <1>12
    <2>1. HeldAt(t) <= pulls /\ HeldAt(t) \in Nat
        BY <1>7, ContentTyped
    <2>2. HeldAt(t) # pulls + 1
        BY <1>2, <2>1
    <2> QED
        BY <1>1, <2>2 DEF Workspace
<1>16. Workspace'
    <2>1. pulls' \in 0 .. MaxPulls /\ reported' \in [BundleTargets -> 0 .. MaxPulls + 1]
        BY <1>1 DEF Workspace
    <2>2. \A t \in BundleTargets : KnownDir(dirs[t])' /\ Standing(t, dirs[t])' /\ HeldAt(t)' >= reported'[t]
        BY <1>1, <1>7, <1>12 DEF Workspace
    <2> QED
        BY <1>8, <1>10, <1>13, <1>14, <1>15, <2>1, <2>2 DEF Workspace
<1>17. CASE prepared' = journal /\ command' = [command EXCEPT !.at = "aside", !.i = 1]
    <2>1. 1 \in 0 .. Len(Entries) + 1
        BY EntriesKnown
    <2>2. /\ command' \in CommandStates /\ command'.at = "aside" /\ command'.i = 1
          /\ command'.goal = command.goal /\ command'.kind = command.kind /\ command'.result = command.result
        BY <1>1, <1>17, <2>1 DEF CommandStates
    <2>3. Aims'
        BY <1>1, <2>2 DEF Aims, Succeeding, Recovering
    <2>4. Pended'
        BY <1>1, <1>9, <1>17 DEF Pended, Quiet
    <2>5. \A t \in BundleTargets : Waits(dirs'[t], Original(t)', prepared'.gen)
        BY <1>7, <1>9, <1>17, LikeItself DEF Waits, Original, new
    <2>6. \A j \in 1 .. Len(Entries) : Waits(dirs'[Entries[j]], Original(Entries[j])', prepared'.gen) /\ ~(j < 1)
        BY <2>5, EntriesKnown
    <2>7. CommitAt'
        BY <1>1, <1>5, <2>2, <2>4, <2>6 DEF CommitAt
    <2>8. RecoveryAt' /\ PullAt'
        BY <2>2 DEF RecoveryAt, PullAt, Replacing
    <2> QED
        BY <1>1, <1>8, <1>16, <2>2, <2>3, <2>7, <2>8 DEF Rest
<1>18. CASE Leave("error")
    BY <1>1, <1>8, <1>16, <1>18, Leaves DEF Rest
<1> QED
    BY <1>11, <1>17, <1>18

LEMMA CommitStagesAre ==
    ASSUME Rest, command.at \in {"aside", "install", "mark"}
    PROVE  /\ Pended /\ command.kind = "bundle" /\ command.goal = "begin" /\ command.result = "none"
           /\ command.i > 0 /\ command \in CommandStates /\ Aims /\ CommitAt /\ mishaps \in 0 .. BundleFaults
           /\ \A j \in 1 .. Len(Entries) :
                /\ j < command.i => Installed(dirs[Entries[j]], Original(Entries[j]), prepared.gen)
                /\ j = command.i /\ command.at = "install" =>
                        IsAside(dirs[Entries[j]], Original(Entries[j]), prepared.gen)
                /\ j > command.i \/ (j = command.i /\ command.at # "install") =>
                        Waits(dirs[Entries[j]], Original(Entries[j]), prepared.gen)
<1>1. command.i \in Nat
    BY EntriesKnown DEF Rest, CommandStates
<1>2. /\ Pended /\ command.kind = "bundle" /\ command.goal = "begin" /\ command.result = "none"
      /\ command.i > 0 /\ command \in CommandStates /\ Aims /\ CommitAt /\ mishaps \in 0 .. BundleFaults
    BY DEF Rest, CommitAt, Aims
<1>3. \A j \in 1 .. Len(Entries) :
        IF j < command.i THEN Installed(dirs[Entries[j]], Original(Entries[j]), prepared.gen)
        ELSE IF j = command.i /\ command.at = "install" THEN IsAside(dirs[Entries[j]], Original(Entries[j]), prepared.gen)
        ELSE Waits(dirs[Entries[j]], Original(Entries[j]), prepared.gen)
    BY DEF Rest, CommitAt
<1>4. \A j \in 1 .. Len(Entries) : (j > command.i => ~(j < command.i) /\ j # command.i) /\ (j = command.i => ~(j < command.i))
    BY <1>1
<1> QED
    BY <1>2, <1>3, <1>4

(* The command rolls back at once.                                            *)
LEMMA RollsBack ==
    ASSUME command \in CommandStates, command.result = "none", Rollback
    PROVE  command' \in CommandStates /\ Aims' /\ RecoveryAt' /\ PullAt' /\ CommitAt'
<1>1. /\ command' \in CommandStates /\ command'.at = "recover" /\ command'.goal = "rollback"
      /\ command'.result = "none"
    BY DEF Rollback, CommandStates
<1>2. Aims'
    BY <1>1 DEF Aims, Succeeding
<1>3. RecoveryAt' /\ PullAt' /\ CommitAt'
    BY <1>1 DEF RecoveryAt, PullAt, CommitAt, Replacing
<1> QED
    BY <1>1, <1>2, <1>3

(* The command goes on with the transaction.                                  *)
LEMMA CommitGoesOn ==
    ASSUME command \in CommandStates, Aims, command.goal = "begin", command.result = "none",
           command' \in CommandStates, command'.at \in {"aside", "install", "mark"},
           command'.kind = command.kind, command'.goal = command.goal, command'.result = command.result
    PROVE  Aims' /\ RecoveryAt' /\ PullAt'
<1>1. Aims'
    BY DEF Aims, Succeeding, Recovering
<1>2. RecoveryAt' /\ PullAt'
    BY DEF RecoveryAt, PullAt, Replacing
<1> QED
    BY <1>1, <1>2

LEMMA SetAsideIsSafe ==
    ASSUME Workspace, Rest, SetAside PROVE Workspace' /\ Rest' /\ KeepsEdits
<1>1. /\ command.at = "aside" /\ command.i <= Len(Entries)
      /\ UNCHANGED <<prepared, committed, pulls, bundles, reported>>
      /\ Pended /\ command.kind = "bundle" /\ command.goal = "begin" /\ command.result = "none"
      /\ command.i > 0 /\ command \in CommandStates /\ Aims /\ mishaps' \in 0 .. BundleFaults
    BY CommitStagesAre, MishapCounted DEF SetAside, Rename
<1> DEFINE t == Entry
           d == dirs[t]
           o == Original(t)
           g == prepared.gen
<1>2. command.i \in 1 .. Len(Entries) /\ t \in BundleTargets /\ t = Entries[command.i]
    BY <1>1, EntriesKnown DEF CommandStates, Entry
<1>3. Waits(d, o, g)
    BY <1>1, <1>2, CommitStagesAre
<1>4. /\ d \in Dir /\ o \in Content /\ KnownDir(d) /\ (t \in prepared.had <=> o # None)
      /\ d.target \in Content
    BY <1>1, <1>2, PendedIs, DirTyped
<1>5. CASE Rollback /\ UNCHANGED dirs
    BY <1>1, <1>5, RollsBack, DirsStay, DirsStayKept DEF Rest
<1>6. ASSUME NEW e \in Dir, IsAside(e, o, g), Continue("install"), Workspace', Pended',
             \A u \in BundleTargets : dirs'[u] = (IF u = t THEN e ELSE dirs[u]) /\ Original(u)' = Original(u)
      PROVE  Rest'
    <2>1. /\ command' \in CommandStates /\ command'.at = "install" /\ command'.i = command.i
          /\ command'.goal = command.goal /\ command'.kind = command.kind /\ command'.result = command.result
        BY <1>1, <1>6 DEF CommandStates, Continue
    <2>2. Aims' /\ RecoveryAt' /\ PullAt'
        BY <1>1, <2>1, CommitGoesOn
    <2>3. ASSUME NEW j \in 1 .. Len(Entries)
          PROVE  IF j < command.i THEN Installed(dirs'[Entries[j]], Original(Entries[j])', g)
                 ELSE IF j = command.i THEN IsAside(dirs'[Entries[j]], Original(Entries[j])', g)
                 ELSE Waits(dirs'[Entries[j]], Original(Entries[j])', g)
        <3>1. Entries[j] \in BundleTargets /\ (j # command.i => Entries[j] # t)
            BY <1>2, EntriesKnown
        <3>2. CASE j = command.i
            BY <1>2, <1>6, <3>1, <3>2
        <3>3. CASE j # command.i
            <4>1. dirs'[Entries[j]] = dirs[Entries[j]] /\ Original(Entries[j])' = Original(Entries[j])
                BY <1>6, <3>1, <3>3
            <4>2. j < command.i \/ j > command.i
                BY <1>2, <3>3
            <4> QED
                BY <1>1, <3>3, <4>1, <4>2, CommitStagesAre
        <3> QED
            BY <3>2, <3>3
    <2>4. CommitAt'
        BY <1>1, <1>6, <2>1, <2>3 DEF CommitAt
    <2> QED
        BY <1>1, <2>1, <2>2, <2>4 DEF Rest
<1>7. CASE t \in prepared.had /\ Rename(t, "target", "backup", Continue("install"))
    <2> DEFINE e == Put(Put(d, "backup", d.target), "target", None)
    <2>1. /\ e \in Dir /\ e.target = None /\ e.staging = d.staging /\ e.backup = d.target
        BY <1>4, MovedDirIs
    <2>2. dirs' = [dirs EXCEPT ![t] = e]
        BY <1>7, MovedIs DEF Rename
    <2> HIDE DEF e
    <2>3. KnownDir(e)
        BY <1>3, <1>4, <2>1, NoneIs, WorkspaceTypes DEF KnownDir, KnownContent, Waits
    <2>4. IsAside(e, o, g)
        BY <1>3, <2>1 DEF Waits, IsAside
    <2>5. Marked(g) \in Content /\ Like(Marked(g), Marked(g)) /\ Like(None, None) /\ None.whole
        BY <1>1, <1>2, PendedIs, GenerationIs, LikeItself, LikeNone
    <2>6. Pending(e, o, g)
        BY <2>4, <2>5 DEF Pending, IsAside, Has
    <2>7. /\ Workspace' /\ Pended'
          /\ \A u \in BundleTargets : dirs'[u] = (IF u = t THEN e ELSE dirs[u]) /\ Original(u)' = Original(u)
        BY <1>1, <1>2, <2>1, <2>2, <2>3, <2>6, PendedDir
    <2>8. KeepsEdits
        BY <1>3, <2>7 DEF KeepsEdits, Waits
    <2> QED
        BY <1>6, <1>7, <2>1, <2>4, <2>7, <2>8 DEF Rename
<1>8. CASE t \notin prepared.had /\ Continue("install") /\ UNCHANGED dirs
    <2>1. o = None /\ d.target = None
        BY <1>3, <1>4, <1>8, NoneIs DEF Waits, Like, KnownDir, KnownContent
    <2>2. IsAside(d, o, g)
        BY <1>3, <2>1, LikeNone DEF Waits, IsAside
    <2>3. Workspace' /\ Pended' /\ KeepsEdits
        BY <1>1, <1>8, DirsStay, DirsStayKept DEF Pended
    <2>4. \A u \in BundleTargets : dirs'[u] = (IF u = t THEN d ELSE dirs[u]) /\ Original(u)' = Original(u)
        BY <1>1, <1>8 DEF Original
    <2> HIDE DEF d
    <2> QED
        BY <1>4, <1>6, <1>8, <2>2, <2>3, <2>4
<1> QED
    BY <1>5, <1>7, <1>8 DEF SetAside

LEMMA InstallEntryIsSafe ==
    ASSUME Workspace, Rest, InstallEntry PROVE Workspace' /\ Rest' /\ KeepsEdits
<1>1. /\ command.at = "install" /\ command.i <= Len(Entries)
      /\ UNCHANGED <<prepared, committed, pulls, bundles, reported>>
      /\ Pended /\ command.kind = "bundle" /\ command.goal = "begin" /\ command.result = "none"
      /\ command.i > 0 /\ command \in CommandStates /\ Aims /\ mishaps' \in 0 .. BundleFaults
    BY CommitStagesAre, MishapCounted DEF InstallEntry, Rename, CommitAt
<1> DEFINE t == Entry
           d == dirs[t]
           o == Original(t)
           g == prepared.gen
<1>2. command.i \in 1 .. Len(Entries) /\ t \in BundleTargets /\ t = Entries[command.i]
    BY <1>1, EntriesKnown DEF CommandStates, Entry
<1>3. IsAside(d, o, g)
    BY <1>1, <1>2, CommitStagesAre
<1>4. /\ d \in Dir /\ o \in Content /\ KnownDir(d) /\ d.staging \in Content /\ g \in Generations
    BY <1>1, <1>2, PendedIs, DirTyped
<1>5. CASE Rollback /\ UNCHANGED dirs
    BY <1>1, <1>5, RollsBack, DirsStay, DirsStayKept DEF Rest
<1>6. CASE Rename(t, "staging", "target", command' = [command EXCEPT !.at = "aside", !.i = @ + 1])
    <2> DEFINE e == Put(Put(d, "target", d.staging), "staging", None)
    <2>1. /\ e \in Dir /\ e.target = d.staging /\ e.staging = None /\ e.backup = d.backup
        BY <1>4, MovedDirIs
    <2>2. dirs' = [dirs EXCEPT ![t] = e]
        BY <1>6, MovedIs DEF Rename
    <2> HIDE DEF e
    <2>3. /\ d.staging = Marked(g) /\ Marked(g) \in Content /\ Marked(g).gen = g /\ Marked(g).marked /\ Marked(g).whole
          /\ Marked(g).edit = "no" /\ Like(Marked(g), Marked(g)) /\ Like(None, None)
        BY <1>3, <1>4, GenerationIs, LikeItself, LikeNone DEF IsAside
    <2>4. KnownDir(e)
        BY <1>4, <2>1, <2>3, NoneIs, WorkspaceTypes DEF KnownDir, KnownContent
    <2>5. Installed(e, o, g)
        BY <1>3, <2>1, <2>3 DEF IsAside, Installed
    <2>6. Pending(e, o, g)
        BY <2>3, <2>5 DEF Pending, Installed, Has
    <2>7. /\ Workspace' /\ Pended'
          /\ \A u \in BundleTargets : dirs'[u] = (IF u = t THEN e ELSE dirs[u]) /\ Original(u)' = Original(u)
        BY <1>1, <1>2, <2>1, <2>2, <2>4, <2>6, PendedDir
    <2>8. KeepsEdits
        <3>1. dirs[t].target.edit # "quiet"
            BY <1>3, NoneIs DEF IsAside
        <3> QED
            BY <2>7, <3>1 DEF KeepsEdits
    <2>9. command.i + 1 \in 0 .. Len(Entries) + 1 /\ command.i + 1 > 0
        BY <1>2, EntriesKnown
    <2>10. /\ command' \in CommandStates /\ command'.at = "aside" /\ command'.i = command.i + 1
           /\ command'.goal = command.goal /\ command'.kind = command.kind /\ command'.result = command.result
        BY <1>1, <1>6, <2>9 DEF CommandStates, Rename
    <2>11. Aims' /\ RecoveryAt' /\ PullAt'
        BY <1>1, <2>10, CommitGoesOn
    <2>12. ASSUME NEW j \in 1 .. Len(Entries)
           PROVE  IF j < command.i + 1 THEN Installed(dirs'[Entries[j]], Original(Entries[j])', g)
                  ELSE Waits(dirs'[Entries[j]], Original(Entries[j])', g)
        <3>1. Entries[j] \in BundleTargets /\ (j # command.i => Entries[j] # t)
            BY <1>2, EntriesKnown
        <3>2. (j < command.i => j < command.i + 1) /\ (j > command.i => ~(j < command.i + 1)) /\ command.i < command.i + 1
            BY <1>2
        <3>3. CASE j = command.i
            BY <1>2, <2>5, <2>7, <3>1, <3>2, <3>3
        <3>4. CASE j # command.i
            <4>1. dirs'[Entries[j]] = dirs[Entries[j]] /\ Original(Entries[j])' = Original(Entries[j])
                BY <2>7, <3>1, <3>4
            <4>2. j < command.i \/ j > command.i
                BY <1>2, <3>4
            <4> QED
                BY <1>1, <3>2, <4>1, <4>2, CommitStagesAre
        <3> QED
            BY <3>3, <3>4
    <2>13. CommitAt'
        BY <1>1, <2>7, <2>9, <2>10, <2>12 DEF CommitAt
    <2> QED
        BY <1>1, <2>7, <2>8, <2>10, <2>11, <2>13 DEF Rest
<1> QED
    BY <1>5, <1>6 DEF InstallEntry

LEMMA SyncParentsIsSafe ==
    ASSUME Workspace, Rest, SyncParents PROVE Workspace' /\ Rest' /\ KeepsEdits
<1>1. /\ command.at = "aside" /\ command.i > Len(Entries)
      /\ UNCHANGED <<dirs, prepared, committed, pulls, bundles, reported>>
      /\ Pended /\ command.kind = "bundle" /\ command.goal = "begin" /\ command.result = "none"
      /\ command.i > 0 /\ command \in CommandStates /\ Aims /\ CommitAt /\ mishaps' \in 0 .. BundleFaults
    BY CommitStagesAre, MishapCounted DEF SyncParents
<1>2. Workspace' /\ KeepsEdits /\ Pended' /\ \A u \in BundleTargets : Original(u)' = Original(u)
    BY <1>1, DirsStay, DirsStayKept DEF Pended, Original
<1>3. CASE Rollback
    BY <1>1, <1>2, <1>3, RollsBack DEF Rest
<1>4. CASE Continue("mark")
    <2>1. /\ command' \in CommandStates /\ command'.at = "mark" /\ command'.i = command.i
          /\ command'.goal = command.goal /\ command'.kind = command.kind /\ command'.result = command.result
        BY <1>1, <1>4 DEF CommandStates, Continue
    <2>2. Aims' /\ RecoveryAt' /\ PullAt'
        BY <1>1, <2>1, CommitGoesOn
    <2>3. \A j \in 1 .. Len(Entries) : j < command.i /\ Entries[j] \in BundleTargets
        BY <1>1, EntriesKnown DEF CommandStates
    <2>4. \A j \in 1 .. Len(Entries) :
            j < command.i /\ Installed(dirs'[Entries[j]], Original(Entries[j])', prepared'.gen)
        BY <1>1, <1>2, <2>3, CommitStagesAre
    <2>5. CommitAt'
        BY <1>1, <1>2, <2>1, <2>4 DEF CommitAt
    <2> QED
        BY <1>1, <1>2, <2>1, <2>2, <2>5 DEF Rest
<1> QED
    BY <1>3, <1>4 DEF SyncParents

(* The commit record makes the new version the one that recovery leaves.      *)
LEMMA CommitKeeps ==
    ASSUME Workspace, Rest, command.at = "mark", committed' = prepared,
           UNCHANGED <<dirs, prepared, pulls, bundles, reported>>
    PROVE  Workspace' /\ KeepsEdits /\ ~Pended' /\ \A t \in BundleTargets : dirs'[t].target.gen = pulls' + 1
<1>1. Pended /\ command.i > Len(Entries) /\ command \in CommandStates
    BY CommitStagesAre DEF CommitAt
<1>2. prepared # NoJournal /\ prepared \in Journal /\ KnownJournal(prepared) /\ prepared.gen = pulls + 1
    BY <1>1 DEF Pended, Workspace, KnownJournal
<1>3. ASSUME NEW t \in BundleTargets
      PROVE  /\ Replaced(dirs[t], prepared.gen) /\ dirs[t].target.gen = pulls + 1
             /\ HeldAt(t) \in Nat /\ HeldAt(t) <= prepared.gen /\ HeldAt(t) >= reported[t]
    <2>1. PICK j \in 1 .. Len(Entries) : t = Entries[j]
        BY EntriesKnown
    <2>2. j < command.i
        BY <1>1, EntriesKnown DEF CommandStates
    <2>3. Installed(dirs[t], Original(t), prepared.gen)
        BY <2>1, <2>2, CommitStagesAre
    <2>4. HeldAt(t) = Original(t).gen /\ Original(t).gen < prepared.gen /\ Original(t) \in Content /\ prepared.gen \in Generations
        BY <1>1, PendedIs DEF HeldAt, Held, Pended
    <2>5. HeldAt(t) \in Nat /\ HeldAt(t) <= prepared.gen
        BY <2>4, ContentTyped DEF Generations
    <2> QED
        BY <1>2, <2>3, <2>5 DEF Installed, Replaced, Workspace
<1>4. ASSUME NEW t \in BundleTargets
      PROVE  /\ Standing(t, dirs[t])' /\ KnownDir(dirs[t])'
             /\ HeldAt(t)' = prepared.gen /\ HeldAt(t)' >= reported'[t]
    <2>1. KnownDir(dirs[t])'
        BY DEF Workspace, KnownDir, KnownContent
    <2>2. HeldAt(t)' = prepared.gen
        BY <1>2 DEF HeldAt, Held
    <2>3. prepared.gen >= reported[t]
        BY <1>2, <1>3, WorkspaceTypes
    <2> QED
        BY <1>2, <1>3, <2>1, <2>2, <2>3 DEF Standing
<1>5. KnownJournal(prepared)' /\ KnownJournal(committed)'
    BY <1>2 DEF KnownJournal
<1>6. prepared.gen >= prepared.gen
    BY <1>2, WorkspaceTypes
<1>7. \A t, u \in BundleTargets : HeldAt(t)' \in bundles' => HeldAt(u)' >= HeldAt(t)'
    BY <1>4, <1>6
<1>8. Workspace'
    <2>1. /\ dirs' \in [BundleTargets -> Dir] /\ prepared' \in Journal /\ committed' \in Journal
          /\ pulls' \in 0 .. MaxPulls /\ bundles' \subseteq 2 .. pulls' + 1
          /\ reported' \in [BundleTargets -> 0 .. MaxPulls + 1]
        BY <1>2 DEF Workspace
    <2> QED
        BY <1>4, <1>5, <1>7, <2>1 DEF Workspace
<1> QED
    BY <1>2, <1>3, <1>8, DirsStayKept DEF Pended

LEMMA MarkCommittedIsSafe ==
    ASSUME Workspace, Rest, MarkCommitted PROVE Workspace' /\ Rest' /\ KeepsEdits
<1>1. /\ command.at = "mark"
      /\ UNCHANGED <<dirs, prepared, pulls, bundles, reported>>
      /\ Pended /\ command.kind = "bundle" /\ command.goal = "begin" /\ command.result = "none"
      /\ command.i > 0 /\ command \in CommandStates /\ Aims /\ mishaps' \in 0 .. BundleFaults
    BY CommitStagesAre, MishapCounted DEF MarkCommitted
<1>2. CASE committed' = prepared /\ command' = [command EXCEPT !.at = "recover", !.goal = "finish"]
    <2>1. Workspace' /\ KeepsEdits /\ ~Pended' /\ \A t \in BundleTargets : dirs'[t].target.gen = pulls' + 1
        BY <1>1, <1>2, CommitKeeps
    <2>2. /\ command' \in CommandStates /\ command'.at = "recover" /\ command'.goal = "finish"
          /\ command'.kind = "bundle" /\ command'.result = "none"
        BY <1>1, <1>2 DEF CommandStates
    <2>3. PullTargets' = BundleTargets
        BY <2>2 DEF PullTargets
    <2>4. Aims'
        BY <2>1, <2>2, <2>3 DEF Aims, Succeeding
    <2>5. RecoveryAt' /\ PullAt' /\ CommitAt'
        BY <2>2 DEF RecoveryAt, PullAt, CommitAt, Replacing
    <2> QED
        BY <1>1, <2>1, <2>2, <2>4, <2>5 DEF Rest
<1>3. CASE committed' = prepared /\ Rollback
    BY <1>1, <1>3, CommitKeeps, RollsBack DEF Rest
<1>4. CASE committed' = NoJournal /\ Rollback
    <2>1. committed' = committed
        BY <1>1, <1>4 DEF Pended
    <2>2. Workspace' /\ KeepsEdits
        BY <1>1, <2>1, DirsStay, DirsStayKept
    <2> QED
        BY <1>1, <1>4, <2>2, RollsBack DEF Rest
<1> QED
    BY <1>2, <1>3, <1>4 DEF MarkCommitted

-----------------------------------------------------------------------------
(* One workbook without a journal, the end of a command, and edits.           *)

DirVersion(d) == IF Exists(d.target) THEN d.target.gen ELSE d.backup.gen

LEMMA WorkbookChanges ==
    ASSUME Workspace, Quiet, UNCHANGED <<prepared, committed, pulls, bundles, reported>>,
           NEW e \in Dir, dirs' = [dirs EXCEPT ![Workbook] = e],
           KnownDir(e), Resting(Workbook, e),
           \/ DirVersion(e) = DirVersion(dirs[Workbook])
           \/ DirVersion(e) = pulls + 1 /\ pulls + 1 \notin bundles
    PROVE  /\ Workspace' /\ Quiet'
           /\ \A u \in BundleTargets : dirs'[u] = IF u = Workbook THEN e ELSE dirs[u]
<1>1. /\ dirs' \in [BundleTargets -> Dir] /\ Workbook \in BundleTargets
      /\ \A u \in BundleTargets : dirs'[u] = IF u = Workbook THEN e ELSE dirs[u]
    BY EntriesKnown DEF Workspace
<1>2. \A u \in BundleTargets : Version(u) = DirVersion(dirs[u]) /\ Version(u)' = DirVersion(dirs'[u])
    BY DEF Version, DirVersion, Exists
<1>3. pulls \in Nat /\ pulls + 1 \in Nat /\ pulls <= MaxPulls
    BY WorkspaceTypes
<1>4. ASSUME NEW u \in BundleTargets
      PROVE  /\ KnownDir(dirs[u])' /\ Resting(u, dirs'[u])
             /\ Version(u)' = Version(u) \/ (Version(u)' \in Nat /\ Version(u)' >= Version(u) /\ Version(u)' \notin bundles)
    <2>1. CASE u = Workbook
        <3>1. Version(u) \in Nat /\ Version(u) <= pulls + 1
            BY VersionTyped
        <3>2. dirs'[u] = e /\ Version(u)' = DirVersion(e) /\ Version(u) = DirVersion(dirs[Workbook])
            BY <1>1, <1>2, <2>1
        <3>3. KnownDir(dirs[u])'
            BY <3>2 DEF KnownDir, KnownContent
        <3> QED
            BY <1>3, <2>1, <3>1, <3>2, <3>3
    <2>2. CASE u # Workbook
        <3>1. dirs'[u] = dirs[u]
            BY <1>1, <2>2
        <3>2. KnownDir(dirs[u]) /\ Resting(u, dirs[u])
            BY QuietIs
        <3> QED
            BY <1>2, <3>1, <3>2 DEF KnownDir, KnownContent
    <2> QED
        BY <2>1, <2>2
<1>5. Workspace' /\ Quiet'
    BY <1>1, <1>3, <1>4, QuietDirs
<1> QED
    BY <1>1, <1>5

(* Where a single pull stands.                                                *)
LEMMA SinglePullIs ==
    ASSUME Workspace, Rest, command.at \in {"replace", "replaceIn", "restore", "replaced"}
    PROVE  /\ Quiet /\ command.kind = "single" /\ command.goal = "begin" /\ command.result = "none"
           /\ command \in CommandStates /\ Aims /\ mishaps \in 0 .. BundleFaults
           /\ PullTargets = {Workbook} /\ Workbook \in BundleTargets
           /\ dirs[Workbook] \in Dir /\ KnownDir(dirs[Workbook]) /\ Resting(Workbook, dirs[Workbook])
           /\ command.at # "restore" /\ command.at # "replaced" =>
                pulls > 0 /\ bundles \subseteq 2 .. pulls /\ dirs[Workbook].staging = Generation(pulls + 1)
           /\ command.at = "replace" => dirs[Workbook].backup = None /\ dirs[Workbook].target.edit # "quiet"
           /\ command.at \in {"replaceIn", "restore"} => dirs[Workbook].target = None
<1>1. /\ Quiet /\ command.kind = "single" /\ command.goal = "begin" /\ command.result = "none"
      /\ command \in CommandStates /\ Aims /\ PullAt /\ mishaps \in 0 .. BundleFaults
    BY PullStagesAre DEF PullAt, Replacing
<1>2. PullTargets = {Workbook} /\ Workbook \in BundleTargets
    BY <1>1, EntriesKnown DEF PullTargets
<1> QED
    BY <1>1, <1>2, QuietIs DEF PullAt, Replacing

LEMMA SingleGoesOn ==
    ASSUME command \in CommandStates, command.goal = "begin", command.kind = "single", command.result = "none",
           NEW at \in {"replaceIn", "restore", "replaced"}, Continue(at), Quiet',
           at = "replaceIn" =>
                pulls' > 0 /\ bundles' \subseteq 2 .. pulls' /\ dirs'[Workbook].staging = Generation(pulls' + 1),
           at \in {"replaceIn", "restore"} => dirs'[Workbook].target = None,
           at = "replaced" => dirs'[Workbook].target.gen = pulls' + 1
    PROVE  command' \in CommandStates /\ Aims' /\ RecoveryAt' /\ PullAt' /\ CommitAt'
<1>1. /\ command' \in CommandStates /\ command'.at = at /\ command'.goal = "begin"
      /\ command'.kind = "single" /\ command'.result = "none"
    BY DEF CommandStates, Continue
<1>2. PullTargets' = {Workbook} /\ ~Pended'
    BY <1>1 DEF PullTargets, Quiet, Pended
<1>3. Aims'
    BY <1>1, <1>2 DEF Aims, Succeeding, Recovering
<1>4. RecoveryAt' /\ CommitAt'
    BY <1>1 DEF RecoveryAt, CommitAt
<1>5. PullAt'
    BY <1>1 DEF PullAt, Replacing
<1> QED
    BY <1>1, <1>3, <1>4, <1>5

LEMMA SingleFails ==
    ASSUME Rest, command.at \in {"replace", "replaceIn", "restore"}, Leave("error")
    PROVE  command' \in CommandStates /\ Aims' /\ RecoveryAt' /\ PullAt' /\ CommitAt'
<1>1. command \in CommandStates /\ command.at # "idle" /\ Aims /\ command.goal = "begin"
    BY PullStagesAre DEF Replacing
<1> QED
    BY <1>1, Leaves

LEMMA ReplaceAsideIsSafe ==
    ASSUME Workspace, Rest, ReplaceAside PROVE Workspace' /\ Rest' /\ KeepsEdits
<1> DEFINE d == dirs[Workbook]
<1>1. /\ command.at = "replace" /\ UNCHANGED <<prepared, committed, pulls, bundles, reported>>
      /\ Quiet /\ command.kind = "single" /\ command.goal = "begin" /\ command.result = "none"
      /\ command \in CommandStates /\ mishaps' \in 0 .. BundleFaults /\ Workbook \in BundleTargets
      /\ d \in Dir /\ KnownDir(d) /\ Resting(Workbook, d) /\ d.staging = Generation(pulls + 1)
      /\ pulls > 0 /\ bundles \subseteq 2 .. pulls /\ d.backup = None /\ d.target.edit # "quiet"
      /\ d.target \in Content
    BY SinglePullIs, MishapCounted, DirTyped DEF ReplaceAside, Rename
<1>2. CASE UNCHANGED dirs /\ Leave("error")
    BY <1>1, <1>2, SingleFails, DirsStay, DirsStayKept DEF Rest
<1>3. CASE d.target # None /\ Rename(Workbook, "target", "backup", Continue("replaceIn"))
    <2> DEFINE e == Put(Put(d, "backup", d.target), "target", None)
    <2>1. /\ e \in Dir /\ e.target = None /\ e.staging = d.staging /\ e.backup = d.target
        BY <1>1, MovedDirIs
    <2>2. dirs' = [dirs EXCEPT ![Workbook] = e]
        BY <1>3, MovedIs DEF Rename
    <2> HIDE DEF e
    <2>3. KnownDir(e)
        BY <1>1, <2>1, NoneIs, WorkspaceTypes DEF KnownDir, KnownContent
    <2>4. Resting(Workbook, e)
        BY <1>1, <2>1, NoneIs DEF Resting
    <2>5. DirVersion(e) = DirVersion(d)
        BY <1>3, <2>1 DEF DirVersion, Exists
    <2>6. /\ Workspace' /\ Quiet'
          /\ \A u \in BundleTargets : dirs'[u] = IF u = Workbook THEN e ELSE dirs[u]
        BY <1>1, <2>1, <2>2, <2>3, <2>4, <2>5, WorkbookChanges
    <2>7. KeepsEdits
        BY <1>1, <2>6 DEF KeepsEdits
    <2>8. command' \in CommandStates /\ Aims' /\ RecoveryAt' /\ PullAt' /\ CommitAt'
        BY <1>1, <1>3, <2>1, <2>6, SingleGoesOn DEF Rename
    <2> QED
        BY <1>1, <2>6, <2>7, <2>8 DEF Rest
<1>4. CASE d.target = None /\ Continue("replaceIn") /\ UNCHANGED dirs
    <2>1. Workspace' /\ KeepsEdits /\ Quiet'
        BY <1>1, <1>4, DirsStay, DirsStayKept DEF Quiet
    <2>2. command' \in CommandStates /\ Aims' /\ RecoveryAt' /\ PullAt' /\ CommitAt'
        BY <1>1, <1>4, <2>1, SingleGoesOn
    <2> QED
        BY <1>1, <2>1, <2>2 DEF Rest
<1> QED
    BY <1>2, <1>3, <1>4 DEF ReplaceAside, Exists

LEMMA ReplaceInIsSafe ==
    ASSUME Workspace, Rest, ReplaceIn PROVE Workspace' /\ Rest' /\ KeepsEdits
<1> DEFINE d == dirs[Workbook]
<1>1. /\ command.at = "replaceIn" /\ UNCHANGED <<prepared, committed, pulls, bundles, reported>>
      /\ Quiet /\ command.kind = "single" /\ command.goal = "begin" /\ command.result = "none"
      /\ command \in CommandStates /\ mishaps' \in 0 .. BundleFaults /\ Workbook \in BundleTargets
      /\ d \in Dir /\ KnownDir(d) /\ Resting(Workbook, d) /\ d.staging = Generation(pulls + 1)
      /\ pulls > 0 /\ bundles \subseteq 2 .. pulls /\ d.target = None /\ d.staging \in Content
    BY SinglePullIs, MishapCounted, DirTyped DEF ReplaceIn, Rename
<1>2. CASE UNCHANGED dirs /\ Leave("error")
    BY <1>1, <1>2, SingleFails, DirsStay, DirsStayKept DEF Rest
<1>3. CASE UNCHANGED dirs /\ Continue("restore")
    <2>1. Workspace' /\ KeepsEdits /\ Quiet'
        BY <1>1, <1>3, DirsStay, DirsStayKept DEF Quiet
    <2>2. command' \in CommandStates /\ Aims' /\ RecoveryAt' /\ PullAt' /\ CommitAt'
        BY <1>1, <1>3, <2>1, SingleGoesOn
    <2> QED
        BY <1>1, <2>1, <2>2 DEF Rest
<1>4. CASE Rename(Workbook, "staging", "target", Continue("replaced"))
    <2> DEFINE e == Put(Put(d, "target", d.staging), "staging", None)
    <2>1. /\ e \in Dir /\ e.target = d.staging /\ e.staging = None /\ e.backup = d.backup
        BY <1>1, MovedDirIs
    <2>2. dirs' = [dirs EXCEPT ![Workbook] = e]
        BY <1>4, MovedIs DEF Rename
    <2> HIDE DEF e
    <2>3. pulls \in Nat /\ pulls + 1 \in Generations
        BY WorkspaceTypes
    <2>4. /\ d.staging.gen = pulls + 1 /\ d.staging.marked = FALSE /\ d.staging.whole = TRUE /\ d.staging.edit = "no"
        BY <1>1, <2>3, GenerationIs
    <2>5. pulls + 1 # 0 /\ pulls + 1 \notin 2 .. pulls
        BY <2>3
    <2>6. d.staging # None
        BY <2>4, <2>5, NoneIs
    <2>7. KnownDir(e)
        BY <1>1, <2>1, <2>3, <2>4, <2>6, NoneIs DEF KnownDir, KnownContent
    <2>8. Resting(Workbook, e)
        BY <1>1, <2>1, <2>4, <2>6, NoneIs DEF Resting
    <2>9. DirVersion(e) = pulls + 1 /\ pulls + 1 \notin bundles
        BY <1>1, <2>1, <2>4, <2>5, <2>6 DEF DirVersion, Exists
    <2>10. /\ Workspace' /\ Quiet'
           /\ \A u \in BundleTargets : dirs'[u] = IF u = Workbook THEN e ELSE dirs[u]
        BY <1>1, <2>1, <2>2, <2>7, <2>8, <2>9, WorkbookChanges
    <2>11. KeepsEdits
        BY <1>1, <2>10, NoneIs DEF KeepsEdits
    <2>12. command' \in CommandStates /\ Aims' /\ RecoveryAt' /\ PullAt' /\ CommitAt'
        BY <1>1, <1>4, <2>1, <2>4, <2>10, SingleGoesOn DEF Rename
    <2> QED
        BY <1>1, <2>10, <2>11, <2>12 DEF Rest
<1> QED
    BY <1>2, <1>3, <1>4 DEF ReplaceIn

LEMMA RestoreReplacedIsSafe ==
    ASSUME Workspace, Rest, RestoreReplaced PROVE Workspace' /\ Rest' /\ KeepsEdits
<1> DEFINE d == dirs[Workbook]
<1>1. /\ command.at = "restore" /\ UNCHANGED <<prepared, committed, pulls, bundles, reported>>
      /\ Quiet /\ mishaps' \in 0 .. BundleFaults /\ Workbook \in BundleTargets
      /\ d \in Dir /\ KnownDir(d) /\ Resting(Workbook, d) /\ d.target = None /\ d.backup \in Content
    BY SinglePullIs, MishapCounted, DirTyped DEF RestoreReplaced, Rename
<1>2. CASE UNCHANGED dirs /\ Leave("error")
    BY <1>1, <1>2, SingleFails, DirsStay, DirsStayKept DEF Rest
<1>3. CASE Rename(Workbook, "backup", "target", Leave("error"))
    <2> DEFINE e == Put(Put(d, "target", d.backup), "backup", None)
    <2>1. /\ e \in Dir /\ e.target = d.backup /\ e.staging = d.staging /\ e.backup = None
        BY <1>1, MovedDirIs
    <2>2. dirs' = [dirs EXCEPT ![Workbook] = e]
        BY <1>3, MovedIs DEF Rename
    <2> HIDE DEF e
    <2>3. KnownDir(e)
        BY <1>1, <2>1, NoneIs, WorkspaceTypes DEF KnownDir, KnownContent
    <2>4. Resting(Workbook, e)
        BY <1>1, <2>1, NoneIs DEF Resting
    <2>5. DirVersion(e) = DirVersion(d)
        BY <1>1, <2>1, NoneIs DEF DirVersion, Exists
    <2>6. /\ Workspace' /\ Quiet'
          /\ \A u \in BundleTargets : dirs'[u] = IF u = Workbook THEN e ELSE dirs[u]
        BY <1>1, <2>1, <2>2, <2>3, <2>4, <2>5, WorkbookChanges
    <2>7. KeepsEdits
        BY <1>1, <2>6, NoneIs DEF KeepsEdits
    <2>8. command' \in CommandStates /\ Aims' /\ RecoveryAt' /\ PullAt' /\ CommitAt'
        BY <1>1, <1>3, SingleFails DEF Rename
    <2> QED
        BY <1>1, <2>6, <2>7, <2>8 DEF Rest
<1> QED
    BY <1>2, <1>3 DEF RestoreReplaced

LEMMA RemoveReplacedIsSafe ==
    ASSUME Workspace, Rest, RemoveReplaced PROVE Workspace' /\ Rest' /\ KeepsEdits
<1> DEFINE d == dirs[Workbook]
<1>1. /\ command.at = "replaced" /\ UNCHANGED <<prepared, committed, pulls, bundles, reported>>
      /\ Quiet /\ mishaps' \in 0 .. BundleFaults /\ Workbook \in BundleTargets
      /\ command.kind = "single" /\ command.goal = "begin" /\ PullTargets = {Workbook}
      /\ command \in CommandStates /\ Aims
      /\ d \in Dir /\ KnownDir(d) /\ Resting(Workbook, d) /\ d.backup \in Content
    BY SinglePullIs, MishapCounted, DirTyped DEF RemoveReplaced, Remove
<1>2. d.target.gen = pulls + 1
    BY <1>1 DEF Aims, Succeeding
<1>3. d.target # None /\ ~Pended'
    <2>1. pulls + 1 # 0
        BY WorkspaceTypes
    <2> QED
        BY <1>1, <1>2, <2>1, NoneIs DEF Quiet, Pended
<1>4. ASSUME dirs'[Workbook].target = d.target, Leave("ok") \/ Leave("error"), Workspace' PROVE Rest'
    <2>1. command.at # "idle" /\ \A t \in PullTargets : dirs'[t].target.gen = pulls' + 1
        BY <1>1, <1>2, <1>4
    <2>2. CASE Leave("ok")
        BY <1>1, <1>3, <2>1, <2>2, Leaves DEF Rest
    <2>3. CASE Leave("error")
        BY <1>1, <2>1, <2>3, Leaves DEF Rest
    <2> QED
        BY <1>4, <2>2, <2>3
<1>5. CASE UNCHANGED dirs /\ (Leave("ok") \/ Leave("error"))
    BY <1>1, <1>4, <1>5, DirsStay, DirsStayKept
<1>6. ASSUME NEW c \in Content, c = None \/ (d.backup # None /\ c = Half(d.backup)),
             dirs' = [dirs EXCEPT ![Workbook] = Put(d, "backup", c)], Leave("ok")
      PROVE  Workspace' /\ Rest' /\ KeepsEdits
    <2> DEFINE e == Put(d, "backup", c)
    <2>1. e \in Dir /\ e.target = d.target /\ e.staging = d.staging /\ e.backup = c
        BY <1>1, <1>6, DirIs
    <2>2. KnownDir(e)
        BY <1>1, <1>6, RemovedIs
    <2>3. dirs' = [dirs EXCEPT ![Workbook] = e]
        BY <1>6
    <2> HIDE DEF e
    <2>4. ~c.marked
        <3>1. ~None.marked /\ Half(d.backup).marked = d.backup.marked
            BY <1>1, NoneIs, ContentChanges
        <3> QED
            BY <1>1, <1>6, <3>1 DEF Resting
    <2>5. Resting(Workbook, e)
        BY <1>1, <1>3, <2>1, <2>4 DEF Resting
    <2>6. DirVersion(e) = DirVersion(d)
        BY <1>3, <2>1 DEF DirVersion, Exists
    <2>7. /\ Workspace' /\ Quiet'
          /\ \A u \in BundleTargets : dirs'[u] = IF u = Workbook THEN e ELSE dirs[u]
        BY <1>1, <2>1, <2>2, <2>3, <2>5, <2>6, WorkbookChanges
    <2>8. KeepsEdits
        BY <2>1, <2>7 DEF KeepsEdits
    <2> QED
        BY <1>1, <1>4, <1>6, <2>1, <2>7, <2>8
<1>7. CASE Gone(Workbook, "backup") /\ Leave("ok")
    BY <1>6, <1>7, GoneIs, NoneIs
<1>8. CASE Torn(Workbook, "backup") /\ Leave("ok")
    <2>1. Half(d.backup) \in Content
        BY <1>1, ContentChanges
    <2> QED
        BY <1>5, <1>6, <1>8, <2>1, TornIs
<1> QED
    BY <1>5, <1>7, <1>8 DEF RemoveReplaced, Remove

LEMMA EndCommandIsSafe ==
    ASSUME Workspace, Rest, EndCommand PROVE Workspace' /\ Rest' /\ KeepsEdits
<1>1. /\ command.at = "leave" /\ UNCHANGED <<prepared, committed, pulls, bundles, mishaps>>
      /\ command' = [command EXCEPT !.at = "idle", !.i = 0, !.goal = "none"]
      /\ command \in CommandStates /\ Aims /\ mishaps \in 0 .. BundleFaults
    BY DEF EndCommand, Rest
<1>2. 0 \in 0 .. Len(Entries) + 1
    BY EntriesKnown
<1>3. /\ command' \in CommandStates /\ command'.at = "idle" /\ command'.goal = "none"
      /\ command'.kind = command.kind /\ command'.result = command.result
    BY <1>1, <1>2 DEF CommandStates
<1>4. ASSUME NEW t \in BundleTargets
      PROVE  /\ dirs'[t] \in Dir /\ dirs'[t].target = dirs[t].target /\ dirs'[t].backup = dirs[t].backup
             /\ JournalOwnsStaging => dirs'[t] = dirs[t]
             /\ KnownDir(dirs[t])'
    <2>1. dirs[t] \in Dir /\ KnownDir(dirs[t])
        BY DEF Workspace
    <2>2. dirs'[t] = dirs[t] \/ (~JournalOwnsStaging /\ dirs'[t] = Put(dirs[t], "staging", None))
        BY DEF EndCommand, Put
    <2>3. KnownDir(Put(dirs[t], "staging", None))
        BY <2>1, RemovedIs
    <2>4. KnownDir(dirs'[t])
        BY <2>1, <2>2, <2>3
    <2>5. KnownDir(dirs[t])'
        BY <1>1, <2>4 DEF KnownDir, KnownContent
    <2>6. None \in Content
        BY NoneIs
    <2> QED
        BY <2>1, <2>2, <2>5, <2>6, DirIs
<1>5. dirs' \in [BundleTargets -> Dir]
    <2>1. dirs' = [t \in BundleTargets |-> dirs'[t]]
        BY DEF EndCommand
    <2> QED
        BY <1>4, <2>1
<1>6. ASSUME NEW t \in BundleTargets
      PROVE  /\ Standing(t, dirs[t])' /\ HeldAt(t)' = HeldAt(t)
    <2>1. Standing(t, dirs[t])
        BY DEF Workspace
    <2>2. Original(t)' = Original(t)
        BY <1>1 DEF Original
    <2>3. HeldAt(t)' = HeldAt(t)
        BY <1>1, <1>4, <2>2 DEF HeldAt, Held
    <2>4. CASE JournalOwnsStaging
        BY <1>1, <1>4, <2>1, <2>2, <2>3, <2>4 DEF Standing
    <2>5. CASE ~JournalOwnsStaging
        <3>1. Resting(t, dirs[t])
            BY <2>1, <2>5 DEF JournalOwnsStaging, Standing
        <3>2. Resting(t, dirs'[t])
            BY <1>4, <3>1 DEF Resting
        <3> QED
            BY <1>1, <2>3, <2>5, <3>2 DEF JournalOwnsStaging, Standing
    <2> QED
        BY <2>4, <2>5
<1>7. ASSUME NEW t \in BundleTargets
      PROVE  reported'[t] \in 0 .. MaxPulls + 1 /\ HeldAt(t)' >= reported'[t]
    <2>1. pulls \in Nat /\ pulls <= MaxPulls /\ pulls + 1 \in 0 .. MaxPulls + 1
        BY WorkspaceTypes DEF Generations
    <2>2. CASE command.kind # "other" /\ command.result = "ok" /\ t \in PullTargets
        <3>1. ~Pended /\ dirs[t].target.gen = pulls + 1
            BY <1>1, <2>2 DEF Aims, Succeeding
        <3>2. dirs[t].target # None
            BY <2>1, <3>1, NoneIs
        <3>3. committed # NoJournal => committed.gen = pulls + 1
            BY CommittedIs
        <3>4. HeldAt(t) = pulls + 1
            BY <3>1, <3>2, <3>3 DEF HeldAt, Held, Pended, Exists
        <3>5. reported'[t] = pulls + 1
            BY <2>2 DEF EndCommand
        <3> QED
            BY <1>6, <2>1, <3>4, <3>5
    <2>3. CASE ~(command.kind # "other" /\ command.result = "ok" /\ t \in PullTargets)
        <3>1. reported'[t] = reported[t]
            BY <2>3 DEF EndCommand
        <3> QED
            BY <1>6, <3>1 DEF Workspace
    <2> QED
        BY <2>2, <2>3
<1>8. reported' \in [BundleTargets -> 0 .. MaxPulls + 1]
    <2>1. reported' = [t \in BundleTargets |-> reported'[t]]
        BY DEF EndCommand
    <2> QED
        BY <1>7, <2>1
<1>9. KnownJournal(prepared)' /\ KnownJournal(committed)'
    BY <1>1 DEF Workspace, KnownJournal
<1>10. Workspace'
    <2>1. /\ prepared' \in Journal /\ committed' \in Journal /\ pulls' \in 0 .. MaxPulls
          /\ bundles' \subseteq 2 .. pulls' + 1
        BY <1>1 DEF Workspace
    <2>2. \A t, u \in BundleTargets : HeldAt(t)' \in bundles' => HeldAt(u)' >= HeldAt(t)'
        BY <1>1, <1>6 DEF Workspace
    <2> QED
        BY <1>4, <1>5, <1>6, <1>7, <1>8, <1>9, <2>1, <2>2 DEF Workspace
<1>11. Aims'
    <2>1. command.result = "conflict" =>
            /\ Pended'
            /\ \E t \in BundleTargets :
                Spoilt(dirs'[t].target) \/ Spoilt(dirs'[t].staging) \/ Spoilt(dirs'[t].backup)
        BY <1>1, <1>4 DEF Aims, Pended, JournalOwnsStaging
    <2> QED
        BY <1>3, <2>1 DEF Aims, Succeeding, Recovering
<1>12. RecoveryAt' /\ PullAt' /\ CommitAt'
    BY <1>3 DEF RecoveryAt, PullAt, CommitAt, Replacing
<1>13. KeepsEdits
    BY <1>4 DEF KeepsEdits
<1> QED
    BY <1>1, <1>3, <1>10, <1>11, <1>12, <1>13 DEF Rest

(* What an edit changes of a target, and what it does not.                    *)
EditedDir(d, e) == Put(d, "target", Edited(d.target, e))

LEMMA EditedDirIs ==
    ASSUME NEW d \in Dir, d.target # None, KnownDir(d), NEW e \in {"quiet", "given", "raced"}
    PROVE  /\ EditedDir(d, e) \in Dir /\ KnownDir(EditedDir(d, e))
           /\ EditedDir(d, e).target # None /\ EditedDir(d, e).target.gen = d.target.gen
           /\ EditedDir(d, e).target.edit = e /\ EditedDir(d, e).target.marked = d.target.marked
           /\ EditedDir(d, e).target.whole = d.target.whole
           /\ EditedDir(d, e).staging = d.staging /\ EditedDir(d, e).backup = d.backup
           /\ \A x \in Content : Like(d.target, x) => Like(EditedDir(d, e).target, x)
<1>1. d.target \in Content /\ d.staging \in Content /\ d.backup \in Content
    BY DirTyped
<1>7. e \in Edits /\ e # "no"
    BY DEF Edits
<1>2. /\ Edited(d.target, e) \in Content /\ Edited(d.target, e).gen = d.target.gen
      /\ Edited(d.target, e).edit = e /\ Edited(d.target, e).marked = d.target.marked
      /\ Edited(d.target, e).whole = d.target.whole
    <2> DEFINE c == d.target
    <2> SUFFICES /\ Edited(c, e) \in Content /\ Edited(c, e).gen = c.gen /\ Edited(c, e).edit = e
                 /\ Edited(c, e).marked = c.marked /\ Edited(c, e).whole = c.whole
        OBVIOUS
    <2>1. c \in Content
        BY <1>1
    <2> HIDE DEF c
    <2> QED
        BY <1>7, <2>1, ContentChanges
<1>3. /\ EditedDir(d, e) \in Dir /\ EditedDir(d, e).target = Edited(d.target, e)
      /\ EditedDir(d, e).staging = d.staging /\ EditedDir(d, e).backup = d.backup
    BY <1>1, <1>2, DirIs DEF EditedDir
<1>4. Edited(d.target, e) # None /\ d.target.gen # 0
    BY <1>2, <1>7, NoneIs DEF KnownDir, KnownContent
<1>5. KnownDir(EditedDir(d, e))
    BY <1>2, <1>3, <1>4 DEF KnownDir, KnownContent
<1>6. \A x \in Content : Like(d.target, x) => Like(Edited(d.target, e), x)
    BY <1>2, <1>7 DEF Like, Spoilt
<1> QED
    BY <1>2, <1>3, <1>4, <1>5, <1>6

(* An edit leaves a target where it stands.                                   *)
LEMMA EditedStands ==
    ASSUME Workspace, NEW t \in BundleTargets, dirs[t].target # None, NEW e \in {"quiet", "given", "raced"},
           dirs' = [dirs EXCEPT ![t] = EditedDir(dirs[t], e)],
           UNCHANGED <<prepared, committed, pulls, bundles, reported>>
    PROVE  /\ Workspace'
           /\ \A u \in BundleTargets : dirs'[u] = (IF u = t THEN EditedDir(dirs[t], e) ELSE dirs[u])
<1> DEFINE d == dirs[t]
           n == EditedDir(d, e)
<1>1. d \in Dir /\ KnownDir(d) /\ Standing(t, d) /\ Original(t) \in Content /\ prepared.gen \in Generations
    BY WorkspaceTypes DEF Workspace
<1>2. /\ n \in Dir /\ KnownDir(n) /\ n.target # None /\ n.target.gen = d.target.gen
      /\ n.target.marked = d.target.marked /\ n.target.whole = d.target.whole
      /\ n.staging = d.staging /\ n.backup = d.backup
      /\ \A x \in Content : Like(d.target, x) => Like(n.target, x)
    BY <1>1, EditedDirIs
<1>3. dirs' = [dirs EXCEPT ![t] = n]
    OBVIOUS
<1> HIDE DEF n
<1>4. Replaced(d, committed.gen) => Replaced(n, committed.gen)
    BY <1>2 DEF Replaced
<1>5. Done(d, committed.gen) => Done(n, committed.gen)
    BY <1>2, <1>4 DEF Done
<1>6. Pending(d, Original(t), prepared.gen) => Pending(n, Original(t), prepared.gen)
    <2>1. Marked(prepared.gen) \in Content /\ None \in Content
        BY <1>1, NoneIs, GenerationIs
    <2>2. \A s, b \in Content, x \in {Original(t), Marked(prepared.gen), None} : Has(d, x, s, b) => Has(n, x, s, b)
        BY <1>1, <1>2, <2>1 DEF Has
    <2> QED
        BY <1>1, <1>2, <2>1, <2>2 DEF Pending
<1>7. Resting(t, d) => Resting(t, n)
    BY <1>2 DEF Resting
<1>8. Standing(t, n)
    BY <1>1, <1>4, <1>5, <1>6, <1>7 DEF Standing
<1>9. Held(n, Original(t)) = HeldAt(t)
    BY <1>2 DEF Held, HeldAt, Exists
<1> QED
    BY <1>1, <1>2, <1>3, <1>8, <1>9, OneDir DEF n

LEMMA EditArtifactIsSafe ==
    ASSUME Workspace, Rest, NEW t \in BundleTargets, EditArtifact(t) PROVE Workspace' /\ Rest' /\ KeepsEdits
<1> DEFINE d == dirs[t]
           e == IF command.at = "idle" THEN "quiet" ELSE IF d.target.edit = "no" THEN "raced" ELSE d.target.edit
           n == EditedDir(d, e)
<1>1. /\ UNCHANGED <<prepared, committed, command, pulls, bundles, reported, mishaps>>
      /\ d \in Dir /\ KnownDir(d) /\ d.target # None /\ d.target \in Content /\ d.target.edit \in Edits
    BY DirTyped, ContentTyped DEF EditArtifact, Exists, Workspace
<1>2. e \in {"quiet", "given", "raced"} /\ (command.at # "idle" /\ d.target.edit # "quiet" => e # "quiet")
      /\ (d.target.edit = "quiet" => e = "quiet")
    BY <1>1 DEF Edits
<1>3. dirs' = [dirs EXCEPT ![t] = EditedDir(dirs[t], e)]
    BY DEF EditArtifact, EditedDir, Put, Edited
<1>4. /\ n \in Dir /\ n.target # None /\ n.target.gen = d.target.gen /\ n.target.edit = e
      /\ n.target.marked = d.target.marked /\ n.target.whole = d.target.whole
      /\ n.staging = d.staging /\ n.backup = d.backup
      /\ \A x \in Content : Like(d.target, x) => Like(n.target, x)
    BY <1>1, <1>2, EditedDirIs
<1> HIDE DEF e
<1>5. Workspace' /\ \A u \in BundleTargets : dirs'[u] = IF u = t THEN n ELSE dirs[u]
    BY <1>1, <1>2, <1>3, EditedStands
<1> HIDE DEF n
<1>6. \A u \in BundleTargets :
        /\ Original(u)' = Original(u) /\ Original(u) \in Content
        /\ dirs'[u].target.gen = dirs[u].target.gen /\ dirs'[u].target.marked = dirs[u].target.marked
        /\ dirs'[u].target.whole = dirs[u].target.whole
        /\ dirs'[u].staging = dirs[u].staging /\ dirs'[u].backup = dirs[u].backup
        /\ \A x \in Content : Like(dirs[u].target, x) => Like(dirs'[u].target, x)
        /\ dirs[u].target = None => dirs'[u].target = None
        /\ command.at # "idle" /\ dirs[u].target.edit # "quiet" => dirs'[u].target.edit # "quiet"
        /\ Spoilt(dirs[u].target) => Spoilt(dirs'[u].target)
        /\ dirs[u].target.edit = "quiet" => dirs'[u].target.edit = "quiet"
    <2>1. Spoilt(n.target)
        BY <1>2, <1>4 DEF Spoilt
    <2> QED
        BY <1>1, <1>2, <1>4, <1>5, <2>1, WorkspaceTypes DEF Original
<1>7. /\ command \in CommandStates /\ Aims /\ RecoveryAt /\ PullAt /\ CommitAt /\ mishaps \in 0 .. BundleFaults
      /\ PullTargets \subseteq BundleTargets /\ PullTargets' = PullTargets /\ Workbook \in BundleTargets
      /\ Pended' = Pended /\ Quiet' = Quiet
    BY <1>1, EntriesKnown DEF Rest, PullTargets, Pended, Quiet
<1>8. Aims'
    BY <1>1, <1>6, <1>7 DEF Aims, Succeeding
<1>9. RecoveryAt'
    <2>1. \A u \in BundleTargets, g \in Generations :
            /\ Back(dirs[u], Original(u)) => Back(dirs'[u], Original(u))
            /\ Done(dirs[u], g) => Done(dirs'[u], g)
        BY <1>6 DEF Back, Done, Replaced, Clear
    <2>2. committed.gen \in Generations /\ \A j \in 1 .. Len(Entries) : Entries[j] \in BundleTargets
        BY WorkspaceTypes, EntriesKnown
    <2> QED
        BY <1>1, <1>6, <1>7, <2>1, <2>2 DEF RecoveryAt
<1>10. PullAt'
    BY <1>1, <1>6, <1>7, EntriesKnown DEF PullAt, Clear, Replacing
<1>11. CommitAt'
    <2>1. prepared.gen \in Generations /\ Marked(prepared.gen) \in Content
        BY WorkspaceTypes, GenerationIs
    <2>2. ASSUME NEW u \in BundleTargets, command.at # "idle"
          PROVE  /\ Waits(dirs[u], Original(u), prepared.gen) => Waits(dirs'[u], Original(u), prepared.gen)
                 /\ IsAside(dirs[u], Original(u), prepared.gen) => IsAside(dirs'[u], Original(u), prepared.gen)
                 /\ Installed(dirs[u], Original(u), prepared.gen) => Installed(dirs'[u], Original(u), prepared.gen)
        BY <1>6, <2>1, <2>2 DEF Waits, IsAside, Installed
    <2>3. ASSUME command.at \in {"aside", "install", "mark"}, NEW j \in 1 .. Len(Entries)
          PROVE  IF j < command.i THEN Installed(dirs'[Entries[j]], Original(Entries[j])', prepared'.gen)
                 ELSE IF j = command.i /\ command.at = "install" THEN IsAside(dirs'[Entries[j]], Original(Entries[j])', prepared'.gen)
                 ELSE Waits(dirs'[Entries[j]], Original(Entries[j])', prepared'.gen)
        <3>1. Entries[j] \in BundleTargets /\ command.at # "idle"
            BY <2>3, EntriesKnown
        <3>2. IF j < command.i THEN Installed(dirs[Entries[j]], Original(Entries[j]), prepared.gen)
              ELSE IF j = command.i /\ command.at = "install" THEN IsAside(dirs[Entries[j]], Original(Entries[j]), prepared.gen)
              ELSE Waits(dirs[Entries[j]], Original(Entries[j]), prepared.gen)
            BY <1>7, <2>3 DEF CommitAt
        <3> QED
            BY <1>1, <1>6, <2>2, <3>1, <3>2
    <2> QED
        BY <1>1, <1>7, <2>3 DEF CommitAt
<1> QED
    BY <1>1, <1>5, <1>6, <1>7, <1>8, <1>9, <1>10, <1>11 DEF Rest, KeepsEdits

-----------------------------------------------------------------------------
(* Every state of every behaviour.                                            *)

LEMMA BundleInvInitially == BundleInit => BundleInv
<1> SUFFICES ASSUME BundleInit PROVE BundleInv
    OBVIOUS
<1>1. /\ reported \in [BundleTargets -> {0, 1}]
      /\ prepared = NoJournal /\ committed = NoJournal /\ command = Ready
      /\ pulls = 0 /\ bundles = {} /\ mishaps = 0
    BY DEF BundleInit
<1>2. 0 \in Generations /\ 1 \in Generations /\ 0 \in 0 .. MaxPulls /\ 0 \in 0 .. BundleFaults
    BY BundleConstants DEF Generations
<1>3. ASSUME NEW t \in BundleTargets
      PROVE  /\ dirs[t] \in Dir /\ dirs[t].staging = None /\ dirs[t].backup = None
             /\ dirs[t].target = Generation(reported[t]) /\ reported[t] \in {0, 1} /\ dirs[t].target \in Content
    <2>1. dirs[t] = [target |-> Generation(reported[t]), staging |-> None, backup |-> None, left |-> {}]
        BY DEF BundleInit
    <2>2. reported[t] \in {0, 1} /\ Generation(reported[t]) \in Content /\ None \in Content
        BY <1>1, <1>2, GenerationIs, NoneIs
    <2> QED
        BY <2>1, <2>2 DEF Dir
<1>4. dirs \in [BundleTargets -> Dir]
    BY <1>3 DEF BundleInit
<1>5. ASSUME NEW t \in BundleTargets
      PROVE  /\ KnownDir(dirs[t]) /\ Standing(t, dirs[t]) /\ HeldAt(t) = reported[t] /\ HeldAt(t) \in Nat
             /\ HeldAt(t) >= reported[t]
    <2>1. /\ dirs[t].target.gen = reported[t] /\ dirs[t].target.marked = FALSE
          /\ dirs[t].target.whole = TRUE /\ dirs[t].target.edit = "no"
        <3>1. PICK g \in Generations : g = reported[t]
            BY <1>2, <1>3
        <3>2. dirs[t].target = Generation(g)
            BY <1>3, <3>1
        <3> QED
            BY <3>1, <3>2, GenerationIs, ZenonT(30)
    <2>2. reported[t] = 0 => dirs[t].target = None
        BY <1>3 DEF None
    <2>3. reported[t] \in {0, 1}
        BY <1>3
    <2>4. KnownDir(dirs[t])
        <3>1. 0 <= pulls + 1 /\ 1 <= pulls + 1
            BY <1>1
        <3> QED
            BY <1>3, <2>1, <2>2, <2>3, <3>1, NoneIs DEF KnownDir, KnownContent
    <2>5. Resting(t, dirs[t])
        BY <1>3, <2>1, NoneIs DEF Resting
    <2>6. HeldAt(t) = reported[t]
        BY <1>1, <1>3, <2>1, NoneIs DEF HeldAt, Held, Exists
    <2> QED
        BY <1>1, <2>3, <2>4, <2>5, <2>6 DEF Standing
<1>6. reported \in [BundleTargets -> 0 .. MaxPulls + 1]
    BY <1>1, <1>2 DEF Generations
<1>7. NoJournal \in Journal
    BY BundleConstants, NoneIs DEF Journal, NoJournal
<1>8. Workspace
    BY <1>1, <1>2, <1>4, <1>5, <1>6, <1>7 DEF Workspace, KnownJournal
<1>9. 0 \in 0 .. Len(Entries) + 1
    BY EntriesKnown
<1>10. /\ command \in CommandStates /\ command.at = "idle" /\ command.goal = "none" /\ command.result = "none"
    BY <1>1, <1>9 DEF Ready, CommandStates
<1>11. Aims /\ RecoveryAt /\ PullAt /\ CommitAt
    BY <1>10 DEF Aims, Succeeding, RecoveryAt, PullAt, CommitAt, Recovering, Replacing
<1> QED
    BY <1>1, <1>2, <1>8, <1>10, <1>11, RestIs DEF Rest

(* What a step may do to the edits of a target.                               *)
EditsGivenUp(t) == t = Workbook /\ command.at = "check" /\ command.overwrite

KeepsOrGivesUp ==
    \A t \in BundleTargets : dirs[t].target.edit = "quiet" => dirs'[t].target.edit = "quiet" \/ EditsGivenUp(t)

LEMMA BundleStepIsSafe ==
    ASSUME ~StuckBackups, BundleInv, BundleNext PROVE BundleInv' /\ KeepsOrGivesUp
<1>1. Workspace /\ Rest
    BY RestIs
<1> SUFFICES Workspace' /\ Rest' /\ (KeepsEdits \/ KeepsOrGivesUp)
    <2>1. BundleInv' <=> Workspace' /\ Rest'
        BY RestIs, PTL
    <2> QED
        BY <2>1 DEF KeepsEdits, KeepsOrGivesUp
<1>2. CASE BeginCommand
    BY <1>1, <1>2, BeginCommandIsSafe
<1>3. CASE CrashCommand
    BY <1>1, <1>3, CrashCommandIsSafe
<1>4. CASE RecoverBundleTransaction
    BY <1>1, <1>4, RecoverIsSafe
<1>5. CASE UndoEntry
    BY <1>1, <1>5, UndoEntryIsSafe
<1>6. CASE RedoEntry
    BY <1>1, <1>6, RedoEntryIsSafe
<1>7. CASE AllEntriesDone
    BY <1>1, <1>7, AllEntriesDoneIsSafe
<1>8. CASE RemovePrepared
    BY <1>1, <1>8, RemovePreparedIsSafe
<1>9. CASE RemoveCommitted
    BY <1>1, <1>9, RemoveCommittedIsSafe
<1>10. CASE SweepEntry
    BY <1>1, <1>10, SweepEntryIsSafe
<1>11. CASE SweepDone
    BY <1>1, <1>11, SweepDoneIsSafe
<1>12. CASE CheckDirty
    BY <1>1, <1>12, CheckDirtyIsSafe DEF KeepsOrGivesUp, EditsGivenUp
<1>13. CASE Stage
    BY <1>1, <1>13, StageIsSafe
<1>14. CASE WriteJournal
    BY <1>1, <1>14, WriteJournalIsSafe
<1>15. CASE SetAside
    BY <1>1, <1>15, SetAsideIsSafe
<1>16. CASE InstallEntry
    BY <1>1, <1>16, InstallEntryIsSafe
<1>17. CASE SyncParents
    BY <1>1, <1>17, SyncParentsIsSafe
<1>18. CASE MarkCommitted
    BY <1>1, <1>18, MarkCommittedIsSafe
<1>19. CASE ReplaceAside
    BY <1>1, <1>19, ReplaceAsideIsSafe
<1>20. CASE ReplaceIn
    BY <1>1, <1>20, ReplaceInIsSafe
<1>21. CASE RestoreReplaced
    BY <1>1, <1>21, RestoreReplacedIsSafe
<1>22. CASE RemoveReplaced
    BY <1>1, <1>22, RemoveReplacedIsSafe
<1>23. CASE EndCommand
    BY <1>1, <1>23, EndCommandIsSafe
<1>24. CASE \E t \in BundleTargets : EditArtifact(t)
    BY <1>1, <1>24, EditArtifactIsSafe
<1> QED
    BY <1>2, <1>3, <1>4, <1>5, <1>6, <1>7, <1>8, <1>9, <1>10, <1>11, <1>12, <1>13, <1>14, <1>15, <1>16,
       <1>17, <1>18, <1>19, <1>20, <1>21, <1>22, <1>23, <1>24 DEF BundleNext, CommandStep

LEMMA BundleInvKept ==
    ASSUME ~StuckBackups, BundleInv, [BundleNext]_bundleVars PROVE BundleInv'
<1>1. CASE BundleNext
    BY <1>1, BundleStepIsSafe
<1>2. CASE UNCHANGED bundleVars
    <2>1. UNCHANGED <<dirs, prepared, committed, command, pulls, bundles, reported, mishaps>>
        BY <1>2 DEF bundleVars
    <2>2. Workspace'
        BY <2>1, RestIs, DirsStay
    <2>3. \A t \in BundleTargets : Original(t)' = Original(t)
        BY <2>1 DEF Original
    <2>4. PullTargets' = PullTargets /\ Pended' = Pended /\ Quiet' = Quiet
        BY <2>1 DEF PullTargets, Pended, Quiet
    <2>9. Aims'
        BY <2>1, <2>4, RestIs DEF Rest, Aims, Succeeding
    <2>10. RecoveryAt'
        BY <2>1, <2>3, <2>4, RestIs, EntriesKnown DEF Rest, RecoveryAt
    <2>11. PullAt'
        BY <2>1, <2>4, RestIs DEF Rest, PullAt
    <2>5. Aims' /\ RecoveryAt' /\ PullAt'
        BY <2>9, <2>10, <2>11
    <2>6. CommitAt'
        BY <2>1, <2>3, <2>4, RestIs, EntriesKnown DEF Rest, CommitAt
    <2>7. Rest'
        BY <2>1, <2>5, <2>6, RestIs DEF Rest
    <2>8. BundleInv' <=> Workspace' /\ Rest'
        BY RestIs, PTL
    <2> QED
        BY <2>2, <2>7, <2>8
<1> QED
    BY <1>1, <1>2

LEMMA BundleInvIsSafe == BundleInv => BundleIsSafe
<1> SUFFICES ASSUME BundleInv PROVE BundleIsSafe
    OBVIOUS
<1>1. BundleTypeOK /\ Workspace /\ Aims
    BY DEF BundleInv
<1>2. BundleIsAllOrNothing
    BY <1>1, QuietIs DEF BundleIsAllOrNothing, Settled, Quiet
<1>3. ASSUME NEW t \in BundleTargets, reported[t] > 0
      PROVE  \E side \in {"target", "backup"} : Exists(dirs[t][side]) /\ dirs[t][side].whole
    <2> DEFINE d == dirs[t]
    <2>1. d \in Dir /\ KnownDir(d) /\ Standing(t, d) /\ HeldAt(t) >= reported[t] /\ reported[t] \in Nat
        BY <1>1, WorkspaceTypes DEF Workspace
    <2>2. d.target.gen \in Nat /\ d.backup.gen \in Nat /\ Original(t).gen \in Nat /\ prepared.gen \in Nat /\ committed.gen \in Nat
        BY <1>1, <2>1, WorkspaceTypes, DirTyped, ContentTyped DEF Generations
    <2>3. HeldAt(t) # 0
        BY <1>3, <2>1, <2>2 DEF HeldAt, Held
    <2>4. (d.target.gen # 0 /\ d.target.whole) \/ (d.backup.gen # 0 /\ d.backup.whole)
        <3>1. CASE committed # NoJournal
            BY <2>1, <2>3, <3>1 DEF Standing, Replaced, HeldAt, Held
        <3>2. CASE committed = NoJournal /\ prepared # NoJournal
            <4>1. /\ Original(t).gen # 0 /\ Pending(d, Original(t), prepared.gen)
                BY <2>1, <2>3, <3>2 DEF Standing, HeldAt, Held
            <4>2. Original(t).gen < prepared.gen
                BY <1>1, <3>2, PendedIs DEF Pended
            <4>3. Original(t).gen # prepared.gen
                BY <2>2, <4>2
            <4>4. Like(d.target, Original(t)) \/ Like(d.backup, Original(t))
                BY <4>1 DEF Pending, Has
            <4> QED
                BY <4>1, <4>3, <4>4 DEF Pending, Like
        <3>3. CASE committed = NoJournal /\ prepared = NoJournal
            <4>1. Resting(t, d) /\ HeldAt(t) = IF Exists(d.target) THEN d.target.gen ELSE d.backup.gen
                BY <2>1, <3>3 DEF Standing, HeldAt, Held
            <4> QED
                BY <2>3, <4>1 DEF Resting, Exists
        <3> QED
            BY <3>1, <3>2, <3>3
    <2>5. CASE d.target.gen # 0 /\ d.target.whole
        <3>1. Exists(dirs[t]["target"]) /\ dirs[t]["target"].whole
            BY <2>5, NoneIs DEF Exists
        <3> QED
            BY <3>1
    <2>6. CASE d.backup.gen # 0 /\ d.backup.whole
        <3>1. Exists(dirs[t]["backup"]) /\ dirs[t]["backup"].whole
            BY <2>6, NoneIs DEF Exists
        <3> QED
            BY <3>1
    <2> QED
        BY <2>4, <2>5, <2>6
<1>4. PriorVersionKept
    BY <1>3 DEF PriorVersionKept
<1>5. SuccessIsKept
    <2> SUFFICES ASSUME Settled, NEW t \in BundleTargets, Exists(dirs[t].target)
                 PROVE  dirs[t].target.gen >= reported[t]
        BY DEF SuccessIsKept
    <2>1. Version(t) >= reported[t]
        BY <1>1, QuietIs DEF Settled, Quiet
    <2> QED
        BY <2>1 DEF Version
<1>6. ConflictHasCause
    <2> SUFFICES ASSUME command.result = "conflict"
                 PROVE  \E t \in BundleTargets, side \in {"target", "staging", "backup"} :
                            ~dirs[t][side].whole \/ dirs[t][side].edit # "no"
        BY DEF ConflictHasCause
    <2>1. PICK t \in BundleTargets :
            Spoilt(dirs[t].target) \/ Spoilt(dirs[t].staging) \/ Spoilt(dirs[t].backup)
        BY <1>1 DEF Aims
    <2>2. PICK side \in {"target", "staging", "backup"} : Spoilt(dirs[t][side])
        BY <2>1
    <2> QED
        BY <2>2 DEF Spoilt
<1> QED
    BY <1>1, <1>2, <1>4, <1>5, <1>6 DEF BundleIsSafe

(* Wherever commands are killed and file operations fail, in pulls and in     *)
(* recoveries, and whatever the user edits meanwhile: every target that held  *)
(* an artifact has a complete one; once no journal is left, what a bundle     *)
(* replaced it replaced as a whole, and nothing older than a pull that        *)
(* reported success is in place; and a journal is refused only over a torn or *)
(* edited tree (recoverBundleTransaction, commitPreparedDirectories and       *)
(* replaceDirectoryWithOperations, in a workspace whose sweeps can remove the *)
(* backups that they find).                                                   *)
THEOREM BundlesAreSafe ==
    ASSUME ~StuckBackups
    PROVE  BundleSpec => []BundleIsSafe
<1>1. BundleInv /\ [BundleNext]_bundleVars => BundleInv'
    BY BundleInvKept
<1> QED
    BY <1>1, BundleInvInitially, BundleInvIsSafe, PTL DEF BundleSpec

(* Edits of a canonical payload made while no command ran survive every pull, *)
(* rollback and recovery, in the same workspaces, unless a pull of the        *)
(* workbook was told to overwrite them (validateBundleRollback, and the look  *)
(* for an edited payload that the pulls begin with).                          *)
THEOREM EditsSurvive ==
    ASSUME ~StuckBackups
    PROVE  BundleSpec => QuietEditsSurvive
<1> DEFINE Survive == \A t \in BundleTargets : HoldsQuietEdit(t) /\ ~HoldsQuietEdit(t)'
                            => t = Workbook /\ command.at = "check" /\ command.overwrite
<1>1. BundleInv /\ [BundleNext]_bundleVars => BundleInv'
    BY BundleInvKept
<1>2. BundleInv /\ [BundleNext]_bundleVars => [Survive]_bundleVars
    <2> SUFFICES ASSUME BundleInv, BundleNext, NEW t \in BundleTargets, HoldsQuietEdit(t), ~HoldsQuietEdit(t)'
                 PROVE  EditsGivenUp(t)
        BY DEF EditsGivenUp
    <2>1. dirs[t].backup.edit # "quiet"
        BY DEF BundleInv, Workspace, KnownDir
    <2>2. dirs[t].target.edit = "quiet"
        BY <2>1 DEF HoldsQuietEdit
    <2>3. dirs'[t].target.edit # "quiet"
        BY DEF HoldsQuietEdit
    <2> QED
        BY <2>2, <2>3, BundleStepIsSafe DEF KeepsOrGivesUp
<1> HIDE DEF Survive
<1>3. BundleSpec => [][Survive]_bundleVars
    BY <1>1, <1>2, BundleInvInitially, PTL DEF BundleSpec
<1> QED
    BY <1>3 DEF Survive, QuietEditsSurvive
=============================================================================
