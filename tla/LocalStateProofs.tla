-------------------------- MODULE LocalStateProofs --------------------------
(* What is proved of the state a user keeps on the machine, whatever fails:   *)
(* the stored credential and the reference to it agree; installed agent       *)
(* packages and the user's edits of them are kept.                            *)
EXTENDS Credentials, AgentInstallation, TLAPS

-----------------------------------------------------------------------------
(* The inductive invariant of Credentials.                                    *)

Holding == {"mutate", "save", "restore", "post", "rollback"}

Configurations == [environment : BOOLEAN, credential : Refs \cup {NoRef}, workspaces : {{}}]

Updates ==
    [at : {"none", "queued", "ended"} \cup Holding, before : Configurations \cup {{}},
     next : Configurations \cup {{}}, post : BOOLEAN, missed : BOOLEAN, result : UpdateResults]

CredentialTasks ==
    [op : Operations \cup {"none", "save_session"}, at : {"idle", "command", "delete", "locked"},
     ref : Refs \cup {NoRef}, pat : 0 .. MaxPATs]

Entries == [pat : 0 .. MaxPATs, session : 0 .. MaxPATs]

(* A reference in c names a PAT of s and an environment that exists.          *)
Sound(c, s) == c.credential # NoRef => c.environment /\ s[c.credential].pat # 0

(* How the place of a command and of its transaction go together.             *)
Plain(t, u) ==
    /\ t.at = "idle" => t = NoTask /\ u.at = "none"
    /\ t.at = "locked" <=> t.op = "save_session"
    /\ t.at = "locked" => u.at = "none"
    /\ t.at \in {"command", "delete"} => t.op \in Operations /\ u.at # "none"
    /\ t.at = "delete" => u.at \in {"rollback", "post"}
    /\ t.at = "delete" /\ u.at = "rollback" => t.op = "login"
    /\ t.op \in {"add", "remove"} => t.ref = NoRef
    /\ u.at \in {"queued", "mutate"} => t.ref = NoRef /\ ~u.missed /\ u.result = "pending"

(* A login puts in the reference to the PAT it stored, a logout takes out the *)
(* one it is going to delete.                                                 *)
LoginStaged(t, u, s) ==
    t.op = "login" =>
        /\ t.ref \in Refs /\ u.before.credential = NoRef /\ u.next.credential = t.ref
        /\ u.next.environment /\ ~u.post /\ s[t.ref].pat # 0

LogoutStaged(t, u, s) ==
    t.op = "logout" =>
        /\ t.ref \in Refs /\ u.before.credential = t.ref /\ u.next.credential = NoRef
        /\ u.post /\ s[t.ref].pat # 0

OtherStaged(t, u, s) ==
    t.op \in {"add", "remove"} => ~u.post /\ Sound(u.next, s) /\ u.next.credential = u.before.credential

(* The holder of the configuration's lock knows what the file says, and both  *)
(* the old and the new configuration agree with the store.                    *)
Staged(t, u, c, s) ==
    /\ u.at \in {"mutate", "save", "rollback"} => c = u.before
    /\ u.at \in {"restore", "post"} => c = u.next
    /\ u.at \in {"save", "restore", "post", "rollback"} =>
        /\ u.before \in Configurations /\ u.next \in Configurations /\ Sound(u.before, s)
        /\ LoginStaged(t, u, s) /\ LogoutStaged(t, u, s) /\ OtherStaged(t, u, s)
    /\ u.at = "save" => u.result = "pending" /\ ~u.missed
    /\ u.at = "restore" => u.result = "pending"
    /\ u.at = "post" => u.post /\ ~u.missed /\ u.result \in {"pending", "installed"}

(* The holder of a reference's lock.                                          *)
HeldReference(t, s, rl, p) ==
    /\ t.at \in {"delete", "locked"} => t.ref \in Refs /\ rl[t.ref] = p
    /\ t.at = "delete" => s[t.ref].session = 0
    /\ t.at = "locked" => s[t.ref].pat = t.pat /\ t.pat # 0

Kept(t, u, c, s, rl, p) == Plain(t, u) /\ Staged(t, u, c, s) /\ HeldReference(t, s, rl, p)

(* The command still has to delete the entry, or to tell the user about it.   *)
Responsible(t, u, r) ==
    /\ t.ref = r /\ t.op \in {"login", "logout"}
    /\ \/ u.at \in {"save", "restore", "post", "rollback"}
       \/ t.op = "logout" /\ u.at = "ended" /\ u.result = "installed" /\ u.missed

CredentialTyped ==
    /\ configuration \in Configurations /\ configLock \in Updaters \cup {NoUpdater}
    /\ updateFaults \in 0 .. UpdateFaults
    /\ store \in [Refs -> Entries] /\ refLock \in [Refs -> Updaters \cup {NoUpdater}]
    /\ pats \in 0 .. MaxPATs /\ remains \in SUBSET (Refs \cup {NoRef})
    /\ task \in [Updaters -> CredentialTasks] /\ update \in [Updaters -> Updates]

CredentialInv ==
    /\ CredentialTyped
    /\ \A p \in Updaters : Kept(task[p], update[p], configuration, store, refLock, p)
    /\ \A p \in Updaters : configLock = p <=> update[p].at \in Holding
    /\ Sound(configuration, store)
    /\ \A r \in Refs : store[r].pat # 0 =>
        r = configuration.credential \/ r \in remains \/ \E p \in Updaters : Responsible(task[p], update[p], r)
    /\ \A r \in Refs : store[r].session # 0 => store[r].pat # 0

-----------------------------------------------------------------------------
(* What a step of p has to leave alone, and what it has to account for.       *)

OthersUndisturbed(p) ==
    /\ configuration' = configuration \/ configLock = p
    /\ \A r \in Refs : store[r].pat # 0 => store'[r].pat # 0 \/ configLock = p
    /\ \A r \in Refs, q \in Updaters \ {p} : refLock[r] = q =>
        /\ refLock'[r] = q /\ store'[r].session = store[r].session
        /\ store[r].pat # 0 => store'[r].pat = store[r].pat

LockFollows(p, u) ==
    \/ u.at \in Holding /\ configLock' = p /\ configLock \in {p, NoUpdater}
    \/ u.at \notin Holding /\ configLock' = NoUpdater /\ configLock = p
    \/ u.at \notin Holding /\ configLock' = configLock /\ configLock # p

StillAccounted(p, t, u) ==
    /\ remains \subseteq remains'
    /\ \A r \in Refs :
        /\ store'[r].pat # 0
        /\ store[r].pat = 0 \/ r = configuration.credential \/ Responsible(task[p], update[p], r)
        => r = configuration'.credential \/ r \in remains' \/ Responsible(t, u, r)

NewSound ==
    /\ Sound(configuration', store')
    /\ \A r \in Refs : store'[r].session # 0 => store'[r].pat # 0

NewTyped ==
    /\ configuration' \in Configurations /\ updateFaults' \in 0 .. UpdateFaults
    /\ store' \in [Refs -> Entries] /\ refLock' \in [Refs -> Updaters \cup {NoUpdater}]
    /\ pats' \in 0 .. MaxPATs /\ remains' \in SUBSET (Refs \cup {NoRef})

(* The invariant implies the property.                                        *)
LEMMA InvAgrees == ASSUME CredentialInv PROVE CredentialsAgree
<1>1. UpdateTypeOK
    BY DEF CredentialInv, CredentialTyped, UpdateTypeOK, Updates, Holding
<1>2. CredentialTypeOK
    BY DEF CredentialInv, CredentialTyped, CredentialTypeOK, Configurations, Entries, CredentialTasks
<1>3. /\ configuration.credential # NoRef => configuration.environment /\ store[configuration.credential].pat # 0
      /\ \A r \in Refs : store[r].session # 0 => store[r].pat # 0
    BY DEF CredentialInv, Sound
<1>4. ASSUME NEW r \in Refs, store[r].pat # 0
      PROVE  r = configuration.credential \/ r \in remains \/ \E p \in Updaters : task[p].ref = r
    BY <1>4 DEF CredentialInv, Responsible
<1> QED
    BY <1>1, <1>2, <1>3, <1>4 DEF CredentialsAgree

(* Another process is as it was: it holds the configuration's lock or does    *)
(* not depend on the configuration.                                           *)
LEMMA OtherKept ==
    ASSUME CredentialInv, NEW p \in Updaters, NEW q \in Updaters, q # p, OthersUndisturbed(p)
    PROVE  Kept(task[q], update[q], configuration', store', refLock', q)
<1> DEFINE t == task[q]
           u == update[q]
<1>1. t \in CredentialTasks /\ u \in Updates /\ Kept(t, u, configuration, store, refLock, q)
    BY DEF CredentialInv, CredentialTyped
<1>2. configLock = q <=> u.at \in Holding
    BY DEF CredentialInv
<1> HIDE DEF t, u
<1>3. u.at \in Holding => configuration' = configuration /\ \A r \in Refs : store[r].pat # 0 => store'[r].pat # 0
    BY <1>2 DEF OthersUndisturbed
<1>4. ASSUME NEW c, Sound(c, store), u.at \in Holding, c \in Configurations PROVE Sound(c, store')
    BY <1>3, <1>4 DEF Sound, Configurations
<1>5. Staged(t, u, configuration', store')
    <2>1. Staged(t, u, configuration, store)
        BY <1>1 DEF Kept
    <2>2. ASSUME u.at \in {"save", "restore", "post", "rollback"}
          PROVE  /\ u.before \in Configurations /\ u.next \in Configurations /\ Sound(u.before, store')
                 /\ LoginStaged(t, u, store') /\ LogoutStaged(t, u, store') /\ OtherStaged(t, u, store')
        <3>1. u.at \in Holding
            BY <2>2 DEF Holding
        <3>2. /\ u.before \in Configurations /\ u.next \in Configurations /\ Sound(u.before, store)
              /\ LoginStaged(t, u, store) /\ LogoutStaged(t, u, store) /\ OtherStaged(t, u, store)
            BY <2>1, <2>2 DEF Staged
        <3>3. Sound(u.before, store')
            BY <1>4, <3>1, <3>2
        <3>4. LoginStaged(t, u, store') /\ LogoutStaged(t, u, store')
            BY <1>3, <3>1, <3>2 DEF LoginStaged, LogoutStaged
        <3>5. OtherStaged(t, u, store')
            BY <1>4, <3>1, <3>2 DEF OtherStaged
        <3> QED
            BY <3>2, <3>3, <3>4, <3>5
    <2>3. u.at \in {"mutate", "save", "restore", "post", "rollback"} => configuration' = configuration
        BY <1>3 DEF Holding
    <2> QED
        BY <2>1, <2>2, <2>3 DEF Staged
<1>6. HeldReference(t, store', refLock', q)
    <2>1. HeldReference(t, store, refLock, q)
        BY <1>1 DEF Kept
    <2>2. ASSUME t.at \in {"delete", "locked"}
          PROVE  /\ t.ref \in Refs /\ refLock'[t.ref] = q /\ store'[t.ref].session = store[t.ref].session
                 /\ store[t.ref].pat # 0 => store'[t.ref].pat = store[t.ref].pat
        BY <2>1, <2>2 DEF HeldReference, OthersUndisturbed
    <2> QED
        BY <2>1, <2>2 DEF HeldReference
<1> QED
    BY <1>1, <1>5, <1>6 DEF Kept, t, u

(* A step of one process keeps the invariant when it leaves the others alone  *)
(* and accounts for what it changes.                                          *)
LEMMA StepKeeps ==
    ASSUME CredentialInv, NEW p \in Updaters, NEW t \in CredentialTasks, NEW u \in Updates,
           task' = [task EXCEPT ![p] = t], update' = [update EXCEPT ![p] = u],
           NewTyped, OthersUndisturbed(p), LockFollows(p, u), StillAccounted(p, t, u), NewSound,
           Kept(t, u, configuration', store', refLock', p)
    PROVE  CredentialInv'
<1>1. /\ task' \in [Updaters -> CredentialTasks] /\ update' \in [Updaters -> Updates]
      /\ task'[p] = t /\ update'[p] = u
      /\ \A q \in Updaters : q # p => task'[q] = task[q] /\ update'[q] = update[q]
    BY DEF CredentialInv, CredentialTyped
<1>2. NoUpdater \notin Updaters
    BY UpdateAssumption
<1>3. configLock \in Updaters \cup {NoUpdater} /\ \A q \in Updaters : configLock = q <=> update[q].at \in Holding
    BY DEF CredentialInv, CredentialTyped
<1>4. configLock' \in Updaters \cup {NoUpdater} /\ \A q \in Updaters : configLock' = q <=> update'[q].at \in Holding
    <2>1. configLock' \in Updaters \cup {NoUpdater}
        BY <1>3 DEF LockFollows
    <2>2. ASSUME NEW q \in Updaters PROVE configLock' = q <=> update'[q].at \in Holding
        <3>1. CASE q = p
            BY <1>1, <1>2, <3>1 DEF LockFollows
        <3>2. CASE q # p
            BY <1>1, <1>2, <1>3, <3>2 DEF LockFollows
        <3> QED
            BY <3>1, <3>2
    <2> QED
        BY <2>1, <2>2
<1>5. CredentialTyped'
    BY <1>1, <1>4 DEF CredentialTyped, NewTyped
<1>6. ASSUME NEW q \in Updaters PROVE Kept(task[q], update[q], configuration, store, refLock, q)'
    <2>1. CASE q = p
        BY <1>1, <2>1
    <2>2. CASE q # p
        <3>1. Kept(task[q], update[q], configuration', store', refLock', q)
            BY <2>2, OtherKept
        <3> QED
            BY <1>1, <2>2, <3>1
    <2> QED
        BY <2>1, <2>2
<1>7. ASSUME NEW r \in Refs, store'[r].pat # 0
      PROVE  \/ r = configuration'.credential \/ r \in remains'
             \/ \E q \in Updaters : Responsible(task[q], update[q], r)'
    <2>1. CASE store[r].pat = 0 \/ r = configuration.credential \/ Responsible(task[p], update[p], r)
        <3>1. r = configuration'.credential \/ r \in remains' \/ Responsible(t, u, r)
            BY <1>7, <2>1 DEF StillAccounted
        <3>2. Responsible(t, u, r) => Responsible(task[p], update[p], r)'
            BY <1>1
        <3> QED
            BY <3>1, <3>2
    <2>2. CASE store[r].pat # 0 /\ r # configuration.credential /\ ~Responsible(task[p], update[p], r)
        <3>1. r \in remains \/ \E q \in Updaters : Responsible(task[q], update[q], r)
            BY <2>2 DEF CredentialInv
        <3>2. CASE r \in remains
            BY <3>2 DEF StillAccounted
        <3>3. CASE \E q \in Updaters : Responsible(task[q], update[q], r)
            <4>1. PICK q \in Updaters : Responsible(task[q], update[q], r)
                BY <3>3
            <4>2. q # p
                BY <2>2, <4>1
            <4>3. Responsible(task[q], update[q], r)'
                BY <1>1, <4>1, <4>2
            <4> QED
                BY <4>3
        <3> QED
            BY <3>1, <3>2, <3>3
    <2> QED
        BY <2>1, <2>2
<1>8. NewSound
    OBVIOUS
<1>9. Sound(configuration, store)' /\ \A r \in Refs : store'[r].session # 0 => store'[r].pat # 0
    BY <1>8 DEF NewSound
<1> QED
    BY <1>4, <1>5, <1>6, <1>7, <1>9 DEF CredentialInv

-----------------------------------------------------------------------------
(* Small facts the actions share.                                             *)

LEMMA ProcessFacts ==
    ASSUME CredentialInv, NEW p \in Updaters
    PROVE  /\ CredentialTyped /\ task[p] \in CredentialTasks /\ update[p] \in Updates
           /\ Plain(task[p], update[p]) /\ Staged(task[p], update[p], configuration, store)
           /\ HeldReference(task[p], store, refLock, p)
           /\ configLock = p <=> update[p].at \in Holding
           /\ configLock \in Updaters \cup {NoUpdater} /\ p # NoUpdater
    BY UpdateAssumption DEF CredentialInv, CredentialTyped, Kept

LEMMA FaultTyped == ASSUME CredentialInv, NoFault \/ Fault PROVE updateFaults' \in 0 .. UpdateFaults
    BY UpdateAssumption DEF CredentialInv, CredentialTyped, Fault, NoFault

LEMMA NoTaskTyped == NoTask \in CredentialTasks /\ NoTask.at = "idle" /\ NoTask.op = "none" /\ NoTask.ref = NoRef
    BY CredentialAssumption DEF NoTask, CredentialTasks

LEMMA NoUpdateTyped ==
    /\ NoUpdate \in Updates /\ NoUpdate.at = "none" /\ NoUpdate.result = "pending" /\ ~NoUpdate.missed
    BY DEF NoUpdate, Updates, UpdateResults

(* A command whose transaction has ended relies on nothing any more.          *)
LEMMA EndedKept ==
    ASSUME NEW t \in CredentialTasks, NEW u \in Updates, NEW c, NEW s, NEW rl, NEW p,
           t.at = "command", t.op \in Operations, t.op \in {"add", "remove"} => t.ref = NoRef, u.at = "ended"
    PROVE  Kept(t, u, c, s, rl, p)
    BY DEF Kept, Plain, Staged, HeldReference, Operations

(* A step that changes neither the file nor the store.                        *)
LEMMA QuietKeeps ==
    ASSUME CredentialInv, NEW p \in Updaters, NEW t \in CredentialTasks, NEW u \in Updates,
           task' = [task EXCEPT ![p] = t], update' = [update EXCEPT ![p] = u],
           UNCHANGED <<configuration, store, refLock, pats, remains>>, NoFault \/ Fault, LockFollows(p, u),
           Kept(t, u, configuration, store, refLock, p),
           \A r \in Refs : Responsible(task[p], update[p], r) =>
                r = configuration.credential \/ Responsible(t, u, r)
    PROVE  CredentialInv'
<1>1. NewTyped /\ NewSound
    BY FaultTyped DEF NewTyped, NewSound, CredentialInv, CredentialTyped
<1>2. OthersUndisturbed(p) /\ StillAccounted(p, t, u)
    BY DEF OthersUndisturbed, StillAccounted
<1>3. Kept(t, u, configuration', store', refLock', p)
    OBVIOUS
<1> QED
    BY <1>1, <1>2, <1>3, StepKeeps

-----------------------------------------------------------------------------
(* One lemma per action.                                                      *)

LEMMA EnterKeeps ==
    ASSUME CredentialInv, NEW p \in Updaters, NEW op \in Operations, Enter(p, op) PROVE CredentialInv'
<1> DEFINE t == [NoTask EXCEPT !.op = op, !.at = "command"]
           u == [NoUpdate EXCEPT !.at = "queued"]
<1>1. /\ task' = [task EXCEPT ![p] = t] /\ update' = [update EXCEPT ![p] = u]
      /\ UNCHANGED <<configuration, configLock, updateFaults, store, refLock, pats, remains>>
      /\ task[p].at = "idle" /\ update[p].at = "none"
    BY DEF Enter, Enqueue
<1>2. t \in CredentialTasks /\ t.op = op /\ t.at = "command" /\ t.ref = NoRef
    BY NoTaskTyped DEF NoTask, CredentialTasks
<1>3. u \in Updates /\ u.at = "queued" /\ u.result = "pending" /\ ~u.missed
    BY DEF NoUpdate, Updates, UpdateResults
<1> HIDE DEF t, u
<1>4. Kept(t, u, configuration, store, refLock, p)
    BY <1>2, <1>3 DEF Kept, Plain, Staged, HeldReference, Operations
<1>5. LockFollows(p, u)
    BY <1>1, <1>3, ProcessFacts DEF LockFollows, Holding
<1>6. \A r \in Refs : ~Responsible(task[p], update[p], r)
    BY <1>1 DEF Responsible
<1> QED
    BY <1>1, <1>2, <1>3, <1>4, <1>5, <1>6, QuietKeeps DEF NoFault

LEMMA LockKeeps ==
    ASSUME CredentialInv, NEW p \in Updaters, LockConfiguration(p), UNCHANGED credentialVars PROVE CredentialInv'
<1> DEFINE t == task[p]
           u == [update[p] EXCEPT !.at = "mutate", !.before = configuration]
<1>1. /\ task' = [task EXCEPT ![p] = t] /\ update' = [update EXCEPT ![p] = u]
      /\ UNCHANGED <<configuration, updateFaults, store, refLock, pats, remains>>
      /\ update[p].at = "queued" /\ configLock = NoUpdater /\ configLock' = p
    BY ProcessFacts DEF LockConfiguration, credentialVars, CredentialTyped
<1>2. /\ t \in CredentialTasks /\ Plain(t, update[p]) /\ HeldReference(t, store, refLock, p)
      /\ update[p] \in Updates /\ configuration \in Configurations
    BY ProcessFacts DEF CredentialTyped
<1>3. /\ u \in Updates /\ u.at = "mutate" /\ u.result = update[p].result /\ u.missed = update[p].missed
      /\ u.before = configuration
    BY <1>2 DEF Updates, Holding
<1> HIDE DEF t, u
<1>4. t.at = "command" /\ t.op \in Operations /\ t.ref = NoRef /\ ~u.missed /\ u.result = "pending"
    BY <1>1, <1>2, <1>3 DEF Plain, CredentialTasks
<1>5. Plain(t, u)
    BY <1>2, <1>3, <1>4 DEF Plain, Operations
<1>6. Staged(t, u, configuration, store)
    BY <1>3 DEF Staged
<1>7. \A r \in Refs : ~Responsible(task[p], update[p], r)
    BY <1>1 DEF Responsible
<1> QED
    BY <1>1, <1>2, <1>3, <1>5, <1>6, <1>7, QuietKeeps DEF NoFault, Kept, LockFollows, Holding

(* A transaction ends, and the reference of its command is in the             *)
(* configuration or nowhere.                                                  *)
LEMMA EndQuietlyKeeps ==
    ASSUME CredentialInv, NEW p \in Updaters, NEW u \in Updates, u.at = "ended",
           update' = [update EXCEPT ![p] = u],
           \/ update[p].at \in Holding /\ configLock' = NoUpdater
           \/ update[p].at = "queued" /\ UNCHANGED configLock,
           UNCHANGED <<configuration, task, store, refLock, pats, remains>>, NoFault \/ Fault,
           task[p].at = "command",
           \A r \in Refs : Responsible(task[p], update[p], r) => r = configuration.credential
    PROVE  CredentialInv'
<1> DEFINE t == task[p]
<1>1. t \in CredentialTasks /\ task' = [task EXCEPT ![p] = t] /\ Plain(t, update[p])
    BY ProcessFacts DEF CredentialTyped
<1>2. Kept(t, u, configuration, store, refLock, p)
    BY <1>1, EndedKept DEF Plain
<1>3. LockFollows(p, u)
    BY ProcessFacts DEF LockFollows, Holding
<1> QED
    BY <1>1, <1>2, <1>3, QuietKeeps

LEMMA TimeOutKeeps ==
    ASSUME CredentialInv, NEW p \in Updaters, LockTimesOut(p), UNCHANGED credentialVars PROVE CredentialInv'
<1> DEFINE u == [NoUpdate EXCEPT !.at = "ended", !.result = "failed"]
<1>1. /\ update' = [update EXCEPT ![p] = u]
      /\ update[p].at = "queued" /\ UNCHANGED <<configuration, configLock, updateFaults, task, store, refLock, pats, remains>>
    BY DEF LockTimesOut, credentialVars
<1>2. u \in Updates /\ u.at = "ended"
    BY DEF NoUpdate, Updates, UpdateResults
<1> HIDE DEF u
<1>3. task[p].at = "command"
    BY <1>1, ProcessFacts DEF Plain, CredentialTasks
<1>4. \A r \in Refs : ~Responsible(task[p], update[p], r)
    BY <1>1 DEF Responsible
<1> QED
    BY <1>1, <1>2, <1>3, <1>4, EndQuietlyKeeps DEF NoFault

(* Refuse and LeaveUnchanged: the mutator ends the transaction.               *)
LEMMA MutatorEndsKeeps ==
    ASSUME CredentialInv, NEW p \in Updaters, update[p].at = "mutate", Refuse(p) \/ LeaveUnchanged(p),
           UNCHANGED <<task, store, refLock, pats, remains>>, NoFault \/ Fault
    PROVE  CredentialInv'
<1>1. PICK result \in {"failed", "unchanged"} : EndUpdate(p, result)
    BY DEF Refuse, LeaveUnchanged
<1> DEFINE u == [NoUpdate EXCEPT !.at = "ended", !.result = result, !.missed = update[p].missed]
<1>2. update' = [update EXCEPT ![p] = u] /\ configLock' = NoUpdater /\ UNCHANGED configuration
    BY <1>1 DEF EndUpdate, Refuse, LeaveUnchanged
<1>3. update[p].missed \in BOOLEAN
    BY ProcessFacts DEF Updates
<1>4. u \in Updates /\ u.at = "ended"
    BY <1>3 DEF NoUpdate, Updates, UpdateResults
<1> HIDE DEF u
<1>5. task[p].at = "command"
    BY ProcessFacts DEF Plain, CredentialTasks
<1>6. \A r \in Refs : ~Responsible(task[p], update[p], r)
    BY DEF Responsible
<1> QED
    BY <1>2, <1>4, <1>5, <1>6, EndQuietlyKeeps DEF Holding

LEMMA EnvironmentGoneKeeps ==
    ASSUME CredentialInv, NEW p \in Updaters, EnvironmentGone(p) PROVE CredentialInv'
    BY MutatorEndsKeeps DEF EnvironmentGone, credentialVars, NoFault

(* What the mutator finds.                                                    *)
LEMMA MutatorFacts ==
    ASSUME CredentialInv, NEW p \in Updaters, update[p].at = "mutate"
    PROVE  /\ update[p] \in Updates /\ update[p].before = configuration /\ update[p].result = "pending"
           /\ ~update[p].missed /\ configLock = p
           /\ task[p].at = "command" /\ task[p].op \in Operations /\ task[p].ref = NoRef
           /\ configuration \in Configurations /\ Sound(configuration, store)
           /\ \A r \in Refs : ~Responsible(task[p], update[p], r)
<1>1. /\ update[p] \in Updates /\ Plain(task[p], update[p]) /\ Staged(task[p], update[p], configuration, store)
      /\ configLock = p /\ task[p] \in CredentialTasks
    BY ProcessFacts DEF Holding
<1>2. configuration \in Configurations /\ Sound(configuration, store)
    BY DEF CredentialInv, CredentialTyped
<1> QED
    BY <1>1, <1>2 DEF Plain, Staged, CredentialTasks, Responsible

(* A transaction about to save.                                               *)
LEMMA SavingKept ==
    ASSUME NEW t \in CredentialTasks, NEW u \in Updates, NEW c \in Configurations, NEW s, NEW rl, NEW p,
           t.at = "command", t.op \in Operations, t.op \in {"add", "remove"} => t.ref = NoRef,
           u.at = "save", u.before = c, u.next \in Configurations, Sound(c, s), u.result = "pending", ~u.missed,
           LoginStaged(t, u, s), LogoutStaged(t, u, s), OtherStaged(t, u, s)
    PROVE  Kept(t, u, c, s, rl, p)
<1>1. Plain(t, u)
    BY DEF Plain, Operations
<1>2. Staged(t, u, c, s)
    BY DEF Staged
<1>3. HeldReference(t, s, rl, p)
    BY DEF HeldReference
<1> QED
    BY <1>1, <1>2, <1>3 DEF Kept

LEMMA ChangeEnvironmentKeeps ==
    ASSUME CredentialInv, NEW p \in Updaters, ChangeEnvironment(p) PROVE CredentialInv'
<1> DEFINE t == task[p]
<1>1. /\ t.op \in {"add", "remove"} /\ update[p].at = "mutate"
      /\ UNCHANGED <<updateFaults, store, refLock, task, pats, remains>>
    BY DEF ChangeEnvironment, credentialVars
<1>2. CASE Refuse(p)
    BY <1>1, <1>2, MutatorEndsKeeps DEF NoFault
<1>3. ASSUME NEW environment \in BOOLEAN, Proceed(p, [configuration EXCEPT !.environment = environment], FALSE),
             configuration.credential # NoRef => environment
      PROVE  CredentialInv'
    <2> DEFINE next == [configuration EXCEPT !.environment = environment]
               u == [update[p] EXCEPT !.at = "save", !.next = next, !.post = FALSE]
    <2>1. configuration \in Configurations /\ Sound(configuration, store)
        BY DEF CredentialInv, CredentialTyped
    <2>2. /\ next \in Configurations /\ next.credential = configuration.credential /\ next.environment = environment
        BY <2>1 DEF Configurations
    <2>3. Sound(next, store)
        BY <1>3, <2>1, <2>2 DEF Sound
    <2>4. update' = [update EXCEPT ![p] = u] /\ UNCHANGED <<configuration, configLock>>
        BY <1>3, ProcessFacts DEF Proceed, CredentialTyped
    <2> HIDE DEF next
    <2>5. /\ u \in Updates /\ u.at = "save" /\ u.next = next /\ ~u.post
          /\ u.before = update[p].before /\ u.result = update[p].result /\ u.missed = update[p].missed
        BY <1>1, <2>2, MutatorFacts DEF Updates, Holding
    <2> HIDE DEF u
    <2>6. t \in CredentialTasks /\ task' = [task EXCEPT ![p] = t]
        BY <1>1, ProcessFacts DEF CredentialTyped
    <2>7. /\ t.at = "command" /\ t.op \in Operations /\ t.ref = NoRef
          /\ u.before = configuration /\ u.result = "pending" /\ ~u.missed /\ configLock = p
          /\ \A r \in Refs : ~Responsible(task[p], update[p], r)
        BY <1>1, <2>5, MutatorFacts
    <2> HIDE DEF t
    <2>8. LoginStaged(t, u, store) /\ LogoutStaged(t, u, store) /\ OtherStaged(t, u, store)
        BY <1>1, <2>2, <2>3, <2>5, <2>7 DEF LoginStaged, LogoutStaged, OtherStaged
    <2>9. Kept(t, u, configuration, store, refLock, p)
        BY <2>1, <2>2, <2>5, <2>6, <2>7, <2>8, SavingKept
    <2>10. LockFollows(p, u)
        BY <2>4, <2>5, <2>7 DEF LockFollows, Holding
    <2> QED
        BY <1>1, <2>4, <2>5, <2>6, <2>7, <2>9, <2>10, QuietKeeps DEF NoFault
<1>4. /\ configuration.environment \in BOOLEAN
      /\ \/ Refuse(p)
         \/ Proceed(p, [configuration EXCEPT !.environment = TRUE], FALSE)
         \/ configuration.credential = NoRef /\ Proceed(p, [configuration EXCEPT !.environment = FALSE], FALSE)
    BY DEF ChangeEnvironment, CredentialInv, CredentialTyped, Configurations
<1> QED
    BY <1>2, <1>3, <1>4

LEMMA ClearReferenceKeeps ==
    ASSUME CredentialInv, NEW p \in Updaters, ClearReference(p) PROVE CredentialInv'
<1>1. /\ update[p].at = "mutate" /\ task[p].op = "logout" /\ configuration.environment
      /\ UNCHANGED <<updateFaults, store, refLock, pats, remains>>
    BY DEF ClearReference, CredentialTurn
<1>2. CASE configuration.credential = NoRef
    BY <1>1, <1>2, MutatorEndsKeeps DEF ClearReference, NoFault
<1>3. CASE configuration.credential # NoRef
    <2> DEFINE ref == configuration.credential
               next == [configuration EXCEPT !.credential = NoRef]
               t == [task[p] EXCEPT !.ref = ref]
               u == [update[p] EXCEPT !.at = "save", !.next = next, !.post = TRUE]
    <2>1. configuration \in Configurations /\ Sound(configuration, store) /\ ref \in Refs
        BY <1>3 DEF CredentialInv, CredentialTyped, Configurations
    <2>2. next \in Configurations /\ next.credential = NoRef
        BY <2>1 DEF Configurations
    <2>3. /\ task' = [task EXCEPT ![p] = t] /\ update' = [update EXCEPT ![p] = u]
          /\ UNCHANGED <<configuration, configLock>>
        BY <1>3, ProcessFacts DEF ClearReference, Proceed, CredentialTyped
    <2>4. t \in CredentialTasks /\ t.ref = ref /\ t.at = task[p].at /\ t.op = task[p].op
        BY <2>1, ProcessFacts DEF CredentialTasks
    <2> HIDE DEF next, t
    <2>5. /\ u \in Updates /\ u.at = "save" /\ u.next = next /\ u.post
          /\ u.before = update[p].before /\ u.result = update[p].result /\ u.missed = update[p].missed
        BY <1>1, <2>2, MutatorFacts DEF Updates, Holding
    <2> HIDE DEF u
    <2>6. /\ t.at = "command" /\ t.op = "logout" /\ u.before = configuration /\ u.result = "pending" /\ ~u.missed
          /\ configLock = p /\ \A r \in Refs : ~Responsible(task[p], update[p], r)
        BY <1>1, <2>4, <2>5, MutatorFacts
    <2>7. store[ref].pat # 0
        BY <1>3, <2>1 DEF Sound
    <2>8. LoginStaged(t, u, store) /\ LogoutStaged(t, u, store) /\ OtherStaged(t, u, store)
        BY <2>1, <2>2, <2>4, <2>5, <2>6, <2>7 DEF LoginStaged, LogoutStaged, OtherStaged
    <2>9. Kept(t, u, configuration, store, refLock, p)
        BY <2>1, <2>2, <2>4, <2>5, <2>6, <2>8, SavingKept DEF Operations
    <2>10. LockFollows(p, u)
        BY <2>3, <2>5, <2>6 DEF LockFollows, Holding
    <2> QED
        BY <1>1, <2>3, <2>4, <2>5, <2>6, <2>9, <2>10, QuietKeeps DEF NoFault
<1> QED
    BY <1>2, <1>3

LEMMA StoreNewPATKeeps ==
    ASSUME CredentialInv, NEW p \in Updaters, StoreNewPAT(p) PROVE CredentialInv'
<1>1. /\ update[p].at = "mutate" /\ task[p].op = "login" /\ configuration.environment
      /\ configuration.credential = NoRef /\ UNCHANGED <<refLock, remains>>
    BY DEF StoreNewPAT, CredentialTurn
<1>2. CASE Fault /\ Refuse(p) /\ UNCHANGED <<store, task, pats>>
    BY <1>1, <1>2, MutatorEndsKeeps
<1>3. ASSUME NEW ref \in Refs, NoFault, pats < MaxPATs, store[ref].pat = 0,
             store' = [store EXCEPT ![ref].pat = pats + 1], pats' = pats + 1,
             task' = [task EXCEPT ![p].ref = ref], Proceed(p, [configuration EXCEPT !.credential = ref], FALSE)
      PROVE  CredentialInv'
    <2> DEFINE next == [configuration EXCEPT !.credential = ref]
               t == [task[p] EXCEPT !.ref = ref]
               u == [update[p] EXCEPT !.at = "save", !.next = next, !.post = FALSE]
               e == [store[ref] EXCEPT !.pat = pats + 1]
    <2>1. /\ configuration \in Configurations /\ store \in [Refs -> Entries] /\ pats \in 0 .. MaxPATs
          /\ NoRef \notin Refs /\ MaxPATs \in Nat
        BY CredentialAssumption DEF CredentialInv, CredentialTyped
    <2>2. next \in Configurations /\ next.credential = ref /\ next.environment = configuration.environment
        BY <2>1 DEF Configurations
    <2>3. /\ task' = [task EXCEPT ![p] = t] /\ update' = [update EXCEPT ![p] = u]
          /\ UNCHANGED <<configuration, configLock>> /\ store' = [store EXCEPT ![ref] = e]
        BY <1>3, <2>1, ProcessFacts DEF Proceed, CredentialTyped
    <2>4. t \in CredentialTasks /\ t.ref = ref /\ t.at = task[p].at /\ t.op = task[p].op
        BY ProcessFacts DEF CredentialTasks
    <2> HIDE DEF next, t
    <2>5. /\ u \in Updates /\ u.at = "save" /\ u.next = next /\ ~u.post
          /\ u.before = update[p].before /\ u.result = update[p].result /\ u.missed = update[p].missed
        BY <1>1, <2>2, MutatorFacts DEF Updates, Holding
    <2> HIDE DEF u
    <2>6. /\ t.at = "command" /\ t.op = "login" /\ u.before = configuration /\ u.result = "pending" /\ ~u.missed
          /\ configLock = p /\ \A r \in Refs : ~Responsible(task[p], update[p], r)
        BY <1>1, <2>4, <2>5, MutatorFacts
    <2>7. pats' \in 1 .. MaxPATs /\ pats' # 0
        BY <1>3, <2>1
    <2>8. e \in Entries /\ e.pat = pats' /\ e.session = store[ref].session
        BY <1>3, <2>1, <2>7 DEF Entries
    <2> HIDE DEF e
    <2>9. store' \in [Refs -> Entries] /\ store'[ref] = e /\ \A r \in Refs : r # ref => store'[r] = store[r]
        BY <2>1, <2>3, <2>8
    <2>10. Sound(configuration, store')
        BY <1>1 DEF Sound
    <2>11. LoginStaged(t, u, store') /\ LogoutStaged(t, u, store') /\ OtherStaged(t, u, store')
        <3>1. store'[t.ref].pat # 0
            BY <2>4, <2>7, <2>8, <2>9
        <3> QED
            BY <1>1, <2>2, <2>4, <2>5, <2>6, <3>1 DEF LoginStaged, LogoutStaged, OtherStaged
    <2>12. Kept(t, u, configuration', store', refLock', p)
        BY <2>1, <2>2, <2>3, <2>4, <2>5, <2>6, <2>10, <2>11, SavingKept DEF Operations
    <2>13. NewTyped
        BY <1>1, <1>3, <2>1, <2>3, <2>7, <2>9, FaultTyped DEF NewTyped, CredentialInv, CredentialTyped
    <2>14. NewSound
        BY <2>3, <2>7, <2>8, <2>9, <2>10 DEF NewSound, CredentialInv
    <2>15. OthersUndisturbed(p)
        BY <1>1, <1>3, <2>6, <2>8, <2>9 DEF OthersUndisturbed
    <2>16. StillAccounted(p, t, u)
        <3>1. Responsible(t, u, ref)
            BY <2>4, <2>5, <2>6 DEF Responsible
        <3> QED
            BY <1>1, <2>1, <2>6, <2>9, <3>1 DEF StillAccounted
    <2>17. LockFollows(p, u)
        BY <2>3, <2>5, <2>6 DEF LockFollows, Holding
    <2> QED
        BY <2>3, <2>4, <2>5, <2>12, <2>13, <2>14, <2>15, <2>16, <2>17, StepKeeps
<1> QED
    BY <1>2, <1>3 DEF StoreNewPAT

LEMMA ReplacePATKeeps ==
    ASSUME CredentialInv, NEW p \in Updaters, ReplacePAT(p) PROVE CredentialInv'
<1> DEFINE ref == configuration.credential
           t == task[p]
<1>1. /\ update[p].at = "mutate" /\ t.op = "login" /\ ref # NoRef /\ UNCHANGED <<refLock, task, remains>>
    BY DEF ReplacePAT, CredentialTurn
<1>2. CASE Fault /\ UNCHANGED <<store, pats>> /\ Refuse(p)
    BY <1>1, <1>2, MutatorEndsKeeps
<1>3. /\ configuration \in Configurations /\ store \in [Refs -> Entries] /\ pats \in 0 .. MaxPATs
      /\ MaxPATs \in Nat /\ ref \in Refs /\ NoUpdater \notin Updaters /\ configuration.environment \in BOOLEAN
    BY <1>1, CredentialAssumption, UpdateAssumption DEF CredentialInv, CredentialTyped, Configurations
<1>4. ASSUME NEW e \in Entries, store' = [store EXCEPT ![ref] = e], ReferenceFree(ref), pats' \in 1 .. MaxPATs,
             e.pat = pats', LeaveUnchanged(p), NoFault \/ Fault
      PROVE  CredentialInv'
    <2> DEFINE u == [NoUpdate EXCEPT !.at = "ended", !.result = "unchanged", !.missed = update[p].missed]
    <2>1. update' = [update EXCEPT ![p] = u] /\ configLock' = NoUpdater /\ UNCHANGED configuration
        BY <1>4 DEF LeaveUnchanged, EndUpdate
    <2>2. update[p].missed \in BOOLEAN
        BY ProcessFacts DEF Updates
    <2>3. u \in Updates /\ u.at = "ended"
        BY <2>2 DEF NoUpdate, Updates, UpdateResults
    <2> HIDE DEF u
    <2>4. store' \in [Refs -> Entries] /\ store'[ref] = e /\ \A r \in Refs : r # ref => store'[r] = store[r]
        BY <1>3, <1>4
    <2>5. t \in CredentialTasks /\ task' = [task EXCEPT ![p] = t]
        BY <1>1, ProcessFacts DEF CredentialTyped
    <2>6. t.at = "command" /\ configLock = p /\ \A r \in Refs : ~Responsible(t, update[p], r)
        BY <1>1, MutatorFacts
    <2>7. Kept(t, u, configuration', store', refLock', p)
        BY <1>1, <2>3, <2>5, <2>6, EndedKept DEF Operations
    <2>8. NewTyped
        BY <1>1, <1>4, <2>1, <2>4, FaultTyped DEF NewTyped, CredentialInv, CredentialTyped
    <2>9. NewSound
        <3>1. e.pat # 0 /\ configuration.environment
            BY <1>4, <1>1 DEF ReplacePAT
        <3> QED
            BY <2>1, <2>4, <3>1 DEF NewSound, Sound, CredentialInv
    <2>10. OthersUndisturbed(p)
        BY <1>1, <1>3, <1>4, <2>4, <2>6 DEF OthersUndisturbed, ReferenceFree
    <2>11. StillAccounted(p, t, u)
        BY <1>1, <2>1, <2>4, <2>6 DEF StillAccounted
    <2>12. LockFollows(p, u)
        BY <2>1, <2>3, <2>6 DEF LockFollows, Holding
    <2> QED
        BY <2>1, <2>3, <2>5, <2>7, <2>8, <2>9, <2>10, <2>11, <2>12, StepKeeps
<1>5. ASSUME ~(Fault /\ UNCHANGED <<store, pats>> /\ Refuse(p))
      PROVE  /\ ReferenceFree(ref) /\ pats < MaxPATs /\ pats' = pats + 1 /\ LeaveUnchanged(p)
             /\ \/ NoFault /\ store' = [store EXCEPT ![ref] = [pat |-> pats', session |-> 0]]
                \/ Fault /\ store' = [store EXCEPT ![ref].pat = pats']
    BY <1>5 DEF ReplacePAT
<1>6. ASSUME pats < MaxPATs, pats' = pats + 1 PROVE pats' \in 1 .. MaxPATs
    BY <1>3, <1>6
<1>7. ASSUME pats' \in 1 .. MaxPATs
      PROVE  /\ [pat |-> pats', session |-> 0] \in Entries /\ [store[ref] EXCEPT !.pat = pats'] \in Entries
             /\ [store[ref] EXCEPT !.pat = pats'].pat = pats'
             /\ [store EXCEPT ![ref].pat = pats'] = [store EXCEPT ![ref] = [store[ref] EXCEPT !.pat = pats']]
    BY <1>3, <1>7 DEF Entries
<1> QED
    BY <1>2, <1>4, <1>5, <1>6, <1>7

(* Both configurations of a transaction past its mutator agree with the       *)
(* store, and its command is not at work on an entry unless it deletes it.    *)
LEMMA TransactionFacts ==
    ASSUME CredentialInv, NEW p \in Updaters, update[p].at \in {"save", "restore", "post", "rollback"}
    PROVE  /\ update[p].before \in Configurations /\ update[p].next \in Configurations
           /\ Sound(update[p].before, store) /\ Sound(update[p].next, store)
           /\ configLock = p /\ task[p].op \in Operations /\ task[p].at \in {"command", "delete"}
           /\ task[p].op \in {"add", "remove"} => task[p].ref = NoRef
           /\ update[p].at \in {"save", "restore"} => task[p].at = "command"
           /\ LoginStaged(task[p], update[p], store) /\ LogoutStaged(task[p], update[p], store)
           /\ OtherStaged(task[p], update[p], store)
<1> DEFINE t == task[p]
           u == update[p]
<1>1. /\ t \in CredentialTasks /\ Plain(t, u) /\ Staged(t, u, configuration, store) /\ configLock = p
    BY ProcessFacts DEF Holding
<1>2. u.at \in {"save", "restore", "post", "rollback"}
    OBVIOUS
<1> HIDE DEF t, u
<1>3. /\ t.op \in Operations /\ t.at \in {"command", "delete"} /\ (t.op \in {"add", "remove"} => t.ref = NoRef)
      /\ (u.at \in {"save", "restore"} => t.at = "command")
    BY <1>1, <1>2 DEF Plain, CredentialTasks
<1>4. /\ u.before \in Configurations /\ u.next \in Configurations /\ Sound(u.before, store)
      /\ LoginStaged(t, u, store) /\ LogoutStaged(t, u, store) /\ OtherStaged(t, u, store)
    BY <1>1, <1>2 DEF Staged
<1>5. Sound(u.next, store)
    BY <1>3, <1>4 DEF Sound, Operations, LoginStaged, LogoutStaged, OtherStaged
<1> QED
    BY <1>1, <1>3, <1>4, <1>5 DEF t, u

(* The transaction goes on: the file is the old one before a rollback, the    *)
(* new one otherwise.                                                         *)
LEMMA GoesOnKeeps ==
    ASSUME CredentialInv, NEW p \in Updaters, update[p].at \in {"save", "restore", "post"},
           NEW t \in CredentialTasks, t.at = "command", t.op = task[p].op, t.ref = task[p].ref,
           NEW u \in Updates, u.before = update[p].before, u.next = update[p].next, u.post = update[p].post,
           task' = [task EXCEPT ![p] = t], update' = [update EXCEPT ![p] = u], configLock' = configLock,
           u.at \in {"restore", "post", "rollback"},
           u.at = "rollback" => configuration' = u.before, u.at # "rollback" => configuration' = u.next,
           u.at = "restore" => u.result = "pending",
           u.at = "post" => u.post /\ ~u.missed /\ u.result \in {"pending", "installed"},
           UNCHANGED <<store, pats, remains>>, NoFault \/ Fault,
           refLock' \in [Refs -> Updaters \cup {NoUpdater}],
           \A r \in Refs, q \in Updaters \ {p} : refLock[r] = q => refLock'[r] = q
    PROVE  CredentialInv'
<1>1. /\ u.before \in Configurations /\ u.next \in Configurations /\ Sound(u.before, store) /\ Sound(u.next, store)
      /\ configLock = p /\ t.op \in Operations /\ (t.op \in {"add", "remove"} => t.ref = NoRef)
      /\ LoginStaged(t, u, store) /\ LogoutStaged(t, u, store) /\ OtherStaged(t, u, store)
    BY TransactionFacts DEF LoginStaged, LogoutStaged, OtherStaged
<1>2. configuration' \in {u.before, u.next} /\ configuration' \in Configurations /\ Sound(configuration', store')
    BY <1>1
<1>3. Plain(t, u)
    BY <1>1 DEF Plain, Operations
<1>4. Staged(t, u, configuration', store')
    BY <1>1 DEF Staged
<1>5. Kept(t, u, configuration', store', refLock', p)
    BY <1>3, <1>4 DEF Kept, HeldReference
<1>6. NewTyped /\ NewSound
    BY <1>2, FaultTyped DEF NewTyped, NewSound, CredentialInv, CredentialTyped
<1>7. OthersUndisturbed(p) /\ LockFollows(p, u)
    BY <1>1 DEF OthersUndisturbed, LockFollows, Holding
<1>8. StillAccounted(p, t, u)
    <2> SUFFICES ASSUME NEW r \in Refs, store[r].pat # 0,
                        store[r].pat = 0 \/ r = configuration.credential \/ Responsible(task[p], update[p], r)
                 PROVE  r = configuration'.credential \/ Responsible(t, u, r)
        BY DEF StillAccounted
    <2>1. CASE Responsible(task[p], update[p], r)
        BY <2>1 DEF Responsible
    <2>2. CASE r = configuration.credential
        <3>1. configuration \in {u.before, u.next}
            BY ProcessFacts DEF Staged
        <3>2. NoRef \notin Refs
            BY CredentialAssumption
        <3>3. CASE t.op = "login"
            BY <1>1, <2>2, <3>1, <3>2, <3>3 DEF Responsible, LoginStaged
        <3>4. CASE t.op = "logout"
            BY <1>1, <2>2, <3>1, <3>2, <3>4 DEF Responsible, LogoutStaged
        <3>5. CASE t.op \in {"add", "remove"}
            BY <1>1, <1>2, <2>2, <3>1, <3>5 DEF OtherStaged
        <3> QED
            BY <1>1, <3>3, <3>4, <3>5 DEF Operations
    <2> QED
        BY <2>1, <2>2
<1> QED
    BY <1>5, <1>6, <1>7, <1>8, StepKeeps

(* The transaction ends with the store as it is.                              *)
LEMMA EndsKeeps ==
    ASSUME CredentialInv, NEW p \in Updaters, update[p].at \in {"save", "restore", "post", "rollback"},
           NEW t \in CredentialTasks, t.at = "command", t.op = task[p].op, t.ref = task[p].ref,
           NEW u \in Updates, u.at = "ended",
           task' = [task EXCEPT ![p] = t], update' = [update EXCEPT ![p] = u], configLock' = NoUpdater,
           configuration' \in {update[p].before, update[p].next},
           UNCHANGED <<store, pats>>, NoFault \/ Fault, remains' \in SUBSET (Refs \cup {NoRef}),
           refLock' \in [Refs -> Updaters \cup {NoUpdater}],
           \A r \in Refs, q \in Updaters \ {p} : refLock[r] = q => refLock'[r] = q,
           StillAccounted(p, t, u)
    PROVE  CredentialInv'
<1>1. /\ configuration' \in Configurations /\ Sound(configuration', store') /\ configLock = p
      /\ t.op \in Operations /\ (t.op \in {"add", "remove"} => t.ref = NoRef)
    BY TransactionFacts
<1>2. Kept(t, u, configuration', store', refLock', p)
    BY <1>1, EndedKept
<1>3. NewTyped /\ NewSound
    BY <1>1, FaultTyped DEF NewTyped, NewSound, CredentialInv, CredentialTyped
<1>4. OthersUndisturbed(p) /\ LockFollows(p, u)
    BY <1>1 DEF OthersUndisturbed, LockFollows, Holding
<1> QED
    BY <1>2, <1>3, <1>4, StepKeeps

LEMMA SaveKeeps ==
    ASSUME CredentialInv, NEW p \in Updaters, SaveConfiguration(p), UNCHANGED credentialVars PROVE CredentialInv'
<1> DEFINE t == task[p]
<1>1. /\ update[p].at = "save" /\ UNCHANGED <<store, refLock, task, pats, remains>>
    BY DEF SaveConfiguration, credentialVars
<1>2. /\ t \in CredentialTasks /\ task' = [task EXCEPT ![p] = t] /\ t.at = "command" /\ update[p] \in Updates
      /\ refLock' \in [Refs -> Updaters \cup {NoUpdater}]
    BY <1>1, ProcessFacts, TransactionFacts DEF CredentialTyped
<1>3. configuration = update[p].before /\ update[p].result = "pending" /\ ~update[p].missed
    BY <1>1, ProcessFacts DEF Staged
<1>4. ASSUME NEW at \in {"post", "rollback", "restore"}, update' = [update EXCEPT ![p].at = at], UNCHANGED configLock,
             at = "rollback" => configuration' = configuration,
             at # "rollback" => configuration' = update[p].next, at = "post" => update[p].post, NoFault \/ Fault
      PROVE  CredentialInv'
    <2> DEFINE u == [update[p] EXCEPT !.at = at]
    <2>1. update' = [update EXCEPT ![p] = u]
        BY <1>4
    <2>2. /\ u \in Updates /\ u.at = at /\ u.before = update[p].before /\ u.next = update[p].next
          /\ u.post = update[p].post /\ u.result = update[p].result /\ u.missed = update[p].missed
        BY <1>2 DEF Updates, Holding
    <2> HIDE DEF u, t
    <2>3. /\ t.op = task[p].op /\ t.ref = task[p].ref
          /\ \A r \in Refs, q \in Updaters \ {p} : refLock[r] = q => refLock'[r] = q
        BY <1>1 DEF t
    <2>4. /\ u.at \in {"restore", "post", "rollback"} /\ update[p].at \in {"save", "restore", "post"}
          /\ u.at = "rollback" => configuration' = u.before
          /\ u.at # "rollback" => configuration' = u.next
          /\ u.at = "restore" => u.result = "pending"
          /\ u.at = "post" => u.post /\ ~u.missed /\ u.result \in {"pending", "installed"}
        BY <1>1, <1>3, <1>4, <2>2
    <2>5. configLock' = configLock /\ (NoFault \/ Fault)
        BY <1>4
    <2> QED
        BY <1>1, <1>2, <2>1, <2>2, <2>3, <2>4, <2>5, GoesOnKeeps
<1>5. ASSUME NoFault, configuration' = update[p].next, ~update[p].post, EndUpdate(p, "ok")
      PROVE  CredentialInv'
    <2> DEFINE u == [NoUpdate EXCEPT !.at = "ended", !.result = "ok", !.missed = update[p].missed]
    <2>1. update' = [update EXCEPT ![p] = u] /\ configLock' = NoUpdater
        BY <1>5 DEF EndUpdate
    <2>2. update[p].missed \in BOOLEAN
        BY <1>2 DEF Updates
    <2>3. u \in Updates /\ u.at = "ended"
        BY <2>2 DEF NoUpdate, Updates, UpdateResults
    <2> HIDE DEF u
    <2>4. StillAccounted(p, t, u)
        <3> SUFFICES ASSUME NEW r \in Refs, r = configuration.credential \/ Responsible(t, update[p], r)
                     PROVE  r = configuration'.credential
            BY <1>1 DEF StillAccounted
        <3>1. /\ t.op \in Operations /\ LoginStaged(t, update[p], store) /\ LogoutStaged(t, update[p], store)
              /\ OtherStaged(t, update[p], store) /\ NoRef \notin Refs
            BY <1>1, TransactionFacts, CredentialAssumption
        <3>2. CASE t.op = "login"
            BY <1>3, <1>5, <3>1, <3>2 DEF LoginStaged, Responsible
        <3>3. CASE t.op = "logout"
            BY <1>5, <3>1, <3>3 DEF LogoutStaged
        <3>4. CASE t.op \in {"add", "remove"}
            BY <1>3, <1>5, <3>1, <3>4 DEF OtherStaged, Responsible
        <3> QED
            BY <3>1, <3>2, <3>3, <3>4 DEF Operations
    <2> HIDE DEF t
    <2>5. /\ t.op = task[p].op /\ t.ref = task[p].ref /\ remains' \in SUBSET (Refs \cup {NoRef})
          /\ \A r \in Refs, q \in Updaters \ {p} : refLock[r] = q => refLock'[r] = q
        BY <1>1 DEF t, CredentialInv, CredentialTyped
    <2> QED
        BY <1>1, <1>2, <1>5, <2>1, <2>3, <2>4, <2>5, EndsKeeps
<1>6. \/ NoFault /\ configuration' = update[p].next /\ update[p].post /\ Advance(p, "post")
      \/ NoFault /\ configuration' = update[p].next /\ ~update[p].post /\ EndUpdate(p, "ok")
      \/ Fault /\ UNCHANGED configuration /\ Advance(p, "rollback")
      \/ Fault /\ configuration' = update[p].next /\ Advance(p, "restore")
    BY DEF SaveConfiguration
<1>7. CASE NoFault /\ configuration' = update[p].next /\ update[p].post /\ Advance(p, "post")
    BY <1>4, <1>7 DEF Advance
<1>8. CASE Fault /\ UNCHANGED configuration /\ Advance(p, "rollback")
    BY <1>4, <1>8 DEF Advance
<1>9. CASE Fault /\ configuration' = update[p].next /\ Advance(p, "restore")
    BY <1>4, <1>9 DEF Advance
<1> QED
    BY <1>5, <1>6, <1>7, <1>8, <1>9

LEMMA RestoreKeeps ==
    ASSUME CredentialInv, NEW p \in Updaters, RestoreConfiguration(p), UNCHANGED credentialVars
    PROVE  CredentialInv'
<1> DEFINE t == task[p]
<1>1. /\ update[p].at = "restore" /\ UNCHANGED <<store, refLock, task, pats, remains>>
    BY DEF RestoreConfiguration, credentialVars
<1>2. /\ t \in CredentialTasks /\ task' = [task EXCEPT ![p] = t] /\ t.at = "command" /\ update[p] \in Updates
      /\ refLock' \in [Refs -> Updaters \cup {NoUpdater}] /\ t.op = task[p].op /\ t.ref = task[p].ref
      /\ remains' \in SUBSET (Refs \cup {NoRef})
      /\ \A r \in Refs, q \in Updaters \ {p} : refLock[r] = q => refLock'[r] = q
    BY <1>1, ProcessFacts, TransactionFacts DEF CredentialTyped
<1>3. configuration = update[p].next /\ update[p].result = "pending"
    BY <1>1, ProcessFacts DEF Staged
<1>4. ASSUME NoFault, configuration' = update[p].before, Advance(p, "rollback") PROVE CredentialInv'
    <2> DEFINE u == [update[p] EXCEPT !.at = "rollback"]
    <2>1. update' = [update EXCEPT ![p] = u] /\ configLock' = configLock
        BY <1>4 DEF Advance
    <2>2. /\ u \in Updates /\ u.at = "rollback" /\ u.before = update[p].before /\ u.next = update[p].next
          /\ u.post = update[p].post
        BY <1>2 DEF Updates, Holding
    <2> HIDE DEF u, t
    <2>3. configuration' = u.before
        BY <1>4, <2>2
    <2> QED
        BY <1>1, <1>2, <1>4, <2>1, <2>2, <2>3, GoesOnKeeps
<1>5. ASSUME Fault, UNCHANGED configuration, update[p].post, ~update[p].missed, StayInstalled(p) PROVE CredentialInv'
    <2> DEFINE u == [update[p] EXCEPT !.at = "post", !.result = "installed"]
    <2>1. update' = [update EXCEPT ![p] = u] /\ configLock' = configLock
        BY <1>2, <1>5, ProcessFacts DEF StayInstalled, CredentialTyped
    <2>2. /\ u \in Updates /\ u.at = "post" /\ u.before = update[p].before /\ u.next = update[p].next
          /\ u.post = update[p].post /\ u.missed = update[p].missed /\ u.result = "installed"
        BY <1>2 DEF Updates, UpdateResults, Holding
    <2> HIDE DEF u, t
    <2>3. configuration' = u.next /\ u.post /\ ~u.missed
        BY <1>3, <1>5, <2>2
    <2> QED
        BY <1>1, <1>2, <1>5, <2>1, <2>2, <2>3, GoesOnKeeps
<1>6. ASSUME Fault, UNCHANGED configuration, ~(update[p].post /\ ~update[p].missed), StayInstalled(p)
      PROVE  CredentialInv'
    <2> DEFINE u == [NoUpdate EXCEPT !.at = "ended", !.result = "installed", !.missed = update[p].missed]
    <2>1. update' = [update EXCEPT ![p] = u] /\ configLock' = NoUpdater
        BY <1>6 DEF StayInstalled, EndUpdate
    <2>2. update[p].missed \in BOOLEAN
        BY <1>2 DEF Updates
    <2>3. u \in Updates /\ u.at = "ended" /\ u.result = "installed" /\ u.missed = update[p].missed
        BY <2>2 DEF NoUpdate, Updates, UpdateResults
    <2> HIDE DEF u
    <2>4. StillAccounted(p, t, u)
        <3> SUFFICES ASSUME NEW r \in Refs, Responsible(t, update[p], r)
                     PROVE  r = configuration.credential \/ Responsible(t, u, r)
            BY <1>1, <1>6 DEF StillAccounted
        <3>1. /\ t.op \in Operations /\ LoginStaged(t, update[p], store) /\ LogoutStaged(t, update[p], store)
            BY <1>1, TransactionFacts
        <3>2. CASE t.op = "login"
            BY <1>3, <3>1, <3>2 DEF LoginStaged, Responsible
        <3>3. CASE t.op = "logout"
            BY <1>6, <2>3, <3>1, <3>3 DEF LogoutStaged, Responsible
        <3> QED
            BY <3>2, <3>3 DEF Responsible
    <2> HIDE DEF t
    <2>5. configuration' \in {update[p].before, update[p].next}
        BY <1>3, <1>6
    <2> QED
        BY <1>1, <1>2, <1>6, <2>1, <2>3, <2>4, <2>5, EndsKeeps
<1> QED
    BY <1>4, <1>5, <1>6 DEF RestoreConfiguration

(* A deletion that fails: of a login's PAT the user is told, of a logout's    *)
(* the configuration is taken back, or the command tells the user.            *)
LEMMA DeleteFailsKeeps ==
    ASSUME CredentialInv, NEW p \in Updaters, MustDelete(p), task[p].at \in {"command", "delete"},
           DeleteFails(p, task[p].ref), UNCHANGED <<configuration, store, pats>>,
           refLock' \in [Refs -> Updaters \cup {NoUpdater}],
           \A r \in Refs, q \in Updaters \ {p} : refLock[r] = q => refLock'[r] = q
    PROVE  CredentialInv'
<1> DEFINE t == [task[p] EXCEPT !.at = "command"]
<1>1. /\ Fault /\ task' = [task EXCEPT ![p] = t] /\ update[p].at \in {"rollback", "post"}
      /\ update[p].at = "rollback" => task[p].op = "login"
    BY DEF DeleteFails, MustDelete
<1>2. task[p] \in CredentialTasks /\ update[p] \in Updates /\ Staged(task[p], update[p], configuration, store)
    BY ProcessFacts
<1>3. t \in CredentialTasks /\ t.at = "command" /\ t.op = task[p].op /\ t.ref = task[p].ref
    BY <1>2 DEF CredentialTasks
<1> HIDE DEF t
<1>4. /\ LoginStaged(task[p], update[p], store) /\ LogoutStaged(task[p], update[p], store)
      /\ OtherStaged(task[p], update[p], store) /\ task[p].op \in Operations /\ NoRef \notin Refs
    BY <1>1, TransactionFacts, CredentialAssumption
<1>5. CASE update[p].at = "rollback"
    <2> DEFINE u == [NoUpdate EXCEPT !.at = "ended", !.result = "failed", !.missed = update[p].missed]
    <2>1. /\ update' = [update EXCEPT ![p] = u] /\ configLock' = NoUpdater /\ remains' = remains \cup {task[p].ref}
        BY <1>5 DEF DeleteFails, Deleted, RolledBack, EndUpdate
    <2>2. update[p].missed \in BOOLEAN
        BY <1>2 DEF Updates
    <2>3. u \in Updates /\ u.at = "ended"
        BY <2>2 DEF NoUpdate, Updates, UpdateResults
    <2> HIDE DEF u
    <2>4. /\ task[p].ref \in Refs /\ configuration = update[p].before /\ configuration.credential = NoRef
        BY <1>1, <1>2, <1>4, <1>5 DEF LoginStaged, Staged
    <2>5. StillAccounted(p, t, u) /\ remains' \in SUBSET (Refs \cup {NoRef})
        BY <1>4, <2>1, <2>4 DEF StillAccounted, Responsible, CredentialInv, CredentialTyped
    <2> QED
        BY <1>1, <1>3, <2>1, <2>3, <2>4, <2>5, EndsKeeps
<1>6. CASE update[p].at = "post"
    <2>1. /\ update[p].post /\ ~update[p].missed /\ update[p].result \in {"pending", "installed"}
          /\ configuration = update[p].next /\ remains' = remains /\ PostSaved(p, FALSE)
        BY <1>2, <1>6 DEF Staged, DeleteFails, Deleted
    <2>2. task[p].op = "logout" /\ task[p].ref \in Refs /\ configuration.credential = NoRef
        BY <1>4, <2>1 DEF LoginStaged, LogoutStaged, OtherStaged, Operations
    <2>3. CASE update[p].result = "installed"
        <3> DEFINE u == [update[p] EXCEPT !.at = "ended", !.missed = TRUE]
        <3>1. update' = [update EXCEPT ![p] = u] /\ configLock' = NoUpdater
            BY <1>2, <2>1, <2>3, ProcessFacts DEF PostSaved, CredentialTyped
        <3>2. u \in Updates /\ u.at = "ended" /\ u.missed /\ u.result = "installed"
            BY <1>2, <2>3 DEF Updates
        <3> HIDE DEF u
        <3>3. \A r : Responsible(task[p], update[p], r) => Responsible(t, u, r)
            BY <1>3, <2>2, <3>2 DEF Responsible
        <3>4. StillAccounted(p, t, u) /\ remains' \in SUBSET (Refs \cup {NoRef}) /\ configuration' \in {update[p].before, update[p].next}
            BY <1>4, <2>1, <2>2, <3>3 DEF StillAccounted, CredentialInv, CredentialTyped
        <3> QED
            BY <1>1, <1>3, <3>1, <3>2, <3>4, EndsKeeps
    <2>4. CASE update[p].result = "pending"
        <3> DEFINE u == [update[p] EXCEPT !.at = "restore", !.missed = TRUE]
        <3>1. update' = [update EXCEPT ![p] = u] /\ configLock' = configLock
            BY <1>2, <2>1, <2>4, ProcessFacts DEF PostSaved, CredentialTyped
        <3>2. /\ u \in Updates /\ u.at = "restore" /\ u.result = "pending" /\ u.before = update[p].before
              /\ u.next = update[p].next /\ u.post = update[p].post
            BY <1>2, <2>4 DEF Updates, Holding
        <3> HIDE DEF u
        <3>3. configuration' = u.next
            BY <2>1, <3>2
        <3> QED
            BY <1>1, <1>3, <1>6, <2>1, <3>1, <3>2, <3>3, GoesOnKeeps
    <2> QED
        BY <2>1, <2>3, <2>4
<1> QED
    BY <1>1, <1>5, <1>6

LEMMA NothingStagedKeeps ==
    ASSUME CredentialInv, NEW p \in Updaters, NothingStaged(p) PROVE CredentialInv'
<1> DEFINE t == task[p]
           u == [NoUpdate EXCEPT !.at = "ended", !.result = "failed", !.missed = update[p].missed]
<1>1. /\ update[p].at = "rollback" /\ t.op # "login" /\ UNCHANGED <<configuration, updateFaults, credentialVars>>
      /\ update' = [update EXCEPT ![p] = u] /\ configLock' = NoUpdater
    BY DEF NothingStaged, RolledBack, EndUpdate
<1>2. /\ t \in CredentialTasks /\ task' = [task EXCEPT ![p] = t] /\ update[p].missed \in BOOLEAN
      /\ configuration = update[p].before /\ Plain(t, update[p])
    BY <1>1, ProcessFacts DEF CredentialTyped, Staged, Updates, credentialVars
<1>3. u \in Updates /\ u.at = "ended"
    BY <1>2 DEF NoUpdate, Updates, UpdateResults
<1> HIDE DEF u
<1>4. t.at = "command"
    BY <1>1, <1>2, TransactionFacts DEF Plain
<1>5. StillAccounted(p, t, u)
    <2>1. LogoutStaged(t, update[p], store)
        BY <1>1, TransactionFacts
    <2> QED
        BY <1>1, <1>2, <2>1 DEF StillAccounted, Responsible, LogoutStaged, credentialVars
<1> HIDE DEF t
<1>6. /\ t.op = task[p].op /\ t.ref = task[p].ref /\ remains' \in SUBSET (Refs \cup {NoRef})
      /\ refLock' \in [Refs -> Updaters \cup {NoUpdater}] /\ UNCHANGED <<store, pats>>
      /\ \A r \in Refs, q \in Updaters \ {p} : refLock[r] = q => refLock'[r] = q
    BY <1>1 DEF t, CredentialInv, CredentialTyped, credentialVars
<1> QED
    BY <1>1, <1>2, <1>3, <1>4, <1>5, <1>6, EndsKeeps DEF NoFault

(* A step that only touches the entry behind a reference whose lock p holds   *)
(* or takes, and leaves its transaction where it is.                          *)
LEMMA EntryStepKeeps ==
    ASSUME CredentialInv, NEW p \in Updaters, NEW t \in CredentialTasks, NEW ref \in Refs, NEW e \in Entries,
           task' = [task EXCEPT ![p] = t], UNCHANGED <<configuration, configLock, update, pats, remains>>,
           store' = [store EXCEPT ![ref] = e], e.pat = store[ref].pat, e.session # 0 => e.pat # 0,
           refLock[ref] \in {p, NoUpdater}, refLock' \in [Refs -> Updaters \cup {NoUpdater}],
           \A r \in Refs, q \in Updaters \ {p} : refLock[r] = q => refLock'[r] = q, NoFault \/ Fault,
           Plain(t, update[p]), HeldReference(t, store', refLock', p),
           update[p].at = "none" \/ (t.op = task[p].op /\ t.ref = task[p].ref)
    PROVE  CredentialInv'
<1> DEFINE u == update[p]
<1>1. /\ u \in Updates /\ update' = [update EXCEPT ![p] = u] /\ Staged(task[p], u, configuration, store)
      /\ (configLock = p <=> u.at \in Holding) /\ configLock \in Updaters \cup {NoUpdater} /\ p # NoUpdater
    BY ProcessFacts DEF CredentialTyped
<1>2. /\ store \in [Refs -> Entries] /\ store' \in [Refs -> Entries] /\ store'[ref] = e
      /\ \A r \in Refs : r # ref => store'[r] = store[r]
    BY DEF CredentialInv, CredentialTyped
<1>3. \A r \in Refs : store'[r].pat = store[r].pat
    BY <1>2
<1>4. \A c \in Configurations : Sound(c, store) => Sound(c, store')
    BY <1>3 DEF Sound, Configurations
<1>5. NewTyped /\ NewSound
    BY <1>2, <1>4, FaultTyped DEF NewTyped, NewSound, CredentialInv, CredentialTyped
<1>6. OthersUndisturbed(p)
    BY <1>2, <1>3, UpdateAssumption DEF OthersUndisturbed
<1>7. LockFollows(p, u)
    BY <1>1 DEF LockFollows
<1> HIDE DEF u
<1>8. StillAccounted(p, t, u)
    BY <1>3 DEF StillAccounted, Responsible, u
<1>9. Staged(t, u, configuration', store')
    <2>1. CASE u.at = "none"
        BY <2>1 DEF Staged
    <2>2. CASE t.op = task[p].op /\ t.ref = task[p].ref
        <3>1. ASSUME u.at \in {"save", "restore", "post", "rollback"}
              PROVE  /\ u.before \in Configurations /\ u.next \in Configurations /\ Sound(u.before, store')
                     /\ LoginStaged(t, u, store') /\ LogoutStaged(t, u, store') /\ OtherStaged(t, u, store')
            <4>1. /\ u.before \in Configurations /\ u.next \in Configurations /\ Sound(u.before, store)
                  /\ LoginStaged(task[p], u, store) /\ LogoutStaged(task[p], u, store) /\ OtherStaged(task[p], u, store)
                BY <1>1, <3>1 DEF Staged
            <4> QED
                BY <1>3, <1>4, <2>2, <4>1 DEF LoginStaged, LogoutStaged, OtherStaged
        <3> QED
            BY <1>1, <3>1 DEF Staged
    <2> QED
        BY <2>1, <2>2 DEF u
<1>10. Kept(t, u, configuration', store', refLock', p)
    BY <1>9 DEF Kept, u
<1> QED
    BY <1>1, <1>5, <1>6, <1>7, <1>8, <1>10, StepKeeps

LEMMA DeleteSessionKeeps ==
    ASSUME CredentialInv, NEW p \in Updaters, DeleteSession(p) PROVE CredentialInv'
<1> DEFINE ref == task[p].ref
<1>1. /\ MustDelete(p) /\ task[p].at = "command" /\ UNCHANGED <<configuration, pats>>
    BY DEF DeleteSession
<1>2. CASE DeleteFails(p, ref) /\ UNCHANGED <<refLock, store>>
    BY <1>1, <1>2, DeleteFailsKeeps DEF CredentialInv, CredentialTyped
<1>3. ASSUME ReferenceFree(ref), NoFault, refLock' = [refLock EXCEPT ![ref] = p],
             store' = [store EXCEPT ![ref].session = 0], task' = [task EXCEPT ![p].at = "delete"],
             UNCHANGED <<configLock, update, remains>>
      PROVE  CredentialInv'
    <2> DEFINE t == [task[p] EXCEPT !.at = "delete"]
               e == [store[ref] EXCEPT !.session = 0]
    <2>1. /\ task[p] \in CredentialTasks /\ Plain(task[p], update[p]) /\ store \in [Refs -> Entries]
          /\ Staged(task[p], update[p], configuration, store) /\ p # NoUpdater
          /\ refLock \in [Refs -> Updaters \cup {NoUpdater}] /\ MaxPATs \in Nat
        BY ProcessFacts, CredentialAssumption DEF CredentialTyped
    <2>2. /\ update[p].at \in {"rollback", "post"} /\ (update[p].at = "rollback" => task[p].op = "login")
          /\ update[p].at = "post" => update[p].post
        BY <1>1, <2>1 DEF MustDelete, Staged
    <2>3. ref \in Refs
        <3>1. /\ LoginStaged(task[p], update[p], store) /\ LogoutStaged(task[p], update[p], store)
              /\ OtherStaged(task[p], update[p], store) /\ task[p].op \in Operations
            BY <2>2, TransactionFacts
        <3> QED
            BY <2>2, <3>1 DEF LoginStaged, LogoutStaged, OtherStaged, Operations
    <2>4. /\ t \in CredentialTasks /\ t.at = "delete" /\ t.op = task[p].op /\ t.ref = ref
          /\ task' = [task EXCEPT ![p] = t]
        BY <1>3, <2>1 DEF CredentialTasks
    <2>5. /\ e \in Entries /\ e.session = 0 /\ e.pat = store[ref].pat /\ store' = [store EXCEPT ![ref] = e]
        BY <1>3, <2>1, <2>3 DEF Entries
    <2> HIDE DEF t, e
    <2>6. /\ refLock' \in [Refs -> Updaters \cup {NoUpdater}] /\ refLock'[ref] = p /\ store'[ref] = e
          /\ \A r \in Refs, q \in Updaters \ {p} : refLock[r] = q => refLock'[r] = q
        BY <1>3, <2>1, <2>3, <2>5, UpdateAssumption DEF ReferenceFree
    <2>7. Plain(t, update[p])
        BY <1>1, <2>1, <2>2, <2>4 DEF Plain
    <2>8. HeldReference(t, store', refLock', p)
        BY <2>3, <2>4, <2>5, <2>6 DEF HeldReference
    <2>9. refLock[ref] \in {p, NoUpdater} /\ UNCHANGED <<configuration, configLock, update, pats, remains>>
        BY <1>1, <1>3 DEF ReferenceFree
    <2>10. /\ e.session # 0 => e.pat # 0
           /\ update[p].at = "none" \/ (t.op = task[p].op /\ t.ref = task[p].ref)
           /\ NoFault \/ Fault
        BY <1>3, <2>4, <2>5
    <2> HIDE DEF ref
    <2> QED
        BY <2>3, <2>4, <2>5, <2>6, <2>7, <2>8, <2>9, <2>10, EntryStepKeeps
<1> QED
    BY <1>2, <1>3 DEF DeleteSession

LEMMA CheckSessionKeeps ==
    ASSUME CredentialInv, NEW p \in Updaters, NEW ref \in Refs, CheckSession(p, ref) PROVE CredentialInv'
<1> DEFINE t == [op |-> "save_session", at |-> "locked", ref |-> ref, pat |-> store[ref].pat]
           e == store[ref]
<1>1. /\ task[p].at = "idle" /\ update[p].at = "none" /\ refLock[ref] = NoUpdater /\ store[ref].pat # 0
      /\ refLock' = [refLock EXCEPT ![ref] = p] /\ task' = [task EXCEPT ![p] = t]
      /\ UNCHANGED <<configuration, configLock, update, updateFaults, store, pats, remains>>
    BY DEF CheckSession, ReferenceFree, updateVars
<1>2. /\ store \in [Refs -> Entries] /\ refLock \in [Refs -> Updaters \cup {NoUpdater}]
      /\ \A r \in Refs : store[r].session # 0 => store[r].pat # 0
    BY DEF CredentialInv, CredentialTyped
<1>3. e \in Entries /\ store' = [store EXCEPT ![ref] = e] /\ (e.session # 0 => e.pat # 0) /\ e.pat = store[ref].pat
    BY <1>1, <1>2
<1>4. t \in CredentialTasks /\ t.at = "locked" /\ t.op = "save_session" /\ t.ref = ref /\ t.pat = store[ref].pat
    BY <1>2 DEF CredentialTasks, Entries
<1> HIDE DEF t, e
<1>5. /\ refLock' \in [Refs -> Updaters \cup {NoUpdater}] /\ refLock'[ref] = p
      /\ \A r \in Refs, q \in Updaters \ {p} : refLock[r] = q => refLock'[r] = q
    BY <1>1, <1>2, UpdateAssumption
<1>6. Plain(t, update[p])
    BY <1>1, <1>4 DEF Plain, Operations
<1>7. HeldReference(t, store', refLock', p)
    BY <1>1, <1>4, <1>5 DEF HeldReference
<1>8. /\ refLock[ref] \in {p, NoUpdater} /\ UNCHANGED <<configuration, configLock, update, pats, remains>>
      /\ NoFault \/ Fault
      /\ update[p].at = "none" \/ (t.op = task[p].op /\ t.ref = task[p].ref)
    BY <1>1 DEF NoFault
<1>9. task' = [task EXCEPT ![p] = t]
    BY <1>1 DEF t
<1> QED
    BY <1>3, <1>4, <1>5, <1>6, <1>7, <1>8, <1>9, EntryStepKeeps

LEMMA WriteSessionKeeps ==
    ASSUME CredentialInv, NEW p \in Updaters, WriteSession(p) PROVE CredentialInv'
<1> DEFINE ref == task[p].ref
           pat == task[p].pat
           t == NoTask
<1>1. /\ task[p].at = "locked" /\ refLock' = [refLock EXCEPT ![ref] = NoUpdater]
      /\ task' = [task EXCEPT ![p] = NoTask] /\ UNCHANGED <<configuration, configLock, update, pats, remains>>
      /\ \/ NoFault /\ store' = [store EXCEPT ![ref].session = pat]
         \/ Fault /\ UNCHANGED store
    BY DEF WriteSession
<1>2. /\ task[p] \in CredentialTasks /\ Plain(task[p], update[p]) /\ HeldReference(task[p], store, refLock, p)
      /\ store \in [Refs -> Entries] /\ refLock \in [Refs -> Updaters \cup {NoUpdater}]
      /\ \A r \in Refs : store[r].session # 0 => store[r].pat # 0
    BY ProcessFacts DEF CredentialInv, CredentialTyped
<1>3. ref \in Refs /\ refLock[ref] = p /\ store[ref].pat = pat /\ pat # 0 /\ update[p].at = "none" /\ pat \in 0 .. MaxPATs
    BY <1>1, <1>2 DEF Plain, HeldReference, CredentialTasks
<1>4. PICK e \in Entries : store' = [store EXCEPT ![ref] = e] /\ e.pat = store[ref].pat /\ (e.session # 0 => e.pat # 0)
    <2>1. CASE UNCHANGED store
        <3>1. store' = [store EXCEPT ![ref] = store[ref]] /\ store[ref] \in Entries
            BY <1>2, <1>3, <2>1
        <3> QED
            BY <1>2, <1>3, <3>1
    <2>2. CASE store' = [store EXCEPT ![ref].session = pat]
        <3> DEFINE e == [store[ref] EXCEPT !.session = pat]
        <3>1. store' = [store EXCEPT ![ref] = e]
            BY <2>2
        <3>2. e \in Entries /\ e.pat = store[ref].pat
            BY <1>2, <1>3 DEF Entries
        <3> HIDE DEF e
        <3> QED
            BY <1>3, <3>1, <3>2
    <2> QED
        BY <1>1, <2>1, <2>2
<1>5. /\ refLock' \in [Refs -> Updaters \cup {NoUpdater}]
      /\ \A r \in Refs, q \in Updaters \ {p} : refLock[r] = q => refLock'[r] = q
    BY <1>1, <1>2, <1>3
<1>6. Plain(NoTask, update[p]) /\ HeldReference(NoTask, store', refLock', p) /\ NoTask \in CredentialTasks
    BY <1>3, NoTaskTyped DEF Plain, HeldReference
<1> HIDE DEF ref
<1> QED
    BY <1>1, <1>3, <1>4, <1>5, <1>6, EntryStepKeeps

LEMMA DeleteEntryKeeps ==
    ASSUME CredentialInv, NEW p \in Updaters, DeleteEntry(p) PROVE CredentialInv'
<1> DEFINE ref == task[p].ref
<1>1. /\ task[p].at = "delete" /\ refLock' = [refLock EXCEPT ![ref] = NoUpdater]
      /\ UNCHANGED <<configuration, pats>>
    BY DEF DeleteEntry
<1>2. /\ task[p] \in CredentialTasks /\ Plain(task[p], update[p]) /\ HeldReference(task[p], store, refLock, p)
      /\ Staged(task[p], update[p], configuration, store) /\ update[p] \in Updates
      /\ store \in [Refs -> Entries] /\ refLock \in [Refs -> Updaters \cup {NoUpdater}]
    BY ProcessFacts DEF CredentialTyped
<1>3. /\ update[p].at \in {"rollback", "post"} /\ (update[p].at = "rollback" => task[p].op = "login")
      /\ ref \in Refs /\ refLock[ref] = p /\ store[ref].session = 0
    BY <1>1, <1>2 DEF Plain, HeldReference
<1>4. /\ refLock' \in [Refs -> Updaters \cup {NoUpdater}]
      /\ \A r \in Refs, q \in Updaters \ {p} : refLock[r] = q => refLock'[r] = q
    BY <1>1, <1>2, <1>3
<1>5. CASE DeleteFails(p, ref) /\ UNCHANGED store
    BY <1>1, <1>3, <1>4, <1>5, DeleteFailsKeeps DEF MustDelete
<1>6. ASSUME NoFault, Deleted(p, TRUE), store' = [store EXCEPT ![ref].pat = 0],
             task' = [task EXCEPT ![p].at = "command"], UNCHANGED remains
      PROVE  CredentialInv'
    <2> DEFINE t == [task[p] EXCEPT !.at = "command"]
               e == [store[ref] EXCEPT !.pat = 0]
    <2>1. t \in CredentialTasks /\ t.at = "command" /\ t.op = task[p].op /\ t.ref = ref /\ task' = [task EXCEPT ![p] = t]
        BY <1>2, <1>6 DEF CredentialTasks
    <2>2. e \in Entries /\ e.pat = 0 /\ e.session = 0 /\ store' = [store EXCEPT ![ref] = e]
        BY <1>2, <1>3, <1>6, CredentialAssumption DEF Entries
    <2> HIDE DEF t, e
    <2>3. PICK result \in UpdateResults : EndUpdate(p, result)
        BY <1>3, <1>6 DEF Deleted, PostSaved, RolledBack, UpdateResults
    <2> DEFINE u == [NoUpdate EXCEPT !.at = "ended", !.result = result, !.missed = update[p].missed]
    <2>4. update' = [update EXCEPT ![p] = u] /\ configLock' = NoUpdater
        BY <2>3 DEF EndUpdate
    <2>5. update[p].missed \in BOOLEAN
        BY <1>2 DEF Updates
    <2>6. u \in Updates /\ u.at = "ended"
        BY <2>5 DEF NoUpdate, Updates
    <2> HIDE DEF u
    <2>7. /\ LoginStaged(task[p], update[p], store) /\ LogoutStaged(task[p], update[p], store)
          /\ OtherStaged(task[p], update[p], store) /\ task[p].op \in Operations /\ configLock = p /\ NoRef \notin Refs
          /\ task[p].op \in {"add", "remove"} => task[p].ref = NoRef
        BY <1>3, TransactionFacts, CredentialAssumption
    <2>8. configuration.credential = NoRef
        <3>1. CASE update[p].at = "rollback"
            BY <1>2, <1>3, <2>7, <3>1 DEF LoginStaged, Staged
        <3>2. CASE update[p].at = "post"
            BY <1>2, <2>7, <3>2 DEF LoginStaged, LogoutStaged, OtherStaged, Staged, Operations
        <3> QED
            BY <1>3, <3>1, <3>2
    <2>9. store' \in [Refs -> Entries] /\ store'[ref] = e /\ \A r \in Refs : r # ref => store'[r] = store[r]
        BY <1>2, <1>3, <2>2
    <2>10. Kept(t, u, configuration', store', refLock', p)
        BY <2>1, <2>6, <2>7, EndedKept
    <2>11. NewTyped
        BY <1>1, <1>4, <1>6, <2>9, FaultTyped DEF NewTyped, CredentialInv, CredentialTyped
    <2>12. NewSound
        BY <1>1, <2>2, <2>8, <2>9 DEF NewSound, Sound, CredentialInv
    <2>13. OthersUndisturbed(p)
        BY <1>1, <1>3, <1>4, <2>7, <2>9 DEF OthersUndisturbed
    <2>14. LockFollows(p, u)
        BY <2>4, <2>6, <2>7 DEF LockFollows, Holding
    <2>15. StillAccounted(p, t, u)
        BY <1>6, <2>2, <2>7, <2>8, <2>9 DEF StillAccounted, Responsible
    <2> QED
        BY <2>1, <2>4, <2>6, <2>10, <2>11, <2>12, <2>13, <2>14, <2>15, StepKeeps
<1> QED
    BY <1>5, <1>6 DEF DeleteEntry

LEMMA IdleKept == ASSUME NEW c, NEW s, NEW rl, NEW p PROVE Kept(NoTask, NoUpdate, c, s, rl, p)
    BY NoTaskTyped, NoUpdateTyped DEF Kept, Plain, Staged, HeldReference

LEMMA EndCommandKeeps ==
    ASSUME CredentialInv, NEW p \in Updaters, EndCommand(p) PROVE CredentialInv'
<1>1. /\ task[p].at = "command" /\ update[p].at = "ended"
      /\ remains' = IF Orphaned(p) THEN remains \cup {task[p].ref} ELSE remains
      /\ task' = [task EXCEPT ![p] = NoTask] /\ update' = [update EXCEPT ![p] = NoUpdate]
      /\ UNCHANGED <<configuration, configLock, updateFaults, store, refLock, pats>>
    BY DEF EndCommand
<1>2. /\ (configLock = p <=> update[p].at \in Holding) /\ task[p].ref \in Refs \cup {NoRef}
    BY ProcessFacts DEF CredentialTasks
<1>3. StillAccounted(p, NoTask, NoUpdate)
    BY <1>1 DEF StillAccounted, Responsible, Orphaned
<1>4. OthersUndisturbed(p) /\ LockFollows(p, NoUpdate)
    BY <1>1, <1>2, NoUpdateTyped DEF OthersUndisturbed, LockFollows, Holding
<1>5. NewTyped /\ NewSound
    BY <1>1, <1>2 DEF NewTyped, NewSound, CredentialInv, CredentialTyped
<1> QED
    BY <1>1, <1>3, <1>4, <1>5, IdleKept, NoTaskTyped, NoUpdateTyped, StepKeeps

LEMMA KillKeeps ==
    ASSUME CredentialInv, NEW p \in Updaters, KillUpdater(p) PROVE CredentialInv'
<1>1. /\ task[p].at # "idle" /\ Fault /\ task' = [task EXCEPT ![p] = NoTask] /\ update' = [update EXCEPT ![p] = NoUpdate]
      /\ configLock' = (IF configLock = p THEN NoUpdater ELSE configLock) /\ UNCHANGED <<configuration, store, pats>>
      /\ refLock' = [r \in Refs |-> IF refLock[r] = p THEN NoUpdater ELSE refLock[r]]
      /\ remains' = IF task[p].op \in Operations /\ task[p].ref # NoRef THEN remains \cup {task[p].ref} ELSE remains
    BY DEF KillUpdater, DropUpdate
<1>2. task[p].ref \in Refs \cup {NoRef} /\ NoRef \notin Refs /\ refLock \in [Refs -> Updaters \cup {NoUpdater}]
    BY ProcessFacts, CredentialAssumption DEF CredentialTasks, CredentialTyped
<1>3. /\ refLock' \in [Refs -> Updaters \cup {NoUpdater}]
      /\ \A r \in Refs, q \in Updaters \ {p} : refLock[r] = q => refLock'[r] = q
    BY <1>1, <1>2
<1>4. StillAccounted(p, NoTask, NoUpdate)
    BY <1>1, <1>2 DEF StillAccounted, Responsible, Operations
<1>5. OthersUndisturbed(p) /\ LockFollows(p, NoUpdate)
    BY <1>1, <1>3, NoUpdateTyped, UpdateAssumption DEF OthersUndisturbed, LockFollows, Holding
<1>6. NewTyped /\ NewSound
    BY <1>1, <1>2, <1>3, FaultTyped DEF NewTyped, NewSound, CredentialInv, CredentialTyped
<1> QED
    BY <1>1, <1>4, <1>5, <1>6, IdleKept, NoTaskTyped, NoUpdateTyped, StepKeeps

-----------------------------------------------------------------------------
LEMMA CredentialStart ==
    ASSUME configuration \in [environment : BOOLEAN, credential : {NoRef}, workspaces : {{}}],
           UpdateInit, CredentialInit
    PROVE  CredentialInv
<1>1. CredentialTyped
    BY NoTaskTyped, NoUpdateTyped, CredentialAssumption, UpdateAssumption
       DEF CredentialTyped, UpdateInit, CredentialInit, Configurations, Entries
<1>2. \A p \in Updaters : Kept(task[p], update[p], configuration, store, refLock, p)
    BY IdleKept DEF UpdateInit, CredentialInit
<1>3. \A p \in Updaters : configLock = p <=> update[p].at \in Holding
    BY NoUpdateTyped, UpdateAssumption DEF UpdateInit, Holding
<1>4. Sound(configuration, store) /\ \A r \in Refs : store[r].pat = 0 /\ store[r].session = 0
    BY DEF Sound, CredentialInit
<1> QED
    BY <1>1, <1>2, <1>3, <1>4 DEF CredentialInv

LEMMA CredentialStepKeeps ==
    ASSUME CredentialInv, NEW p \in Updaters, CredentialStep(p) PROVE CredentialInv'
<1>1. CASE \E op \in Operations : Enter(p, op)
    BY <1>1, EnterKeeps
<1>2. CASE UpdateStep(p) /\ UNCHANGED credentialVars
    BY <1>2, LockKeeps, TimeOutKeeps, SaveKeeps, RestoreKeeps DEF UpdateStep
<1>3. CASE StoreNewPAT(p) \/ ReplacePAT(p) \/ ClearReference(p) \/ ChangeEnvironment(p) \/ EnvironmentGone(p)
    BY <1>3, StoreNewPATKeeps, ReplacePATKeeps, ClearReferenceKeeps, ChangeEnvironmentKeeps, EnvironmentGoneKeeps
<1>4. CASE DeleteSession(p) \/ DeleteEntry(p) \/ NothingStaged(p) \/ EndCommand(p)
    BY <1>4, DeleteSessionKeeps, DeleteEntryKeeps, NothingStagedKeeps, EndCommandKeeps
<1>5. CASE \E r \in Refs : CheckSession(p, r)
    BY <1>5, CheckSessionKeeps
<1>6. CASE WriteSession(p) \/ KillUpdater(p)
    BY <1>6, WriteSessionKeeps, KillKeeps
<1> QED
    BY <1>1, <1>2, <1>3, <1>4, <1>5, <1>6 DEF CredentialStep

(* Whatever fails and whenever a command dies, the reference in the           *)
(* configuration names a stored PAT of an environment that exists, every      *)
(* stored PAT is referred to, worked on or known to be left behind, and no    *)
(* session outlives its PAT (updateTransaction of config.go with              *)
(* auth_credentials.go and patStore).                                         *)
THEOREM CredentialsStayInStep == CredentialSpec => []CredentialsAgree
<1>1. /\ configuration \in [environment : BOOLEAN, credential : {NoRef}, workspaces : {{}}]
      /\ UpdateInit /\ CredentialInit
      => CredentialInv
    BY CredentialStart
<1>2. CredentialInv /\ [\E p \in Updaters : CredentialStep(p)]_<<updateVars, credentialVars>> => CredentialInv'
    <2> SUFFICES ASSUME CredentialInv, [\E p \in Updaters : CredentialStep(p)]_<<updateVars, credentialVars>>
                 PROVE  CredentialInv'
        OBVIOUS
    <2>1. CASE \E p \in Updaters : CredentialStep(p)
        BY <2>1, CredentialStepKeeps
    <2>2. CASE UNCHANGED <<updateVars, credentialVars>>
        <3>1. UNCHANGED <<configuration, configLock, update, updateFaults, store, refLock, task, pats, remains>>
            BY <2>2 DEF updateVars, credentialVars
        <3> QED
            BY <3>1 DEF CredentialInv, CredentialTyped
    <2> QED
        BY <2>1, <2>2
<1>3. CredentialInv => CredentialsAgree
    BY InvAgrees
<1> QED
    BY <1>1, <1>2, <1>3, PTL DEF CredentialSpec

-----------------------------------------------------------------------------
(* The inductive invariant of AgentInstallation.                              *)

Installs ==
    [op : {"none", "install", "uninstall"},
     at : {"idle", "lock", "validate", "move", "commit", "rollback", "restore", "cleanup", "done", "refused", "failed", "partial"},
     release : Shipped, k : 0 .. Skills + 1, before : [Packages -> Contents], owned : [Packages -> 0 .. Releases],
     aside : [Packages -> Contents], committed : SUBSET Packages]

(* Content that no release ships: the user's.                                 *)
Own(content) == content \notin Shipped \cup {0}

Removal(i, k) == i.op = "uninstall" \/ k \in LegacySkills

(* What command i has made of package k so far, when agents find content c    *)
(* there: nothing, renamed aside, replaced, or renamed aside an edit.         *)
Untouched(i, k, c) == i.aside[k] = 0 /\ k \notin i.committed /\ (c = i.before[k] \/ Own(c))
Gone(i, k, c) == i.aside[k] = i.before[k] /\ i.before[k] # 0 /\ k \notin i.committed /\ (c = 0 \/ Own(c))
Replaced(i, k, c) == i.aside[k] = i.before[k] /\ k \in i.committed /\ (c = i.release \/ Own(c))
Taken(i, k, c) == Own(i.aside[k]) /\ k \notin i.committed /\ (c = 0 \/ Own(c))

Done(i, k, c) ==
    IF Removal(i, k) THEN Gone(i, k, c) \/ (Untouched(i, k, c) /\ i.before[k] = 0)
    ELSE Replaced(i, k, c) \/ (Untouched(i, k, c) /\ i.before[k] = i.release)

Touched(i, k, c) == Untouched(i, k, c) \/ Gone(i, k, c) \/ Replaced(i, k, c) \/ Taken(i, k, c)

(* Where a command stands: its packages in order, forward or back.            *)
Standing(i, s) ==
    /\ i.at \in {"idle", "lock", "validate", "refused"} => i.committed = {} /\ i.aside = NoPackages /\ i.k = 1
    /\ i.at = "move" =>
        /\ i.k \in 1 .. Skills + 1
        /\ \A j \in Packages : (j < i.k => Done(i, j, s[j])) /\ (j >= i.k => Untouched(i, j, s[j]))
    /\ i.at = "commit" =>
        /\ i.k \in Packages /\ ~Removal(i, i.k) /\ Gone(i, i.k, s[i.k])
        /\ \A j \in Packages : (j < i.k => Done(i, j, s[j])) /\ (j > i.k => Untouched(i, j, s[j]))
    /\ i.at \in {"rollback", "restore"} =>
        /\ i.k \in Packages
        /\ \A j \in Packages : (j <= i.k => Touched(i, j, s[j])) /\ (j > i.k => Untouched(i, j, s[j]))
    /\ i.at = "restore" => i.k \notin i.committed
    /\ i.at = "cleanup" => i.k \in Packages
    /\ i.at \in {"cleanup", "done"} => \A j \in Packages : Done(i, j, s[j])
    /\ i.at = "failed" => \A j \in Packages : Untouched(i, j, s[j])

Receipted(i, rc) ==
    i.at \in {"cleanup", "done"} => \A k \in Packages : rc[k] = IF Removal(i, k) THEN 0 ELSE i.release

InstallTyped ==
    /\ skill \in [Packages -> Contents] /\ skillReceipt \in [Packages -> 0 .. Releases]
    /\ keptSkills \in [Packages -> SUBSET (Contents \ {0})]
    /\ skillLock \in Installers \cup {NoInstaller} /\ install \in [Installers -> Installs]
    /\ mine \in [Packages -> Contents] /\ skillEdits \in 0 .. MaxSkillEdits /\ installFaults \in 0 .. InstallFaults

InstallInv ==
    /\ InstallTyped
    /\ \A p \in Installers : Standing(install[p], skill) /\ Receipted(install[p], skillReceipt)
    /\ \A p \in Installers : skillLock = p <=> install[p].at \notin {"idle", "lock"}
    /\ \A k \in Packages : mine[k] # 0 =>
        /\ Own(mine[k])
        /\ mine[k] \in keptSkills[k] \/ (mine[k] = skill[k] /\ \A p \in Installers : k \notin install[p].committed)

(* What a step of p leaves of the user's edits, and of the lock.              *)
EditsKept(p, i) ==
    \A k \in Packages : mine[k] # 0 =>
        \/ mine[k] \in keptSkills'[k]
        \/ mine[k] = skill'[k] /\ k \notin i.committed /\ \A q \in Installers \ {p} : k \notin install[q].committed

InstallLockFollows(p, i) ==
    \/ i.at \notin {"idle", "lock"} /\ skillLock' = p /\ skillLock \in {p, NoInstaller}
    \/ i.at \in {"idle", "lock"} /\ skillLock' = NoInstaller /\ skillLock = p
    \/ i.at \in {"idle", "lock"} /\ skillLock' = skillLock /\ skillLock # p

LEMMA ContentFacts ==
    /\ Shipped \cup {0} = 0 .. Releases /\ 0 .. Releases \subseteq Contents /\ Shipped \subseteq Contents
    /\ 0 \in Contents /\ 1 \in Shipped /\ NoInstaller \notin Installers /\ Running \subseteq Shipped
    /\ LegacySkills \subseteq Packages /\ Packages \subseteq Nat /\ 1 \in Packages /\ Skills \in Packages
    /\ 0 \notin Shipped
    BY InstallAssumption DEF Shipped, Contents, Packages

LEMMA NoInstallTyped ==
    /\ NoInstall \in Installs /\ NoInstall.at = "idle" /\ NoInstall.k = 1
    /\ NoInstall.committed = {} /\ NoInstall.aside = NoPackages
<1>1. NoPackages \in [Packages -> Contents] /\ NoPackages \in [Packages -> 0 .. Releases]
    BY ContentFacts, InstallAssumption DEF NoPackages
<1>2. 1 \in Shipped /\ 1 \in 0 .. Skills + 1
    BY ContentFacts, InstallAssumption
<1> QED
    BY <1>1, <1>2 DEF NoInstall, Installs

LEMMA SkillInvSafe == ASSUME InstallInv PROVE SkillsAreKept
<1>1. InstallTypeOK
    <2>1. \A p \in Installers :
            install[p].at \in {"idle", "lock", "validate", "move", "commit", "rollback", "restore", "cleanup", "done", "refused", "failed", "partial"}
        BY DEF InstallInv, InstallTyped, Installs
    <2> QED
        BY <2>1 DEF InstallInv, InstallTyped, InstallTypeOK
<1>2. \A k \in Packages : mine[k] # 0 => mine[k] \in {skill[k]} \cup keptSkills[k]
    BY DEF InstallInv
<1>3. ASSUME NEW p \in Installers, NEW k \in Packages
      PROVE  /\ At(p, "failed") => skill[k] = install[p].before[k] \/ skill[k] \notin Shipped \cup {0}
             /\ At(p, "done") =>
                /\ skill[k] = (IF Removes(p, k) THEN 0 ELSE install[p].release) \/ skill[k] \notin Shipped \cup {0}
                /\ skillReceipt[k] = IF Removes(p, k) THEN 0 ELSE install[p].release
    <2>1. Standing(install[p], skill) /\ Receipted(install[p], skillReceipt)
        BY DEF InstallInv
    <2>2. Removal(install[p], k) <=> Removes(p, k)
        BY DEF Removal, Removes
    <2>3. At(p, "failed") => Untouched(install[p], k, skill[k])
        BY <2>1 DEF Standing, At
    <2>4. At(p, "done") => Done(install[p], k, skill[k])
        BY <2>1 DEF Standing, At
    <2>5. At(p, "done") => skillReceipt[k] = IF Removes(p, k) THEN 0 ELSE install[p].release
        BY <2>1, <2>2 DEF Receipted, At
    <2> QED
        BY <2>2, <2>3, <2>4, <2>5 DEF Untouched, Done, Gone, Replaced, Own
<1> QED
    BY <1>1, <1>2, <1>3 DEF SkillsAreKept

(* Only the holder of the lock has made something of a package.               *)
LEMMA InstallerFacts ==
    ASSUME InstallInv, NEW p \in Installers
    PROVE  /\ install[p] \in Installs /\ Standing(install[p], skill) /\ Receipted(install[p], skillReceipt)
           /\ (skillLock = p <=> install[p].at \notin {"idle", "lock"}) /\ p # NoInstaller
           /\ skillLock = p => \A q \in Installers \ {p} : install[q].at \in {"idle", "lock"} /\ install[q].committed = {}
<1>1. \A q \in Installers : /\ skillLock = q <=> install[q].at \notin {"idle", "lock"}
                            /\ install[q].at \in {"idle", "lock"} => install[q].committed = {}
    BY DEF InstallInv, Standing
<1> QED
    BY <1>1, ContentFacts DEF InstallInv, InstallTyped

LEMMA InstallStepKeeps ==
    ASSUME InstallInv, NEW p \in Installers, NEW i \in Installs, install' = [install EXCEPT ![p] = i],
           skill' \in [Packages -> Contents], skillReceipt' \in [Packages -> 0 .. Releases],
           keptSkills' \in [Packages -> SUBSET (Contents \ {0})],
           NoInstallFault \/ InstallFault, UNCHANGED <<mine, skillEdits>>,
           skillLock = p \/ UNCHANGED <<skill, skillReceipt>>,
           Standing(i, skill'), Receipted(i, skillReceipt'), EditsKept(p, i), InstallLockFollows(p, i)
    PROVE  InstallInv'
<1>1. /\ install' \in [Installers -> Installs] /\ install'[p] = i
      /\ \A q \in Installers : q # p => install'[q] = install[q]
    BY DEF InstallInv, InstallTyped
<1>2. /\ NoInstaller \notin Installers /\ skillLock \in Installers \cup {NoInstaller}
      /\ \A q \in Installers : skillLock = q <=> install[q].at \notin {"idle", "lock"}
    BY ContentFacts DEF InstallInv, InstallTyped
<1>3. skillLock' \in Installers \cup {NoInstaller} /\ \A q \in Installers : skillLock' = q <=> install'[q].at \notin {"idle", "lock"}
    BY <1>1, <1>2 DEF InstallLockFollows
<1>4. installFaults' \in 0 .. InstallFaults
    BY InstallAssumption DEF InstallInv, InstallTyped, NoInstallFault, InstallFault
<1>5. InstallTyped'
    BY <1>1, <1>3, <1>4 DEF InstallTyped, InstallInv
<1>6. ASSUME NEW q \in Installers PROVE Standing(install'[q], skill') /\ Receipted(install'[q], skillReceipt')
    <2>1. CASE q = p
        BY <1>1, <2>1
    <2>2. CASE q # p /\ skillLock # p
        BY <1>1, <2>2 DEF InstallInv
    <2>3. CASE q # p /\ skillLock = p
        <3>1. install[q].at \in {"idle", "lock"} /\ Standing(install[q], skill) /\ install'[q] = install[q]
            BY <1>1, <1>2, <2>3 DEF InstallInv
        <3> QED
            BY <3>1 DEF Standing, Receipted
    <2> QED
        BY <2>1, <2>2, <2>3
<1>7. ASSUME NEW k \in Packages, mine[k] # 0
      PROVE  /\ Own(mine[k])
             /\ mine[k] \in keptSkills'[k] \/ (mine[k] = skill'[k] /\ \A q \in Installers : k \notin install'[q].committed)
    BY <1>1, <1>7 DEF InstallInv, EditsKept
<1> QED
    BY <1>3, <1>5, <1>6, <1>7 DEF InstallInv

(* A step that changes neither a package nor the receipt.                     *)
LEMMA InstallQuietKeeps ==
    ASSUME InstallInv, NEW p \in Installers, NEW i \in Installs, install' = [install EXCEPT ![p] = i],
           UNCHANGED <<skill, skillReceipt, keptSkills, mine, skillEdits>>, NoInstallFault \/ InstallFault,
           i.committed \subseteq install[p].committed, Standing(i, skill), Receipted(i, skillReceipt), InstallLockFollows(p, i)
    PROVE  InstallInv'
<1>1. EditsKept(p, i)
    BY DEF EditsKept, InstallInv
<1>2. /\ skill' \in [Packages -> Contents] /\ skillReceipt' \in [Packages -> 0 .. Releases]
      /\ keptSkills' \in [Packages -> SUBSET (Contents \ {0})]
    BY DEF InstallInv, InstallTyped
<1>3. Standing(i, skill') /\ Receipted(i, skillReceipt') /\ (skillLock = p \/ UNCHANGED <<skill, skillReceipt>>)
    OBVIOUS
<1> QED
    BY <1>1, <1>2, <1>3, InstallStepKeeps

LEMMA AbandonKeeps ==
    ASSUME InstallInv, NEW p \in Installers, install' = [install EXCEPT ![p] = NoInstall],
           UNCHANGED <<skill, skillReceipt, keptSkills, mine, skillEdits>>, NoInstallFault \/ InstallFault,
           skillLock' = IF skillLock = p THEN NoInstaller ELSE skillLock
    PROVE  InstallInv'
<1>1. Standing(NoInstall, skill) /\ Receipted(NoInstall, skillReceipt)
    BY NoInstallTyped DEF Standing, Receipted
<1>2. InstallLockFollows(p, NoInstall) /\ NoInstall.committed \subseteq install[p].committed
    BY NoInstallTyped DEF InstallLockFollows
<1> QED
    BY <1>1, <1>2, NoInstallTyped, InstallQuietKeeps

(* The command of p goes on at another step.                                  *)
Moved(p, i, at, k) ==
    /\ install' = [install EXCEPT ![p] = i] /\ i.at = at /\ i.k = k
    /\ i.op = install[p].op /\ i.release = install[p].release /\ i.before = install[p].before

LEMMA StepMoves ==
    ASSUME InstallInv, NEW p \in Installers, NEW at \in {"validate", "move", "rollback", "restore", "refused", "partial"},
           Step(p, at)
    PROVE  \E i \in Installs :
            Moved(p, i, at, install[p].k) /\ i.aside = install[p].aside /\ i.committed = install[p].committed
<1> DEFINE i == [install[p] EXCEPT !.at = at]
<1>1. /\ i \in Installs /\ install' = [install EXCEPT ![p] = i] /\ i.at = at /\ i.k = install[p].k
      /\ i.op = install[p].op /\ i.release = install[p].release /\ i.before = install[p].before
      /\ i.aside = install[p].aside /\ i.committed = install[p].committed
    BY InstallerFacts DEF Step, Installs
<1> HIDE DEF i
<1> QED
    BY <1>1 DEF Moved

(* A step of the holder that changes no file.                                 *)
LEMMA HolderQuietKeeps ==
    ASSUME InstallInv, NEW p \in Installers, skillLock = p, NEW i \in Installs, install' = [install EXCEPT ![p] = i],
           i.at \notin {"idle", "lock", "cleanup", "done"}, i.committed = install[p].committed,
           UNCHANGED <<skill, skillReceipt, keptSkills, skillLock, mine, skillEdits>>,
           NoInstallFault \/ InstallFault, Standing(i, skill)
    PROVE  InstallInv'
<1>1. Receipted(i, skillReceipt) /\ InstallLockFollows(p, i)
    BY DEF Receipted, InstallLockFollows
<1> QED
    BY <1>1, InstallQuietKeeps

LEMMA SamePackage ==
    ASSUME NEW i, NEW n, n.op = i.op, n.release = i.release, n.before = i.before,
           NEW j, n.aside[j] = i.aside[j], j \in n.committed <=> j \in i.committed, NEW c
    PROVE  /\ Removal(n, j) <=> Removal(i, j)
           /\ Untouched(n, j, c) <=> Untouched(i, j, c)
           /\ Gone(n, j, c) <=> Gone(i, j, c)
           /\ Done(n, j, c) <=> Done(i, j, c)
           /\ Touched(n, j, c) <=> Touched(i, j, c)
    BY DEF Removal, Untouched, Gone, Replaced, Taken, Done, Touched

LEMMA Order ==
    ASSUME NEW j \in Packages, NEW k \in Packages
    PROVE  /\ j < k + 1 <=> j < k \/ j = k
           /\ j >= k + 1 <=> j > k
           /\ j <= k - 1 <=> j < k
           /\ j > k - 1 <=> j >= k
           /\ j >= k <=> j > k \/ j = k
           /\ j <= k <=> j < k \/ j = k
           /\ j # k => j < k \/ j > k
           /\ ~(j = k /\ (j < k \/ j > k))
    BY DEF Packages

LEMMA DoneTouched == ASSUME NEW i, NEW j, NEW c, Done(i, j, c) \/ Untouched(i, j, c) \/ Gone(i, j, c) PROVE Touched(i, j, c)
    BY DEF Done, Touched

-----------------------------------------------------------------------------
(* One lemma per action.                                                      *)

LEMMA PlanKeeps ==
    ASSUME InstallInv, NEW p \in Installers, NEW op \in {"install", "uninstall"}, NEW release \in Running,
           Plan(p, op, release)
    PROVE  InstallInv'
<1> DEFINE i == [NoInstall EXCEPT !.op = op, !.at = "lock", !.release = release, !.before = skill, !.owned = skillReceipt]
<1>1. /\ install[p].at = "idle" /\ install' = [install EXCEPT ![p] = i] /\ NoInstallFault
      /\ UNCHANGED <<skill, keptSkills, skillReceipt, skillLock, mine, skillEdits>>
    BY DEF Plan, At, NoInstallFault
<1>2. release \in Shipped /\ skill \in [Packages -> Contents] /\ skillReceipt \in [Packages -> 0 .. Releases]
    BY ContentFacts DEF InstallInv, InstallTyped
<1>3. i \in Installs /\ i.at = "lock" /\ i.committed = {} /\ i.aside = NoPackages /\ i.k = 1
    BY <1>2, NoInstallTyped DEF Installs
<1> HIDE DEF i
<1>4. Standing(i, skill) /\ Receipted(i, skillReceipt)
    BY <1>3 DEF Standing, Receipted
<1>5. InstallLockFollows(p, i)
    BY <1>1, <1>3, InstallerFacts DEF InstallLockFollows
<1> QED
    BY <1>1, <1>3, <1>4, <1>5, InstallQuietKeeps

LEMMA LockPackagesKeeps == ASSUME InstallInv, NEW p \in Installers, LockPackages(p) PROVE InstallInv'
<1>1. /\ install[p].at = "lock" /\ NoInstallFault
      /\ UNCHANGED <<skill, keptSkills, skillReceipt, mine, skillEdits>>
    BY DEF LockPackages, At, NoInstallFault
<1>2. install[p] \in Installs /\ Standing(install[p], skill) /\ skillLock # p
    BY <1>1, InstallerFacts
<1>3. CASE skillLock = NoInstaller /\ Step(p, "validate") /\ skillLock' = p
    <2> DEFINE i == [install[p] EXCEPT !.at = "validate"]
    <2>1. install' = [install EXCEPT ![p] = i] /\ i \in Installs /\ i.at = "validate" /\ i.k = install[p].k
          /\ i.committed = install[p].committed /\ i.aside = install[p].aside
        BY <1>2, <1>3 DEF Step, Installs
    <2> HIDE DEF i
    <2>2. Standing(i, skill) /\ Receipted(i, skillReceipt) /\ InstallLockFollows(p, i)
        BY <1>1, <1>2, <1>3, <2>1 DEF Standing, Receipted, InstallLockFollows
    <2> QED
        BY <1>1, <2>1, <2>2, InstallQuietKeeps
<1>4. CASE install' = [install EXCEPT ![p] = NoInstall] /\ UNCHANGED skillLock
    BY <1>1, <1>2, <1>4, AbandonKeeps
<1> QED
    BY <1>3, <1>4 DEF LockPackages

LEMMA ValidatePackagesKeeps == ASSUME InstallInv, NEW p \in Installers, ValidatePackages(p) PROVE InstallInv'
<1>1. /\ install[p].at = "validate" /\ UNCHANGED <<skill, skillReceipt, keptSkills, skillLock, mine, skillEdits>>
      /\ \/ NoInstallFault /\ skill = install[p].before /\ Step(p, "move")
         \/ (NoInstallFault \/ InstallFault) /\ Step(p, "refused")
    BY DEF ValidatePackages, At
<1>2. /\ Standing(install[p], skill) /\ install[p].committed = {} /\ install[p].aside = NoPackages /\ skillLock = p
    BY <1>1, InstallerFacts DEF Standing
<1>3. CASE NoInstallFault /\ skill = install[p].before /\ Step(p, "move")
    <2>1. install[p].k = 1
        BY <1>1, <1>2 DEF Standing
    <2>2. PICK i \in Installs : Moved(p, i, "move", 1) /\ i.aside = NoPackages /\ i.committed = {}
        BY <1>2, <1>3, <2>1, StepMoves
    <2>3. \A j \in Packages : j >= 1 /\ ~(j < 1) /\ Untouched(i, j, skill[j])
        BY <1>3, <2>2 DEF Moved, Untouched, NoPackages, Packages
    <2>4. 1 \in 1 .. Skills + 1
        BY InstallAssumption
    <2>5. Standing(i, skill)
        BY <2>2, <2>3, <2>4 DEF Standing, Moved
    <2> QED
        BY <1>1, <1>2, <1>3, <2>2, <2>5, HolderQuietKeeps DEF Moved
<1>4. CASE (NoInstallFault \/ InstallFault) /\ Step(p, "refused")
    <2>1. PICK i \in Installs : Moved(p, i, "refused", install[p].k) /\ i.aside = NoPackages /\ i.committed = {}
        BY <1>2, <1>4, StepMoves
    <2>2. install[p].k = 1
        BY <1>1, <1>2 DEF Standing
    <2>3. Standing(i, skill)
        BY <2>1, <2>2 DEF Standing, Moved
    <2> QED
        BY <1>1, <1>2, <1>4, <2>1, <2>3, HolderQuietKeeps DEF Moved
<1> QED
    BY <1>1, <1>3, <1>4

(* A plan that goes no further begins to be taken back.                       *)
LEMMA RollbackStands ==
    ASSUME InstallInv, NEW p \in Installers, install[p].at \in {"move", "commit"}, install[p].k \in Packages,
           Step(p, "rollback"), UNCHANGED <<skill, skillReceipt, keptSkills, skillLock, mine, skillEdits>>,
           NoInstallFault \/ InstallFault
    PROVE  InstallInv'
<1> DEFINE k == install[p].k
<1>1. /\ Standing(install[p], skill) /\ skillLock = p /\ k \in Nat
    BY InstallerFacts, ContentFacts
<1>2. PICK i \in Installs : Moved(p, i, "rollback", k) /\ i.aside = install[p].aside /\ i.committed = install[p].committed
    BY StepMoves
<1>3. \A j \in Packages : (j <= k => Touched(install[p], j, skill[j])) /\ (j > k => Untouched(install[p], j, skill[j]))
    <2> SUFFICES ASSUME NEW j \in Packages
                 PROVE  (j <= k => Touched(install[p], j, skill[j])) /\ (j > k => Untouched(install[p], j, skill[j]))
        OBVIOUS
    <2>1. /\ j < k => Done(install[p], j, skill[j])
          /\ j > k => Untouched(install[p], j, skill[j])
          /\ j = k => Untouched(install[p], j, skill[j]) \/ Gone(install[p], j, skill[j])
        BY <1>1, ContentFacts DEF Standing
    <2> QED
        BY <1>1, <2>1, DoneTouched, ContentFacts
<1>4. \A j \in Packages : (j <= k => Touched(i, j, skill[j])) /\ (j > k => Untouched(i, j, skill[j]))
    BY <1>2, <1>3, SamePackage DEF Moved
<1>5. Standing(i, skill)
    BY <1>2, <1>4 DEF Standing, Moved
<1> QED
    BY <1>1, <1>2, <1>5, HolderQuietKeeps DEF Moved

LEMMA SkipPackageKeeps == ASSUME InstallInv, NEW p \in Installers, SkipPackage(p) PROVE InstallInv'
<1> DEFINE k == install[p].k
           i == [install[p] EXCEPT !.at = "move", !.k = k + 1]
<1>1. /\ install[p].at = "move" /\ k \in Packages /\ Skips(p, k) /\ NoInstallFault
      /\ UNCHANGED <<skill, skillReceipt, keptSkills, skillLock, mine, skillEdits>>
    BY DEF SkipPackage, At, NoInstallFault
<1>2. install[p] \in Installs /\ Standing(install[p], skill) /\ skillLock = p
    BY <1>1, InstallerFacts
<1>3. k + 1 \in 0 .. Skills + 1 /\ k + 1 \in 1 .. Skills + 1 /\ k \in Nat
    BY <1>1, InstallAssumption DEF Packages
<1>4. /\ i \in Installs /\ i.at = "move" /\ i.k = k + 1 /\ i.op = install[p].op /\ i.release = install[p].release
      /\ i.before = install[p].before /\ i.aside = install[p].aside /\ i.committed = install[p].committed
    BY <1>2, <1>3 DEF Installs
<1>5. install' = [install EXCEPT ![p] = i]
    BY DEF SkipPackage, Next1
<1> HIDE DEF i
<1>6. Done(install[p], k, skill[k])
    <2>1. Untouched(install[p], k, skill[k])
        BY <1>1, <1>2, <1>3 DEF Standing
    <2> QED
        BY <1>1, <2>1 DEF Done, Skips, Removes, Removal
<1>7. \A j \in Packages : (j < k + 1 => Done(install[p], j, skill[j])) /\ (j >= k + 1 => Untouched(install[p], j, skill[j]))
    BY <1>1, <1>2, <1>3, <1>6, ContentFacts DEF Standing
<1>8. \A j \in Packages : (j < k + 1 => Done(i, j, skill[j])) /\ (j >= k + 1 => Untouched(i, j, skill[j]))
    BY <1>4, <1>7, SamePackage
<1>9. Standing(i, skill)
    BY <1>3, <1>4, <1>8 DEF Standing
<1> QED
    BY <1>1, <1>2, <1>4, <1>5, <1>9, HolderQuietKeeps

(* A step of the holder that changes package k and what it has made of it.    *)
LEMMA PackageStepKeeps ==
    ASSUME InstallInv, NEW p \in Installers, skillLock = p, NEW k \in Packages, NEW i \in Installs,
           install' = [install EXCEPT ![p] = i], i.at \notin {"idle", "lock"}, UNCHANGED <<skillReceipt, skillLock, mine, skillEdits>>,
           NoInstallFault \/ InstallFault, NEW content \in Contents, skill' = [skill EXCEPT ![k] = content],
           NEW Kp \in SUBSET (Contents \ {0}), keptSkills' = [keptSkills EXCEPT ![k] = Kp],
           \A j \in Packages \ {k} : j \in i.committed <=> j \in install[p].committed,
           mine[k] # 0 => mine[k] \in Kp \/ (mine[k] = content /\ k \notin i.committed),
           Standing(i, skill'), Receipted(i, skillReceipt)
    PROVE  InstallInv'
<1>1. /\ skill \in [Packages -> Contents] /\ keptSkills \in [Packages -> SUBSET (Contents \ {0})]
      /\ skillReceipt \in [Packages -> 0 .. Releases]
    BY DEF InstallInv, InstallTyped
<1>2. /\ skill' \in [Packages -> Contents] /\ keptSkills' \in [Packages -> SUBSET (Contents \ {0})]
      /\ skill'[k] = content /\ keptSkills'[k] = Kp
      /\ \A j \in Packages : j # k => skill'[j] = skill[j] /\ keptSkills'[j] = keptSkills[j]
    BY <1>1
<1>3. EditsKept(p, i)
    <2> SUFFICES ASSUME NEW j \in Packages, mine[j] # 0
                 PROVE  \/ mine[j] \in keptSkills'[j]
                        \/ mine[j] = skill'[j] /\ j \notin i.committed /\ \A q \in Installers \ {p} : j \notin install[q].committed
        BY DEF EditsKept
    <2>1. CASE j = k
        BY <1>2, <2>1, InstallerFacts
    <2>2. CASE j # k
        BY <1>2, <2>2 DEF InstallInv
    <2> QED
        BY <2>1, <2>2
<1>4. InstallLockFollows(p, i)
    BY DEF InstallLockFollows
<1>5. /\ skillReceipt' \in [Packages -> 0 .. Releases] /\ Receipted(i, skillReceipt')
    BY <1>1
<1> QED
    BY <1>2, <1>3, <1>4, <1>5, InstallStepKeeps

(* What is known of the package a plan has come to.                           *)
LEMMA PackageFacts ==
    ASSUME InstallInv, NEW k \in Packages
    PROVE  /\ skill[k] \in Contents /\ keptSkills[k] \in SUBSET (Contents \ {0}) /\ skill \in [Packages -> Contents]
           /\ keptSkills \in [Packages -> SUBSET (Contents \ {0})]
           /\ k \in Nat /\ k \in 0 .. Skills + 1 /\ k + 1 \in 0 .. Skills + 1 /\ k + 1 \in 1 .. Skills + 1
           /\ mine[k] # 0 => Own(mine[k])
    BY InstallAssumption DEF InstallInv, InstallTyped, Packages

LEMMA MoveAsideKeeps == ASSUME InstallInv, NEW p \in Installers, MoveAside(p) PROVE InstallInv'
<1> DEFINE k == install[p].k
           B == install[p].before[k]
           at == IF ~Unedited(p, k) THEN "rollback" ELSE IF Removes(p, k) THEN "move" ELSE "commit"
           n == IF Unedited(p, k) /\ Removes(p, k) THEN k + 1 ELSE k
           i == [install[p] EXCEPT !.aside[k] = skill[k], !.at = at, !.k = n]
<1>1. /\ install[p].at = "move" /\ k \in Packages /\ B # 0 /\ UNCHANGED <<skillReceipt, skillLock, mine, skillEdits>>
    BY DEF MoveAside, At
<1>2. /\ install[p] \in Installs /\ Standing(install[p], skill) /\ skillLock = p
    BY <1>1, InstallerFacts
<1>3. CASE InstallFault /\ Step(p, "rollback") /\ UNCHANGED <<skill, keptSkills>>
    BY <1>1, <1>3, RollbackStands
<1>4. CASE /\ NoInstallFault /\ skill' = [skill EXCEPT ![k] = 0]
           /\ keptSkills' = [keptSkills EXCEPT ![k] = keptSkills[k] \cup {skill[k]}]
           /\ install' = [install EXCEPT ![p].aside[k] = skill[k], ![p].at = at, ![p].k = n]
    <2>1. Untouched(install[p], k, skill[k])
        BY <1>1, <1>2, PackageFacts DEF Standing
    <2>2. skill[k] # 0 /\ skill[k] \in Contents /\ (skill[k] = B \/ Own(skill[k]))
        BY <1>1, <2>1, PackageFacts DEF Untouched, Own
    <2>3. n \in 0 .. Skills + 1 /\ (n = k \/ n = k + 1) /\ at \in {"move", "commit", "rollback"}
        BY <1>1, PackageFacts
    <2>4. /\ at = "rollback" => skill[k] # B /\ n = k
          /\ at = "move" => skill[k] = B /\ Removes(p, k) /\ n = k + 1
          /\ at = "commit" => skill[k] = B /\ ~Removes(p, k) /\ n = k
        BY DEF Unedited
    <2>5. install' = [install EXCEPT ![p] = i]
        BY <1>4
    <2> HIDE DEF n, at
    <2>6. /\ i \in Installs /\ i.at = at /\ i.k = n /\ i.op = install[p].op /\ i.release = install[p].release
          /\ i.before = install[p].before /\ i.committed = install[p].committed
          /\ i.aside = [install[p].aside EXCEPT ![k] = skill[k]]
        BY <1>2, <2>2, <2>3 DEF Installs
    <2> HIDE DEF i
    <2>7. i.aside[k] = skill[k] /\ \A j \in Packages : j # k => i.aside[j] = install[p].aside[j]
        BY <1>1, <1>2, <2>6 DEF Installs
    <2>8. skill'[k] = 0 /\ \A j \in Packages : j # k => skill'[j] = skill[j]
        BY <1>1, <1>4, PackageFacts
    <2>9. /\ skill[k] = B => Gone(i, k, skill'[k]) /\ (Removes(p, k) => Done(i, k, skill'[k]))
          /\ skill[k] # B => Taken(i, k, skill'[k])
        BY <1>1, <2>1, <2>2, <2>6, <2>7, <2>8 DEF Gone, Done, Taken, Untouched, Removal, Removes
    <2>10. \A j \in Packages :
            /\ j < k => Done(i, j, skill'[j]) /\ Touched(i, j, skill'[j])
            /\ j > k => Untouched(i, j, skill'[j])
        <3> SUFFICES ASSUME NEW j \in Packages
                     PROVE  /\ j < k => Done(i, j, skill'[j]) /\ Touched(i, j, skill'[j])
                            /\ j > k => Untouched(i, j, skill'[j])
            OBVIOUS
        <3>1. /\ j < k => Done(install[p], j, skill[j])
              /\ j > k => Untouched(install[p], j, skill[j])
            BY <1>1, <1>2, ContentFacts DEF Standing
        <3>2. CASE j # k
            BY <2>6, <2>7, <2>8, <3>1, <3>2, SamePackage, DoneTouched
        <3> QED
            BY <3>2, <1>1, ContentFacts
    <2>11. Standing(i, skill')
        <3>1. CASE at = "rollback"
            <4>1. \A j \in Packages : (j <= k => Touched(i, j, skill'[j])) /\ (j > k => Untouched(i, j, skill'[j]))
                BY <1>1, <2>4, <2>9, <2>10, <3>1, Order DEF Touched
            <4> QED
                BY <1>1, <2>4, <2>6, <3>1, <4>1 DEF Standing
        <3>2. CASE at = "move"
            <4>1. \A j \in Packages : (j < k + 1 => Done(i, j, skill'[j])) /\ (j >= k + 1 => Untouched(i, j, skill'[j]))
                BY <1>1, <2>4, <2>9, <2>10, <3>2, Order
            <4> QED
                BY <1>1, <2>4, <2>6, <3>2, <4>1, PackageFacts DEF Standing
        <3>3. CASE at = "commit"
            <4>1. ~Removal(i, k) /\ Gone(i, k, skill'[k])
                BY <2>4, <2>6, <2>9, <3>3 DEF Removal, Removes
            <4> QED
                BY <1>1, <2>4, <2>6, <2>10, <3>3, <4>1 DEF Standing
        <3> QED
            BY <2>3, <3>1, <3>2, <3>3
    <2>12. keptSkills[k] \cup {skill[k]} \in SUBSET (Contents \ {0})
        BY <1>1, <2>2, PackageFacts
    <2>13. mine[k] # 0 => mine[k] \in keptSkills[k] \cup {skill[k]}
        BY <1>1 DEF InstallInv
    <2>14. Receipted(i, skillReceipt) /\ i.at \notin {"idle", "lock"} /\ 0 \in Contents
        BY <2>3, <2>6, ContentFacts DEF Receipted
    <2> QED
        BY <1>1, <1>2, <1>4, <2>5, <2>6, <2>11, <2>12, <2>13, <2>14, PackageStepKeeps
<1> QED
    BY <1>3, <1>4 DEF MoveAside

LEMMA CommitPackageKeeps == ASSUME InstallInv, NEW p \in Installers, CommitPackage(p) PROVE InstallInv'
<1> DEFINE k == install[p].k
           R == install[p].release
           i == [install[p] EXCEPT !.committed = install[p].committed \cup {k}, !.at = "move", !.k = k + 1]
<1>1. /\ k \in Packages /\ Commits(p, k) /\ install[p].at \in {"move", "commit"}
      /\ UNCHANGED <<keptSkills, skillReceipt, skillLock, mine, skillEdits>>
    BY DEF CommitPackage, Commits, At
<1>2. /\ install[p] \in Installs /\ Standing(install[p], skill) /\ skillLock = p
    BY <1>1, InstallerFacts
<1>3. CASE (NoInstallFault \/ InstallFault) /\ Step(p, "rollback") /\ UNCHANGED skill
    BY <1>1, <1>3, RollbackStands
<1>4. CASE /\ NoInstallFault /\ skill[k] = 0 /\ skill' = [skill EXCEPT ![k] = R]
           /\ install' = [install EXCEPT ![p].committed = install[p].committed \cup {k}, ![p].at = "move", ![p].k = k + 1]
    <2>1. install[p].aside[k] = install[p].before[k] /\ ~Removal(install[p], k)
        <3>1. CASE install[p].at = "commit"
            BY <1>2, <3>1 DEF Standing, Gone
        <3>2. CASE install[p].at = "move"
            <4>1. ~Removal(install[p], k) /\ install[p].before[k] = 0
                BY <1>1, <3>2 DEF Commits, At, Removal, Removes
            <4>2. Untouched(install[p], k, skill[k])
                BY <1>1, <1>2, <3>2, PackageFacts DEF Standing
            <4> QED
                BY <4>1, <4>2 DEF Untouched
        <3> QED
            BY <1>1, <3>1, <3>2
    <2>2. install' = [install EXCEPT ![p] = i]
        BY <1>4
    <2>3. /\ i \in Installs /\ i.at = "move" /\ i.k = k + 1 /\ i.op = install[p].op /\ i.release = R
          /\ i.before = install[p].before /\ i.committed = install[p].committed \cup {k} /\ i.aside = install[p].aside
        BY <1>1, <1>2, PackageFacts DEF Installs
    <2> HIDE DEF i
    <2>4. R \in Contents
        BY <1>2, ContentFacts DEF Installs
    <2>5. skill'[k] = R /\ \A j \in Packages : j # k => skill'[j] = skill[j]
        BY <1>1, <1>4, PackageFacts
    <2>6. Done(i, k, skill'[k])
        BY <2>1, <2>3, <2>5 DEF Done, Replaced, Removal
    <2>7. \A j \in Packages : (j < k + 1 => Done(i, j, skill'[j])) /\ (j >= k + 1 => Untouched(i, j, skill'[j]))
        <3> SUFFICES ASSUME NEW j \in Packages, j # k
                     PROVE  (j < k => Done(i, j, skill'[j])) /\ (j > k => Untouched(i, j, skill'[j]))
            BY <1>1, <2>6, Order
        <3>1. /\ j < k => Done(install[p], j, skill[j])
              /\ j > k => Untouched(install[p], j, skill[j])
            BY <1>1, <1>2, ContentFacts DEF Standing
        <3> QED
            BY <2>3, <2>5, <3>1, SamePackage
    <2>8. Standing(i, skill')
        BY <1>1, <2>3, <2>7, PackageFacts DEF Standing
    <2>9. mine[k] # 0 => mine[k] \in keptSkills[k]
        BY <1>1, <1>4 DEF InstallInv
    <2>10. keptSkills' = [keptSkills EXCEPT ![k] = keptSkills[k]] /\ keptSkills[k] \in SUBSET (Contents \ {0})
        BY <1>1, PackageFacts
    <2>11. Receipted(i, skillReceipt) /\ i.at \notin {"idle", "lock"}
        BY <2>3 DEF Receipted
    <2>12. \A j \in Packages \ {k} : j \in i.committed <=> j \in install[p].committed
        BY <2>3
    <2>13. mine[k] # 0 => mine[k] \in keptSkills[k] \/ (mine[k] = R /\ k \notin i.committed)
        BY <2>9
    <2> HIDE DEF k, R
    <2> QED
        BY <1>1, <1>2, <1>4, <2>2, <2>3, <2>4, <2>8, <2>10, <2>11, <2>12, <2>13, PackageStepKeeps
<1> QED
    BY <1>3, <1>4 DEF CommitPackage

LEMMA WriteReceiptKeeps == ASSUME InstallInv, NEW p \in Installers, WriteReceipt(p) PROVE InstallInv'
<1>1. /\ install[p].at = "move" /\ install[p].k = Skills + 1 /\ UNCHANGED <<skill, keptSkills, skillLock, mine, skillEdits>>
    BY DEF WriteReceipt, At
<1>2. /\ install[p] \in Installs /\ Standing(install[p], skill) /\ skillLock = p
    BY <1>1, InstallerFacts
<1>3. \A j \in Packages : Done(install[p], j, skill[j])
    BY <1>1, <1>2, InstallAssumption DEF Standing, Packages
<1>4. /\ 1 \in Packages /\ Skills \in Packages /\ 1 \in 0 .. Skills + 1 /\ Skills \in 0 .. Skills + 1
      /\ \A j \in Packages : j <= Skills /\ ~(j > Skills)
    BY InstallAssumption DEF Packages
<1>5. CASE /\ NoInstallFault /\ install' = [install EXCEPT ![p].at = "cleanup", ![p].k = 1]
           /\ skillReceipt' = [k \in Packages |-> IF Removes(p, k) THEN 0 ELSE install[p].release]
    <2> DEFINE i == [install[p] EXCEPT !.at = "cleanup", !.k = 1]
    <2>1. install' = [install EXCEPT ![p] = i]
        BY <1>5
    <2>2. /\ i \in Installs /\ i.at = "cleanup" /\ i.k = 1 /\ i.op = install[p].op /\ i.release = install[p].release
          /\ i.before = install[p].before /\ i.committed = install[p].committed /\ i.aside = install[p].aside
        BY <1>2, <1>4 DEF Installs
    <2> HIDE DEF i
    <2>3. \A j \in Packages : Done(i, j, skill[j])
        BY <1>3, <2>2, SamePackage
    <2>4. Standing(i, skill')
        BY <1>1, <1>4, <2>2, <2>3 DEF Standing
    <2>5. Receipted(i, skillReceipt')
        BY <1>5, <2>2 DEF Receipted, Removal, Removes
    <2>6. skillReceipt' \in [Packages -> 0 .. Releases]
        <3>1. install[p].release \in 0 .. Releases /\ 0 \in 0 .. Releases
            BY <1>2, InstallAssumption DEF Installs, Shipped
        <3> QED
            BY <1>5, <3>1
    <2>7. EditsKept(p, i) /\ InstallLockFollows(p, i)
        BY <1>1, <1>2, <2>2 DEF EditsKept, InstallLockFollows, InstallInv
    <2>8. skill' \in [Packages -> Contents] /\ keptSkills' \in [Packages -> SUBSET (Contents \ {0})]
        BY <1>1 DEF InstallInv, InstallTyped
    <2> QED
        BY <1>1, <1>2, <1>5, <2>1, <2>2, <2>4, <2>5, <2>6, <2>7, <2>8, InstallStepKeeps
<1>6. CASE InstallFault /\ install' = [install EXCEPT ![p].at = "rollback", ![p].k = Skills] /\ UNCHANGED skillReceipt
    <2> DEFINE i == [install[p] EXCEPT !.at = "rollback", !.k = Skills]
    <2>1. install' = [install EXCEPT ![p] = i]
        BY <1>6
    <2>2. /\ i \in Installs /\ i.at = "rollback" /\ i.k = Skills /\ i.op = install[p].op /\ i.release = install[p].release
          /\ i.before = install[p].before /\ i.committed = install[p].committed /\ i.aside = install[p].aside
        BY <1>2, <1>4 DEF Installs
    <2> HIDE DEF i
    <2>3. \A j \in Packages : Touched(i, j, skill[j])
        BY <1>3, <2>2, SamePackage, DoneTouched
    <2>4. Standing(i, skill)
        BY <1>4, <2>2, <2>3 DEF Standing
    <2> QED
        BY <1>1, <1>2, <1>6, <2>1, <2>2, <2>4, HolderQuietKeeps
<1> QED
    BY <1>5, <1>6 DEF WriteReceipt

LEMMA CleanupKeeps == ASSUME InstallInv, NEW p \in Installers, Cleanup(p) PROVE InstallInv'
<1> DEFINE k == install[p].k
           content == install[p].aside[k]
           at == IF k = Skills THEN "done" ELSE "cleanup"
           i == [install[p] EXCEPT !.k = k + 1, !.at = at]
<1>1. /\ install[p].at = "cleanup" /\ k \in Packages /\ (NoInstallFault \/ InstallFault)
      /\ install' = [install EXCEPT ![p] = i] /\ UNCHANGED <<skill, skillReceipt, skillLock, mine, skillEdits>>
    BY DEF Cleanup, At
<1>2. /\ install[p] \in Installs /\ Standing(install[p], skill) /\ Receipted(install[p], skillReceipt) /\ skillLock = p
    BY <1>1, InstallerFacts
<1>3. at \in {"done", "cleanup"} /\ (at = "cleanup" => k + 1 \in Packages)
    BY <1>1, InstallAssumption DEF Packages
<1>4. k + 1 \in 0 .. Skills + 1
    BY <1>1, PackageFacts
<1> HIDE DEF at
<1>5. /\ i \in Installs /\ i.at = at /\ i.k = k + 1 /\ i.op = install[p].op /\ i.release = install[p].release
      /\ i.before = install[p].before /\ i.committed = install[p].committed /\ i.aside = install[p].aside
    BY <1>2, <1>3, <1>4 DEF Installs
<1> HIDE DEF i
<1>6. Standing(i, skill)
    <2>1. \A j \in Packages : Done(install[p], j, skill[j])
        BY <1>1, <1>2 DEF Standing
    <2>2. \A j \in Packages : Done(i, j, skill[j])
        BY <1>5, <2>1, SamePackage
    <2> QED
        BY <1>3, <1>5, <2>2 DEF Standing
<1>7. Receipted(i, skillReceipt) /\ i.at \notin {"idle", "lock"}
    BY <1>1, <1>2, <1>3, <1>5 DEF Receipted, Removal
<1>8. CASE keptSkills' = keptSkills
    <2>1. InstallLockFollows(p, i) /\ i.committed \subseteq install[p].committed
        BY <1>1, <1>2, <1>5, <1>7 DEF InstallLockFollows
    <2> QED
        BY <1>1, <1>5, <1>6, <1>7, <1>8, <2>1, InstallQuietKeeps
<1>9. CASE Removes(p, k) /\ content # 0 /\ Disposable(p, k) /\ keptSkills' = [keptSkills EXCEPT ![k] = keptSkills[k] \ {content}]
    <2>1. content = install[p].before[k]
        BY <1>1, <1>2, <1>9 DEF Standing, Done, Gone, Untouched, Removes, Removal
    <2>2. content \in Shipped \cup {0}
        BY <1>1, <1>2, <1>9, <2>1, ContentFacts DEF Disposable, Installs
    <2>3. mine[k] # 0 => mine[k] # content
        BY <1>1, <2>2, PackageFacts DEF Own
    <2>4. mine[k] # 0 => mine[k] \in keptSkills[k] \ {content} \/ (mine[k] = skill[k] /\ k \notin i.committed)
        BY <1>1, <1>5, <2>3 DEF InstallInv
    <2>5. skill' = [skill EXCEPT ![k] = skill[k]] /\ skill[k] \in Contents /\ keptSkills[k] \ {content} \in SUBSET (Contents \ {0})
        BY <1>1, PackageFacts
    <2>6. \A j \in Packages \ {k} : j \in i.committed <=> j \in install[p].committed
        BY <1>5
    <2>7. Standing(i, skill')
        BY <1>1, <1>6
    <2> HIDE DEF k, content
    <2> QED
        BY <1>1, <1>2, <1>5, <1>7, <1>9, <2>4, <2>5, <2>6, <2>7, PackageStepKeeps
<1> QED
    BY <1>8, <1>9 DEF Cleanup

LEMMA WithdrawPackageKeeps == ASSUME InstallInv, NEW p \in Installers, WithdrawPackage(p) PROVE InstallInv'
<1> DEFINE k == install[p].k
           i == [install[p] EXCEPT !.at = "restore", !.committed = install[p].committed \ {k}]
<1>1. /\ install[p].at = "rollback" /\ UNCHANGED <<keptSkills, skillReceipt, skillLock, mine, skillEdits>>
    BY DEF WithdrawPackage, At
<1>2. /\ install[p] \in Installs /\ Standing(install[p], skill) /\ skillLock = p
    BY <1>1, InstallerFacts
<1>3. /\ k \in Packages
      /\ \A j \in Packages :
            /\ j <= k => Touched(install[p], j, skill[j])
            /\ j > k => Untouched(install[p], j, skill[j])
    BY <1>1, <1>2 DEF Standing
<1>4. CASE k \notin install[p].committed /\ NoInstallFault /\ Step(p, "restore") /\ UNCHANGED skill
    <2>1. PICK n \in Installs : Moved(p, n, "restore", k) /\ n.aside = install[p].aside /\ n.committed = install[p].committed
        BY <1>4, StepMoves
    <2>2. \A j \in Packages : (j <= k => Touched(n, j, skill[j])) /\ (j > k => Untouched(n, j, skill[j]))
        BY <1>3, <2>1, SamePackage DEF Moved
    <2>3. Standing(n, skill)
        BY <1>3, <1>4, <2>1, <2>2 DEF Standing, Moved
    <2> QED
        BY <1>1, <1>2, <1>4, <2>1, <2>3, HolderQuietKeeps DEF Moved
<1>5. CASE InstallFault /\ Step(p, "partial") /\ UNCHANGED skill
    <2>1. PICK n \in Installs : Moved(p, n, "partial", k) /\ n.aside = install[p].aside /\ n.committed = install[p].committed
        BY <1>5, StepMoves
    <2>2. Standing(n, skill)
        BY <2>1 DEF Standing, Moved
    <2> QED
        BY <1>1, <1>2, <1>5, <2>1, <2>2, HolderQuietKeeps DEF Moved
<1>6. CASE /\ k \in install[p].committed /\ NoInstallFault /\ skill' = [skill EXCEPT ![k] = 0]
           /\ install' = [install EXCEPT ![p].at = "restore", ![p].committed = install[p].committed \ {k}]
    <2>1. install' = [install EXCEPT ![p] = i]
        BY <1>6
    <2>2. /\ i \in Installs /\ i.at = "restore" /\ i.k = k /\ i.op = install[p].op /\ i.release = install[p].release
          /\ i.before = install[p].before /\ i.committed = install[p].committed \ {k} /\ i.aside = install[p].aside
        BY <1>2 DEF Installs
    <2> HIDE DEF i
    <2>3. skill'[k] = 0 /\ \A j \in Packages : j # k => skill'[j] = skill[j]
        BY <1>3, <1>6, PackageFacts
    <2>4. Replaced(install[p], k, skill[k])
        BY <1>3, <1>6, PackageFacts DEF Touched, Untouched, Gone, Taken
    <2>5. Touched(i, k, skill'[k])
        BY <2>2, <2>3, <2>4 DEF Touched, Untouched, Gone, Replaced
    <2>6. \A j \in Packages : (j <= k => Touched(i, j, skill'[j])) /\ (j > k => Untouched(i, j, skill'[j]))
        <3> SUFFICES ASSUME NEW j \in Packages, j # k
                     PROVE  (j <= k => Touched(i, j, skill'[j])) /\ (j > k => Untouched(i, j, skill'[j]))
            BY <1>3, <2>5, ContentFacts
        <3> QED
            BY <1>3, <2>2, <2>3, SamePackage
    <2>7. Standing(i, skill')
        BY <1>3, <2>2, <2>6 DEF Standing
    <2>8. mine[k] # 0 => mine[k] \in keptSkills[k]
        BY <1>3, <1>6 DEF InstallInv
    <2>9. /\ keptSkills' = [keptSkills EXCEPT ![k] = keptSkills[k]] /\ keptSkills[k] \in SUBSET (Contents \ {0})
          /\ 0 \in Contents
        BY <1>1, <1>3, PackageFacts, ContentFacts
    <2>10. Receipted(i, skillReceipt)
        BY <2>2 DEF Receipted
    <2> QED
        BY <1>1, <1>2, <1>3, <1>6, <2>1, <2>2, <2>7, <2>8, <2>9, <2>10, PackageStepKeeps
<1> QED
    BY <1>4, <1>5, <1>6 DEF WithdrawPackage

LEMMA RestorePackageKeeps == ASSUME InstallInv, NEW p \in Installers, RestorePackage(p) PROVE InstallInv'
<1> DEFINE k == install[p].k
           content == install[p].aside[k]
           at == IF k = 1 THEN "failed" ELSE "rollback"
           back == IF content = 0 THEN skill[k] ELSE content
           i == [install[p] EXCEPT !.aside[k] = 0, !.k = k - 1, !.at = at]
<1>1. /\ install[p].at = "restore" /\ UNCHANGED <<skillReceipt, skillLock, mine, skillEdits>>
    BY DEF RestorePackage, At
<1>2. /\ install[p] \in Installs /\ Standing(install[p], skill) /\ skillLock = p
    BY <1>1, InstallerFacts
<1>3. /\ k \in Packages /\ k \notin install[p].committed
      /\ \A j \in Packages :
            /\ j <= k => Touched(install[p], j, skill[j])
            /\ j > k => Untouched(install[p], j, skill[j])
    BY <1>1, <1>2 DEF Standing
<1>4. CASE (NoInstallFault \/ InstallFault) /\ Step(p, "partial") /\ UNCHANGED <<skill, keptSkills>>
    <2>1. PICK n \in Installs : Moved(p, n, "partial", k) /\ n.aside = install[p].aside /\ n.committed = install[p].committed
        BY <1>4, StepMoves
    <2>2. Standing(n, skill)
        BY <2>1 DEF Standing, Moved
    <2> QED
        BY <1>1, <1>2, <1>4, <2>1, <2>2, HolderQuietKeeps DEF Moved
<1>5. CASE /\ NoInstallFault /\ (content = 0 \/ skill[k] = 0)
           /\ skill' = (IF content = 0 THEN skill ELSE [skill EXCEPT ![k] = content])
           /\ keptSkills' = [keptSkills EXCEPT ![k] = keptSkills[k] \ {content}]
           /\ install' = [install EXCEPT ![p].aside[k] = 0, ![p].k = k - 1, ![p].at = at]
    <2>1. content \in Contents /\ skill[k] \in Contents /\ skill \in [Packages -> Contents]
        BY <1>2, <1>3, PackageFacts DEF Installs
    <2>2. skill' = [skill EXCEPT ![k] = back] /\ back \in Contents
        BY <1>5, <2>1
    <2>3. k - 1 \in 0 .. Skills + 1 /\ (k = 1 \/ k - 1 \in Packages) /\ at \in {"failed", "rollback"}
          /\ (at = "failed" <=> k = 1) /\ k \in Nat
        BY <1>3, InstallAssumption DEF Packages
    <2>4. install' = [install EXCEPT ![p] = i]
        BY <1>5
    <2> HIDE DEF at
    <2>5. /\ i \in Installs /\ i.at = at /\ i.k = k - 1 /\ i.op = install[p].op /\ i.release = install[p].release
          /\ i.before = install[p].before /\ i.committed = install[p].committed
          /\ i.aside = [install[p].aside EXCEPT ![k] = 0]
        BY <1>2, <2>3, ContentFacts DEF Installs
    <2> HIDE DEF i
    <2>6. i.aside[k] = 0 /\ \A j \in Packages : j # k => i.aside[j] = install[p].aside[j]
        BY <1>2, <1>3, <2>5 DEF Installs
    <2>7. skill'[k] = back /\ \A j \in Packages : j # k => skill'[j] = skill[j]
        BY <1>3, <2>1, <2>2
    <2>8. Touched(install[p], k, skill[k])
        BY <1>3, <2>3
    <2>9. Untouched(i, k, back)
        BY <1>3, <1>5, <2>5, <2>6, <2>8 DEF Touched, Untouched, Gone, Replaced, Taken, Own
    <2>10. \A j \in Packages : (j < k => Touched(i, j, skill'[j])) /\ (j >= k => Untouched(i, j, skill'[j]))
        <3> SUFFICES ASSUME NEW j \in Packages, j # k
                     PROVE  (j < k => Touched(i, j, skill'[j])) /\ (j > k => Untouched(i, j, skill'[j]))
            BY <1>3, <2>7, <2>9, Order
        <3>1. /\ j < k => Touched(install[p], j, skill[j])
              /\ j > k => Untouched(install[p], j, skill[j])
            BY <1>3, <2>3, ContentFacts
        <3> QED
            BY <2>5, <2>6, <2>7, <3>1, SamePackage
    <2>11. Standing(i, skill')
        <3>1. CASE at = "failed"
            <4>1. \A j \in Packages : j >= k
                BY <2>3, <3>1 DEF Packages
            <4> QED
                BY <2>5, <2>10, <3>1, <4>1 DEF Standing
        <3>2. CASE at = "rollback"
            <4>1. \A j \in Packages : (j <= k - 1 => j < k) /\ (j > k - 1 => j >= k)
                BY <1>3, Order
            <4> QED
                BY <2>3, <2>5, <2>10, <3>2, <4>1 DEF Standing
        <3> QED
            BY <2>3, <3>1, <3>2
    <2>12. mine[k] # 0 => mine[k] \in keptSkills[k] \ {content} \/ (mine[k] = back /\ k \notin i.committed)
        <3>1. mine[k] # 0 => mine[k] \in keptSkills[k] \/ mine[k] = skill[k]
            BY <1>3 DEF InstallInv
        <3> QED
            BY <1>3, <1>5, <2>5, <3>1
    <2>13. keptSkills[k] \ {content} \in SUBSET (Contents \ {0})
        BY <1>3, PackageFacts
    <2>14. Receipted(i, skillReceipt) /\ i.at \notin {"idle", "lock"}
        BY <2>3, <2>5 DEF Receipted
    <2>15. \A j \in Packages \ {k} : j \in i.committed <=> j \in install[p].committed
        BY <2>5
    <2> HIDE DEF back, k, content
    <2> QED
        BY <1>1, <1>2, <1>3, <1>5, <2>2, <2>4, <2>5, <2>11, <2>12, <2>13, <2>14, <2>15, PackageStepKeeps
<1> QED
    BY <1>4, <1>5 DEF RestorePackage

(* An edit is the user's own wherever an installation stands.                 *)
LEMMA OwnStands ==
    ASSUME NEW i, NEW j, NEW old, NEW c, Own(c)
    PROVE  /\ Untouched(i, j, old) => Untouched(i, j, c)
           /\ Gone(i, j, old) => Gone(i, j, c)
           /\ Done(i, j, old) => Done(i, j, c)
           /\ Touched(i, j, old) => Touched(i, j, c)
    BY DEF Untouched, Gone, Replaced, Taken, Done, Touched

LEMMA EditSkillKeeps == ASSUME InstallInv, NEW k \in Packages, EditSkill(k) PROVE InstallInv'
<1> DEFINE new == Releases + skillEdits'
           kept == IF \E p \in Installers : k \in install[p].committed THEN 0 ELSE new
<1>1. /\ skillEdits < MaxSkillEdits /\ skillEdits' = skillEdits + 1 /\ skill' = [skill EXCEPT ![k] = new]
      /\ UNCHANGED <<keptSkills, skillReceipt, skillLock, install, installFaults>>
    BY DEF EditSkill
<1>2. /\ skill \in [Packages -> Contents] /\ mine \in [Packages -> Contents] /\ skillEdits \in 0 .. MaxSkillEdits
    BY DEF InstallInv, InstallTyped
<1>3. skillEdits' \in 0 .. MaxSkillEdits /\ new \in Contents /\ Own(new) /\ new # 0
    BY <1>1, <1>2, InstallAssumption DEF Contents, Own, Shipped
<1> HIDE DEF new
<1>4. skill' \in [Packages -> Contents] /\ skill'[k] = new /\ \A j \in Packages : j # k => skill'[j] = skill[j]
    BY <1>1, <1>2, <1>3
<1>5. mine' = [mine EXCEPT ![k] = kept]
    BY <1>1, <1>4 DEF EditSkill
<1>6. mine' \in [Packages -> Contents] /\ mine'[k] = kept /\ \A j \in Packages : j # k => mine'[j] = mine[j]
    BY <1>2, <1>3, <1>5, ContentFacts
<1>7. InstallTyped'
    BY <1>1, <1>3, <1>4, <1>6 DEF InstallInv, InstallTyped
<1>8. ASSUME NEW p \in Installers PROVE Standing(install[p], skill') /\ Receipted(install[p], skillReceipt)
    <2> DEFINE i == install[p]
    <2>1. Standing(i, skill) /\ Receipted(i, skillReceipt)
        BY DEF InstallInv
    <2> HIDE DEF i
    <2>2. \A j \in Packages :
            /\ Untouched(i, j, skill[j]) => Untouched(i, j, skill'[j])
            /\ Gone(i, j, skill[j]) => Gone(i, j, skill'[j])
            /\ Done(i, j, skill[j]) => Done(i, j, skill'[j])
            /\ Touched(i, j, skill[j]) => Touched(i, j, skill'[j])
        BY <1>3, <1>4, OwnStands
    <2>3. Standing(i, skill')
        BY <2>1, <2>2 DEF Standing
    <2> QED
        BY <2>1, <2>3 DEF i
<1>9. ASSUME NEW j \in Packages, mine'[j] # 0
      PROVE  /\ Own(mine'[j])
             /\ mine'[j] \in keptSkills[j] \/ (mine'[j] = skill'[j] /\ \A p \in Installers : j \notin install[p].committed)
    <2>1. CASE j = k
        BY <1>3, <1>4, <1>6, <1>9, <2>1
    <2>2. CASE j # k
        BY <1>4, <1>6, <1>9, <2>2 DEF InstallInv
    <2> QED
        BY <2>1, <2>2
<1> QED
    BY <1>1, <1>7, <1>8, <1>9 DEF InstallInv

LEMMA UnlockKeeps == ASSUME InstallInv, NEW p \in Installers, Unlock(p) PROVE InstallInv'
<1>1. skillLock = p
    BY InstallerFacts DEF Unlock
<1> QED
    BY <1>1, AbandonKeeps DEF Unlock, NoInstallFault

LEMMA KillInstallerKeeps == ASSUME InstallInv, NEW p \in Installers, KillInstaller(p) PROVE InstallInv'
    BY AbandonKeeps DEF KillInstaller

-----------------------------------------------------------------------------
LEMMA InstallStart == ASSUME InstallInit PROVE InstallInv
<1>1. /\ mine = NoPackages /\ keptSkills = [k \in Packages |-> {}] /\ skillLock = NoInstaller
      /\ install = [p \in Installers |-> NoInstall] /\ skillEdits = 0 /\ installFaults = 0
      /\ skill \in {NoPackages, [k \in Packages |-> 1]}
      /\ skillReceipt = [k \in Packages |-> IF k \in LegacySkills THEN 0 ELSE skill[k]]
    BY DEF InstallInit
<1>2. skill \in [Packages -> {0, 1}] /\ mine \in [Packages -> {0}] /\ \A k \in Packages : mine[k] = 0
    BY <1>1 DEF NoPackages
<1>3. 0 \in 0 .. Releases /\ 1 \in 0 .. Releases /\ 0 \in 0 .. MaxSkillEdits /\ 0 \in 0 .. InstallFaults
    BY InstallAssumption
<1>4. skill \in [Packages -> Contents] /\ skillReceipt \in [Packages -> 0 .. Releases] /\ mine \in [Packages -> Contents]
    BY <1>1, <1>2, <1>3, ContentFacts
<1>5. InstallTyped
    BY <1>1, <1>3, <1>4, NoInstallTyped DEF InstallTyped
<1>6. Standing(NoInstall, skill) /\ Receipted(NoInstall, skillReceipt)
    BY NoInstallTyped DEF Standing, Receipted
<1>7. \A p \in Installers : skillLock = p <=> install[p].at \notin {"idle", "lock"}
    BY <1>1, NoInstallTyped, ContentFacts
<1> QED
    BY <1>1, <1>2, <1>5, <1>6, <1>7 DEF InstallInv

LEMMA InstallerStepKeeps == ASSUME InstallInv, NEW p \in Installers, InstallStep(p) PROVE InstallInv'
<1>1. CASE \E op \in {"install", "uninstall"}, release \in Running : Plan(p, op, release)
    BY <1>1, PlanKeeps
<1>2. CASE LockPackages(p) \/ ValidatePackages(p) \/ SkipPackage(p) \/ MoveAside(p) \/ CommitPackage(p)
    BY <1>2, LockPackagesKeeps, ValidatePackagesKeeps, SkipPackageKeeps, MoveAsideKeeps, CommitPackageKeeps
<1>3. CASE WriteReceipt(p) \/ Cleanup(p) \/ WithdrawPackage(p) \/ RestorePackage(p)
    BY <1>3, WriteReceiptKeeps, CleanupKeeps, WithdrawPackageKeeps, RestorePackageKeeps
<1>4. CASE Unlock(p) \/ KillInstaller(p)
    BY <1>4, UnlockKeeps, KillInstallerKeeps
<1> QED
    BY <1>1, <1>2, <1>3, <1>4 DEF InstallStep

(* Whatever is installed, removed, fails or dies, and whenever the user edits *)
(* a package: an edit that has to survive is where agents find the package or *)
(* in a backup, a command that failed left every package as it found it, and  *)
(* one that succeeded made the packages and the receipt what it was asked for *)
(* (install.go and receipt.go of src/internal/agent).                         *)
THEOREM SkillsStayKept == InstallSpec => []SkillsAreKept
<1>1. InstallInit => InstallInv
    BY InstallStart
<1>2. InstallInv /\ [(\E p \in Installers : InstallStep(p)) \/ (\E k \in Packages : EditSkill(k))]_installVars => InstallInv'
    <2> SUFFICES ASSUME InstallInv, [(\E p \in Installers : InstallStep(p)) \/ (\E k \in Packages : EditSkill(k))]_installVars
                 PROVE  InstallInv'
        OBVIOUS
    <2>1. CASE \E p \in Installers : InstallStep(p)
        BY <2>1, InstallerStepKeeps
    <2>2. CASE \E k \in Packages : EditSkill(k)
        BY <2>2, EditSkillKeeps
    <2>3. CASE UNCHANGED installVars
        BY <2>3 DEF installVars, InstallInv, InstallTyped
    <2> QED
        BY <2>1, <2>2, <2>3
<1>3. InstallInv => SkillsAreKept
    BY SkillInvSafe
<1> QED
    BY <1>1, <1>2, <1>3, PTL DEF InstallSpec
=============================================================================
