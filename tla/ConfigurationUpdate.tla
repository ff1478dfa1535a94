------------------------ MODULE ConfigurationUpdate -------------------------
(* updateTransaction of src/internal/config/config.go: one process at a time  *)
(* reads the user configuration, changes it and replaces the file.  A change   *)
(* may come with a change outside the file: staged before the save and rolled *)
(* back when it fails, or carried out after it.  The modules of the commands   *)
(* that change the configuration extend this one: they decide the change      *)
(* (Proceed, LeaveUnchanged, Refuse), roll it back (RolledBack) or carry it   *)
(* out (PostSaved), and act on the result.                                    *)
EXTENDS Naturals, FiniteSets

CONSTANTS
    Updaters,        \* processes that change the configuration
    NoUpdater,       \* nobody
    UpdateFaults     \* bound: file and credential store operations that fail

ASSUME UpdateAssumption == NoUpdater \notin Updaters /\ UpdateFaults \in Nat

VARIABLES
    configuration,   \* the visible configuration file
    configLock,      \* who holds its lock
    update,          \* the transaction of each process
    updateFaults     \* failures so far

updateVars == <<configuration, configLock, update, updateFaults>>

(* missed: the change that was to follow the save failed.                     *)
(* "unchanged": the file was left as it was.  "installed": InstalledError, the *)
(* new configuration is in effect although the update reports a failure.      *)
UpdateResults == {"pending", "ok", "unchanged", "failed", "installed"}

NoUpdate == [at |-> "none", before |-> {}, next |-> {}, post |-> FALSE, missed |-> FALSE, result |-> "pending"]

UpdateTypeOK ==
    /\ configLock \in Updaters \cup {NoUpdater}
    /\ \A p \in Updaters :
        /\ update[p].at \in {"none", "queued", "mutate", "save", "restore", "post", "rollback", "ended"}
        /\ update[p].result \in UpdateResults
        /\ configLock = p <=> update[p].at \in {"mutate", "save", "restore", "post", "rollback"}
    /\ updateFaults \in 0 .. UpdateFaults

UpdateInit ==
    /\ configLock = NoUpdater
    /\ update = [p \in Updaters |-> NoUpdate]
    /\ updateFaults = 0

Fault == updateFaults < UpdateFaults /\ updateFaults' = updateFaults + 1
NoFault == UNCHANGED updateFaults

-----------------------------------------------------------------------------
(* Steps of a transaction; those with a primed update leave the rest to the   *)
(* caller.                                                                    *)

Enqueue(p) == update' = [update EXCEPT ![p] = [NoUpdate EXCEPT !.at = "queued"]]

Advance(p, place) == update' = [update EXCEPT ![p].at = place] /\ UNCHANGED configLock

(* The deferred release comes after the deferred rollback.                    *)
EndUpdate(p, result) ==
    /\ update' = [update EXCEPT ![p] = [NoUpdate EXCEPT !.at = "ended", !.result = result, !.missed = update[p].missed]]
    /\ configLock' = NoUpdater

LockConfiguration(p) ==
    /\ update[p].at = "queued" /\ configLock = NoUpdater
    /\ configLock' = p
    /\ update' = [update EXCEPT ![p].at = "mutate", ![p].before = configuration]
    /\ UNCHANGED <<configuration, updateFaults>>

(* LockTimeoutError after lockWait.                                           *)
LockTimesOut(p) ==
    /\ update[p].at = "queued" /\ configLock # NoUpdater
    /\ update' = [update EXCEPT ![p] = [NoUpdate EXCEPT !.at = "ended", !.result = "failed"]]
    /\ UNCHANGED <<configuration, configLock, updateFaults>>

(* What the mutator returns.                                                  *)
Proceed(p, next, post) ==
    /\ update' = [update EXCEPT ![p].at = "save", ![p].next = next, ![p].post = post]
    /\ UNCHANGED <<configuration, configLock>>

LeaveUnchanged(p) == EndUpdate(p, "unchanged") /\ UNCHANGED configuration
Refuse(p) == EndUpdate(p, "failed") /\ UNCHANGED configuration

(* saveBytes: the file is replaced or not; a replacement whose directory      *)
(* cannot be synced is visible and has to be taken back.                      *)
SaveConfiguration(p) ==
    /\ update[p].at = "save"
    /\ \/ /\ NoFault /\ configuration' = update[p].next
          /\ IF update[p].post THEN Advance(p, "post") ELSE EndUpdate(p, "ok")
       \/ Fault /\ UNCHANGED configuration /\ Advance(p, "rollback")
       \/ Fault /\ configuration' = update[p].next /\ Advance(p, "restore")

(* Mutant: what was staged is rolled back although the new file is in effect. *)
RollBackAnyway(p) == Advance(p, "rollback")

(* The new configuration stays: staged changes are kept, and a change that    *)
(* was to follow the save is carried out unless it was that which failed.     *)
StayInstalled(p) ==
    IF update[p].post /\ ~update[p].missed
    THEN /\ update' = [update EXCEPT ![p].at = "post", ![p].result = "installed"]
         /\ UNCHANGED configLock
    ELSE EndUpdate(p, "installed")

(* restore: a reinstalled file whose sync fails counts as restored.           *)
RestoreConfiguration(p) ==
    /\ update[p].at = "restore"
    /\ \/ NoFault /\ configuration' = update[p].before /\ Advance(p, "rollback")
       \/ Fault /\ UNCHANGED configuration /\ StayInstalled(p)

(* postSave has returned; a failure takes the configuration back, unless it   *)
(* could not be taken back before.                                            *)
PostSaved(p, done) ==
    IF done THEN EndUpdate(p, IF update[p].result = "installed" THEN "installed" ELSE "ok")
    ELSE IF update[p].result = "installed"
    THEN /\ update' = [update EXCEPT ![p].at = "ended", ![p].missed = TRUE]
         /\ configLock' = NoUpdater
    ELSE /\ update' = [update EXCEPT ![p].at = "restore", ![p].missed = TRUE]
         /\ UNCHANGED configLock

RolledBack(p) == EndUpdate(p, "failed")

(* The process ends: the system drops its lock.                               *)
DropUpdate(p) ==
    /\ update' = [update EXCEPT ![p] = NoUpdate]
    /\ configLock' = IF configLock = p THEN NoUpdater ELSE configLock
    /\ UNCHANGED configuration

UpdateStep(p) == LockConfiguration(p) \/ LockTimesOut(p) \/ SaveConfiguration(p) \/ RestoreConfiguration(p)
=============================================================================
