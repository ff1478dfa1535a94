-------------------------- MODULE BundleTransaction --------------------------
(* How a pull replaces artifact directories of a workspace                    *)
(* (src/internal/artifact): a workbook with its datasources as one journaled  *)
(* transaction (bundle.go), one workbook alone by two renames (workbook.go),  *)
(* and how the next command recovers what a crash left behind.                *)
(*                                                                            *)
(* Commands hold the workspace lock, so at most one runs; the user edits      *)
(* files without it.  Renames and links are atomic, the removal of a tree is  *)
(* not.  What a step has done is durable: the syncs matter by their failures. *)
EXTENDS Naturals, Sequences

CONSTANTS
    Entries,       \* the targets of the bundle, in journal order; the workbook is the last
    MaxPulls,      \* bound: pulls
    StuckBackups,  \* may a sweep fail to remove a backup?
    BundleFaults   \* bound: crashes and failed file operations

(* A transaction with two entries for one target is refused.                  *)
ASSUME BundleConstants ==
    /\ Entries \in Seq(STRING) /\ Len(Entries) > 0
    /\ \A i, j \in 1 .. Len(Entries) : Entries[i] = Entries[j] => i = j
    /\ MaxPulls \in Nat /\ StuckBackups \in BOOLEAN /\ BundleFaults \in Nat

VARIABLES
    dirs,      \* the directories of each target: installed, staged, set aside
    prepared,  \* the prepared journal
    committed, \* the committed journal
    command,   \* the command that holds the workspace lock
    pulls,     \* pulls so far; the first one makes generation 2
    bundles,   \* history: the generations that bundles made
    reported,  \* history: the generation of each target's last successful pull
    mishaps    \* crashes and failed operations so far

bundleVars == <<dirs, prepared, committed, command, pulls, bundles, reported, mishaps>>

BundleTargets == {Entries[i] : i \in 1 .. Len(Entries)}

Workbook == Entries[Len(Entries)]

(* Each target has its directory, a staging directory, the backup of the      *)
(* command that runs or crashed, and backups left by earlier ones.            *)
(*                                                                            *)
(* A directory: its generation (0: absent, 1: before the first pull), the     *)
(* ownership marker of a transaction, is the tree complete, and local edits   *)
(* of its canonical payload: "quiet" ones were made while no command ran, and *)
(* are "given" up once a pull was told to overwrite them. Changes of other    *)
(* files of an artifact are no edits: a pull does not look for them.          *)
Content == [gen : 0 .. MaxPulls + 1, marked : BOOLEAN, whole : BOOLEAN,
            edit : {"no", "quiet", "given", "raced"}]

Generation(g) == [gen |-> g, marked |-> FALSE, whole |-> TRUE, edit |-> "no"]

Marked(g) == [Generation(g) EXCEPT !.marked = TRUE]

None == Generation(0)

Exists(c) == c # None

NoJournal == [gen |-> 0, had |-> {}, original |-> [t \in BundleTargets |-> None]]

Ready == [at |-> "idle", kind |-> "other", overwrite |-> FALSE, goal |-> "none", i |-> 0,
          result |-> "none"]

BundleTypeOK ==
    /\ \A t \in BundleTargets :
        /\ dirs[t].target \in Content /\ dirs[t].staging \in Content /\ dirs[t].backup \in Content
        /\ dirs[t].left \subseteq Content
    /\ prepared.gen \in 0 .. MaxPulls + 1 /\ committed.gen \in 0 .. MaxPulls + 1
    /\ command \in [at : {"idle", "recover", "undo", "redo", "unprepare", "uncommit", "sweep",
                          "check", "stage", "journal", "aside", "install", "sync", "mark",
                          "replace", "replaceIn", "restore", "replaced", "leave"},
                    kind : {"other", "single", "bundle"}, overwrite : BOOLEAN,
                    goal : {"none", "begin", "rollback", "finish"}, i : 0 .. Len(Entries) + 1,
                    result : {"none", "ok", "error", "refused", "conflict"}]
    /\ pulls \in 0 .. MaxPulls /\ mishaps \in 0 .. BundleFaults
    /\ bundles \subseteq 2 .. MaxPulls + 1 /\ reported \in [BundleTargets -> 0 .. MaxPulls + 1]

BundleInit ==
    /\ reported \in [BundleTargets -> {0, 1}]
    /\ dirs = [t \in BundleTargets |-> [target |-> Generation(reported[t]),
                                staging |-> None, backup |-> None, left |-> {}]]
    /\ prepared = NoJournal /\ committed = NoJournal
    /\ command = Ready
    /\ pulls = 0 /\ bundles = {} /\ mishaps = 0

-----------------------------------------------------------------------------
(* File operations and the command's steps.                                   *)

Entry == Entries[command.i]

PullTargets == IF command.kind = "bundle" THEN BundleTargets ELSE {Workbook}

Continue(at) == command' = [command EXCEPT !.at = at]

NextEntry == command' = [command EXCEPT !.i = @ + 1]

(* The command ends; a pull removes its staging directories, unless a journal *)
(* owns them by now.                                                          *)
Leave(result) == command' = [command EXCEPT !.at = "leave", !.result = result]

Mishap == mishaps < BundleFaults /\ mishaps' = mishaps + 1

MovedDir(t, from, to) ==
    dirs' = [dirs EXCEPT ![t] = [@ EXCEPT ![to] = dirs[t][from], ![from] = None]]

Gone(t, place) == dirs' = [dirs EXCEPT ![t][place] = None]

(* An interrupted or failed removal may have removed some of the files.       *)
Torn(t, place) ==
    \/ UNCHANGED dirs
    \/ Exists(dirs[t][place]) /\ dirs' = [dirs EXCEPT ![t][place].whole = FALSE]

Rename(t, from, to, next) ==
    /\ MovedDir(t, from, to) /\ next /\ UNCHANGED mishaps

Remove(t, place, next, fail) ==
    \/ Gone(t, place) /\ next /\ UNCHANGED mishaps
    \/ Mishap /\ Torn(t, place) /\ fail

-----------------------------------------------------------------------------
(* lockWorkspace: every command recovers first.                               *)

BeginCommand ==
    /\ command.at = "idle"
    /\ \E kind \in {"other", "single", "bundle"}, overwrite \in BOOLEAN :
        /\ kind # "other" => pulls < MaxPulls
        /\ overwrite => kind # "other"
        /\ command' = [Ready EXCEPT !.at = "recover", !.goal = "begin",
                                    !.kind = kind, !.overwrite = overwrite]
    /\ UNCHANGED <<dirs, prepared, committed, pulls, bundles, reported, mishaps>>

(* Mutant: a target that had not been moved yet has no backup to restore.     *)
RollbackEntryNeedsBackup(t, journal) ==
    LET d == dirs[t] IN
    /\ d.staging.gen = journal.gen \/ ~Exists(d.staging)
    /\ t \in journal.had => d.backup = journal.original[t]

(* validateBundleRollback: what a rollback would remove must be exactly what  *)
(* the journal describes.                                                     *)
Ours(c, journal) == Exists(c) => c = Marked(journal.gen)

RollbackEntryValid(t, journal) ==
    LET d == dirs[t] IN
    /\ Ours(d.staging, journal)
    /\ IF t \in journal.had /\ ~Exists(d.backup)
       THEN d.target = journal.original[t]
       ELSE /\ t \in journal.had => d.backup = journal.original[t]
            /\ Ours(d.target, journal)

(* Mutant: the rollback removes what it finds.                                *)
RollbackAnything == TRUE

RollbackValid == \A t \in BundleTargets : RollbackEntryValid(t, prepared)

(* After a recovery the command begins its own work, or ends.  The pull of a  *)
(* workbook alone sweeps its root only.                                       *)
Recovered ==
    CASE command.goal = "begin"    -> IF command.kind = "other" THEN Leave("ok")
                                      ELSE command' = [command EXCEPT !.at = "sweep",
                                               !.i = IF command.kind = "single" THEN Len(Entries) ELSE 1]
      [] command.goal = "rollback" -> Leave("error")
      [] command.goal = "finish"   -> Leave("ok")

(* The cleanup of a committed transaction may fail: the pull has succeeded.   *)
RecoveryFails(result) ==
    Leave(IF command.goal = "finish" THEN "ok" ELSE result)

RecoverBundleTransaction ==
    /\ command.at = "recover"
    /\ IF committed # NoJournal
       THEN command' = [command EXCEPT !.at = "redo", !.i = Len(Entries)]
       ELSE IF prepared = NoJournal THEN Recovered
       ELSE IF RollbackValid
       THEN command' = [command EXCEPT !.at = "undo", !.i = Len(Entries)]
       ELSE RecoveryFails("conflict")
    /\ UNCHANGED <<dirs, prepared, committed, pulls, bundles, reported, mishaps>>

(* One operation of a rollback; the entries are undone in reverse order.      *)
UndoEntry ==
    /\ command.at = "undo" /\ command.i > 0
    /\ LET d == dirs[Entry]
           hasBackup == Entry \in prepared.had /\ Exists(d.backup)
       IN CASE (hasBackup \/ Entry \notin prepared.had) /\ Exists(d.target) ->
                 Remove(Entry, "target", UNCHANGED command, RecoveryFails("error"))
            [] hasBackup /\ ~Exists(d.target) ->
                 \/ Rename(Entry, "backup", "target", UNCHANGED command)
                 \/ Mishap /\ UNCHANGED dirs /\ RecoveryFails("error")
            [] ~hasBackup /\ (Entry \in prepared.had \/ ~Exists(d.target)) /\ Exists(d.staging) ->
                 Remove(Entry, "staging", UNCHANGED command, RecoveryFails("error"))
            [] OTHER -> command' = [command EXCEPT !.i = @ - 1] /\ UNCHANGED <<dirs, mishaps>>
    /\ UNCHANGED <<prepared, committed, pulls, bundles, reported>>

(* One operation of the cleanup after a commit: the marker, the backup, the   *)
(* staging directory.                                                         *)
RedoEntry ==
    /\ command.at = "redo" /\ command.i > 0
    /\ LET d == dirs[Entry]
       IN CASE d.target.marked /\ d.target.gen # committed.gen ->
                 RecoveryFails("conflict") /\ UNCHANGED <<dirs, mishaps>>
            [] d.target.marked /\ d.target.gen = committed.gen ->
                 \/ /\ dirs' = [dirs EXCEPT ![Entry].target.marked = FALSE]
                    /\ UNCHANGED <<command, mishaps>>
                 \/ Mishap /\ UNCHANGED dirs /\ RecoveryFails("error")
            [] ~d.target.marked /\ Exists(d.backup) ->
                 Remove(Entry, "backup", UNCHANGED command, RecoveryFails("error"))
            [] ~d.target.marked /\ ~Exists(d.backup) /\ Exists(d.staging) ->
                 Remove(Entry, "staging", UNCHANGED command, RecoveryFails("error"))
            [] OTHER -> command' = [command EXCEPT !.i = @ - 1] /\ UNCHANGED <<dirs, mishaps>>
    /\ UNCHANGED <<prepared, committed, pulls, bundles, reported>>

(* Mutant: a parent that cannot be synced ends every recovery.                *)
EntriesNeverDone ==
    /\ command.at \in {"undo", "redo"} /\ command.i = 0
    /\ RecoveryFails("error")
    /\ UNCHANGED <<dirs, prepared, committed, pulls, bundles, reported, mishaps>>

AllEntriesDone ==
    /\ command.at \in {"undo", "redo"} /\ command.i = 0
    /\ \/ Continue("unprepare") /\ UNCHANGED mishaps
       \/ Mishap /\ RecoveryFails("error")               \* a parent cannot be synced
    /\ UNCHANGED <<dirs, prepared, committed, pulls, bundles, reported>>

(* removeBundleJournal: the prepared record goes first.                       *)
RemovePrepared ==
    /\ command.at = "unprepare"
    /\ \/ prepared' = NoJournal /\ Continue("uncommit") /\ UNCHANGED mishaps
       \/ Mishap /\ prepared' \in {prepared, NoJournal} /\ RecoveryFails("error")
    /\ UNCHANGED <<dirs, committed, pulls, bundles, reported>>

RemoveCommitted ==
    /\ command.at = "uncommit"
    /\ \/ committed' = NoJournal /\ Recovered /\ UNCHANGED mishaps
       \/ Mishap /\ committed' \in {committed, NoJournal} /\ RecoveryFails("error")
    /\ UNCHANGED <<dirs, prepared, pulls, bundles, reported>>

(* recoverWorkbookRoot, recoverDatasourceRoot: staging directories go, the    *)
(* backups go when the artifact lives and the first by name, which is the     *)
(* oldest, returns when it does not.  Backups are never torn or unreadable    *)
(* here: the code passes over those it cannot read.                           *)
Oldest(backups) == CHOOSE b \in backups : \A c \in backups : b.gen <= c.gen

Backups(t) == dirs[t].left \cup (IF Exists(dirs[t].backup) THEN {dirs[t].backup} ELSE {})

SweepEntry ==
    /\ command.at = "sweep" /\ command.i <= Len(Entries)
    /\ LET live == Exists(dirs[Entry].target)
           restored == IF live \/ Backups(Entry) = {} THEN {} ELSE {Oldest(Backups(Entry))}
           swept == [dirs[Entry] EXCEPT
                !.staging = None, !.backup = None, !.left = {},
                !.target = IF restored = {} THEN @ ELSE Oldest(Backups(Entry))]
       IN \/ dirs' = [dirs EXCEPT ![Entry] = swept] /\ NextEntry /\ UNCHANGED mishaps
          \/ /\ StuckBackups /\ Mishap                   \* a removal fails: only a warning
             /\ dirs' = [dirs EXCEPT ![Entry] = [swept EXCEPT !.left = Backups(Entry) \ restored]]
             /\ NextEntry
          \/ /\ restored # {} /\ Mishap                 \* the restore fails
             /\ UNCHANGED dirs /\ Leave("error")
    /\ UNCHANGED <<prepared, committed, pulls, bundles, reported>>

SweepDone ==
    /\ command.at = "sweep" /\ command.i > Len(Entries)
    /\ Continue("check")
    /\ UNCHANGED <<dirs, prepared, committed, pulls, bundles, reported, mishaps>>

-----------------------------------------------------------------------------
(* Pull.                                                                      *)

(* An edited payload (its fingerprint is not the baseline) needs the          *)
(* overwrite flag, which covers the workbook only.                            *)
Dirty(t) == dirs[t].target.edit # "no"

CheckDirty ==
    /\ command.at = "check"
    /\ IF \E t \in PullTargets : Dirty(t) /\ ~(command.overwrite /\ t = Workbook)
       THEN Leave("refused") /\ UNCHANGED <<dirs, pulls>>
       ELSE /\ Continue("stage") /\ pulls' = pulls + 1
            /\ dirs' = IF Dirty(Workbook) THEN [dirs EXCEPT ![Workbook].target.edit = "given"] ELSE dirs
    /\ UNCHANGED <<prepared, committed, bundles, reported, mishaps>>

Stage ==
    /\ command.at = "stage"
    /\ dirs' = [t \in BundleTargets |-> IF t \in PullTargets
                                  THEN [dirs[t] EXCEPT !.staging = Generation(pulls + 1)]
                                  ELSE dirs[t]]
    /\ Continue(IF command.kind = "bundle" THEN "journal" ELSE "replace")
    /\ UNCHANGED <<prepared, committed, pulls, bundles, reported, mishaps>>

(* prepareBundleJournal, writeBundleJournal.  A journal that was linked but   *)
(* not synced stays, and the next command rolls back.                         *)
WriteJournal ==
    /\ command.at = "journal"
    /\ dirs' = [t \in BundleTargets |-> [dirs[t] EXCEPT !.staging = Marked(pulls + 1)]]
    /\ LET journal == [gen |-> pulls + 1, had |-> {t \in BundleTargets : Exists(dirs[t].target)},
                       original |-> [t \in BundleTargets |-> dirs[t].target]]
       IN \/ prepared' = journal /\ UNCHANGED mishaps
             /\ command' = [command EXCEPT !.at = "aside", !.i = 1]
          \/ prepared' \in {journal, NoJournal} /\ Mishap /\ Leave("error")
    /\ bundles' = bundles \cup {pulls + 1}
    /\ UNCHANGED <<committed, pulls, reported>>

(* commitPreparedDirectories: any failure rolls back at once.                 *)
Rollback == command' = [command EXCEPT !.at = "recover", !.goal = "rollback"]

SetAside ==
    /\ command.at = "aside" /\ command.i <= Len(Entries)
    /\ IF Entry \in prepared.had
       THEN \/ Rename(Entry, "target", "backup", Continue("install"))
            \/ Mishap /\ UNCHANGED dirs /\ Rollback
       ELSE Continue("install") /\ UNCHANGED <<dirs, mishaps>>
    /\ UNCHANGED <<prepared, committed, pulls, bundles, reported>>

InstallEntry ==
    /\ command.at = "install"
    /\ \/ Rename(Entry, "staging", "target", command' = [command EXCEPT !.at = "aside", !.i = @ + 1])
       \/ Mishap /\ UNCHANGED dirs /\ Rollback
    /\ UNCHANGED <<prepared, committed, pulls, bundles, reported>>

SyncParents ==
    /\ command.at = "aside" /\ command.i > Len(Entries)
    /\ \/ Continue("mark") /\ UNCHANGED mishaps
       \/ Mishap /\ Rollback
    /\ UNCHANGED <<dirs, prepared, committed, pulls, bundles, reported>>

MarkCommitted ==
    /\ command.at = "mark"
    /\ \/ /\ committed' = prepared
          /\ command' = [command EXCEPT !.at = "recover", !.goal = "finish"]
          /\ UNCHANGED mishaps
       \/ Mishap /\ committed' \in {prepared, NoJournal} /\ Rollback
    /\ UNCHANGED <<dirs, prepared, pulls, bundles, reported>>

-----------------------------------------------------------------------------
(* replaceDirectoryWithOperations: one workbook without a journal.            *)

ReplaceAside ==
    /\ command.at = "replace"
    /\ IF Exists(dirs[Workbook].target)
       THEN \/ Rename(Workbook, "target", "backup", Continue("replaceIn"))
            \/ Mishap /\ UNCHANGED dirs /\ Leave("error")
       ELSE Continue("replaceIn") /\ UNCHANGED <<dirs, mishaps>>
    /\ UNCHANGED <<prepared, committed, pulls, bundles, reported>>

ReplaceIn ==
    /\ command.at = "replaceIn"
    /\ \/ Rename(Workbook, "staging", "target", Continue("replaced"))
       \/ Mishap /\ UNCHANGED dirs
          /\ IF Exists(dirs[Workbook].backup) THEN Continue("restore") ELSE Leave("error")
    /\ UNCHANGED <<prepared, committed, pulls, bundles, reported>>

RestoreReplaced ==
    /\ command.at = "restore"
    /\ \/ Rename(Workbook, "backup", "target", Leave("error"))
       \/ Mishap /\ UNCHANGED dirs /\ Leave("error")
    /\ UNCHANGED <<prepared, committed, pulls, bundles, reported>>

RemoveReplaced ==
    /\ command.at = "replaced"
    /\ \/ Remove(Workbook, "backup", Leave("ok"), Leave("ok"))
       \/ Mishap /\ UNCHANGED dirs /\ Leave("error")       \* the root cannot be synced
    /\ UNCHANGED <<prepared, committed, pulls, bundles, reported>>

-----------------------------------------------------------------------------
(* The command releases the lock.                                             *)
JournalOwnsStaging == prepared # NoJournal \/ committed # NoJournal

EndCommand ==
    /\ command.at = "leave"
    /\ dirs' = [t \in BundleTargets |->
            IF command.kind # "other" /\ t \in PullTargets /\ ~JournalOwnsStaging
            THEN [dirs[t] EXCEPT !.staging = None] ELSE dirs[t]]
    /\ command' = [command EXCEPT !.at = "idle", !.i = 0, !.goal = "none"]
    /\ reported' = [t \in BundleTargets |->
            IF command.kind # "other" /\ command.result = "ok" /\ t \in PullTargets
            THEN pulls + 1 ELSE reported[t]]
    /\ UNCHANGED <<prepared, committed, pulls, bundles, mishaps>>

(* The process is killed.  (Killed inside a removal: the removal failed.)      *)
CrashCommand ==
    /\ command.at # "idle" /\ Mishap
    /\ command' = Ready
    /\ UNCHANGED <<dirs, prepared, committed, pulls, bundles, reported>>

EditArtifact(t) ==
    /\ Exists(dirs[t].target)
    /\ dirs' = [dirs EXCEPT ![t].target.edit =
            IF command.at = "idle" THEN "quiet" ELSE IF @ = "no" THEN "raced" ELSE @]
    /\ UNCHANGED <<prepared, committed, command, pulls, bundles, reported, mishaps>>

CommandStep ==
    \/ RecoverBundleTransaction \/ UndoEntry \/ RedoEntry \/ AllEntriesDone
    \/ RemovePrepared \/ RemoveCommitted \/ SweepEntry \/ SweepDone
    \/ CheckDirty \/ Stage \/ WriteJournal \/ SetAside \/ InstallEntry \/ SyncParents \/ MarkCommitted
    \/ ReplaceAside \/ ReplaceIn \/ RestoreReplaced \/ RemoveReplaced
    \/ EndCommand

BundleNext ==
    \/ BeginCommand \/ CommandStep \/ CrashCommand
    \/ \E t \in BundleTargets : EditArtifact(t)

BundleSpec == BundleInit /\ [][BundleNext]_bundleVars

(* Commands run on, and somebody keeps using the workspace.                   *)
BundleFairness == WF_bundleVars(CommandStep) /\ WF_bundleVars(BeginCommand)

-----------------------------------------------------------------------------
Settled == command.at = "idle" /\ prepared = NoJournal /\ committed = NoJournal

(* The artifacts of a bundle appear together or not at all: once no journal   *)
(* is left, no target is behind another one that the same bundle replaced,    *)
(* wherever commands crashed and operations failed.  (A target that a crashed *)
(* single pull set aside counts with its backup, which the sweep returns.)    *)
Version(t) == IF Exists(dirs[t].target) THEN dirs[t].target.gen ELSE dirs[t].backup.gen

BundleIsAllOrNothing ==
    Settled => \A t, u \in BundleTargets :
        Version(t) \in bundles => Version(u) >= Version(t)

(* A target that held an artifact has a complete one at every moment, in its  *)
(* place or in a backup that recovery knows.                                  *)
PriorVersionKept ==
    \A t \in BundleTargets : reported[t] > 0 => \E place \in {"target", "backup"} :
        Exists(dirs[t][place]) /\ dirs[t][place].whole

(* A pull that reported success is not undone by a later command: recovery    *)
(* never brings an older generation back.                                     *)
SuccessIsKept ==
    Settled => \A t \in BundleTargets : Exists(dirs[t].target) => dirs[t].target.gen >= reported[t]

(* Edits of a canonical payload made while no command runs survive every      *)
(* later pull, recovery and rollback, unless a pull of the workbook was told  *)
(* to overwrite them.                                                         *)
HoldsQuietEdit(t) == \E place \in {"target", "backup"} : dirs[t][place].edit = "quiet"

QuietEditsSurvive ==
    [][\A t \in BundleTargets : HoldsQuietEdit(t) /\ ~HoldsQuietEdit(t)'
        => t = Workbook /\ command.at = "check" /\ command.overwrite]_bundleVars

(* Recovery refuses a journal only for a reason outside the transaction: a    *)
(* half-removed tree or local edits.  No crash point of its own blocks it.    *)
ConflictHasCause ==
    command.result = "conflict" =>
        \E t \in BundleTargets, place \in {"target", "staging", "backup"} :
            ~dirs[t][place].whole \/ dirs[t][place].edit # "no"

(* All of it: a crash at any point of any pull or recovery leaves a workspace *)
(* that the next commands bring to one consistent version.                    *)
BundleIsSafe ==
    BundleTypeOK /\ BundleIsAllOrNothing /\ PriorVersionKept /\ SuccessIsKept /\ ConflictHasCause

(* A journal is resolved by the commands that follow, or one of them reports  *)
(* a conflict.                                                                *)
JournalResolves ==
    (prepared # NoJournal \/ committed # NoJournal) ~> (Settled \/ command.result = "conflict")
=============================================================================
