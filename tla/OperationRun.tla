---------------------------- MODULE OperationRun ----------------------------
(***************************************************************************)
(* One detached publication: the durable operation record, its            *)
(* cancellation control and its worker lock (internal/operationrun), the   *)
(* foreground command that starts a worker and waits for it, the worker    *)
(* itself (internal/app/publication_worker.go), and the concurrent         *)
(* `tadx job inspect` and `tadx job cancel` commands.                      *)
(*                                                                         *)
(* Every access to the record and its control file takes the record lock,  *)
(* so one such access is one step.  The worker lock is a separate file     *)
(* that is taken and released in steps of their own.                       *)
(***************************************************************************)
EXTENDS Naturals

CONSTANTS
    Workers,      \* processes entered through the private worker selector
    Inspectors,   \* processes running `job inspect --operation-id`
    Items,        \* selected publications of the (batch) command
    Faults,       \* local storage faults to inject: subset of FaultKinds
    Parent,       \* the foreground command
    None          \* no process

FaultKinds == {"write", "sync", "read"}

ASSUME ConstantsAssumption ==
    /\ Faults \subseteq FaultKinds
    /\ Workers \cap Inspectors = {}
    /\ Parent \notin Workers \cup Inspectors
    /\ None \notin Workers \cup Inspectors \cup {Parent}

VARIABLES
    rec,        \* the operation record
    ctl,        \* the cancellation control file
    lease,      \* the process holding the worker lock, or None
    parent,     \* control location of the foreground command
    seen,       \* the foreground command's last copy of the record
    noWait,     \* was --no-wait given?
    expired,    \* has the 20-minute foreground limit passed?
    pc,         \* control location of each worker process
    cancelled,  \* is the worker's command context cancelled?
    poller,     \* state of the worker's control-polling goroutine
    item,       \* progress of each item in each worker
    admissions, \* how often BeginCommit admitted each item (history)
    applied,    \* items whose publish request Tableau has applied
    saved,      \* items with a recovery receipt in the receipt store
    look,       \* state of each inspecting command
    view        \* the status each inspecting command last reported

parentVars == <<parent, seen, noWait, expired>>
workVars   == <<pc, cancelled, poller, item, admissions, applied, saved>>
lookVars   == <<look, view>>
vars == <<rec, ctl, lease, parentVars, workVars, lookVars>>

Phases == {"absent", "requested", "running", "remote_pending", "completed", "failed"}
Record == [phase: Phases, starter: Workers \cup {None}, finished: BOOLEAN,
           exit: {"none", "ok", "error"}, receipts: SUBSET Items,
           controlFailed: BOOLEAN, detached: BOOLEAN]
Control == [exists: BOOLEAN, supported: BOOLEAN, requested: BOOLEAN, acked: BOOLEAN]

ParentStates ==
    {"preparing", "created", "prepared", "launched", "waiting", "sleeping",
     "probing", "unleased", "interrupted", "cancelOk", "cancelError",
     "refused", "started", "startUnknown", "completed", "workerLost",
     "cancelRequested", "cancelUnconfirmed", "detached", "statusUnknown"}
ParentReturned ==
    {"refused", "started", "startUnknown", "completed", "workerLost",
     "cancelRequested", "cancelUnconfirmed", "detached", "statusUnknown"}
Launched == ParentStates \ {"preparing", "created", "prepared", "refused"}

WorkerStates ==
    {"absent", "booting", "opened", "locked", "leased", "checking",
     "acknowledging", "running", "closing", "exited", "busy", "crashed"}
Gone    == {"exited", "busy", "crashed"}      \* the process no longer exists
Leased  == {"leased", "checking", "acknowledging", "running", "closing"}

ItemStates ==
    {"todo", "preparing", "admitting", "admitted", "accepted", "uncertain",
     "acceptedSaved", "uncertainSaved", "succeeded", "failed", "skipped"}
ItemDone == {"succeeded", "failed", "skipped"}

Views == {"none", "starting", "running", "interrupted", "pending", "succeeded", "failed"}
Looks == [at: {"idle", "read", "probing"}, phase: Phases]

TypeOK ==
    /\ rec \in Record
    /\ ctl \in Control
    /\ lease \in Workers \cup Inspectors \cup {Parent, None}
    /\ parent \in ParentStates
    /\ seen \in [started: BOOLEAN, finished: BOOLEAN]
    /\ noWait \in BOOLEAN
    /\ expired \in BOOLEAN
    /\ pc \in [Workers -> WorkerStates]
    /\ cancelled \in [Workers -> BOOLEAN]
    /\ poller \in [Workers -> {"off", "polling", "acking", "done"}]
    /\ item \in [Workers -> [Items -> ItemStates]]
    /\ admissions \in [Items -> Nat]
    /\ applied \subseteq Items
    /\ saved \subseteq Items
    /\ look \in [Inspectors -> Looks]
    /\ view \in [Inspectors -> Views]

-----------------------------------------------------------------------------
(* The durable record and its control file.                                *)

Terminal(phase) == phase \in {"remote_pending", "completed", "failed"}
Started == rec.starter # None

\* Replacing a file succeeds, leaves the old contents, or (a failed directory
\* sync after the rename) reports an error although the new contents are seen.
WriteResults == {"ok"} \cup (Faults \cap {"write", "sync"})
ReadFails == "read" \in Faults

UpdateRecord(result, new) ==
    rec' = IF result = "write" THEN rec ELSE new
UpdateControl(result, new) ==
    ctl' = IF result = "write" THEN ctl ELSE new

CopyOfRecord == [started |-> Started, finished |-> rec.finished]

\* A request is accepted until the worker has published an outcome, and after
\* startup only when the worker advertised support.
RequestAccepted ==
    /\ ~Terminal(rec.phase)
    /\ ctl.exists
    /\ Started => ctl.supported

RequestCancel(result) ==
    IF ctl.requested
    THEN result = "ok" /\ UNCHANGED ctl
    ELSE RequestAccepted /\ UpdateControl(result, [ctl EXCEPT !.requested = TRUE])

AcknowledgeCancel(result) ==
    IF ctl.acked
    THEN result = "ok" /\ UNCHANGED ctl
    ELSE UpdateControl(result, [ctl EXCEPT !.acked = TRUE])

AdmittedDespiteRequest == ~Terminal(rec.phase) /\ ctl.exists /\ ctl.supported

CommitAdmitted ==
    /\ ~Terminal(rec.phase)
    /\ ctl.exists /\ ctl.supported
    /\ ~ctl.requested

-----------------------------------------------------------------------------
(* The foreground command.                                                 *)

ParentGoes(to) == parent' = to

CreateRecord(result) ==
    /\ parent = "preparing"
    /\ UpdateRecord(result, [rec EXCEPT !.phase = "requested"])
    /\ ParentGoes(IF result = "ok" THEN "created" ELSE "refused")
    /\ UNCHANGED <<ctl, lease, seen, noWait, expired, workVars, lookVars>>

PrepareCancel(result) ==
    /\ parent = "created"
    /\ UpdateControl(result, [ctl EXCEPT !.exists = TRUE])
    /\ ParentGoes(IF result = "ok" THEN "prepared" ELSE "refused")
    /\ UNCHANGED <<rec, lease, seen, noWait, expired, workVars, lookVars>>

\* The launch is tried once.  A reported launch error does not prove that no
\* process started, so both cases are allowed.
Launch ==
    /\ parent = "prepared"
    /\ \/ /\ \E w \in Workers : pc' = [pc EXCEPT ![w] = "booting"]
          /\ parent' \in {"launched", "startUnknown"}
       \/ /\ parent' = "startUnknown"
          /\ UNCHANGED pc
    /\ UNCHANGED <<rec, ctl, lease, seen, noWait, expired,
                   cancelled, poller, item, admissions, applied, saved, lookVars>>

ParentSeesStart ==
    /\ parent = "launched"
    /\ Started
    /\ seen' = CopyOfRecord
    /\ ParentGoes(IF noWait THEN "started" ELSE "waiting")
    /\ UNCHANGED <<rec, ctl, lease, noWait, expired, workVars, lookVars>>

\* Five seconds without a durable start.
ParentStartTimeout ==
    /\ parent = "launched"
    /\ ParentGoes("startUnknown")
    /\ UNCHANGED <<rec, ctl, lease, seen, noWait, expired, workVars, lookVars>>

ParentFinishes ==
    /\ parent = "waiting"
    /\ seen.finished
    /\ ParentGoes("completed")
    /\ UNCHANGED <<rec, ctl, lease, seen, noWait, expired, workVars, lookVars>>

\* Ctrl+C while waiting for the start or for the outcome.
ParentInterrupted ==
    /\ \/ parent = "launched" /\ ~noWait
       \/ parent = "waiting" /\ ~seen.finished
    /\ ParentGoes("interrupted")
    /\ UNCHANGED <<rec, ctl, lease, seen, noWait, expired, workVars, lookVars>>

Expire ==
    /\ parent \in Launched
    /\ ~expired
    /\ expired' = TRUE
    /\ UNCHANGED <<rec, ctl, lease, parent, seen, noWait, workVars, lookVars>>

DetachedStaleCopy ==
    [rec EXCEPT !.detached = TRUE, !.phase = "running", !.finished = FALSE]
DetachedRecord == [rec EXCEPT !.detached = TRUE]

ParentDetaches(result) ==
    /\ parent = "waiting"
    /\ ~seen.finished
    /\ expired
    /\ UpdateRecord(result, DetachedRecord)
    /\ ParentGoes(IF result = "ok" THEN "detached" ELSE "statusUnknown")
    /\ UNCHANGED <<ctl, lease, seen, noWait, expired, workVars, lookVars>>

\* Store.Alive: try the worker lock; holding it for a moment proves that no
\* worker does.
ParentProbes ==
    /\ parent = "waiting"
    /\ ~seen.finished
    /\ ~expired
    /\ \/ /\ lease = None
          /\ lease' = Parent
          /\ ParentGoes("probing")
       \/ /\ lease # None
          /\ ParentGoes("sleeping")
          /\ UNCHANGED lease
    /\ UNCHANGED <<rec, ctl, seen, noWait, expired, workVars, lookVars>>

ParentReleasesProbe ==
    /\ parent = "probing"
    /\ lease' = None
    /\ ParentGoes("unleased")
    /\ UNCHANGED <<rec, ctl, seen, noWait, expired, workVars, lookVars>>

ParentTrustsCopy ==
    /\ parent = "unleased"
    /\ ParentGoes("workerLost")
    /\ UNCHANGED <<rec, ctl, lease, seen, noWait, expired, workVars, lookVars>>

\* Nobody held the lock: the record is read again before the worker is
\* declared lost, because it may have finished since the last copy.
ParentRereads ==
    /\ parent = "unleased"
    /\ seen' = CopyOfRecord
    /\ ParentGoes(IF rec.finished THEN "waiting" ELSE "workerLost")
    /\ UNCHANGED <<rec, ctl, lease, noWait, expired, workVars, lookVars>>

ParentWakesAfresh ==
    /\ parent = "sleeping"
    /\ seen' = CopyOfRecord
    /\ expired' = FALSE
    /\ ParentGoes("waiting")
    /\ UNCHANGED <<rec, ctl, lease, noWait, workVars, lookVars>>

ParentWakes ==
    /\ parent = "sleeping"
    /\ seen' = CopyOfRecord
    /\ ParentGoes("waiting")
    /\ UNCHANGED <<rec, ctl, lease, noWait, expired, workVars, lookVars>>

ParentRequestsCancel ==
    /\ parent = "interrupted"
    /\ \/ \E result \in WriteResults :
            /\ RequestCancel(result)
            /\ ParentGoes(IF result = "ok" THEN "cancelOk" ELSE "cancelError")
       \/ /\ ~ctl.requested /\ ~RequestAccepted
          /\ ParentGoes("cancelError")
          /\ UNCHANGED ctl
    /\ UNCHANGED <<rec, lease, seen, noWait, expired, workVars, lookVars>>

CancelReportIgnoringError == "cancelRequested"
CancelReport == IF parent = "cancelOk" THEN "cancelRequested" ELSE "cancelUnconfirmed"

ParentReportsCancel ==
    /\ parent \in {"cancelOk", "cancelError"}
    /\ ParentGoes(IF rec.finished THEN "completed" ELSE CancelReport)
    /\ UNCHANGED <<rec, ctl, lease, seen, noWait, expired, workVars, lookVars>>

ParentReadFails ==
    /\ ReadFails
    /\ \/ parent \in {"launched", "unleased", "sleeping", "cancelOk", "cancelError"}
       \/ parent = "waiting" /\ ~seen.finished /\ ~expired
    /\ ParentGoes("statusUnknown")
    /\ UNCHANGED <<rec, ctl, lease, seen, noWait, expired, workVars, lookVars>>

ParentRuns ==
    \/ \E result \in WriteResults :
         CreateRecord(result) \/ PrepareCancel(result) \/ ParentDetaches(result)
    \/ Launch \/ ParentSeesStart \/ ParentStartTimeout \/ ParentFinishes
    \/ ParentProbes \/ ParentReleasesProbe \/ ParentRereads \/ ParentWakes
    \/ ParentRequestsCancel \/ ParentReportsCancel \/ ParentReadFails

-----------------------------------------------------------------------------
(* The worker process.                                                     *)

Goes(w, to) == pc' = [pc EXCEPT ![w] = to]

\* Another process entered with the same private selector and exact ID.
SecondWorker(w) ==
    /\ parent \in Launched
    /\ pc[w] = "absent"
    /\ Goes(w, "booting")
    /\ UNCHANGED <<rec, ctl, lease, parentVars, lookVars,
                   cancelled, poller, item, admissions, applied, saved>>

Boot(w) ==
    /\ pc[w] = "booting"
    /\ \/ rec.phase = "requested" /\ Goes(w, "opened")
       \/ (rec.phase # "requested" \/ ReadFails) /\ Goes(w, "exited")
    /\ UNCHANGED <<rec, ctl, lease, parentVars, lookVars,
                   cancelled, poller, item, admissions, applied, saved>>

\* The first half of Store.Lease: the nonblocking worker lock.
TakeLease(w) ==
    /\ pc[w] = "opened"
    /\ \/ lease = None /\ lease' = w /\ Goes(w, "locked")
       \/ lease # None /\ Goes(w, "busy") /\ UNCHANGED lease
    /\ UNCHANGED <<rec, ctl, parentVars, lookVars,
                   cancelled, poller, item, admissions, applied, saved>>

ReleaseAnd(w, to) == lease' = None /\ Goes(w, to)

StartableAgain == ~Terminal(rec.phase)
Startable == ~Terminal(rec.phase) /\ ~Started

DropLease == lease' = None
KeepLease == UNCHANGED lease

\* The second half: advertise cancellation, then record the start, both under
\* the record lock.  A terminal or already started record is never run again.
RecordStart(w) ==
    /\ pc[w] = "locked"
    /\ Startable
    /\ \E advertise, start \in WriteResults :
         /\ UpdateControl(IF ctl.supported THEN "write" ELSE advertise,
                          [ctl EXCEPT !.supported = ctl.exists])
         /\ IF advertise = "ok" \/ ctl.supported
            THEN UpdateRecord(start, [rec EXCEPT !.starter = w, !.phase = "running"])
            ELSE start = "ok" /\ UNCHANGED rec
         /\ IF (advertise = "ok" \/ ctl.supported) /\ start = "ok"
            THEN Goes(w, "leased") /\ KeepLease
            ELSE ReleaseAnd(w, "exited")
    /\ UNCHANGED <<parentVars, lookVars,
                   cancelled, poller, item, admissions, applied, saved>>

RefuseReplay(w) ==
    /\ pc[w] = "locked"
    /\ ~Startable
    /\ ReleaseAnd(w, "exited")
    /\ UNCHANGED <<rec, ctl, parentVars, lookVars,
                   cancelled, poller, item, admissions, applied, saved>>

MisfiledRecord == [rec EXCEPT !.finished = TRUE, !.exit = "error", !.phase = "cancelled"]
FailedRecord == [rec EXCEPT !.finished = TRUE, !.exit = "error", !.phase = "failed"]

DecodePreparation(w) ==
    /\ pc[w] = "leased"
    /\ \/ Goes(w, "checking") /\ UNCHANGED rec
       \/ /\ \E result \in WriteResults : UpdateRecord(result, FailedRecord)
          /\ Goes(w, "closing")
    /\ UNCHANGED <<ctl, lease, parentVars, lookVars,
                   cancelled, poller, item, admissions, applied, saved>>

\* An unreadable control fails the run before anything starts.
ReadInitialControl(w) ==
    /\ pc[w] = "checking"
    /\ \/ /\ Goes(w, IF ctl.requested THEN "acknowledging" ELSE "running")
          /\ cancelled' = [cancelled EXCEPT ![w] = ctl.requested]
          /\ poller' = [poller EXCEPT ![w] = IF ctl.requested THEN "off" ELSE "polling"]
          /\ UNCHANGED rec
       \/ /\ ReadFails
          /\ \E result \in WriteResults :
               UpdateRecord(result, [FailedRecord EXCEPT !.controlFailed = TRUE])
          /\ Goes(w, "closing")
          /\ UNCHANGED <<cancelled, poller>>
    /\ UNCHANGED <<ctl, lease, parentVars, lookVars,
                   item, admissions, applied, saved>>

\* AcknowledgeCancel; a failure is reported in the record's activity, and that
\* report may fail to be written too.
Acknowledge(result) ==
    /\ AcknowledgeCancel(result)
    /\ IF result = "ok"
       THEN UNCHANGED rec
       ELSE \E report \in WriteResults :
              UpdateRecord(report, [rec EXCEPT !.controlFailed = TRUE])

AcknowledgeAtStart(w) ==
    /\ pc[w] = "acknowledging"
    /\ \E result \in WriteResults : Acknowledge(result)
    /\ Goes(w, "running")
    /\ poller' = [poller EXCEPT ![w] = "polling"]
    /\ UNCHANGED <<lease, parentVars, lookVars,
                   cancelled, item, admissions, applied, saved>>

IgnoreContext(w) == UNCHANGED cancelled
CancelContext(w) == cancelled' = [cancelled EXCEPT ![w] = TRUE]

\* One round of the polling goroutine reads the control ...
Poll(w) ==
    /\ pc[w] \in {"running", "closing"}
    /\ poller[w] = "polling"
    /\ \/ /\ ctl.requested
          /\ poller' = [poller EXCEPT ![w] = "acking"]
          /\ UNCHANGED rec
       \/ /\ ReadFails
          /\ poller' = [poller EXCEPT ![w] = "done"]
          /\ \E report \in WriteResults :
               UpdateRecord(report, [rec EXCEPT !.controlFailed = TRUE])
    /\ CancelContext(w)
    /\ UNCHANGED <<ctl, lease, parentVars, lookVars,
                   pc, item, admissions, applied, saved>>

\* ... and acknowledges a request it saw, again and again until that succeeds.
PollAcknowledges(w) ==
    /\ poller[w] = "acking"
    /\ \E result \in WriteResults :
         /\ Acknowledge(result)
         /\ poller' = [poller EXCEPT ![w] = IF result = "ok" THEN "done" ELSE "polling"]
    /\ UNCHANGED <<lease, parentVars, lookVars,
                   pc, cancelled, item, admissions, applied, saved>>

-----------------------------------------------------------------------------
(* The items of the batch run in parallel inside the running worker.       *)

Moves(w, i, to) == item' = [item EXCEPT ![w][i] = to]
AtItem(w, i, at) == pc[w] = "running" /\ item[w][i] = at

\* A cancelled item is skipped without calling the action.
StartItem(w, i) ==
    /\ AtItem(w, i, "todo")
    /\ Moves(w, i, IF cancelled[w] THEN "skipped" ELSE "preparing")
    /\ UNCHANGED <<rec, ctl, lease, parentVars, lookVars,
                   pc, cancelled, poller, admissions, applied, saved>>

\* Planning, validation and upload end in an error or reach the commit guard,
\* which looks at the context first.
PrepareItem(w, i) ==
    /\ AtItem(w, i, "preparing")
    /\ \/ Moves(w, i, "failed")
       \/ ~cancelled[w] /\ Moves(w, i, "admitting")
    /\ UNCHANGED <<rec, ctl, lease, parentVars, lookVars,
                   pc, cancelled, poller, admissions, applied, saved>>

\* Lease.BeginCommit under the record lock.
BeginCommit(w, i) ==
    /\ AtItem(w, i, "admitting")
    /\ \/ /\ CommitAdmitted
          /\ Moves(w, i, "admitted")
          /\ admissions' = [admissions EXCEPT ![i] = @ + 1]
       \/ /\ ~CommitAdmitted \/ ReadFails
          /\ Moves(w, i, "failed")
          /\ UNCHANGED admissions
    /\ UNCHANGED <<rec, ctl, lease, parentVars, lookVars,
                   pc, cancelled, poller, applied, saved>>

\* The one publish request: applied and confirmed, rejected, or of unknown
\* effect.  An admitted request no longer follows the command context.
Submit(w, i) ==
    /\ AtItem(w, i, "admitted")
    /\ \/ Moves(w, i, "accepted") /\ applied' = applied \cup {i}
       \/ Moves(w, i, "failed") /\ UNCHANGED applied
       \/ Moves(w, i, "uncertain") /\ applied' \in {applied, applied \cup {i}}
    /\ UNCHANGED <<rec, ctl, lease, parentVars, lookVars,
                   pc, cancelled, poller, admissions, saved>>

SaveReceipt(w, i) ==
    /\ item[w][i] \in {"accepted", "uncertain"} /\ pc[w] = "running"
    /\ \E result \in WriteResults :
         /\ saved' = IF result = "write" THEN saved ELSE saved \cup {i}
         /\ Moves(w, i, CASE result # "ok" -> "failed"
                          [] result = "ok" /\ item[w][i] = "accepted" -> "acceptedSaved"
                          [] OTHER -> "uncertainSaved")
    /\ UNCHANGED <<rec, ctl, lease, parentVars, lookVars,
                   pc, cancelled, poller, admissions, applied>>

\* The receipt is linked from the record.  An item whose effect is unknown,
\* whose link failed, or whose destination differs from the plan has failed.
LinkReceipt(w, i) ==
    /\ item[w][i] \in {"acceptedSaved", "uncertainSaved"} /\ pc[w] = "running"
    /\ \E result \in WriteResults :
         /\ UpdateRecord(result, [rec EXCEPT !.receipts = @ \cup {i}])
         /\ \/ Moves(w, i, "failed")
            \/ /\ result = "ok" /\ item[w][i] = "acceptedSaved"
               /\ Moves(w, i, "succeeded")
    /\ UNCHANGED <<ctl, lease, parentVars, lookVars,
                   pc, cancelled, poller, admissions, applied, saved>>

ItemRuns(w) == \E i \in Items :
    \/ StartItem(w, i) \/ BeginCommit(w, i)
    \/ Submit(w, i) \/ SaveReceipt(w, i) \/ LinkReceipt(w, i)
ItemPrepares(w) == \E i \in Items : PrepareItem(w, i)

\* The command stops before any item: policy, sign-in or the batch snapshot.
NothingStarted(w) ==
    /\ pc[w] = "running"
    /\ \A i \in Items : item[w][i] = "todo"
    /\ item' = [item EXCEPT ![w] = [i \in Items |-> "failed"]]
    /\ UNCHANGED <<rec, ctl, lease, parentVars, lookVars,
                   pc, cancelled, poller, admissions, applied, saved>>

ExitIgnoringSkipped(w) ==
    IF \A i \in Items : item[w][i] # "failed" THEN "ok" ELSE "error"
ExitOf(w) == IF \A i \in Items : item[w][i] = "succeeded" THEN "ok" ELSE "error"

\* publicationResult: the expanded result, or the fallback kept when it does
\* not fit the record.  A failed write leaves the record "running" for good.
SaveResult(w) ==
    /\ pc[w] = "running"
    /\ \A i \in Items : item[w][i] \in ItemDone
    /\ \E result \in WriteResults :
         \/ UpdateRecord(result,
              [rec EXCEPT !.finished = TRUE, !.exit = ExitOf(w),
                          !.phase = IF ExitOf(w) = "ok" THEN "completed" ELSE "failed"])
         \/ UpdateRecord(result,
              [rec EXCEPT !.finished = TRUE, !.exit = "error",
                          !.phase = IF rec.receipts # {} THEN "remote_pending" ELSE "failed"])
    /\ Goes(w, "closing")
    /\ UNCHANGED <<ctl, lease, parentVars, lookVars,
                   cancelled, poller, item, admissions, applied, saved>>

\* The private batch snapshot could not be written: no result is recorded.
AbandonBatch(w) ==
    /\ "write" \in Faults
    /\ pc[w] = "running"
    /\ \A i \in Items : item[w][i] = "todo"
    /\ Goes(w, "closing")
    /\ UNCHANGED <<rec, ctl, lease, parentVars, lookVars,
                   cancelled, poller, item, admissions, applied, saved>>

\* Deferred calls: stop the poller and wait for it, cancel, release the lease.
Close(w) ==
    /\ pc[w] = "closing"
    /\ poller[w] # "acking"
    /\ poller' = [poller EXCEPT ![w] = "done"]
    /\ CancelContext(w)
    /\ ReleaseAnd(w, "exited")
    /\ UNCHANGED <<rec, ctl, parentVars, lookVars, item, admissions, applied, saved>>

\* A killed process loses its memory; the operating system drops its lock.
Crash(w) ==
    /\ pc[w] \notin Gone \cup {"absent"}
    /\ Goes(w, "crashed")
    /\ lease' = IF lease = w THEN None ELSE lease
    /\ poller' = [poller EXCEPT ![w] = "done"]
    /\ UNCHANGED <<rec, ctl, parentVars, lookVars,
                   cancelled, item, admissions, applied, saved>>

WorkerRuns(w) ==
    \/ Boot(w) \/ TakeLease(w) \/ RecordStart(w) \/ RefuseReplay(w)
    \/ DecodePreparation(w) \/ ReadInitialControl(w) \/ AcknowledgeAtStart(w)
    \/ ItemRuns(w) \/ SaveResult(w) \/ Close(w)

WorkerPolls(w) == Poll(w) \/ PollAcknowledges(w)

-----------------------------------------------------------------------------
(* Concurrent commands.                                                    *)

\* `job cancel --operation-id`.
JobCancel ==
    /\ \E result \in WriteResults : RequestCancel(result)
    /\ UNCHANGED <<rec, lease, parentVars, workVars, lookVars>>

\* `job inspect --operation-id` reads the record, ...
InspectReads(p) ==
    /\ look[p].at = "idle"
    /\ rec.phase # "absent"
    /\ look' = [look EXCEPT ![p] = [at |-> "read", phase |-> rec.phase]]
    /\ UNCHANGED <<rec, ctl, lease, parentVars, workVars, view>>

Status(phase, alive) ==
    CASE phase = "requested"      -> "starting"
      [] phase = "running"        -> IF alive THEN "running" ELSE "interrupted"
      [] phase = "remote_pending" -> "pending"
      [] phase = "completed"      -> "succeeded"
      [] OTHER                    -> "failed"

Reports(p, alive) ==
    /\ view' = [view EXCEPT ![p] = Status(look[p].phase, alive)]
    /\ look' = [look EXCEPT ![p] = [at |-> "idle", phase |-> "absent"]]

\* ... then asks Store.Alive by trying the worker lock.
InspectProbes(p) ==
    /\ look[p].at = "read"
    /\ \/ /\ lease # None
          /\ Reports(p, TRUE)
          /\ UNCHANGED lease
       \/ /\ lease = None
          /\ lease' = p
          /\ look' = [look EXCEPT ![p].at = "probing"]
          /\ UNCHANGED view
    /\ UNCHANGED <<rec, ctl, parentVars, workVars>>

InspectReleasesProbe(p) ==
    /\ look[p].at = "probing"
    /\ lease' = None
    /\ Reports(p, FALSE)
    /\ UNCHANGED <<rec, ctl, parentVars, workVars>>

InspectNext(p) == InspectReads(p) \/ InspectProbes(p) \/ InspectReleasesProbe(p)

-----------------------------------------------------------------------------
Init ==
    /\ rec = [phase |-> "absent", starter |-> None, finished |-> FALSE,
              exit |-> "none", receipts |-> {}, controlFailed |-> FALSE,
              detached |-> FALSE]
    /\ ctl = [exists |-> FALSE, supported |-> FALSE, requested |-> FALSE, acked |-> FALSE]
    /\ lease = None
    /\ parent = "preparing"
    /\ seen = [started |-> FALSE, finished |-> FALSE]
    /\ noWait \in BOOLEAN
    /\ expired = FALSE
    /\ pc = [w \in Workers |-> "absent"]
    /\ cancelled = [w \in Workers |-> FALSE]
    /\ poller = [w \in Workers |-> "off"]
    /\ item = [w \in Workers |-> [i \in Items |-> "todo"]]
    /\ admissions = [i \in Items |-> 0]
    /\ applied = {}
    /\ saved = {}
    /\ look = [p \in Inspectors |-> [at |-> "idle", phase |-> "absent"]]
    /\ view = [p \in Inspectors |-> "none"]

Next ==
    \/ ParentRuns
    \/ ParentInterrupted
    \/ Expire
    \/ \E w \in Workers :
         \/ SecondWorker(w) \/ WorkerRuns(w) \/ WorkerPolls(w) \/ ItemPrepares(w)
         \/ NothingStarted(w) \/ AbandonBatch(w) \/ Crash(w)
    \/ JobCancel
    \/ \E p \in Inspectors : InspectNext(p)

Spec == Init /\ [][Next]_vars

\* Running processes keep running and the clock advances.  Preparing an item
\* may take for ever (a slow upload that keeps making progress) unless the
\* worker's context is cancelled.  Closing waits for the poller, whose select
\* sees the stop signal each time round, hence SF.  Nothing forces a user to
\* interrupt, cancel or inspect, a process to crash, or a file to be unreadable:
\* a round of the poller that finds no request changes nothing.
Fairness ==
    /\ WF_vars(ParentRuns)
    /\ WF_vars(Expire)
    /\ \A w \in Workers :
         /\ WF_vars(WorkerRuns(w)) /\ SF_vars(Close(w))
         /\ WF_vars(ctl.requested /\ WorkerPolls(w))
         /\ WF_vars(cancelled[w] /\ ItemPrepares(w))

FairSpec == Spec /\ Fairness
-----------------------------------------------------------------------------
(* What the operation promises.                                            *)

\* Every item belongs to the one worker whose start is recorded: no other
\* process of the same operation, and no restart after a crash, touches it
\* (store.go Lease: ErrTerminal, ErrWorkerInterrupted, ErrWorkerBusy).
ItemsOnlyOfStarter ==
    \A w \in Workers : \A i \in Items : item[w][i] # "todo" => rec.starter = w

\* No item's publish request is admitted twice, whatever crashes or whichever
\* second worker is started (runtime.md: "rejects replay of an already-started
\* interrupted operation").
AtMostOneSubmission == \A i \in Items : admissions[i] <= 1

\* A record that says "completed" is true: every item was applied by Tableau,
\* has a saved receipt, and that receipt is linked from the record.
CompletedIsTrue ==
    rec.phase = "completed" =>
        /\ applied = Items /\ saved = Items /\ rec.receipts = Items
        /\ rec.finished /\ rec.exit = "ok"

\* An acknowledgement is given only for a durable request, by the started
\* worker, after it cancelled its own work (AcknowledgeCancel).
AcknowledgedMeansStopping ==
    ctl.acked =>
        /\ ctl.requested /\ ctl.supported /\ Started
        /\ cancelled[rec.starter] \/ pc[rec.starter] \in Gone

\* `job inspect` never calls an operation interrupted while its worker still
\* runs, although it reads the record and the lock at different moments.
InterruptedMeansWorkerGone ==
    \A p \in Inspectors :
        view[p] = "interrupted" => Started /\ pc[rec.starter] \in Gone

\* "The worker stopped without a final result": once the foreground command
\* has said so, no final result appears later.
WorkerLostIsFinal == parent = "workerLost" => ~rec.finished

\* What a foreground command reports when it returns is recorded: an outcome,
\* a start (--no-wait), or a cancellation request.
ParentReportsFacts ==
    /\ parent = "completed" => rec.finished
    /\ parent = "started" => Started
    /\ parent = "cancelRequested" => ctl.requested

\* Neither the start of a worker, a linked receipt nor an outcome is ever
\* taken back, whoever writes the record last (Store.Update).
OutcomeIsFinal ==
    [][ /\ Started => rec'.starter = rec.starter
        /\ rec.receipts \subseteq rec'.receipts
        /\ rec.finished => /\ rec'.finished /\ rec'.phase = rec.phase
                           /\ rec'.exit = rec.exit ]_vars

Outcome == CASE rec.phase = "completed" -> "succeeded"
             [] rec.phase \in {"remote_pending", "failed"} -> "unsuccessful"
             [] OTHER -> "open"

Promise == INSTANCE PublishOnce WITH
    requested <- ctl.requested, acknowledged <- ctl.acked, outcome <- Outcome

\* The record, the control file and the commit guard together keep the
\* contract of PublishOnce: at most one submission per item, and none after an
\* accepted cancellation request.
ImplementsPublishOnce == Promise!Spec

\* A cancellation request ends a running worker, even when an upload would
\* never end by itself and however often the control file cannot be written.
CancelEndsWorker ==
    \A w \in Workers : (ctl.requested /\ pc[w] = "running") ~> pc[w] \in Gone

\* The foreground command returns to the terminal.
ParentReturns == parent = "launched" ~> parent \in ParentReturned

\* ErrWorkerBusy "reports that another worker currently owns the run lease"
\* (store.go:39).
BusyMeansAnotherWorker ==
    [][\A w \in Workers :
         (pc[w] = "opened" /\ pc'[w] = "busy") => lease \in Workers]_vars

\* ErrWorkerInterrupted, and the "interrupted" status, mean that the worker
\* "did not publish a terminal or remote-pending result" (store.go:43).
InterruptedMeansNoResult ==
    [][\A p \in Inspectors :
         (view'[p] = "interrupted" /\ view[p] # "interrupted") => ~Terminal(rec.phase)]_vars
=============================================================================
