-------------------------- MODULE PublicationStatus --------------------------
(***************************************************************************)
(* What `tadx job inspect --operation-id` does to an operation whose      *)
(* worker is gone (internal/app/publication_status.go): it walks the saved *)
(* receipts in order, reads the unfinished jobs and unconfirmed            *)
(* destinations once, saves each receipt (internal/jobmonitor/store.go),   *)
(* and merges what it saw into the operation record.  Any number of such   *)
(* commands may run at once: the receipt and record files are locked for   *)
(* each single access, never across the remote reads between them.         *)
(*                                                                         *)
(* The compact and the full result are one snapshot here: both have the    *)
(* same shape and take the same merges.                                    *)
(***************************************************************************)
EXTENDS Naturals, FiniteSets

CONSTANTS
    Inspectors,     \* processes running the inspection
    Receipts,       \* number of linked receipts, in the record's order
    Bare,           \* number of items that failed before they had a receipt
    Batch,          \* is the saved result a batch with one entry per item?
    Saved,          \* how the worker ended: subset of {"kept", "lost", "interrupted"}
    Endings,        \* the terminal states Tableau may give a job
    Steady,         \* does Tableau keep the terminal state it reported?
    MaxInspections  \* bound: inspections per process

JobEndings == {"succeeded", "failed", "cancelled"}

ASSUME StatusAssumption ==
    /\ Receipts \in Nat \ {0}
    /\ Bare \in Nat
    /\ Batch \in BOOLEAN
    /\ Steady \in BOOLEAN
    /\ ~Batch => Receipts = 1 /\ Bare = 0
    /\ Endings \subseteq JobEndings
    /\ MaxInspections \in Nat

VARIABLES
    job,      \* Tableau's state of each accepted publication
    where,    \* Tableau's placement of the published content
    receipt,  \* the receipt files
    record,   \* the operation record
    now,      \* time of the last job read
    look,     \* what each inspecting process is doing
    count,    \* inspections each process has begun
    answer    \* the operation status its last inspection reported

remote == <<job, where>>
vars == <<job, where, receipt, record, now, look, count, answer>>

Index == 1..Receipts
JobStates == {"pending"} \cup JobEndings
\* A publication whose response was lost is "unknown" for good: it has no job to ask.
Observed == JobStates \cup {"unknown"}
Verifications == {"", "confirmed", "destination_pending", "destination_unavailable",
                  "destination_mismatch"}
\* tracked: has a Tableau job ID; at: CheckedAt; known: has a resource ID
Receipt == [tracked: BOOLEAN, obs: Observed, at: Nat, known: BOOLEAN, ver: Verifications]

\* A saved result: its own status, and per receipt the status of the batch entry
\* and of the publication inside it.  A result that did not fit is "lost".
RootStates == {"lost", "pending", "running", "succeeded", "failed", "partial_failure"}
Snapshot == [root: RootStates, outer: [Index -> JobStates], inner: [Index -> Observed]]
Record == [phase: {"running", "remote_pending", "completed", "failed"}, full: Snapshot]
Settled == {"completed", "failed"}

\* "none": not looked at yet; "unknown" also when a receipt or job could not be read
ItemStates == {"none"} \cup Observed
Look == [at: {"idle", "open", "check", "resolve", "save"}, seen: Record,
         next: 1..(Receipts + 1), copy: Receipt, status: [Index -> ItemStates]]
Answers == {"none", "interrupted", "pending", "succeeded", "failed"}

Terminal(s) == s \in JobEndings

TypeOK ==
    /\ job \in [Index -> JobStates]
    /\ where \in [Index -> {"hidden", "exact", "elsewhere"}]
    /\ receipt \in [Index -> Receipt]
    /\ record \in Record
    /\ now \in Nat
    /\ look \in [Inspectors -> Look]
    /\ count \in [Inspectors -> Nat]
    /\ answer \in [Inspectors -> Answers]
-----------------------------------------------------------------------------
\* The saved result.

PromoteNothing(outer, inner) == outer

\* Only an entry that is not finished takes the status of the publication in it.
Promote(outer, inner) ==
    IF outer = "pending" /\ Terminal(inner) THEN inner ELSE outer

RecountIgnoringPending(root, outer) ==
    IF ~Batch THEN root
    ELSE IF Bare > 0 \/ "failed" \in {outer[i] : i \in Index} THEN "partial_failure"
    ELSE IF root \in {"partial_failure", "failed"} THEN root ELSE "succeeded"

\* The batch status follows from its entries; anything but a success, a failure
\* or a skip counts as pending, a cancelled entry too.
Recount(root, outer) ==
    LET succeeded == {i \in Index : outer[i] = "succeeded"}
        failed == {i \in Index : outer[i] = "failed"}
        pending == Index \ (succeeded \cup failed)
    IN  IF ~Batch THEN root
        ELSE IF Bare > 0 \/ failed # {}
             THEN IF succeeded = {} /\ pending = {} THEN "failed" ELSE "partial_failure"
        ELSE IF root \in {"partial_failure", "failed"} THEN root
        ELSE IF pending = {} THEN "succeeded"
        ELSE IF root = "pending" THEN "pending" ELSE "running"

\* An unreadable receipt leaves what the result already says.
MergeResult(full, status, root) ==
    LET inner == [i \in Index |-> IF status[i] \in JobStates THEN status[i] ELSE full.inner[i]]
        outer == [i \in Index |-> Promote(full.outer[i], inner[i])]
    IN  IF full.root = "lost" THEN full
        ELSE [root |-> Recount(root, outer), outer |-> outer, inner |-> inner]

HasFailure(full) ==
    /\ full.root # "lost"
    /\ \/ full.root \in {"failed", "partial_failure"}
       \/ Bare > 0
       \/ \E i \in Index : "failed" \in {full.outer[i], full.inner[i]}

HasPending(full) ==
    /\ full.root # "lost"
    /\ \/ full.root \in {"pending", "running"}
       \/ \E i \in Index : {full.outer[i], full.inner[i]} \cap {"pending", "unknown"} # {}
-----------------------------------------------------------------------------
\* The receipt store.

NeverConflicts(old, new) == FALSE

\* Saving over an existing receipt: an outcome is never replaced by another one,
\* nor an observation by an earlier or less final one.
SaveConflicts(old, new) ==
    Terminal(old.obs) /\ Terminal(new.obs) /\ old.obs # new.obs

KeepsOldOutcome(old, new) == Terminal(old.obs) /\ ~Terminal(new.obs)
KeepsOld(old, new) ==
    (Terminal(old.obs) /\ ~Terminal(new.obs)) \/ old.at > new.at

MergeReceipt(old, new) ==
    [new EXCEPT !.obs = IF KeepsOld(old, new) THEN old.obs ELSE new.obs,
                !.at = IF KeepsOld(old, new) THEN old.at ELSE new.at,
                !.known = old.known \/ (~KeepsOld(old, new) /\ new.known),
                !.ver = IF new.ver = "" THEN old.ver ELSE new.ver]
-----------------------------------------------------------------------------
\* The states the worker can leave behind.

JobReceipt(s) == [tracked |-> TRUE, obs |-> s, at |-> 0, known |-> FALSE, ver |-> ""]
ResultReceipt(s, ver) ==
    [tracked |-> FALSE, obs |-> s, at |-> 0, known |-> s = "succeeded", ver |-> ver]

\* Operations of v1.0.x wait for jobs; a later publication has its result at once.
LeftReceipts ==
    [Index -> {JobReceipt("pending")}]
        \cup [Index -> {ResultReceipt("unknown", "")} \cup
                        {ResultReceipt("succeeded", v) : v \in {"", "confirmed", "destination_mismatch"}}]

NoResult ==
    [root |-> "lost", outer |-> [i \in Index |-> "pending"], inner |-> [i \in Index |-> "pending"]]

\* An entry is failed when its outcome is unknown or its content is misplaced.
LeftResult(r) ==
    LET bad(i) == r[i].obs = "unknown" \/ r[i].ver = "destination_mismatch"
        outer == [i \in Index |-> IF bad(i) THEN "failed" ELSE r[i].obs]
        root == IF \E i \in Index : outer[i] = "failed" THEN "failed" ELSE outer[1]
    IN  [root |-> Recount(root, outer), outer |-> outer, inner |-> [i \in Index |-> r[i].obs]]

ContainsUnfinished(full) ==
    full.root \in {"pending", "running"} \/ \E i \in Index : full.inner[i] = "pending"

LeftPhase(full) ==
    IF ContainsUnfinished(full) THEN "remote_pending"
    ELSE IF HasFailure(full) THEN "failed" ELSE "completed"

LeftRecords(r) ==
    LET full == LeftResult(r)
    IN  {[phase |-> LeftPhase(full), full |-> full] : x \in Saved \cap {"kept"}}
            \cup {[phase |-> "remote_pending", full |-> NoResult] : x \in Saved \cap {"lost"}}
            \cup {[phase |-> "running", full |-> NoResult] : x \in Saved \cap {"interrupted"}}

Idle == [at |-> "idle", seen |-> [phase |-> "running", full |-> NoResult], next |-> 1,
         copy |-> JobReceipt("pending"), status |-> [i \in Index |-> "none"]]

Init ==
    /\ receipt \in LeftReceipts
    /\ record \in LeftRecords(receipt)
    /\ job \in [Index -> JobStates]
    /\ \A i \in Index : IF receipt[i].obs = "unknown" THEN job[i] \in {"succeeded", "failed"}
                        ELSE job[i] = receipt[i].obs
    /\ where = [i \in Index |-> "hidden"]
    /\ now = 0
    /\ look = [p \in Inspectors |-> Idle]
    /\ count = [p \in Inspectors |-> 0]
    /\ answer = [p \in Inspectors |-> "none"]
-----------------------------------------------------------------------------
\* Tableau.

JobEnds(i) ==
    /\ job[i] = "pending" \/ (~Steady /\ Terminal(job[i]))
    /\ \E s \in Endings : job' = [job EXCEPT ![i] = s]
    /\ UNCHANGED <<where, receipt, record, now, look, count, answer>>

\* Published content becomes visible by name, and people move and rename it.
ContentMoves(i) ==
    /\ job[i] = "succeeded"
    /\ where' = [where EXCEPT ![i] = IF @ = "exact" THEN "elsewhere" ELSE "exact"]
    /\ UNCHANGED <<job, receipt, record, now, look, count, answer>>
-----------------------------------------------------------------------------
\* One inspection.

Begin(p) ==
    /\ look[p].at = "idle"
    /\ count[p] < MaxInspections
    /\ count' = [count EXCEPT ![p] = @ + 1]
    /\ look' = [look EXCEPT ![p] = [Idle EXCEPT !.at = "open", !.seen = record]]
    /\ UNCHANGED <<remote, receipt, record, now, answer>>

SkipsNext(p, s) ==
    look' = [look EXCEPT ![p].at = "open", ![p].next = @ + 2, ![p].status[look[p].next] = s]

\* The item at hand gets a status and the walk goes on.
Next1(p, s) ==
    look' = [look EXCEPT ![p].at = "open", ![p].next = @ + 1, ![p].status[look[p].next] = s]

Reading(p) == look[p].at = "open" /\ look[p].next <= Receipts

ReceiptUnreadable(p) ==
    /\ Reading(p)
    /\ Next1(p, "unknown")
    /\ UNCHANGED <<remote, receipt, record, now, count, answer>>

\* A settled operation only has its unconfirmed destinations looked up again.
NothingToAsk(p, r) ==
    look[p].seen.phase \in Settled /\ (r.obs # "succeeded" \/ r.ver = "confirmed")

ReadReceipt(p) ==
    LET r == receipt[look[p].next] IN
    /\ Reading(p)
    /\ IF NothingToAsk(p, r) THEN Next1(p, r.obs)
       ELSE look' = [look EXCEPT ![p].copy = r,
                                 ![p].at = IF Terminal(r.obs) THEN "resolve" ELSE "check"]
    /\ UNCHANGED <<remote, receipt, record, now, count, answer>>

\* Tableau names the content of a finished job in some answers and not in others.
CheckJob(p) ==
    LET i == look[p].next IN
    /\ look[p].at = "check"
    /\ look[p].copy.tracked
    /\ now' = now + 1
    /\ \E known \in BOOLEAN :
        /\ known => job[i] = "succeeded"
        /\ look' = [look EXCEPT ![p].at = "resolve", ![p].copy.obs = job[i],
                                ![p].copy.at = now + 1, ![p].copy.known = known]
    /\ UNCHANGED <<remote, receipt, record, count, answer>>

CheckFails(p) ==
    /\ look[p].at = "check"
    /\ Next1(p, "unknown")
    /\ UNCHANGED <<remote, receipt, record, now, count, answer>>

Unconfirmed(r) == r.obs = "succeeded" /\ r.ver # "confirmed"

\* Content whose resource ID is known is read by it, other content by its name.
Destination(r, place) ==
    IF r.known THEN IF place = "elsewhere" THEN "destination_mismatch" ELSE "confirmed"
    ELSE IF place = "exact" THEN "confirmed" ELSE "destination_pending"

Resolve(p) ==
    LET r == look[p].copy
        found == Destination(r, where[look[p].next])
        verdicts == IF Unconfirmed(r) THEN {found, "destination_unavailable"} ELSE {r.ver}
    IN
    /\ look[p].at = "resolve"
    /\ \E ver \in verdicts :
        look' = [look EXCEPT ![p].at = "save", ![p].copy.ver = ver,
                             ![p].copy.known = @ \/ (Unconfirmed(r) /\ ver = "confirmed")]
    /\ UNCHANGED <<remote, receipt, record, now, count, answer>>

\* The walk goes on with the status it read, whether or not the save succeeds.
SaveReceipt(p) ==
    LET i == look[p].next
        r == look[p].copy
    IN
    /\ look[p].at = "save"
    /\ Next1(p, r.obs)
    /\ \/ ~SaveConflicts(receipt[i], r) /\ receipt' = [receipt EXCEPT ![i] = MergeReceipt(@, r)]
       \/ receipt' = receipt
    /\ UNCHANGED <<remote, record, now, count, answer>>

SawFailedJob(l) == \E i \in Index : l.status[i] \in {"failed", "cancelled"}

\* The verdict rests on the record as it was when the inspection began.
SawFailure(l) ==
    \/ l.seen.phase = "failed"
    \/ HasFailure(l.seen.full)
    \/ \E i \in Index : l.status[i] \in {"failed", "cancelled"}

SawPending(l) ==
    \/ HasPending(MergeResult(l.seen.full, l.status, "succeeded"))
    \/ \E i \in Index : ~Terminal(l.status[i])

ReconciledCopy(l) ==
    LET root == IF SawFailure(l) THEN "failed" ELSE "succeeded"
    IN  [phase |-> IF SawPending(l) THEN l.seen.phase
                   ELSE IF SawFailure(l) THEN "failed" ELSE "completed",
         full |-> MergeResult(record.full, l.status, IF SawPending(l) THEN "pending" ELSE root)]
ReconciledEarly(l) ==
    LET root == IF SawFailure(l) THEN "failed" ELSE "succeeded"
    IN  [phase |-> IF SawPending(l) THEN record.phase
                   ELSE IF SawFailure(l) THEN "failed" ELSE "completed",
         full |-> MergeResult(record.full, l.status, root)]

\* The update itself applies to the record as it is now.
Reconciled(l) ==
    LET phase == IF SawFailure(l) THEN "failed" ELSE "completed"
        root == IF SawPending(l) THEN IF SawFailure(l) THEN "partial_failure" ELSE "pending"
                ELSE IF SawFailure(l) THEN "failed" ELSE "succeeded"
    IN  [phase |-> IF SawPending(l) THEN record.phase ELSE phase,
         full |-> MergeResult(record.full, l.status, root)]

Answer(phase) ==
    CASE phase = "running" -> "interrupted"
      [] phase = "remote_pending" -> "pending"
      [] phase = "completed" -> "succeeded"
      [] phase = "failed" -> "failed"

Walked(p) == look[p].at = "open" /\ look[p].next > Receipts

Report(p, phase) ==
    /\ answer' = [answer EXCEPT ![p] = Answer(phase)]
    /\ look' = [look EXCEPT ![p] = Idle]
    /\ UNCHANGED <<remote, receipt, now, count>>

Reconcile(p) ==
    /\ Walked(p)
    /\ look[p].seen.phase # "running"
    /\ record' = Reconciled(look[p])
    /\ Report(p, record'.phase)

\* An interrupted operation is never reconciled, and a reconciliation that cannot
\* be saved is only a warning.
ReportUnchanged(p) ==
    /\ Walked(p)
    /\ record' = record
    /\ Report(p, look[p].seen.phase)

Inspect(p) ==
    \/ Begin(p)
    \/ ReceiptUnreadable(p) \/ ReadReceipt(p)
    \/ CheckJob(p) \/ CheckFails(p)
    \/ Resolve(p) \/ SaveReceipt(p)
    \/ Reconcile(p) \/ ReportUnchanged(p)

Next ==
    \/ \E p \in Inspectors : Inspect(p)
    \/ \E i \in Index : JobEnds(i) \/ ContentMoves(i)

Spec == Init /\ [][Next]_vars
-----------------------------------------------------------------------------
\* What an inspection may and may not do to the saved evidence.

\* A receipt that holds an outcome keeps it (store.go: "job observation conflicts
\* with its saved terminal outcome"), whichever inspections overlap and whatever
\* Tableau answers later.
SavedOutcomeStays ==
    [][\A i \in Index : Terminal(receipt[i].obs) => receipt'[i].obs = receipt[i].obs]_vars

\* A slow inspection never puts an older observation over a newer one, and a
\* resource ID once saved is never lost.
EvidenceOnlyGrows ==
    [][\A i \in Index : /\ receipt'[i].at >= receipt[i].at
                        /\ receipt[i].known => receipt'[i].known]_vars

\* An operation is recorded as completed, and an inspection answers "succeeded",
\* only when every selected item was published.
CompletedIsTrue ==
    (record.phase = "completed" \/ \E p \in Inspectors : answer[p] = "succeeded")
        => Bare = 0 /\ \A i \in Index : job[i] = "succeeded"

\* An operation whose outcome is recorded keeps it: overlapping inspections that
\* began earlier neither reopen it nor turn a failure into a success.
RecordedOutcomeStays == [][record.phase \in Settled => record'.phase = record.phase]_vars

\* A saved result that claims success holds no item that was not published, after
\* any sequence of partial and overlapping merges.
SuccessfulResultIsTrue ==
    record.full.root = "succeeded" => Bare = 0 /\ \A i \in Index : job[i] = "succeeded"

\* An inspection that saw every job of a remote-pending operation end, and saved
\* its reconciliation, leaves the operation settled.
EndedJobsSettle ==
    [][\A p \in Inspectors :
        Reconcile(p) /\ (\A i \in Index : Terminal(look[p].status[i])) => record'.phase \in Settled]_vars

\* A receipt whose destination is confirmed names the confirmed content.
ConfirmedIsIdentified ==
    \A i \in Index : receipt[i].ver = "confirmed" => receipt[i].known
=============================================================================
