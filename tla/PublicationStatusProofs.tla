----------------------- MODULE PublicationStatusProofs -----------------------
(***************************************************************************)
(* Proofs about PublicationStatus: for any number of overlapping           *)
(* inspections, receipts and failed items, what an operation is recorded   *)
(* as is true and final, and saved evidence is never overwritten.          *)
(***************************************************************************)
EXTENDS PublicationStatus, TLAPS

\* Tableau said of an accepted publication that it did not succeed.
Failing(i) == job[i] \in {"failed", "cancelled"}

\* A saved result marks an entry as failed although Tableau did not.
Marked(full, i) == full.outer[i] = "failed" /\ job[i] # "failed"

Flagged(full) == full.root # "lost" /\ (Bare > 0 \/ \E i \in Index : Marked(full, i))

\* The operation cannot be recorded as a success any more.
Bad == (\E i \in Index : Failing(i)) \/ Flagged(record.full)

AllPublished == \A i \in Index : job[i] = "succeeded"

Busy(p) == look[p].at # "idle"
Walking(p) == look[p].at \in {"check", "resolve", "save"}

WalkInRange == \A p \in Inspectors : Walking(p) => look[p].next <= Receipts

ReceiptsTrue == \A i \in Index : Terminal(receipt[i].obs) => job[i] = receipt[i].obs

CopiesTrue ==
    \A p \in Inspectors :
        look[p].at \in {"resolve", "save"} /\ Terminal(look[p].copy.obs)
            => job[look[p].next] = look[p].copy.obs

StatusTrue ==
    \A p \in Inspectors, i \in Index :
        Terminal(look[p].status[i]) => job[i] = look[p].status[i]

\* What is failed inside a saved result was failed by Tableau.
ResultTrue(full) == \A i \in Index : full.inner[i] = "failed" => job[i] = "failed"

\* Merges never disagree on which results were lost and which entries are marked.
SameMarks(full) ==
    /\ full.root = "lost" <=> record.full.root = "lost"
    /\ \A i \in Index : Marked(full, i) <=> Marked(record.full, i)

RecordTrue ==
    /\ ResultTrue(record.full)
    /\ HasFailure(record.full) => Bad
    /\ record.phase = "failed" => Bad
    /\ record.phase = "completed" => ~Bad /\ AllPublished
    /\ record.full.root = "lost" => record.phase = "running" \/ "lost" \in Saved

SeenTrue(seen) ==
    /\ ResultTrue(seen.full)
    /\ SameMarks(seen.full)
    /\ HasFailure(seen.full) => Bad
    /\ seen.phase = "failed" => Bad
    /\ seen.phase \in Settled => record.phase = seen.phase
    /\ seen.phase = "running" <=> record.phase = "running"

CopiesOfRecord == \A p \in Inspectors : Busy(p) => SeenTrue(look[p].seen)

AnswersTrue == \A p \in Inspectors : answer[p] = "succeeded" => record.phase = "completed"

Inv == /\ TypeOK
       /\ WalkInRange
       /\ ReceiptsTrue
       /\ CopiesTrue
       /\ StatusTrue
       /\ RecordTrue
       /\ CopiesOfRecord
       /\ AnswersTrue
-----------------------------------------------------------------------------
\* Lemmas on the merge of a saved result.

\* Merging keeps a saved result a saved result.
LEMMA MergeType ==
    ASSUME NEW full \in Snapshot, NEW status \in [Index -> ItemStates],
           NEW root \in RootStates
    PROVE  MergeResult(full, status, root) \in Snapshot
<1> DEFINE inner == [i \in Index |-> IF status[i] \in JobStates THEN status[i] ELSE full.inner[i]]
           outer == [i \in Index |-> Promote(full.outer[i], inner[i])]
<1>1. inner \in [Index -> Observed]
    BY DEF Snapshot, Observed
<1>2. outer \in [Index -> JobStates]
    BY <1>1 DEF Snapshot, Promote, Terminal, JobStates
<1>3. \A o : Recount(root, o) \in RootStates
    BY DEF Recount, RootStates
<1> QED
    BY <1>1, <1>2, <1>3 DEF MergeResult, Snapshot

\* A lost result stays lost, any other one stays readable.
LEMMA MergeLost ==
    ASSUME NEW full \in Snapshot, NEW status, NEW root \in RootStates \ {"lost"}
    PROVE  MergeResult(full, status, root).root = "lost" <=> full.root = "lost"
<1>1. \A o : Recount(root, o) # "lost"
    BY DEF Recount
<1> QED
    BY <1>1 DEF MergeResult

\* A publication takes the status the walk read, an entry keeps a failure, and
\* gets a new one only from the publication in it.
LEMMA MergeEntry ==
    ASSUME NEW full \in Snapshot, NEW status \in [Index -> ItemStates],
           NEW root \in RootStates, NEW i \in Index, full.root # "lost"
    PROVE  LET new == MergeResult(full, status, root)
           IN  /\ new.inner[i] = IF status[i] \in JobStates THEN status[i] ELSE full.inner[i]
               /\ full.outer[i] = "failed" => new.outer[i] = "failed"
               /\ new.outer[i] = "failed" => full.outer[i] = "failed" \/ new.inner[i] = "failed"
BY DEF MergeResult, Promote

\* The status of the result claims a failure only for a reason.
LEMMA MergeRoot ==
    ASSUME NEW full \in Snapshot, NEW status \in [Index -> ItemStates],
           NEW root \in {"pending", "running", "succeeded"}, Bare = 0, full.root # "lost",
           \A i \in Index : MergeResult(full, status, root).outer[i] # "failed"
    PROVE  MergeResult(full, status, root).root \notin {"failed", "partial_failure"}
<1> DEFINE inner == [i \in Index |-> IF status[i] \in JobStates THEN status[i] ELSE full.inner[i]]
           outer == [i \in Index |-> Promote(full.outer[i], inner[i])]
           new == MergeResult(full, status, root)
<1>1. new = [root |-> Recount(root, outer), outer |-> outer, inner |-> inner]
    BY DEF MergeResult
<1>2. {i \in Index : outer[i] = "failed"} = {}
    <2>1. new.outer = outer
        BY <1>1
    <2> HIDE DEF outer, new
    <2> QED
        BY <2>1 DEF new
<1>3. new.root = Recount(root, outer)
    BY <1>1
<1> HIDE DEF outer, new
<1>4. Recount(root, outer) \notin {"failed", "partial_failure"}
    BY <1>2 DEF Recount
<1> QED
    BY <1>3, <1>4 DEF new
-----------------------------------------------------------------------------
\* Lemmas on the steps of one inspection.

\* The state of process p after it has dealt with the item at hand.
Advanced(p, s) ==
    [look[p] EXCEPT !.at = "open", !.next = @ + 1, !.status[look[p].next] = s]

\* What a process may hold while it walks the receipts.
LookTrue(l) ==
    /\ l.at \in {"check", "resolve", "save"} => l.next <= Receipts
    /\ l.at \in {"resolve", "save"} /\ Terminal(l.copy.obs) => job[l.next] = l.copy.obs
    /\ \A i \in Index : Terminal(l.status[i]) => job[i] = l.status[i]
    /\ l.at # "idle" => SeenTrue(l.seen)

\* The invariant says this of every process.
LEMMA InvLook ==
    Inv <=> /\ TypeOK /\ ReceiptsTrue /\ RecordTrue /\ AnswersTrue
            /\ \A p \in Inspectors : LookTrue(look[p])
BY DEF Inv, LookTrue, WalkInRange, Walking, CopiesTrue, StatusTrue, CopiesOfRecord, Busy

\* A step that only moves one process needs that process looked at, no other.
LEMMA LookStep ==
    ASSUME Inv, NEW p \in Inspectors, NEW l \in Look, LookTrue(l),
           look' = [look EXCEPT ![p] = l],
           UNCHANGED <<job, where, receipt, record, answer>>,
           now' \in Nat, count' \in [Inspectors -> Nat]
    PROVE  Inv'
<1>1. TypeOK'
    BY DEF Inv, TypeOK
<1>2. ReceiptsTrue' /\ RecordTrue' /\ AnswersTrue'
    BY DEF Inv, ReceiptsTrue, RecordTrue, AnswersTrue, ResultTrue, Bad, Failing, Flagged,
           Marked, AllPublished
<1>3. \A q \in Inspectors : look'[q] = IF q = p THEN l ELSE look[q]
    BY DEF Inv, TypeOK
<1>4. \A q \in Inspectors : LookTrue(look'[q])
    BY <1>3, InvLook
<1>5. \A q \in Inspectors : LookTrue(look[q])'
    BY <1>4 DEF LookTrue, SeenTrue, ResultTrue, SameMarks, Bad, Failing, Flagged, Marked
<1> QED
    BY <1>1, <1>2, <1>5
    DEF Inv, LookTrue, WalkInRange, Walking, CopiesTrue, StatusTrue, CopiesOfRecord, Busy

\* Going on to the next item stays within bounds.
LEMMA AdvancedType ==
    ASSUME TypeOK, NEW p \in Inspectors, look[p].next <= Receipts, NEW s \in ItemStates
    PROVE  Advanced(p, s) \in Look
<1>1. look[p] \in Look
    BY DEF TypeOK
<1>2. look[p].next \in Index /\ look[p].next + 1 \in 1..(Receipts + 1)
    BY <1>1, StatusAssumption DEF Look, Index
<1> QED
    BY <1>1, <1>2 DEF Advanced, Look

\* Going on is the step of one process only.
LEMMA AdvancedStep ==
    ASSUME TypeOK, NEW p \in Inspectors, NEW s, Next1(p, s)
    PROVE  look' = [look EXCEPT ![p] = Advanced(p, s)]
<1>1. look = [q \in Inspectors |-> look[q]]
    BY DEF TypeOK
<1>2. look[p] \in [at : {"idle", "open", "check", "resolve", "save"}, seen : Record,
                   next : 1..(Receipts + 1), copy : Receipt, status : [Index -> ItemStates]]
    BY DEF TypeOK, Look
<1> QED
    BY <1>1, <1>2 DEF Next1, Advanced

\* Going on keeps what the process holds true if the new status is.
LEMMA AdvancedTrue ==
    ASSUME Inv, NEW p \in Inspectors, look[p].at # "idle", look[p].next <= Receipts,
           NEW s \in ItemStates, Terminal(s) => job[look[p].next] = s
    PROVE  LookTrue(Advanced(p, s))
<1>1. look[p] \in Look
    BY DEF Inv, TypeOK
<1>2. LookTrue(look[p])
    BY InvLook
<1>3. Advanced(p, s).at = "open" /\ Advanced(p, s).seen = look[p].seen
    BY <1>1 DEF Advanced, Look
<1>4. \A i \in Index : Advanced(p, s).status[i] = IF i = look[p].next THEN s ELSE look[p].status[i]
    BY <1>1 DEF Advanced, Look
<1> QED
    BY <1>2, <1>3, <1>4 DEF LookTrue

\* An idle process is well-formed.
LEMMA IdleType == Idle \in Look
<1>1. JobReceipt("pending") \in Receipt
    BY DEF JobReceipt, Receipt, Observed, JobStates, Verifications
<1>2. [i \in Index |-> "none"] \in [Index -> ItemStates]
    BY DEF ItemStates
<1>3. NoResult \in Snapshot
    BY DEF NoResult, Snapshot, RootStates, Observed, JobStates
<1>4. [phase |-> "running", full |-> NoResult] \in Record
    BY <1>3 DEF Record
<1>5. 1 \in 1..(Receipts + 1)
    BY StatusAssumption
<1> QED
    BY <1>1, <1>2, <1>4, <1>5 DEF Idle, Look

\* Each step of an inspection before its reconciliation keeps the invariant.
LEMMA BeginInv ==
    ASSUME Inv, NEW p \in Inspectors, Begin(p)
    PROVE  Inv'
<1> DEFINE l == [Idle EXCEPT !.at = "open", !.seen = record]
<1>1. l \in Look
    BY IdleType DEF Inv, TypeOK, Look
<1>2. LookTrue(l)
    BY DEF Inv, LookTrue, SeenTrue, RecordTrue, SameMarks, Idle, Terminal, JobEndings, Settled
<1>3. look' = [look EXCEPT ![p] = l] /\ UNCHANGED <<job, where, receipt, record, now, answer>>
    BY DEF Begin, remote
<1>4. count' \in [Inspectors -> Nat] /\ now' \in Nat
    BY DEF Begin, Inv, TypeOK
<1> HIDE DEF l
<1> QED
    BY <1>1, <1>2, <1>3, <1>4, LookStep

\* Giving the item at hand a true status keeps the invariant.
LEMMA AdvanceInv ==
    ASSUME Inv, NEW p \in Inspectors, look[p].at # "idle", look[p].next <= Receipts,
           NEW s \in ItemStates, Terminal(s) => job[look[p].next] = s,
           Next1(p, s), UNCHANGED <<job, where, receipt, record, now, count, answer>>
    PROVE  Inv'
<1>1. look' = [look EXCEPT ![p] = Advanced(p, s)]
    BY AdvancedStep DEF Inv
<1>2. Advanced(p, s) \in Look
    BY AdvancedType DEF Inv
<1>3. LookTrue(Advanced(p, s))
    BY AdvancedTrue
<1>4. now' \in Nat /\ count' \in [Inspectors -> Nat]
    BY DEF Inv, TypeOK
<1> QED
    BY <1>1, <1>2, <1>3, <1>4, LookStep

\* An unreadable receipt or job gives its item no outcome.
LEMMA WalkInv ==
    ASSUME Inv, NEW p \in Inspectors, ReceiptUnreadable(p) \/ CheckFails(p)
    PROVE  Inv'
<1>1. look[p].at # "idle" /\ look[p].next <= Receipts
    BY DEF Inv, WalkInRange, Walking, ReceiptUnreadable, CheckFails, Reading
<1>2. "unknown" \in ItemStates /\ ~Terminal("unknown")
    BY DEF ItemStates, Observed, Terminal, JobEndings
<1>3. Next1(p, "unknown") /\ UNCHANGED <<job, where, receipt, record, now, count, answer>>
    BY DEF ReceiptUnreadable, CheckFails, remote
<1> QED
    BY <1>1, <1>2, <1>3, AdvanceInv

\* The copy of a receipt is as true as the receipt.
LEMMA ReadReceiptInv ==
    ASSUME Inv, NEW p \in Inspectors, ReadReceipt(p)
    PROVE  Inv'
<1> DEFINE i == look[p].next
           r == receipt[i]
<1>1. look[p] \in Look /\ look[p].at = "open" /\ i \in Index
    BY StatusAssumption DEF Inv, TypeOK, ReadReceipt, Reading, Look, Index
<1>2. r \in Receipt /\ (Terminal(r.obs) => job[i] = r.obs)
    BY <1>1 DEF Inv, TypeOK, ReceiptsTrue
<1>3. UNCHANGED <<job, where, receipt, record, now, count, answer>>
    BY DEF ReadReceipt, remote
<1>4. CASE NothingToAsk(p, r)
    <2>1. Next1(p, r.obs)
        BY <1>4 DEF ReadReceipt
    <2>2. r.obs \in ItemStates /\ look[p].next <= Receipts
        BY <1>1, <1>2 DEF Receipt, ItemStates, Index
    <2> QED
        BY <1>1, <1>2, <1>3, <2>1, <2>2, AdvanceInv
<1>5. CASE ~NothingToAsk(p, r)
    <2> DEFINE l == [look[p] EXCEPT !.copy = r, !.at = IF Terminal(r.obs) THEN "resolve" ELSE "check"]
    <2>1. look' = [look EXCEPT ![p] = l]
        BY <1>5 DEF ReadReceipt, Inv, TypeOK
    <2>2. l \in Look
        BY <1>1, <1>2 DEF Look
    <2>3. LookTrue(l)
        BY <1>1, <1>2, InvLook DEF LookTrue, Look, Index
    <2>4. now' \in Nat /\ count' \in [Inspectors -> Nat]
        BY <1>3 DEF Inv, TypeOK
    <2> HIDE DEF l
    <2> QED
        BY <1>3, <2>1, <2>2, <2>3, <2>4, LookStep
<1> QED
    BY <1>4, <1>5

\* The copy takes the state the job has now.
LEMMA CheckJobInv ==
    ASSUME Inv, NEW p \in Inspectors, CheckJob(p)
    PROVE  Inv'
<1> DEFINE i == look[p].next
<1>1. look[p] \in Look /\ look[p].at = "check" /\ i \in Index
    BY StatusAssumption DEF Inv, TypeOK, CheckJob, WalkInRange, Walking, Look, Index
<1>2. PICK known \in BOOLEAN :
         look' = [look EXCEPT ![p].at = "resolve", ![p].copy.obs = job[i],
                              ![p].copy.at = now + 1, ![p].copy.known = known]
    BY DEF CheckJob
<1> DEFINE l == [look[p] EXCEPT !.at = "resolve", !.copy.obs = job[i], !.copy.at = now + 1,
                                !.copy.known = known]
<1>3. look' = [look EXCEPT ![p] = l]
    BY <1>2 DEF Inv, TypeOK
<1>4. job[i] \in Observed /\ now + 1 \in Nat
    BY <1>1 DEF Inv, TypeOK, Observed
<1>5. l \in Look
    BY <1>1, <1>4 DEF Look, Receipt
<1>6. LookTrue(l)
    BY <1>1, InvLook DEF LookTrue, Look, Index, Receipt
<1>7. UNCHANGED <<job, where, receipt, record, answer>>
    BY DEF CheckJob, remote
<1>8. now' \in Nat /\ count' \in [Inspectors -> Nat]
    BY DEF CheckJob, Inv, TypeOK
<1> HIDE DEF l
<1> QED
    BY <1>3, <1>5, <1>6, <1>7, <1>8, LookStep

\* Looking up the destination changes no outcome.
LEMMA ResolveInv ==
    ASSUME Inv, NEW p \in Inspectors, Resolve(p)
    PROVE  Inv'
<1>1. look[p] \in Look /\ look[p].at = "resolve"
    BY DEF Inv, TypeOK, Resolve
<1>2. PICK ver \in Verifications :
         look' = [look EXCEPT ![p].at = "save", ![p].copy.ver = ver,
                              ![p].copy.known = @ \/ (Unconfirmed(look[p].copy) /\ ver = "confirmed")]
    <2>1. look[p].copy.ver \in Verifications
        BY <1>1 DEF Look, Receipt
    <2>2. \A r, w : Destination(r, w) \in Verifications
        BY DEF Destination, Verifications
    <2>3. (IF Unconfirmed(look[p].copy)
           THEN {Destination(look[p].copy, where[look[p].next]), "destination_unavailable"}
           ELSE {look[p].copy.ver}) \subseteq Verifications
        BY <2>1, <2>2 DEF Verifications
    <2> QED
        BY <2>3 DEF Resolve
<1> DEFINE l == [look[p] EXCEPT !.at = "save", !.copy.ver = ver,
                     !.copy.known = @ \/ (Unconfirmed(look[p].copy) /\ ver = "confirmed")]
<1>3. look' = [look EXCEPT ![p] = l]
    BY <1>2 DEF Inv, TypeOK
<1>4. l \in Look
    BY <1>1 DEF Look, Receipt
<1>5. LookTrue(l)
    BY <1>1, InvLook DEF LookTrue, Look, Receipt
<1>6. UNCHANGED <<job, where, receipt, record, answer>>
    BY DEF Resolve, remote
<1>7. now' \in Nat /\ count' \in [Inspectors -> Nat]
    BY DEF Resolve, Inv, TypeOK
<1> HIDE DEF l
<1> QED
    BY <1>3, <1>4, <1>5, <1>6, <1>7, LookStep

\* Saving keeps what the receipts say of the jobs true, whatever is merged.
LEMMA SaveReceiptInv ==
    ASSUME Inv, NEW p \in Inspectors, SaveReceipt(p)
    PROVE  Inv'
<1> DEFINE i == look[p].next
           r == look[p].copy
<1>1. look[p] \in Look /\ look[p].at = "save" /\ i \in Index
    BY StatusAssumption DEF Inv, TypeOK, SaveReceipt, WalkInRange, Walking, Look, Index
<1>2. r \in Receipt /\ (Terminal(r.obs) => job[i] = r.obs)
    BY <1>1, InvLook DEF Look, LookTrue
<1>3. r.obs \in ItemStates /\ look[p].next <= Receipts
    BY <1>1, <1>2 DEF Receipt, ItemStates, Index
<1> DEFINE l == Advanced(p, r.obs)
<1>4. l \in Look /\ LookTrue(l)
    BY <1>1, <1>2, <1>3, AdvancedType, AdvancedTrue DEF Inv
<1>5. look' = [look EXCEPT ![p] = l]
    BY AdvancedStep DEF SaveReceipt, Inv
<1>6. UNCHANGED <<job, where, record, now, count, answer>>
    BY DEF SaveReceipt, remote
<1>7. receipt[i] \in Receipt /\ (Terminal(receipt[i].obs) => job[i] = receipt[i].obs)
    BY <1>1 DEF Inv, TypeOK, ReceiptsTrue
<1>8. MergeReceipt(receipt[i], r) \in Receipt
    BY <1>2, <1>7 DEF MergeReceipt, Receipt
<1>9. Terminal(MergeReceipt(receipt[i], r).obs) => job[i] = MergeReceipt(receipt[i], r).obs
    BY <1>2, <1>7 DEF MergeReceipt, Receipt
<1>10. receipt' = receipt \/ receipt' = [receipt EXCEPT ![i] = MergeReceipt(receipt[i], r)]
    BY DEF SaveReceipt
<1> HIDE DEF l, r
<1>11. receipt' \in [Index -> Receipt]
    BY <1>8, <1>10 DEF Inv, TypeOK
<1>12. ReceiptsTrue'
    BY <1>1, <1>6, <1>9, <1>10 DEF Inv, TypeOK, ReceiptsTrue
<1>13. TypeOK'
    BY <1>4, <1>5, <1>6, <1>11 DEF Inv, TypeOK
<1>14. RecordTrue' /\ AnswersTrue'
    BY <1>6 DEF Inv, RecordTrue, AnswersTrue, ResultTrue, Bad, Failing, Flagged, Marked, AllPublished
<1>15. \A q \in Inspectors : LookTrue(look'[q])
    BY <1>4, <1>5, InvLook DEF TypeOK
<1>16. \A q \in Inspectors : LookTrue(look[q])'
    BY <1>6, <1>15 DEF LookTrue, SeenTrue, ResultTrue, SameMarks, Bad, Failing, Flagged, Marked
<1> QED
    BY <1>12, <1>13, <1>14, <1>16
    DEF Inv, LookTrue, WalkInRange, Walking, CopiesTrue, StatusTrue, CopiesOfRecord, Busy

\* Tableau's own steps only add failures, and never to an operation whose outcome
\* is recorded as a success.
LEMMA JobEndsInv ==
    ASSUME Inv, Steady, NEW i \in Index, JobEnds(i)
    PROVE  Inv'
<1>1. job \in [Index -> JobStates] /\ job[i] = "pending"
    BY DEF JobEnds, Inv, TypeOK, Terminal
<1>2. PICK s \in Endings : job' = [job EXCEPT ![i] = s]
    BY DEF JobEnds
<1>3. \A j \in Index : job'[j] = IF j = i THEN s ELSE job[j]
    BY <1>1, <1>2
<1>4. s \in JobEndings /\ "pending" \notin JobEndings
    BY StatusAssumption DEF JobEndings
<1>5. UNCHANGED <<where, receipt, record, now, look, count, answer>>
    BY DEF JobEnds
<1>6. TypeOK'
    BY <1>1, <1>2, <1>4, <1>5 DEF Inv, TypeOK, JobStates
<1>7. \A j \in Index : Terminal(job[j]) => job'[j] = job[j]
    BY <1>1, <1>3, <1>4 DEF Terminal
<1>8. WalkInRange' /\ ReceiptsTrue' /\ CopiesTrue' /\ StatusTrue' /\ AnswersTrue'
    <2>1. WalkInRange' /\ AnswersTrue' /\ ReceiptsTrue' /\ StatusTrue'
        BY <1>5, <1>7 DEF Inv, WalkInRange, Walking, AnswersTrue, ReceiptsTrue, StatusTrue
    <2>2. CopiesTrue'
        <3> SUFFICES ASSUME NEW q \in Inspectors, look[q].at \in {"resolve", "save"},
                            Terminal(look[q].copy.obs)
                     PROVE  job'[look[q].next] = look[q].copy.obs
            BY <1>5 DEF CopiesTrue
        <3>1. look[q].next \in Index
            BY StatusAssumption DEF Inv, TypeOK, Look, WalkInRange, Walking, Index
        <3> QED
            BY <1>7, <3>1 DEF Inv, CopiesTrue
    <2> QED
        BY <2>1, <2>2
\* A mark disappears only from an item that Tableau fails.
<1>9. \A full \in Snapshot, j \in Index : Marked(full, j)' <=> Marked(full, j) /\ ~(j = i /\ s = "failed")
    BY <1>1, <1>3 DEF Marked
<1>10. \A full \in Snapshot : ResultTrue(full) => ResultTrue(full)'
    BY <1>4, <1>7 DEF ResultTrue, Terminal, JobEndings
<1>11. Bad => Bad'
    <2>1. (\E j \in Index : Failing(j)) => (\E j \in Index : Failing(j)')
        BY <1>7 DEF Failing, Terminal, JobEndings
    <2>2. s = "failed" => Failing(i)'
        BY <1>3 DEF Failing
    <2>3. s # "failed" /\ Flagged(record.full) => Flagged(record.full)'
        BY <1>5, <1>9 DEF Flagged, Inv, TypeOK, Record
    <2> QED
        BY <2>1, <2>2, <2>3 DEF Bad
<1>12. RecordTrue'
    <2>1. record.phase # "completed"
        BY <1>1 DEF Inv, RecordTrue, AllPublished
    <2> QED
        BY <1>5, <1>10, <1>11, <2>1 DEF Inv, TypeOK, Record, RecordTrue, HasFailure
<1>13. CopiesOfRecord'
    <2> SUFFICES ASSUME NEW q \in Inspectors, Busy(q)
                 PROVE  SeenTrue(look[q].seen)'
        BY <1>5 DEF CopiesOfRecord, Busy
    <2>1. SeenTrue(look[q].seen)
        BY DEF Inv, CopiesOfRecord
    <2>2. look[q].seen.full \in Snapshot /\ record.full \in Snapshot
        BY DEF Inv, TypeOK, Look, Record
    <2>3. ResultTrue(look[q].seen.full)'
        BY <1>5, <1>10, <2>1, <2>2 DEF SeenTrue, ResultTrue
    <2>4. SameMarks(look[q].seen.full)'
        BY <1>5, <1>9, <2>1, <2>2 DEF SeenTrue, SameMarks, Marked
    <2> QED
        BY <1>5, <1>11, <2>1, <2>3, <2>4 DEF SeenTrue, HasFailure
<1> QED
    BY <1>6, <1>8, <1>12, <1>13 DEF Inv

\* Moved content changes no outcome.
LEMMA ContentMovesInv ==
    ASSUME Inv, NEW i \in Index, ContentMoves(i)
    PROVE  Inv'
<1>1. TypeOK'
    BY DEF ContentMoves, Inv, TypeOK
<1>2. UNCHANGED <<job, receipt, record, look, answer>>
    BY DEF ContentMoves
<1> QED
    BY <1>1, <1>2
    DEF Inv, WalkInRange, Walking, ReceiptsTrue, CopiesTrue, StatusTrue, RecordTrue, ResultTrue,
        HasFailure, Bad, Failing, Flagged, Marked, AllPublished, CopiesOfRecord, Busy, SeenTrue,
        SameMarks, AnswersTrue
-----------------------------------------------------------------------------
\* The reconciliation.

\* What a process concludes from what it holds is so: a failure it saw is one, and
\* when it saw neither a failure nor an open end, every item was published.
LEMMA VerdictTrue ==
    ASSUME Inv, NEW p \in Inspectors, Busy(p)
    PROVE  /\ SawFailure(look[p]) => Bad
           /\ ~SawFailure(look[p]) /\ ~SawPending(look[p]) => ~Bad /\ AllPublished
<1>1. SeenTrue(look[p].seen) /\ (\A i \in Index : Terminal(look[p].status[i]) => job[i] = look[p].status[i])
    BY DEF Inv, CopiesOfRecord, StatusTrue
<1>2. SawFailure(look[p]) => Bad
    <2>1. ASSUME NEW i \in Index, look[p].status[i] \in {"failed", "cancelled"} PROVE Bad
        BY <1>1, <2>1 DEF Terminal, JobEndings, Bad, Failing
    <2> QED
        BY <1>1, <2>1 DEF SawFailure, SeenTrue
<1>3. ASSUME ~SawFailure(look[p]), ~SawPending(look[p]) PROVE ~Bad /\ AllPublished
    <2>1. \A i \in Index : job[i] = "succeeded"
        BY <1>1, <1>3 DEF SawFailure, SawPending, Terminal, JobEndings
    <2>2. ~Flagged(record.full)
        <3>1. ~Flagged(look[p].seen.full)
            BY <1>3 DEF SawFailure, HasFailure, Flagged, Marked
        <3> QED
            BY <1>1, <3>1 DEF SeenTrue, SameMarks, Flagged
    <2> QED
        BY <2>1, <2>2 DEF Bad, Failing, AllPublished
<1> QED
    BY <1>2, <1>3

\* The merge of true statuses into a true result is one, with the same marks.
LEMMA MergeTrue ==
    ASSUME Inv, NEW p \in Inspectors, Busy(p), NEW root \in RootStates \ {"lost"},
           root \in {"failed", "partial_failure"} => Bad
    PROVE  LET new == MergeResult(record.full, look[p].status, root)
           IN  /\ new \in Snapshot
               /\ ResultTrue(new)
               /\ SameMarks(new)
               /\ HasFailure(new) => Bad
<1> DEFINE new == MergeResult(record.full, look[p].status, root)
<1>1. /\ record.full \in Snapshot /\ look[p].status \in [Index -> ItemStates]
      /\ ResultTrue(record.full)
      /\ \A i \in Index : Terminal(look[p].status[i]) => job[i] = look[p].status[i]
    BY DEF Inv, TypeOK, Record, Look, RecordTrue, StatusTrue
<1>2. new \in Snapshot /\ (new.root = "lost" <=> record.full.root = "lost")
    BY <1>1, MergeType, MergeLost
<1>3. CASE record.full.root = "lost"
    <2>1. new = record.full
        BY <1>3 DEF MergeResult
    <2> HIDE DEF new
    <2> QED
        BY <1>1, <1>2, <1>3, <2>1 DEF SameMarks, HasFailure, new
<1>4. CASE record.full.root # "lost"
    <2>1. \A i \in Index :
            /\ new.inner[i] = IF look[p].status[i] \in JobStates THEN look[p].status[i]
                              ELSE record.full.inner[i]
            /\ record.full.outer[i] = "failed" => new.outer[i] = "failed"
            /\ new.outer[i] = "failed" => record.full.outer[i] = "failed" \/ new.inner[i] = "failed"
        BY <1>1, <1>4, MergeEntry
    <2>2. new.root \in {"failed", "partial_failure"} =>
            \/ root \in {"failed", "partial_failure"}
            \/ Bare > 0
            \/ \E i \in Index : new.outer[i] = "failed"
        <3>1. Bare \in Nat
            BY StatusAssumption
        <3>2. root \in {"pending", "running", "succeeded"} \/ root \in {"failed", "partial_failure"}
            BY DEF RootStates
        <3> QED
            BY <1>1, <1>4, <3>1, <3>2, MergeRoot
    <2> HIDE DEF new
    <2>3. ResultTrue(new)
        BY <1>1, <2>1 DEF ResultTrue, Terminal, JobEndings
    <2>4. SameMarks(new)
        BY <1>2, <2>1, <2>3 DEF SameMarks, Marked, ResultTrue
    <2>5. ASSUME HasFailure(new) PROVE Bad
        <3>1. ASSUME NEW i \in Index, new.inner[i] = "failed" PROVE Bad
            BY <2>3, <3>1 DEF ResultTrue, Bad, Failing
        <3>2. ASSUME NEW i \in Index, new.outer[i] = "failed" PROVE Bad
            BY <1>4, <2>4, <3>2 DEF SameMarks, Marked, Bad, Failing, Flagged
        <3>3. Bare > 0 => Bad
            BY <1>4 DEF Bad, Flagged
        <3> QED
            BY <2>2, <2>5, <3>1, <3>2, <3>3 DEF HasFailure
    <2> QED
        BY <1>2, <2>3, <2>4, <2>5 DEF new
<1> QED
    BY <1>3, <1>4

\* A reconciliation keeps the saved result true and an outcome already recorded.
LEMMA ReconcileFacts ==
    ASSUME Inv, NEW p \in Inspectors, Reconcile(p)
    PROVE  /\ record' \in Record
           /\ record.phase # "running" /\ record'.phase # "running"
           /\ ResultTrue(record'.full) /\ SameMarks(record'.full)
           /\ HasFailure(record'.full) => Bad
           /\ record'.phase = "failed" => Bad
           /\ record'.phase = "completed" => ~Bad /\ AllPublished
           /\ record.phase \in Settled => record'.phase = record.phase
<1> DEFINE l == look[p]
           root == IF SawPending(l) THEN IF SawFailure(l) THEN "partial_failure" ELSE "pending"
                   ELSE IF SawFailure(l) THEN "failed" ELSE "succeeded"
           phase == IF SawPending(l) THEN record.phase
                    ELSE IF SawFailure(l) THEN "failed" ELSE "completed"
<1>1. Busy(p) /\ l.seen.phase # "running"
    BY DEF Reconcile, Walked, Busy
<1>2. record' = [phase |-> phase, full |-> MergeResult(record.full, l.status, root)]
    BY DEF Reconcile, Reconciled
<1>3. record \in Record /\ RecordTrue /\ SeenTrue(l.seen)
    BY <1>1 DEF Inv, TypeOK, CopiesOfRecord
<1>4. (SawFailure(l) => Bad) /\ (~SawFailure(l) /\ ~SawPending(l) => ~Bad /\ AllPublished)
    BY <1>1, VerdictTrue
<1>5. root \in RootStates \ {"lost"} /\ (root \in {"failed", "partial_failure"} => Bad)
    BY <1>4 DEF RootStates
<1> HIDE DEF l, root
<1>6. LET new == MergeResult(record.full, l.status, root)
      IN  /\ new \in Snapshot /\ ResultTrue(new) /\ SameMarks(new)
          /\ HasFailure(new) => Bad
    BY <1>1, <1>5, MergeTrue DEF l
<1>7. record.phase # "running"
    BY <1>1, <1>3 DEF SeenTrue
<1>8. phase \in {"running", "remote_pending", "completed", "failed"} /\ phase # "running"
    BY <1>3, <1>7 DEF Record
<1>9. phase = "failed" => Bad
    BY <1>3, <1>4 DEF RecordTrue
<1>10. phase = "completed" => ~Bad /\ AllPublished
    BY <1>3, <1>4 DEF RecordTrue
<1>11. record.phase \in Settled => phase = record.phase
    BY <1>3, <1>4 DEF RecordTrue, Settled
<1> HIDE DEF phase
<1>12. record'.phase = phase /\ record'.full = MergeResult(record.full, l.status, root)
    BY <1>2
<1>13. record' \in Record
    BY <1>2, <1>6, <1>8 DEF Record
<1> QED
    BY <1>6, <1>7, <1>8, <1>9, <1>10, <1>11, <1>12, <1>13

\* So every process keeps a true copy of the record.
LEMMA ReconcileInv ==
    ASSUME Inv, NEW p \in Inspectors, Reconcile(p)
    PROVE  Inv'
<1>1. /\ record' \in Record
      /\ record.phase # "running" /\ record'.phase # "running"
      /\ ResultTrue(record'.full) /\ SameMarks(record'.full)
      /\ HasFailure(record'.full) => Bad
      /\ record'.phase = "failed" => Bad
      /\ record'.phase = "completed" => ~Bad /\ AllPublished
      /\ record.phase \in Settled => record'.phase = record.phase
    BY ReconcileFacts
<1>2. /\ UNCHANGED <<job, where, receipt, now, count>>
      /\ look' = [look EXCEPT ![p] = Idle]
      /\ answer' = [answer EXCEPT ![p] = Answer(record'.phase)]
    BY DEF Reconcile, Report, remote
<1>3. Answer(record'.phase) \in Answers /\ (Answer(record'.phase) = "succeeded" => record'.phase = "completed")
    BY <1>1 DEF Answer, Answers, Record
<1>4. TypeOK'
    BY <1>1, <1>2, <1>3, IdleType DEF Inv, TypeOK
<1>5. \A q \in Inspectors : look'[q] = IF q = p THEN Idle ELSE look[q]
    BY <1>2 DEF Inv, TypeOK
<1>6. Idle.at = "idle" /\ \A i \in Index : ~Terminal(Idle.status[i])
    BY DEF Idle, Terminal, JobEndings
<1>7. WalkInRange' /\ ReceiptsTrue' /\ CopiesTrue' /\ StatusTrue'
    BY <1>2, <1>5, <1>6 DEF Inv, WalkInRange, Walking, ReceiptsTrue, CopiesTrue, StatusTrue
<1>8. Bad' <=> Bad
    BY <1>1, <1>2 DEF Bad, Failing, Flagged, SameMarks, Marked
<1>9. RecordTrue'
    <2>1. record'.full.root = "lost" => "lost" \in Saved
        BY <1>1 DEF SameMarks, Inv, RecordTrue
    <2>2. ResultTrue(record.full)' /\ AllPublished' = AllPublished
        BY <1>1, <1>2 DEF ResultTrue, AllPublished
    <2>3. HasFailure(record.full)' <=> HasFailure(record'.full)
        BY DEF HasFailure
    <2> QED
        BY <1>1, <1>8, <2>1, <2>2, <2>3 DEF RecordTrue
<1>10. CopiesOfRecord'
    <2> SUFFICES ASSUME NEW q \in Inspectors, q # p, Busy(q)
                 PROVE  SeenTrue(look[q].seen)'
        BY <1>5, <1>6 DEF CopiesOfRecord, Busy
    <2>1. look'[q] = look[q] /\ SeenTrue(look[q].seen)
        BY <1>5 DEF Inv, CopiesOfRecord
    <2>2. ResultTrue(look[q].seen.full)' /\ SameMarks(look[q].seen.full)'
        BY <1>1, <1>2, <2>1 DEF SeenTrue, ResultTrue, SameMarks, Marked
    <2>3. look[q].seen.phase \in Settled => record'.phase = look[q].seen.phase
        BY <1>1, <2>1 DEF SeenTrue
    <2>4. look[q].seen.phase # "running"
        BY <1>1, <2>1 DEF SeenTrue
    <2>5. (HasFailure(look[q].seen.full) => Bad) /\ (look[q].seen.phase = "failed" => Bad)
        BY <2>1 DEF SeenTrue
    <2> QED
        BY <1>1, <1>8, <2>1, <2>2, <2>3, <2>4, <2>5 DEF SeenTrue, HasFailure
<1>11. AnswersTrue'
    BY <1>1, <1>2, <1>3 DEF Inv, TypeOK, AnswersTrue, Settled
<1> QED
    BY <1>4, <1>7, <1>9, <1>10, <1>11 DEF Inv

\* Without a reconciliation the answer is that of a record known to stay settled.
LEMMA ReportUnchangedInv ==
    ASSUME Inv, NEW p \in Inspectors, ReportUnchanged(p)
    PROVE  Inv'
<1>1. /\ UNCHANGED <<job, where, receipt, record, now, count>>
      /\ look' = [look EXCEPT ![p] = Idle]
      /\ answer' = [answer EXCEPT ![p] = Answer(look[p].seen.phase)]
    BY DEF ReportUnchanged, Report, remote
<1>2. look[p].seen \in Record /\ SeenTrue(look[p].seen)
    BY DEF Inv, TypeOK, Look, CopiesOfRecord, ReportUnchanged, Walked, Busy
<1>3. /\ Answer(look[p].seen.phase) \in Answers
      /\ Answer(look[p].seen.phase) = "succeeded" => record.phase = "completed"
    BY <1>2 DEF Answer, Answers, Record, SeenTrue, Settled
<1>4. TypeOK'
    BY <1>1, <1>3, IdleType DEF Inv, TypeOK
<1>5. \A q \in Inspectors : look'[q] = IF q = p THEN Idle ELSE look[q]
    BY <1>1 DEF Inv, TypeOK
<1>6. Idle.at = "idle" /\ \A i \in Index : ~Terminal(Idle.status[i])
    BY DEF Idle, Terminal, JobEndings
<1>7. WalkInRange' /\ ReceiptsTrue' /\ CopiesTrue' /\ StatusTrue'
    BY <1>1, <1>5, <1>6 DEF Inv, WalkInRange, Walking, ReceiptsTrue, CopiesTrue, StatusTrue
<1>8. RecordTrue'
    BY <1>1 DEF Inv, RecordTrue, ResultTrue, HasFailure, Bad, Failing, Flagged, Marked, AllPublished
<1>9. CopiesOfRecord'
    <2> SUFFICES ASSUME NEW q \in Inspectors, q # p, Busy(q)
                 PROVE  SeenTrue(look[q].seen)'
        BY <1>5, <1>6 DEF CopiesOfRecord, Busy
    <2>1. look'[q] = look[q] /\ SeenTrue(look[q].seen)
        BY <1>5 DEF Inv, CopiesOfRecord
    <2> QED
        BY <1>1, <2>1 DEF SeenTrue, ResultTrue, SameMarks, HasFailure, Bad, Failing, Flagged, Marked
<1>10. AnswersTrue'
    BY <1>1, <1>3 DEF Inv, TypeOK, AnswersTrue
<1> QED
    BY <1>4, <1>7, <1>8, <1>9, <1>10 DEF Inv
-----------------------------------------------------------------------------
\* The worker leaves a job to ask, a published item or an unknown outcome.
LEMMA LeftObservations ==
    ASSUME Init
    PROVE  \A i \in Index : receipt[i].obs \in {"pending", "succeeded", "unknown"}
<1>1. JobReceipt("pending").obs = "pending"
    BY DEF JobReceipt
<1>2. \A s \in {"succeeded", "unknown"}, v \in {"", "confirmed", "destination_mismatch"} :
          ResultReceipt(s, v).obs = s
    BY DEF ResultReceipt
<1>3. CASE receipt \in [Index -> {JobReceipt("pending")}]
    BY <1>1, <1>3
<1>4. CASE receipt \in [Index -> {ResultReceipt("unknown", "")} \cup
              {ResultReceipt("succeeded", v) : v \in {"", "confirmed", "destination_mismatch"}}]
    <2> SUFFICES ASSUME NEW i \in Index
                 PROVE  receipt[i].obs \in {"pending", "succeeded", "unknown"}
        OBVIOUS
    <2>1. \/ receipt[i] = ResultReceipt("unknown", "")
          \/ \E v \in {"", "confirmed", "destination_mismatch"} :
                 receipt[i] = ResultReceipt("succeeded", v)
        BY <1>4
    <2> QED
        BY <1>2, <2>1
<1> QED
    BY <1>3, <1>4 DEF Init, LeftReceipts

\* What the worker leaves behind is true.
LEMMA InitInv == Init => Inv
<1> SUFFICES ASSUME Init PROVE Inv
    OBVIOUS
<1>1. \A i \in Index : receipt[i].obs \in {"pending", "succeeded", "unknown"}
    BY LeftObservations
<1>2. receipt \in [Index -> Receipt]
    <2>1. JobReceipt("pending") \in Receipt
        BY DEF JobReceipt, Receipt, Observed, JobStates, Verifications
    <2>2. \A s \in {"succeeded", "unknown"}, v \in Verifications : ResultReceipt(s, v) \in Receipt
        BY DEF ResultReceipt, Receipt, Observed, JobStates, JobEndings
    <2>3. {"", "confirmed", "destination_mismatch"} \subseteq Verifications
        BY DEF Verifications
    <2> QED
        BY <2>1, <2>2, <2>3 DEF Init, LeftReceipts
<1>3. \A i \in Index : IF receipt[i].obs = "unknown" THEN job[i] \in {"succeeded", "failed"}
                       ELSE job[i] = receipt[i].obs
    BY DEF Init
<1> DEFINE bad(i) == receipt[i].obs = "unknown" \/ receipt[i].ver = "destination_mismatch"
           outer == [i \in Index |-> IF bad(i) THEN "failed" ELSE receipt[i].obs]
           first == IF \E i \in Index : outer[i] = "failed" THEN "failed" ELSE outer[1]
           kept == LeftResult(receipt)
<1>4. /\ kept.root = Recount(first, outer) /\ kept.outer = outer
      /\ kept.inner = [i \in Index |-> receipt[i].obs]
    BY DEF LeftResult
<1>5. kept \in Snapshot
    <2>1. outer \in [Index -> {"pending", "succeeded", "failed"}]
        BY <1>1
    <2>2. first \in {"pending", "succeeded", "failed"}
        BY <2>1, StatusAssumption DEF Index
    <2> HIDE DEF outer, first
    <2>3. Recount(first, outer) \in RootStates
        BY <2>2 DEF Recount, RootStates
    <2>4. [i \in Index |-> receipt[i].obs] \in [Index -> Observed]
        BY <1>1 DEF Observed, JobStates, JobEndings
    <2>5. kept = [root |-> Recount(first, outer), outer |-> outer, inner |-> [i \in Index |-> receipt[i].obs]]
        BY DEF LeftResult, outer, first
    <2> QED
        BY <2>1, <2>3, <2>4, <2>5 DEF Snapshot, JobStates, JobEndings
<1>6. kept.root \in {"failed", "partial_failure"} => Bare > 0 \/ \E i \in Index : outer[i] = "failed"
    <2>1. first \in {"failed", "partial_failure"} => \E i \in Index : outer[i] = "failed"
        BY <1>1, StatusAssumption DEF Index
    <2> HIDE DEF outer, first, kept
    <2> QED
        BY <1>4, <2>1 DEF Recount
<1>7. kept.root # "lost"
    <2>1. first # "lost"
        BY <1>1, StatusAssumption DEF Index
    <2> HIDE DEF outer, first, kept
    <2> QED
        BY <1>4, <2>1 DEF Recount
<1>8. ResultTrue(kept) /\ \A i \in Index : kept.inner[i] = receipt[i].obs
    BY <1>1, <1>4 DEF ResultTrue
<1>9. NoResult \in Snapshot /\ NoResult.root = "lost" /\ ResultTrue(NoResult) /\ ~HasFailure(NoResult)
    BY DEF NoResult, Snapshot, RootStates, Observed, JobStates, ResultTrue, HasFailure
<1>10. \/ record = [phase |-> LeftPhase(kept), full |-> kept]
       \/ record = [phase |-> "remote_pending", full |-> NoResult] /\ "lost" \in Saved
       \/ record = [phase |-> "running", full |-> NoResult]
    BY DEF Init, LeftRecords
<1>11. record \in Record
    BY <1>5, <1>9, <1>10 DEF Record, LeftPhase
<1>12. ASSUME record.full = kept, HasFailure(kept) PROVE Bad
    <2>1. Bare > 0 \/ \E i \in Index : outer[i] = "failed"
        BY <1>1, <1>4, <1>6, <1>8, <1>12 DEF HasFailure
    <2>2. ASSUME NEW i \in Index, outer[i] = "failed" PROVE Bad
        BY <1>4, <1>7, <1>12, <2>2 DEF Bad, Failing, Flagged, Marked
    <2> QED
        BY <1>7, <1>12, <2>1, <2>2 DEF Bad, Flagged
<1>13. ASSUME record.full = kept, ~ContainsUnfinished(kept), ~HasFailure(kept) PROVE ~Bad /\ AllPublished
    <2>1. \A i \in Index : outer[i] # "failed"
        BY <1>4, <1>7, <1>13 DEF HasFailure
    <2>2. \A i \in Index : receipt[i].obs # "unknown"
        BY <2>1
    <2>3. \A i \in Index : receipt[i].obs # "pending"
        BY <1>8, <1>13 DEF ContainsUnfinished
    <2>4. \A i \in Index : job[i] = "succeeded"
        BY <1>1, <1>3, <2>2, <2>3
    <2>5. ~Flagged(record.full)
        BY <1>4, <1>7, <1>13, <2>1 DEF Flagged, HasFailure, Marked
    <2> QED
        BY <2>4, <2>5 DEF Bad, Failing, AllPublished
<1>14. RecordTrue
    <2> HIDE DEF kept
    <2>1. CASE record = [phase |-> LeftPhase(kept), full |-> kept]
        BY <1>7, <1>8, <1>12, <1>13, <2>1 DEF RecordTrue, LeftPhase
    <2>2. CASE record.full = NoResult /\ record.phase \in {"remote_pending", "running"}
        BY <1>9, <1>10, <2>2, <1>7 DEF RecordTrue
    <2> QED
        BY <1>10, <2>1, <2>2
<1>15. TypeOK
    BY <1>1, <1>2, <1>11, IdleType DEF Init, TypeOK, Answers
<1>16. /\ \A p \in Inspectors : look[p].at = "idle"
       /\ \A p \in Inspectors, i \in Index : ~Terminal(look[p].status[i])
    BY DEF Init, Idle, Terminal, JobEndings
<1>17. ReceiptsTrue
    BY <1>3 DEF ReceiptsTrue, Terminal, JobEndings
<1>18. AnswersTrue
    BY DEF Init, AnswersTrue
<1> QED
    BY <1>14, <1>15, <1>16, <1>17, <1>18
    DEF Inv, WalkInRange, Walking, CopiesTrue, StatusTrue, CopiesOfRecord, Busy

\* Every step keeps the invariant while Tableau keeps its terminal job states.
LEMMA StepInv ==
    ASSUME Steady, Inv, [Next]_vars
    PROVE  Inv'
<1>1. ASSUME NEW p \in Inspectors, Inspect(p) PROVE Inv'
    BY <1>1, BeginInv, WalkInv, ReadReceiptInv, CheckJobInv, ResolveInv, SaveReceiptInv,
       ReconcileInv, ReportUnchangedInv DEF Inspect
<1>2. ASSUME NEW i \in Index, JobEnds(i) \/ ContentMoves(i) PROVE Inv'
    BY <1>2, JobEndsInv, ContentMovesInv
<1>3. CASE UNCHANGED vars
    BY <1>3
    DEF vars, Inv, TypeOK, WalkInRange, Walking, ReceiptsTrue, CopiesTrue, StatusTrue, RecordTrue,
        ResultTrue, HasFailure, Bad, Failing, Flagged, Marked, AllPublished, CopiesOfRecord, Busy,
        SeenTrue, SameMarks, AnswersTrue
<1> QED
    BY <1>1, <1>2, <1>3 DEF Next

\* The invariant holds in every behaviour.
LEMMA Invariance ==
    ASSUME Steady
    PROVE  Spec => []Inv
<1>1. Inv /\ [Next]_vars => Inv'
    BY StepInv
<1> QED
    BY <1>1, InitInv, PTL DEF Spec

\* For any number of inspections that overlap in any way, an operation is recorded
\* and reported as a success only when every selected item was published, unless
\* the worker lost the result of a batch with failed items.
THEOREM CompletionIsTrue ==
    ASSUME Steady, "lost" \notin Saved \/ Bare = 0
    PROVE  Spec => []CompletedIsTrue
<1>1. Inv => CompletedIsTrue
    <2> SUFFICES ASSUME Inv, record.phase = "completed" PROVE Bare = 0 /\ AllPublished
        BY DEF Inv, AnswersTrue, CompletedIsTrue, AllPublished
    <2>1. ~Bad /\ AllPublished /\ (record.full.root = "lost" => "lost" \in Saved)
        BY DEF Inv, RecordTrue
    <2> QED
        BY <2>1, StatusAssumption DEF Bad, Flagged
<1> QED
    BY <1>1, Invariance, PTL

\* A recorded outcome is final, however stale the inspections still running are.
THEOREM RecordedOutcomeIsFinal ==
    ASSUME Steady
    PROVE  Spec => RecordedOutcomeStays
<1>1. Inv /\ [Next]_vars => [record.phase \in Settled => record'.phase = record.phase]_vars
    <2> SUFFICES ASSUME Inv, Next, record.phase \in Settled PROVE record'.phase = record.phase
        OBVIOUS
    <2>1. ASSUME NEW p \in Inspectors, Reconcile(p) PROVE record'.phase = record.phase
        BY <2>1, ReconcileFacts
    <2>2. ASSUME NEW p \in Inspectors, Inspect(p), ~Reconcile(p) PROVE record' = record
        BY <2>2 DEF Inspect, Begin, ReceiptUnreadable, ReadReceipt, CheckJob, CheckFails, Resolve,
                    SaveReceipt, ReportUnchanged
    <2>3. ASSUME NEW i \in Index, JobEnds(i) \/ ContentMoves(i) PROVE record' = record
        BY <2>3 DEF JobEnds, ContentMoves
    <2> QED
        BY <2>1, <2>2, <2>3 DEF Next
<1> QED
    BY <1>1, Invariance, PTL DEF Spec, RecordedOutcomeStays

\* The entries of a saved result that are finished tell what Tableau said, and a
\* success of the whole result covers every selected item.
EntriesTrue(full) ==
    \A i \in Index : /\ Terminal(full.inner[i]) => job[i] = full.inner[i]
                     /\ full.outer[i] = "succeeded" => job[i] = "succeeded"

SuccessTrue(full) ==
    /\ EntriesTrue(full)
    /\ full.root = "succeeded" => Bare = 0 /\ AllPublished

\* The status of a batch is a success only when all its entries are.
LEMMA RecountSuccess ==
    ASSUME NEW outer \in [Index -> JobStates], NEW root,
           Batch, Recount(root, outer) = "succeeded"
    PROVE  Bare = 0 /\ \A i \in Index : outer[i] = "succeeded"
<1> DEFINE succeeded == {i \in Index : outer[i] = "succeeded"}
           failed == {i \in Index : outer[i] = "failed"}
           pending == Index \ (succeeded \cup failed)
<1>1. ~(Bare > 0 \/ failed # {}) /\ pending = {}
    BY DEF Recount
<1>2. Index \subseteq succeeded
    BY <1>1
<1> QED
    BY <1>1, <1>2, StatusAssumption

\* A merge of true statuses keeps the entries true, and claims success only when
\* it is told so or when every entry says so.
LEMMA MergeSuccess ==
    ASSUME NEW full \in Snapshot, NEW status \in [Index -> ItemStates],
           NEW root \in RootStates, SuccessTrue(full),
           \A i \in Index : Terminal(status[i]) => job[i] = status[i],
           root = "succeeded" /\ full.root # "lost" => Bare = 0 /\ AllPublished
    PROVE  SuccessTrue(MergeResult(full, status, root))
<1> DEFINE inner == [i \in Index |-> IF status[i] \in JobStates THEN status[i] ELSE full.inner[i]]
           outer == [i \in Index |-> Promote(full.outer[i], inner[i])]
           new == MergeResult(full, status, root)
<1>1. CASE full.root = "lost"
    BY <1>1 DEF MergeResult
<1>2. CASE full.root # "lost"
    <2>1. new = [root |-> Recount(root, outer), outer |-> outer, inner |-> inner]
        BY <1>2 DEF MergeResult
    <2>2. \A i \in Index : Terminal(inner[i]) => job[i] = inner[i]
        BY DEF SuccessTrue, EntriesTrue, Terminal, JobEndings, JobStates
    <2>3. \A i \in Index : outer[i] = "succeeded" => job[i] = "succeeded"
        BY <2>2 DEF SuccessTrue, EntriesTrue, Promote, Terminal, JobEndings
    <2>4. outer \in [Index -> JobStates]
        BY DEF Snapshot, Promote, Terminal, JobStates
    <2> HIDE DEF inner, outer
    <2>5. Recount(root, outer) = "succeeded" => Bare = 0 /\ AllPublished
        <3>1. CASE Batch
            BY <2>3, <2>4, <3>1, RecountSuccess DEF AllPublished
        <3>2. CASE ~Batch
            BY <1>2, <3>2 DEF Recount
        <3> QED
            BY <3>1, <3>2
    <2> QED
        BY <2>1, <2>2, <2>3, <2>5 DEF SuccessTrue, EntriesTrue
<1> QED
    BY <1>1, <1>2

\* What the worker leaves claims no success it did not have.
LEMMA InitSuccess == ASSUME Init PROVE SuccessTrue(record.full)
<1> DEFINE bad(i) == receipt[i].obs = "unknown" \/ receipt[i].ver = "destination_mismatch"
           outer == [i \in Index |-> IF bad(i) THEN "failed" ELSE receipt[i].obs]
           first == IF \E i \in Index : outer[i] = "failed" THEN "failed" ELSE outer[1]
           left == LeftResult(receipt)
<1>1. record.full = left \/ record.full = NoResult
    BY DEF Init, LeftRecords
<1>2. SuccessTrue(NoResult)
    BY DEF SuccessTrue, EntriesTrue, NoResult, Terminal, JobEndings
<1>3. \A i \in Index : receipt[i].obs \in {"pending", "succeeded", "unknown"}
    BY LeftObservations
<1>4. left = [root |-> Recount(first, outer), outer |-> outer,
              inner |-> [i \in Index |-> receipt[i].obs]]
    BY DEF LeftResult
<1>5. \A i \in Index : receipt[i].obs = "succeeded" => job[i] = "succeeded"
    BY DEF Init
<1>6. \A i \in Index : outer[i] = "succeeded" => job[i] = "succeeded"
    BY <1>5
<1>7. outer \in [Index -> JobStates] /\ 1 \in Index
    BY <1>3, StatusAssumption DEF JobStates, JobEndings, Index
<1> HIDE DEF outer
<1>8. Recount(first, outer) = "succeeded" => Bare = 0 /\ AllPublished
    <2>1. CASE Batch
        BY <1>6, <1>7, <2>1, RecountSuccess DEF AllPublished
    <2>2. CASE ~Batch
        BY <1>6, <1>7, <2>2, StatusAssumption DEF Recount, AllPublished, Index
    <2> QED
        BY <2>1, <2>2
<1>9. SuccessTrue(left)
    BY <1>3, <1>4, <1>5, <1>6, <1>8 DEF SuccessTrue, EntriesTrue, Terminal, JobEndings
<1> QED
    BY <1>1, <1>2, <1>9

\* Every step keeps the saved result true while Tableau keeps its terminal states.
LEMMA StepSuccess ==
    ASSUME Steady, Inv, SuccessTrue(record.full), [Next]_vars
    PROVE  SuccessTrue(record.full)'
<1>1. ASSUME NEW p \in Inspectors, Reconcile(p) PROVE SuccessTrue(record.full)'
    <2> DEFINE l == look[p]
               root == IF SawPending(l) THEN IF SawFailure(l) THEN "partial_failure" ELSE "pending"
                       ELSE IF SawFailure(l) THEN "failed" ELSE "succeeded"
    <2>1. record'.full = MergeResult(record.full, l.status, root) /\ job' = job
        BY <1>1 DEF Reconcile, Reconciled, Report, remote
    <2>2. Busy(p)
        BY <1>1 DEF Reconcile, Walked, Busy
    <2>3. root = "succeeded" /\ record.full.root # "lost" => Bare = 0 /\ AllPublished
        BY <2>2, VerdictTrue, StatusAssumption DEF Bad, Flagged
    <2>4. root \in RootStates
        BY DEF RootStates
    <2>5. /\ record.full \in Snapshot /\ l.status \in [Index -> ItemStates]
          /\ \A i \in Index : Terminal(l.status[i]) => job[i] = l.status[i]
        BY DEF Inv, TypeOK, Record, Look, StatusTrue
    <2> HIDE DEF l, root
    <2>6. SuccessTrue(MergeResult(record.full, l.status, root))
        BY <2>3, <2>4, <2>5, MergeSuccess
    <2> QED
        BY <2>1, <2>6 DEF SuccessTrue, EntriesTrue, AllPublished
<1>2. ASSUME NEW i \in Index, JobEnds(i) PROVE SuccessTrue(record.full)'
    <2>1. record' = record /\ job[i] = "pending"
        BY <1>2 DEF JobEnds, Terminal
    <2>2. \A j \in Index : Terminal(job[j]) => job'[j] = job[j]
        BY <1>2, <2>1 DEF JobEnds, Inv, TypeOK, Terminal, JobEndings
    <2> QED
        BY <2>1, <2>2 DEF SuccessTrue, EntriesTrue, AllPublished, Terminal, JobEndings
<1>3. ASSUME UNCHANGED <<record, job>> PROVE SuccessTrue(record.full)'
    BY <1>3 DEF SuccessTrue, EntriesTrue, AllPublished
<1>4. ASSUME NEW p \in Inspectors, Inspect(p), ~Reconcile(p) PROVE UNCHANGED <<record, job>>
    BY <1>4 DEF Inspect, Begin, ReceiptUnreadable, ReadReceipt, CheckJob, CheckFails, Resolve,
                SaveReceipt, ReportUnchanged, Report, remote
<1>5. ASSUME NEW i \in Index, ContentMoves(i) PROVE UNCHANGED <<record, job>>
    BY <1>5 DEF ContentMoves
<1>6. CASE UNCHANGED vars
    BY <1>3, <1>6 DEF vars
<1> QED
    BY <1>1, <1>2, <1>3, <1>4, <1>5, <1>6 DEF Next

\* However many merges of overlapping inspections a saved result has taken, it
\* claims success only when every selected item was published; this holds also
\* when the result of a batch with failed items was lost.
THEOREM SavedResultIsTrue ==
    ASSUME Steady
    PROVE  Spec => []SuccessfulResultIsTrue
<1>1. Init => SuccessTrue(record.full)
    BY InitSuccess
<1>2. Inv /\ SuccessTrue(record.full) /\ [Next]_vars => SuccessTrue(record.full)'
    BY StepSuccess
<1>3. SuccessTrue(record.full) => SuccessfulResultIsTrue
    BY DEF SuccessTrue, AllPublished, SuccessfulResultIsTrue
<1> QED
    BY <1>1, <1>2, <1>3, Invariance, PTL DEF Spec
-----------------------------------------------------------------------------
\* What needs no assumption on Tableau: it may change an end it reported.
Shaped == TypeOK /\ WalkInRange

\* A step of one process that leaves the record alone keeps the types.
LEMMA ShapedLook ==
    ASSUME Shaped, NEW p \in Inspectors, NEW l \in Look,
           l.at \in {"check", "resolve", "save"} => l.next <= Receipts,
           look' = [look EXCEPT ![p] = l],
           receipt' \in [Index -> Receipt], now' \in Nat, count' \in [Inspectors -> Nat],
           UNCHANGED <<job, where, record, answer>>
    PROVE  Shaped'
<1>1. TypeOK'
    BY DEF Shaped, TypeOK
<1>2. \A q \in Inspectors : look'[q] = IF q = p THEN l ELSE look[q]
    BY DEF Shaped, TypeOK
<1> QED
    BY <1>1, <1>2 DEF Shaped, WalkInRange, Walking

\* Going on to the next item keeps the types.
LEMMA ShapedAdvance ==
    ASSUME Shaped, NEW p \in Inspectors, look[p].next <= Receipts, NEW s \in ItemStates,
           Next1(p, s), receipt' \in [Index -> Receipt], UNCHANGED <<job, where, record, now, count, answer>>
    PROVE  Shaped'
<1>1. Advanced(p, s) \in Look /\ look' = [look EXCEPT ![p] = Advanced(p, s)]
    BY AdvancedType, AdvancedStep DEF Shaped
<1>2. Advanced(p, s).at = "open"
    BY DEF Shaped, TypeOK, Look, Advanced
<1>3. now' \in Nat /\ count' \in [Inspectors -> Nat]
    BY DEF Shaped, TypeOK
<1> QED
    BY <1>1, <1>2, <1>3, ShapedLook

\* The merge rule of the receipt store, whatever is merged: an outcome is never
\* replaced, the observation never gets older and a resource ID never gets lost.
LEMMA MergeKeeps ==
    ASSUME NEW old \in Receipt, NEW new \in Receipt, ~SaveConflicts(old, new)
    PROVE  /\ MergeReceipt(old, new) \in Receipt
           /\ Terminal(old.obs) => MergeReceipt(old, new).obs = old.obs
           /\ MergeReceipt(old, new).at >= old.at
           /\ old.known => MergeReceipt(old, new).known
<1>1. old.at \in Nat /\ new.at \in Nat /\ old.known \in BOOLEAN /\ new.known \in BOOLEAN
    BY DEF Receipt
<1>2. /\ MergeReceipt(old, new).obs = IF KeepsOld(old, new) THEN old.obs ELSE new.obs
      /\ MergeReceipt(old, new).at = IF KeepsOld(old, new) THEN old.at ELSE new.at
      /\ MergeReceipt(old, new).known = (old.known \/ (~KeepsOld(old, new) /\ new.known))
      /\ MergeReceipt(old, new) \in Receipt
    BY DEF MergeReceipt, Receipt
<1>3. Terminal(old.obs) => MergeReceipt(old, new).obs = old.obs
    BY <1>2 DEF KeepsOld, SaveConflicts
<1>4. MergeReceipt(old, new).at >= old.at
    BY <1>1, <1>2 DEF KeepsOld
<1> QED
    BY <1>2, <1>3, <1>4

\* A save writes the merge of the receipt and the process's copy, or nothing.
LEMMA SaveFacts ==
    ASSUME Shaped, NEW p \in Inspectors, SaveReceipt(p)
    PROVE  /\ look[p].next \in Index /\ look[p].copy \in Receipt
           /\ \/ receipt' = receipt
              \/ /\ ~SaveConflicts(receipt[look[p].next], look[p].copy)
                 /\ receipt' = [receipt EXCEPT ![look[p].next] = MergeReceipt(@, look[p].copy)]
<1>1. look[p] \in Look /\ look[p].at = "save"
    BY DEF Shaped, TypeOK, SaveReceipt
<1>2. look[p].next \in Index /\ look[p].copy \in Receipt
    BY <1>1, StatusAssumption DEF Shaped, WalkInRange, Walking, Look, Index
<1> QED
    BY <1>2 DEF SaveReceipt

\* Saving a receipt writes a receipt.
LEMMA ShapedSave ==
    ASSUME Shaped, NEW p \in Inspectors, SaveReceipt(p)
    PROVE  Shaped'
<1> DEFINE i == look[p].next
           r == look[p].copy
<1>1. i \in Index /\ r \in Receipt /\ receipt[i] \in Receipt /\ receipt \in [Index -> Receipt]
    BY SaveFacts DEF Shaped, TypeOK
<1>2. \/ receipt' = receipt
      \/ receipt' = [receipt EXCEPT ![i] = MergeReceipt(receipt[i], r)] /\ ~SaveConflicts(receipt[i], r)
    BY SaveFacts
<1>3. receipt' \in [Index -> Receipt]
    BY <1>1, <1>2, MergeKeeps
<1>4. r.obs \in ItemStates /\ i <= Receipts
    BY <1>1, StatusAssumption DEF Receipt, ItemStates, Index
<1>5. Next1(p, r.obs) /\ UNCHANGED <<job, where, record, now, count, answer>>
    BY DEF SaveReceipt, remote
<1> QED
    BY <1>3, <1>4, <1>5, ShapedAdvance

\* Reading a job keeps the types.
LEMMA ShapedCheck ==
    ASSUME Shaped, NEW p \in Inspectors, CheckJob(p)
    PROVE  Shaped'
<1>1. look[p] \in Look /\ look[p].at = "check" /\ look[p].next \in Index /\ look[p].next <= Receipts
    BY StatusAssumption DEF Shaped, TypeOK, CheckJob, WalkInRange, Walking, Look, Index
<1>2. now \in Nat /\ job[look[p].next] \in Observed
    BY <1>1 DEF Shaped, TypeOK, Observed
<1>3. PICK known \in BOOLEAN :
        look' = [look EXCEPT ![p].at = "resolve", ![p].copy.obs = job[look[p].next],
                             ![p].copy.at = now + 1, ![p].copy.known = known]
    BY DEF CheckJob
<1> DEFINE l == [look[p] EXCEPT !.at = "resolve", !.copy.obs = job[look[p].next],
                                !.copy.at = now + 1, !.copy.known = known]
<1>4. now + 1 \in Nat
    BY <1>2
<1>5. look' = [look EXCEPT ![p] = l]
    BY <1>3 DEF Shaped, TypeOK
<1>6. l \in Look /\ l.next = look[p].next
    BY <1>1, <1>2, <1>4 DEF Look, Receipt
<1>7. receipt' \in [Index -> Receipt] /\ now' \in Nat /\ count' \in [Inspectors -> Nat]
      /\ UNCHANGED <<job, where, record, answer>>
    BY <1>2 DEF CheckJob, Shaped, TypeOK, remote
<1> HIDE DEF l
<1> QED
    BY <1>1, <1>5, <1>6, <1>7, ShapedLook

\* Looking up a destination keeps the types.
LEMMA ShapedResolve ==
    ASSUME Shaped, NEW p \in Inspectors, Resolve(p)
    PROVE  Shaped'
<1>1. look[p] \in Look /\ look[p].at = "resolve" /\ look[p].next <= Receipts
    BY DEF Shaped, TypeOK, Resolve, WalkInRange, Walking
<1>2. look[p].copy \in Receipt /\ look[p].copy.ver \in Verifications /\ look[p].copy.known \in BOOLEAN
    BY <1>1 DEF Look, Receipt
<1>3. PICK ver \in Verifications :
        look' = [look EXCEPT ![p].at = "save", ![p].copy.ver = ver,
                             ![p].copy.known = @ \/ (Unconfirmed(look[p].copy) /\ ver = "confirmed")]
    BY <1>2 DEF Resolve, Destination, Verifications
<1> DEFINE known == look[p].copy.known \/ (Unconfirmed(look[p].copy) /\ ver = "confirmed")
           r == [look[p].copy EXCEPT !.ver = ver, !.known = known]
           l == [look[p] EXCEPT !.at = "save", !.copy = r]
<1>4. known \in BOOLEAN
    OBVIOUS
<1>5. look' = [look EXCEPT ![p] = l]
    BY <1>1, <1>3 DEF Look, Shaped, TypeOK
<1> HIDE DEF known
<1>6. r \in Receipt
    BY <1>2, <1>4 DEF Receipt
<1> HIDE DEF r
<1>7. l \in Look /\ l.next = look[p].next
    BY <1>1, <1>6 DEF Look
<1>8. receipt' \in [Index -> Receipt] /\ now' \in Nat /\ count' \in [Inspectors -> Nat]
      /\ UNCHANGED <<job, where, record, answer>>
    BY DEF Resolve, Shaped, TypeOK, remote
<1> HIDE DEF l
<1> QED
    BY <1>1, <1>5, <1>7, <1>8, ShapedLook

\* Reading a receipt keeps the types.
LEMMA ShapedRead ==
    ASSUME Shaped, NEW p \in Inspectors, ReadReceipt(p)
    PROVE  Shaped'
<1> DEFINE i == look[p].next
           r == receipt[i]
<1>1. look[p] \in Look /\ i <= Receipts /\ i \in Index
    BY StatusAssumption DEF Shaped, TypeOK, ReadReceipt, Reading, Look, Index
<1>2. r \in Receipt /\ r.obs \in ItemStates
    BY <1>1 DEF Shaped, TypeOK, Receipt, ItemStates
<1>3. receipt' \in [Index -> Receipt] /\ now' \in Nat /\ count' \in [Inspectors -> Nat]
      /\ UNCHANGED <<job, where, record, now, count, answer>>
    BY DEF ReadReceipt, Shaped, TypeOK, remote
<1>4. CASE Next1(p, r.obs)
    BY <1>1, <1>2, <1>3, <1>4, ShapedAdvance
<1>5. ASSUME look' = [look EXCEPT ![p].copy = r,
                                  ![p].at = IF Terminal(r.obs) THEN "resolve" ELSE "check"]
      PROVE  Shaped'
    <2> DEFINE l == [look[p] EXCEPT !.copy = r, !.at = IF Terminal(r.obs) THEN "resolve" ELSE "check"]
    <2>1. look' = [look EXCEPT ![p] = l]
        BY <1>1, <1>5 DEF Shaped, TypeOK, Look
    <2>2. l \in Look /\ l.next = i
        BY <1>1, <1>2 DEF Look
    <2> HIDE DEF l
    <2> QED
        BY <1>1, <1>3, <2>1, <2>2, ShapedLook
<1> QED
    BY <1>4, <1>5 DEF ReadReceipt

\* Beginning an inspection keeps the types.
LEMMA ShapedBegin ==
    ASSUME Shaped, NEW p \in Inspectors, Begin(p)
    PROVE  Shaped'
<1> DEFINE l == [Idle EXCEPT !.at = "open", !.seen = record]
<1>1. l \in Look /\ l.at = "open"
    BY IdleType DEF Shaped, TypeOK, Look
<1>2. look' = [look EXCEPT ![p] = l] /\ UNCHANGED <<job, where, receipt, record, now, answer>>
    BY DEF Begin, remote
<1>3. receipt' \in [Index -> Receipt] /\ count' \in [Inspectors -> Nat] /\ now' \in Nat
    BY DEF Begin, Shaped, TypeOK, remote
<1> HIDE DEF l
<1> QED
    BY <1>1, <1>2, <1>3, ShapedLook

\* Answering keeps the types, with or without a reconciliation.
LEMMA ShapedReport ==
    ASSUME Shaped, NEW p \in Inspectors, Reconcile(p) \/ ReportUnchanged(p)
    PROVE  Shaped'
<1>1. look[p] \in Look
    BY DEF Shaped, TypeOK
<1>2. record' \in Record
    <2>1. CASE ReportUnchanged(p)
        BY <2>1 DEF ReportUnchanged, Shaped, TypeOK
    <2>2. CASE Reconcile(p)
        <3> DEFINE l == look[p]
                   phase == IF SawFailure(l) THEN "failed" ELSE "completed"
                   root == IF SawPending(l) THEN IF SawFailure(l) THEN "partial_failure" ELSE "pending"
                           ELSE IF SawFailure(l) THEN "failed" ELSE "succeeded"
        <3>1. record.full \in Snapshot /\ l.status \in [Index -> ItemStates] /\ root \in RootStates
            BY <1>1 DEF Shaped, TypeOK, Record, Look, RootStates
        <3>2. MergeResult(record.full, l.status, root) \in Snapshot
            BY <3>1, MergeType
        <3>3. record' = [phase |-> IF SawPending(l) THEN record.phase ELSE phase,
                         full |-> MergeResult(record.full, l.status, root)]
            BY <2>2 DEF Reconcile, Reconciled
        <3> QED
            BY <3>2, <3>3 DEF Shaped, TypeOK, Record
    <2> QED
        BY <2>1, <2>2
<1>3. PICK phase \in {"running", "remote_pending", "completed", "failed"} : Report(p, phase)
    BY <1>1, <1>2 DEF Reconcile, ReportUnchanged, Look, Record
<1>4. answer' \in [Inspectors -> Answers] /\ look' = [look EXCEPT ![p] = Idle]
    BY <1>3 DEF Report, Answer, Answers, Shaped, TypeOK
<1>5. UNCHANGED <<job, where, receipt, now, count>>
    BY <1>3 DEF Report, remote
<1>6. look' \in [Inspectors -> Look] /\ \A q \in Inspectors : look'[q] = IF q = p THEN Idle ELSE look[q]
    BY <1>4, IdleType DEF Shaped, TypeOK
<1>7. TypeOK'
    BY <1>2, <1>4, <1>5, <1>6 DEF Shaped, TypeOK
<1>8. Idle.at = "idle"
    BY DEF Idle
<1> QED
    BY <1>6, <1>7, <1>8 DEF Shaped, WalkInRange, Walking

\* Every step keeps the types.
LEMMA ShapedStep ==
    ASSUME Shaped, [Next]_vars
    PROVE  Shaped'
<1>1. ASSUME NEW p \in Inspectors, ReceiptUnreadable(p) \/ CheckFails(p) PROVE Shaped'
    <2>1. look[p].next <= Receipts /\ "unknown" \in ItemStates
        BY <1>1 DEF Shaped, WalkInRange, Walking, ReceiptUnreadable, CheckFails, Reading, ItemStates, Observed
    <2>2. Next1(p, "unknown") /\ UNCHANGED <<job, where, receipt, record, now, count, answer>>
        BY <1>1 DEF ReceiptUnreadable, CheckFails, remote
    <2>3. receipt' \in [Index -> Receipt]
        BY <2>2 DEF Shaped, TypeOK
    <2> QED
        BY <2>1, <2>2, <2>3, ShapedAdvance
<1>2. ASSUME NEW p \in Inspectors, Inspect(p) PROVE Shaped'
    BY <1>1, <1>2, ShapedBegin, ShapedRead, ShapedCheck, ShapedResolve, ShapedSave, ShapedReport
    DEF Inspect
<1>3. ASSUME NEW i \in Index, JobEnds(i) \/ ContentMoves(i) PROVE Shaped'
    <2>1. UNCHANGED <<receipt, record, now, look, count, answer>>
        BY <1>3 DEF JobEnds, ContentMoves
    <2>2. job' \in [Index -> JobStates]
        BY <1>3, StatusAssumption DEF JobEnds, ContentMoves, Shaped, TypeOK, JobStates
    <2>3. where' \in [Index -> {"hidden", "exact", "elsewhere"}]
        BY <1>3 DEF JobEnds, ContentMoves, Shaped, TypeOK
    <2> QED
        BY <2>1, <2>2, <2>3 DEF Shaped, TypeOK, WalkInRange, Walking
<1>4. CASE UNCHANGED vars
    BY <1>4 DEF vars, Shaped, TypeOK, WalkInRange, Walking
<1> QED
    BY <1>2, <1>3, <1>4 DEF Next

\* The types hold in every behaviour.
LEMMA ShapedInvariance == Spec => []Shaped
<1>1. Init => Shaped
    BY InitInv DEF Inv, Shaped
<1>2. Shaped /\ [Next]_vars => Shaped'
    BY ShapedStep
<1> QED
    BY <1>1, <1>2, PTL DEF Spec

\* Every value of the state is of its type, whatever Tableau answers.
THEOREM StatusTypeCorrect == Spec => []TypeOK
<1>1. Shaped => TypeOK
    BY DEF Shaped
<1> QED
    BY <1>1, ShapedInvariance, PTL

\* Only a save changes the receipts.
LEMMA OnlySaves ==
    ASSUME Next
    PROVE  receipt' = receipt \/ \E p \in Inspectors : SaveReceipt(p)
BY DEF Next, Inspect, Begin, ReceiptUnreadable, ReadReceipt, CheckJob, CheckFails, Resolve,
       Reconcile, ReportUnchanged, Report, JobEnds, ContentMoves

\* Every step keeps the outcomes, the times and the identities of the receipts.
LEMMA ReceiptsKept ==
    ASSUME Shaped, Next, NEW i \in Index
    PROVE  /\ Terminal(receipt[i].obs) => receipt'[i].obs = receipt[i].obs
           /\ receipt'[i].at >= receipt[i].at
           /\ receipt[i].known => receipt'[i].known
<1>1. receipt[i] \in Receipt /\ receipt \in [Index -> Receipt] /\ receipt[i].at \in Nat
    BY DEF Shaped, TypeOK, Receipt
<1>2. CASE receipt' = receipt
    BY <1>1, <1>2
<1>3. ASSUME NEW p \in Inspectors, SaveReceipt(p), receipt' # receipt
      PROVE  /\ Terminal(receipt[i].obs) => receipt'[i].obs = receipt[i].obs
             /\ receipt'[i].at >= receipt[i].at
             /\ receipt[i].known => receipt'[i].known
    <2> DEFINE j == look[p].next
               r == look[p].copy
    <2>1. j \in Index /\ r \in Receipt /\ ~SaveConflicts(receipt[j], r)
          /\ receipt' = [receipt EXCEPT ![j] = MergeReceipt(receipt[j], r)]
        BY <1>3, SaveFacts
    <2>2. CASE i # j
        BY <1>1, <2>1, <2>2
    <2>3. CASE i = j
        <3>1. receipt'[i] = MergeReceipt(receipt[i], r)
            BY <1>1, <2>1, <2>3
        <3> QED
            BY <1>1, <2>1, <2>3, <3>1, MergeKeeps
    <2> QED
        BY <2>2, <2>3
<1> QED
    BY <1>2, <1>3, OnlySaves

\* An outcome in a receipt stays, whichever inspections overlap and even when
\* Tableau later says otherwise.
THEOREM ReceiptOutcomeIsFinal == Spec => SavedOutcomeStays
<1>1. Shaped /\ [Next]_vars =>
        [\A i \in Index : Terminal(receipt[i].obs) => receipt'[i].obs = receipt[i].obs]_vars
    BY ReceiptsKept
<1> QED
    BY <1>1, ShapedInvariance, PTL DEF Spec, SavedOutcomeStays

\* An observation never gets older and a known resource ID is never forgotten.
THEOREM ReceiptEvidenceGrows == Spec => EvidenceOnlyGrows
<1>1. Shaped /\ [Next]_vars =>
        [\A i \in Index : /\ receipt'[i].at >= receipt[i].at
                          /\ receipt[i].known => receipt'[i].known]_vars
    BY ReceiptsKept
<1> QED
    BY <1>1, ShapedInvariance, PTL DEF Spec, EvidenceOnlyGrows
=============================================================================
