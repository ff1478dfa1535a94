------------------------- MODULE OperationRunProofs -------------------------
(***************************************************************************)
(* Proofs about OperationRun, for every set of workers, inspectors and     *)
(* items and every choice of storage faults: its types, its invariants,    *)
(* that outcomes are final, and that it implements PublishOnce.  One       *)
(* inductive invariant, Inv, carries all of them.                          *)
(***************************************************************************)
EXTENDS OperationRun, TLAPS

USE ConstantsAssumption
USE DEF parentVars, workVars, lookVars, ParentGoes, Goes, Moves, AtItem,
  ReleaseAnd, UpdateRecord, UpdateControl

\* Replacing the record, or failing to, keeps its type.
LEMMA RecordStaysTyped ==
  ASSUME rec \in Record, NEW new \in Record, NEW result, UpdateRecord(result, new)
  PROVE  rec' \in Record
OBVIOUS

\* A record with an outcome is a record.
LEMMA OutcomeTyped ==
  ASSUME rec \in Record, NEW phase \in Phases, NEW exit \in {"none", "ok", "error"}
  PROVE  [rec EXCEPT !.finished = TRUE, !.exit = exit, !.phase = phase] \in Record
BY DEF Record

\* The records of a run that failed before it began are records.
LEMMA FailedRecordTyped ==
  ASSUME rec \in Record
  PROVE  FailedRecord \in Record /\ [FailedRecord EXCEPT !.controlFailed = TRUE] \in Record
<1>1. FailedRecord \in Record BY DEF FailedRecord, Record, Phases
<1> QED BY <1>1 DEF Record

\* Linking a receipt keeps the record's type.
LEMMA ReceiptTyped ==
  ASSUME rec \in Record, NEW i \in Items
  PROVE  [rec EXCEPT !.receipts = @ \cup {i}] \in Record
BY DEF Record

\* Reporting a control failure keeps the record's type.
LEMMA ReportTyped ==
  ASSUME rec \in Record
  PROVE  [rec EXCEPT !.controlFailed = TRUE] \in Record
BY DEF Record

\* Recording the start keeps the record's type.
LEMMA StartTyped ==
  ASSUME rec \in Record, NEW w \in Workers
  PROVE  [rec EXCEPT !.starter = w, !.phase = "running"] \in Record
BY DEF Record, Phases

\* An item that moves keeps the type of all items' progress.
LEMMA MovesTyped ==
  ASSUME item \in [Workers -> [Items -> ItemStates]],
         NEW w \in Workers, NEW i \in Items, NEW to \in ItemStates, Moves(w, i, to)
  PROVE  item' \in [Workers -> [Items -> ItemStates]]
OBVIOUS

\* Every step keeps every variable's type.
LEMMA TypingStep == ASSUME TypeOK, [Next]_vars PROVE TypeOK'
<1> USE DEF TypeOK
<1>1. ASSUME NEW result \in WriteResults, CreateRecord(result) PROVE TypeOK'
  <2>1. rec' \in Record BY <1>1 DEF CreateRecord, Record, Phases
  <2>2. parent' \in ParentStates BY <1>1 DEF CreateRecord, ParentStates
  <2> QED BY <1>1, <2>1, <2>2 DEF CreateRecord
<1>2. ASSUME NEW result \in WriteResults, PrepareCancel(result) PROVE TypeOK'
  <2>1. ctl' \in Control BY <1>2 DEF PrepareCancel, Control
  <2>2. parent' \in ParentStates BY <1>2 DEF PrepareCancel, ParentStates
  <2> QED BY <1>2, <2>1, <2>2 DEF PrepareCancel
<1>3. ASSUME NEW result \in WriteResults, ParentDetaches(result) PROVE TypeOK'
  <2>1. rec' \in Record BY <1>3 DEF ParentDetaches, DetachedRecord, Record, Phases
  <2>2. parent' \in ParentStates BY <1>3 DEF ParentDetaches, DetachedRecord, ParentStates
  <2> QED BY <1>3, <2>1, <2>2 DEF ParentDetaches, DetachedRecord
<1>4. ASSUME Launch PROVE TypeOK'
  <2>1. pc' \in [Workers -> WorkerStates] BY <1>4 DEF Launch, WorkerStates
  <2>2. parent' \in ParentStates BY <1>4 DEF Launch, ParentStates
  <2> QED BY <1>4, <2>1, <2>2 DEF Launch
<1>5. ASSUME ParentSeesStart PROVE TypeOK'
  <2>1. seen' \in [started: BOOLEAN, finished: BOOLEAN] BY <1>5 DEF ParentSeesStart, CopyOfRecord, Started, Record
  <2>2. parent' \in ParentStates BY <1>5 DEF ParentSeesStart, ParentStates
  <2> QED BY <1>5, <2>1, <2>2 DEF ParentSeesStart
<1>6. ASSUME ParentStartTimeout PROVE TypeOK'
  <2>1. parent' \in ParentStates BY <1>6 DEF ParentStartTimeout, ParentStates
  <2> QED BY <1>6, <2>1 DEF ParentStartTimeout
<1>7. ASSUME ParentFinishes PROVE TypeOK'
  <2>1. parent' \in ParentStates BY <1>7 DEF ParentFinishes, ParentStates
  <2> QED BY <1>7, <2>1 DEF ParentFinishes
<1>8. ASSUME ParentProbes PROVE TypeOK'
  <2>1. parent' \in ParentStates BY <1>8 DEF ParentProbes, ParentStates
  <2>2. lease' \in Workers \cup Inspectors \cup {Parent, None} BY <1>8 DEF ParentProbes
  <2> QED BY <1>8, <2>1, <2>2 DEF ParentProbes
<1>9. ASSUME ParentReleasesProbe PROVE TypeOK'
  <2>1. parent' \in ParentStates BY <1>9 DEF ParentReleasesProbe, ParentStates
  <2>2. lease' \in Workers \cup Inspectors \cup {Parent, None} BY <1>9 DEF ParentReleasesProbe
  <2> QED BY <1>9, <2>1, <2>2 DEF ParentReleasesProbe
<1>10. ASSUME ParentRereads PROVE TypeOK'
  <2>1. parent' \in ParentStates BY <1>10 DEF ParentRereads, ParentStates
  <2>2. seen' \in [started: BOOLEAN, finished: BOOLEAN] BY <1>10 DEF ParentRereads, CopyOfRecord, Started, Record
  <2> QED BY <1>10, <2>1, <2>2 DEF ParentRereads
<1>11. ASSUME ParentWakes PROVE TypeOK'
  <2>1. parent' \in ParentStates BY <1>11 DEF ParentWakes, ParentStates
  <2>2. seen' \in [started: BOOLEAN, finished: BOOLEAN] BY <1>11 DEF ParentWakes, CopyOfRecord, Started, Record
  <2> QED BY <1>11, <2>1, <2>2 DEF ParentWakes
<1>12. ASSUME ParentRequestsCancel PROVE TypeOK'
  <2>1. ctl' \in Control BY <1>12 DEF ParentRequestsCancel, RequestCancel, Control
  <2>2. parent' \in ParentStates BY <1>12 DEF ParentRequestsCancel, RequestCancel, ParentStates
  <2> QED BY <1>12, <2>1, <2>2 DEF ParentRequestsCancel, RequestCancel
<1>13. ASSUME ParentReportsCancel PROVE TypeOK'
  <2>1. parent' \in ParentStates BY <1>13 DEF ParentReportsCancel, CancelReport, ParentStates
  <2> QED BY <1>13, <2>1 DEF ParentReportsCancel, CancelReport
<1>14. ASSUME ParentReadFails PROVE TypeOK'
  <2>1. parent' \in ParentStates BY <1>14 DEF ParentReadFails, ParentStates
  <2> QED BY <1>14, <2>1 DEF ParentReadFails
<1>15. ASSUME ParentInterrupted PROVE TypeOK'
  <2>1. parent' \in ParentStates BY <1>15 DEF ParentInterrupted, ParentStates
  <2> QED BY <1>15, <2>1 DEF ParentInterrupted
<1>16. ASSUME Expire PROVE TypeOK'
  <2>1. expired' \in BOOLEAN BY <1>16 DEF Expire
  <2> QED BY <1>16, <2>1 DEF Expire
<1>17. ASSUME NEW w \in Workers, SecondWorker(w) PROVE TypeOK'
  <2>1. pc' \in [Workers -> WorkerStates] BY <1>17 DEF SecondWorker, WorkerStates
  <2> QED BY <1>17, <2>1 DEF SecondWorker
<1>18. ASSUME NEW w \in Workers, Boot(w) PROVE TypeOK'
  <2>1. pc' \in [Workers -> WorkerStates] BY <1>18 DEF Boot, WorkerStates
  <2> QED BY <1>18, <2>1 DEF Boot
<1>19. ASSUME NEW w \in Workers, TakeLease(w) PROVE TypeOK'
  <2>1. pc' \in [Workers -> WorkerStates] BY <1>19 DEF TakeLease, WorkerStates
  <2>2. lease' \in Workers \cup Inspectors \cup {Parent, None} BY <1>19 DEF TakeLease
  <2> QED BY <1>19, <2>1, <2>2 DEF TakeLease
<1>20. ASSUME NEW w \in Workers, RecordStart(w) PROVE TypeOK'
  <2>1. rec' \in Record
    <3>1. PICK start \in WriteResults :
            UNCHANGED rec \/ UpdateRecord(start, [rec EXCEPT !.starter = w, !.phase = "running"])
      BY <1>20 DEF RecordStart
    <3>2. QED BY <3>1, StartTyped, RecordStaysTyped
  <2>2. ctl' \in Control BY <1>20 DEF RecordStart, KeepLease, Control
  <2>3. pc' \in [Workers -> WorkerStates]
    <3>1. PICK to \in {"leased", "exited"} : Goes(w, to) BY <1>20 DEF RecordStart
    <3>2. QED BY <3>1 DEF WorkerStates
  <2>4. lease' \in Workers \cup Inspectors \cup {Parent, None} BY <1>20 DEF RecordStart, KeepLease
  <2> QED BY <1>20, <2>1, <2>2, <2>3, <2>4 DEF RecordStart, KeepLease
<1>21. ASSUME NEW w \in Workers, RefuseReplay(w) PROVE TypeOK'
  <2>1. pc' \in [Workers -> WorkerStates] BY <1>21 DEF RefuseReplay, WorkerStates
  <2>2. lease' \in Workers \cup Inspectors \cup {Parent, None} BY <1>21 DEF RefuseReplay
  <2> QED BY <1>21, <2>1, <2>2 DEF RefuseReplay
<1>22. ASSUME NEW w \in Workers, DecodePreparation(w) PROVE TypeOK'
  <2>1. pc' \in [Workers -> WorkerStates] BY <1>22 DEF DecodePreparation, FailedRecord, WorkerStates
  <2>2. rec' \in Record
    BY <1>22, FailedRecordTyped, RecordStaysTyped DEF DecodePreparation
  <2> QED BY <1>22, <2>1, <2>2 DEF DecodePreparation, FailedRecord
<1>23. ASSUME NEW w \in Workers, ReadInitialControl(w) PROVE TypeOK'
  <2>1. pc' \in [Workers -> WorkerStates] BY <1>23 DEF ReadInitialControl, FailedRecord, WorkerStates
  <2>2. rec' \in Record
    BY <1>23, FailedRecordTyped, RecordStaysTyped DEF ReadInitialControl
  <2>3. cancelled' \in [Workers -> BOOLEAN] BY <1>23 DEF ReadInitialControl, FailedRecord, Control
  <2>4. poller' \in [Workers -> {"off", "polling", "acking", "done"}] BY <1>23 DEF ReadInitialControl, FailedRecord
  <2> QED BY <1>23, <2>1, <2>2, <2>3, <2>4 DEF ReadInitialControl, FailedRecord
<1>24. ASSUME NEW w \in Workers, AcknowledgeAtStart(w) PROVE TypeOK'
  <2>1. pc' \in [Workers -> WorkerStates] BY <1>24 DEF AcknowledgeAtStart, Acknowledge, AcknowledgeCancel, WorkerStates
  <2>2. poller' \in [Workers -> {"off", "polling", "acking", "done"}] BY <1>24 DEF AcknowledgeAtStart, Acknowledge, AcknowledgeCancel
  <2>3. rec' \in Record
    BY <1>24, ReportTyped, RecordStaysTyped DEF AcknowledgeAtStart, Acknowledge
  <2>4. ctl' \in Control BY <1>24 DEF AcknowledgeAtStart, Acknowledge, AcknowledgeCancel, Control
  <2> QED BY <1>24, <2>1, <2>2, <2>3, <2>4 DEF AcknowledgeAtStart, Acknowledge, AcknowledgeCancel
<1>25. ASSUME NEW w \in Workers, SaveResult(w) PROVE TypeOK'
  <2>1. rec' \in Record
    <3> DEFINE full == IF ExitOf(w) = "ok" THEN "completed" ELSE "failed"
               kept == IF rec.receipts # {} THEN "remote_pending" ELSE "failed"
    <3>1. full \in Phases /\ kept \in Phases /\ ExitOf(w) \in {"none", "ok", "error"}
      BY DEF Phases, ExitOf
    <3> HIDE DEF full, kept
    <3>2. /\ [rec EXCEPT !.finished = TRUE, !.exit = ExitOf(w), !.phase = full] \in Record
          /\ [rec EXCEPT !.finished = TRUE, !.exit = "error", !.phase = kept] \in Record
      BY <3>1, OutcomeTyped
    <3>3. QED BY <1>25, <3>2, RecordStaysTyped DEF SaveResult, full, kept
  <2>2. pc' \in [Workers -> WorkerStates] BY <1>25 DEF SaveResult, ExitOf, WorkerStates
  <2> QED BY <1>25, <2>1, <2>2 DEF SaveResult, ExitOf
<1>26. ASSUME NEW w \in Workers, Close(w) PROVE TypeOK'
  <2>1. pc' \in [Workers -> WorkerStates] BY <1>26 DEF Close, CancelContext, WorkerStates
  <2>2. poller' \in [Workers -> {"off", "polling", "acking", "done"}] BY <1>26 DEF Close, CancelContext
  <2>3. cancelled' \in [Workers -> BOOLEAN] BY <1>26 DEF Close, CancelContext, Control
  <2>4. lease' \in Workers \cup Inspectors \cup {Parent, None} BY <1>26 DEF Close, CancelContext
  <2> QED BY <1>26, <2>1, <2>2, <2>3, <2>4 DEF Close, CancelContext
<1>27. ASSUME NEW w \in Workers, Poll(w) PROVE TypeOK'
  <2>1. poller' \in [Workers -> {"off", "polling", "acking", "done"}] BY <1>27 DEF Poll, CancelContext
  <2>2. rec' \in Record
    BY <1>27, ReportTyped, RecordStaysTyped DEF Poll
  <2>3. cancelled' \in [Workers -> BOOLEAN] BY <1>27 DEF Poll, CancelContext, Control
  <2> QED BY <1>27, <2>1, <2>2, <2>3 DEF Poll, CancelContext
<1>28. ASSUME NEW w \in Workers, PollAcknowledges(w) PROVE TypeOK'
  <2>1. poller' \in [Workers -> {"off", "polling", "acking", "done"}] BY <1>28 DEF PollAcknowledges, Acknowledge, AcknowledgeCancel
  <2>2. rec' \in Record
    BY <1>28, ReportTyped, RecordStaysTyped DEF PollAcknowledges, Acknowledge
  <2>3. ctl' \in Control BY <1>28 DEF PollAcknowledges, Acknowledge, AcknowledgeCancel, Control
  <2> QED BY <1>28, <2>1, <2>2, <2>3 DEF PollAcknowledges, Acknowledge, AcknowledgeCancel
<1>29. ASSUME NEW w \in Workers, NothingStarted(w) PROVE TypeOK'
  <2>1. item' \in [Workers -> [Items -> ItemStates]] BY <1>29 DEF NothingStarted, ItemStates
  <2> QED BY <1>29, <2>1 DEF NothingStarted
<1>30. ASSUME NEW w \in Workers, AbandonBatch(w) PROVE TypeOK'
  <2>1. pc' \in [Workers -> WorkerStates] BY <1>30 DEF AbandonBatch, WorkerStates
  <2> QED BY <1>30, <2>1 DEF AbandonBatch
<1>31. ASSUME NEW w \in Workers, Crash(w) PROVE TypeOK'
  <2>1. pc' \in [Workers -> WorkerStates] BY <1>31 DEF Crash, WorkerStates
  <2>2. poller' \in [Workers -> {"off", "polling", "acking", "done"}] BY <1>31 DEF Crash
  <2>3. lease' \in Workers \cup Inspectors \cup {Parent, None} BY <1>31 DEF Crash
  <2> QED BY <1>31, <2>1, <2>2, <2>3 DEF Crash
<1>32. ASSUME NEW w \in Workers, NEW i \in Items, StartItem(w, i) PROVE TypeOK'
  <2>1. item' \in [Workers -> [Items -> ItemStates]] BY <1>32 DEF StartItem, ItemStates
  <2> QED BY <1>32, <2>1 DEF StartItem
<1>33. ASSUME NEW w \in Workers, NEW i \in Items, PrepareItem(w, i) PROVE TypeOK'
  <2>1. item' \in [Workers -> [Items -> ItemStates]]
    BY <1>33, MovesTyped, "failed" \in ItemStates, "admitting" \in ItemStates DEF PrepareItem, ItemStates
  <2> QED BY <1>33, <2>1 DEF PrepareItem
<1>34. ASSUME NEW w \in Workers, NEW i \in Items, BeginCommit(w, i) PROVE TypeOK'
  <2>1. item' \in [Workers -> [Items -> ItemStates]]
    <3>1. PICK to \in {"admitted", "failed"} : Moves(w, i, to) BY <1>34 DEF BeginCommit
    <3>2. QED BY <3>1, MovesTyped DEF ItemStates
  <2>2. admissions' \in [Items -> Nat] BY <1>34 DEF BeginCommit
  <2> QED BY <1>34, <2>1, <2>2 DEF BeginCommit
<1>35. ASSUME NEW w \in Workers, NEW i \in Items, Submit(w, i) PROVE TypeOK'
  <2>1. item' \in [Workers -> [Items -> ItemStates]] BY <1>35 DEF Submit, ItemStates
  <2>2. applied' \subseteq Items BY <1>35 DEF Submit
  <2> QED BY <1>35, <2>1, <2>2 DEF Submit
<1>36. ASSUME NEW w \in Workers, NEW i \in Items, SaveReceipt(w, i) PROVE TypeOK'
  <2>1. item' \in [Workers -> [Items -> ItemStates]] BY <1>36 DEF SaveReceipt, ItemStates
  <2>2. saved' \subseteq Items BY <1>36 DEF SaveReceipt
  <2> QED BY <1>36, <2>1, <2>2 DEF SaveReceipt
<1>37. ASSUME NEW w \in Workers, NEW i \in Items, LinkReceipt(w, i) PROVE TypeOK'
  <2>1. item' \in [Workers -> [Items -> ItemStates]]
    <3>1. PICK to \in {"failed", "succeeded"} : Moves(w, i, to) BY <1>37 DEF LinkReceipt
    <3>2. QED BY <3>1, MovesTyped DEF ItemStates
  <2>2. rec' \in Record
    BY <1>37, ReceiptTyped, RecordStaysTyped DEF LinkReceipt
  <2> QED BY <1>37, <2>1, <2>2 DEF LinkReceipt
<1>38. ASSUME JobCancel PROVE TypeOK'
  <2>1. ctl' \in Control
    <3>1. PICK result \in WriteResults : RequestCancel(result) BY <1>38 DEF JobCancel
    <3>2. [ctl EXCEPT !.requested = TRUE] \in Control BY DEF Control
    <3>3. QED BY <3>1, <3>2 DEF RequestCancel
  <2> QED BY <1>38, <2>1 DEF JobCancel, RequestCancel
<1>39. ASSUME NEW p \in Inspectors, InspectReads(p) PROVE TypeOK'
  <2>1. look' \in [Inspectors -> Looks] BY <1>39 DEF InspectReads, Looks, Phases, Record
  <2> QED BY <1>39, <2>1 DEF InspectReads
<1>40. ASSUME NEW p \in Inspectors, InspectProbes(p) PROVE TypeOK'
  <2>1. look' \in [Inspectors -> Looks]
    <3> DEFINE idle == [at |-> "idle", phase |-> "absent"]
    <3>0. idle \in Looks BY DEF Looks, Phases
    <3> HIDE DEF idle
    <3>1. CASE lease # None BY <1>40, <3>0, <3>1 DEF InspectProbes, Reports, idle
    <3>2. CASE lease = None
      <4>1. [look[p] EXCEPT !.at = "probing"] \in Looks BY DEF Looks
      <4>2. look' = [look EXCEPT ![p] = [look[p] EXCEPT !.at = "probing"]]
        BY <1>40, <3>2 DEF InspectProbes
      <4>3. QED BY <4>1, <4>2
    <3>3. QED BY <3>1, <3>2
  <2>2. view' \in [Inspectors -> Views] BY <1>40 DEF InspectProbes, Reports, Views, Status, Looks
  <2>3. lease' \in Workers \cup Inspectors \cup {Parent, None} BY <1>40 DEF InspectProbes, Reports
  <2> QED BY <1>40, <2>1, <2>2, <2>3 DEF InspectProbes, Reports
<1>41. ASSUME NEW p \in Inspectors, InspectReleasesProbe(p) PROVE TypeOK'
  <2>1. look' \in [Inspectors -> Looks] BY <1>41 DEF InspectReleasesProbe, Reports, Looks, Phases, Record
  <2>2. view' \in [Inspectors -> Views] BY <1>41 DEF InspectReleasesProbe, Reports, Views, Status, Looks
  <2>3. lease' \in Workers \cup Inspectors \cup {Parent, None} BY <1>41 DEF InspectReleasesProbe, Reports
  <2> QED BY <1>41, <2>1, <2>2, <2>3 DEF InspectReleasesProbe, Reports
<1>42. CASE UNCHANGED vars
  BY <1>42 DEF vars
<1>43. QED
  BY <1>1, <1>2, <1>3, <1>4, <1>5, <1>6, <1>7, <1>8, <1>9, <1>10, <1>11, <1>12, <1>13, <1>14, <1>15, <1>16, <1>17, <1>18, <1>19, <1>20, <1>21, <1>22, <1>23, <1>24, <1>25, <1>26, <1>27, <1>28, <1>29, <1>30, <1>31, <1>32, <1>33, <1>34, <1>35, <1>36, <1>37, <1>38, <1>39, <1>40, <1>41, <1>42 DEF Next, ParentRuns, WorkerRuns, ItemRuns, ItemPrepares, WorkerPolls, InspectNext

-----------------------------------------------------------------------------
(* The inductive invariant, by subject. *)

Own(w) == pc[w] \in Leased \cup {"locked"}

\* The worker lock has the holder that the control locations say.
LockHeld ==
    /\ \A w \in Workers : Own(w) => lease = w
    /\ \A p \in Inspectors : look[p].at = "probing" => lease = p
    /\ parent = "probing" => lease = Parent

\* No worker exists before the launch; the control file is made before it.
Prepared ==
    /\ parent = "preparing" => rec.phase = "absent"
    /\ parent \in Launched \cup {"prepared"} => ctl.exists
    /\ \A w \in Workers : pc[w] # "absent" => parent \in Launched

\* The recorded start names the one worker that runs or once ran.
StartKnown ==
    /\ IF Started THEN pc[rec.starter] \in Leased \cup Gone
                  ELSE rec.phase \in {"absent", "requested"}
    /\ rec.finished <=> Terminal(rec.phase)
    /\ \A w \in Workers : pc[w] \in Leased => rec.starter = w /\ ctl.supported
    /\ \A w \in Workers : pc[w] \in Leased \ {"closing"} => rec.phase = "running"

\* Only a request that is there is acknowledged, by a worker that stops.
Stopping ==
    /\ \A w \in Workers : poller[w] = "acking" =>
          ctl.requested /\ cancelled[w] /\ pc[w] \in {"running", "closing"}
    /\ \A w \in Workers : pc[w] = "acknowledging" => ctl.requested /\ cancelled[w]
    /\ AcknowledgedMeansStopping

\* What an item has done is in the books.
Untouched == {"todo", "preparing", "admitting"}
Booked ==
    /\ ItemsOnlyOfStarter
    /\ AtMostOneSubmission
    /\ \A i \in Items : admissions[i] # 0 \/ i \in applied =>
          Started /\ item[rec.starter][i] \notin Untouched
    /\ \A w \in Workers, i \in Items :
          /\ item[w][i] = "admitted" => admissions[i] = 1 /\ i \notin applied
          /\ item[w][i] \in {"accepted", "acceptedSaved", "succeeded"} => i \in applied
          /\ item[w][i] \in {"acceptedSaved", "succeeded"} => i \in saved
          /\ item[w][i] = "succeeded" => i \in rec.receipts
    /\ CompletedIsTrue

\* What the foreground command has seen is still so.
Followed ==
    /\ seen.finished => rec.finished
    /\ parent \in {"waiting", "sleeping", "probing", "unleased", "workerLost"} => Started
    /\ parent \in {"unleased", "workerLost"} => pc[rec.starter] \in Gone
    /\ parent = "cancelOk" => ctl.requested
    /\ WorkerLostIsFinal /\ ParentReportsFacts

\* What an inspecting command has read is still so.
Inspected ==
    /\ \A p \in Inspectors : look[p].phase = "running" => Started
    /\ InterruptedMeansWorkerGone

Inv == LockHeld /\ Prepared /\ StartKnown /\ Stopping /\ Booked /\ Followed /\ Inspected

\* A part of the invariant survives a step that leaves its variables alone.
LEMMA Frame ==
  /\ LockHeld /\ UNCHANGED <<pc, lease, look, parent>> => LockHeld'
  /\ Prepared /\ UNCHANGED <<rec, ctl, parent, pc>> => Prepared'
  /\ StartKnown /\ UNCHANGED <<rec, ctl, pc>> => StartKnown'
  /\ Stopping /\ UNCHANGED <<rec, ctl, poller, cancelled, pc>> => Stopping'
  /\ Booked /\ UNCHANGED <<rec, admissions, item, applied, saved>> => Booked'
  /\ Followed /\ UNCHANGED <<seen, rec, parent, ctl, pc>> => Followed'
  /\ Inspected /\ UNCHANGED <<look, view, rec, pc>> => Inspected'
BY DEF LockHeld, Own, Leased, Prepared, Launched, ParentStates,
      StartKnown, Started, Terminal, Gone, Stopping,
      AcknowledgedMeansStopping, Booked, ItemsOnlyOfStarter,
      AtMostOneSubmission, CompletedIsTrue, Untouched, Followed,
      WorkerLostIsFinal, ParentReportsFacts, Inspected,
      InterruptedMeansWorkerGone

-----------------------------------------------------------------------------
(* What the steps that write the record or an item do to the fields that    *)
(* the invariant speaks of.                                                 *)

KeepsRecord ==
    /\ rec'.phase = rec.phase /\ rec'.finished = rec.finished
    /\ rec'.starter = rec.starter /\ rec'.receipts = rec.receipts
    /\ rec'.exit = rec.exit

EndsAs(phase) ==
    /\ rec'.phase = phase /\ rec'.finished = TRUE
    /\ rec'.starter = rec.starter /\ rec'.receipts = rec.receipts
    /\ phase = "completed" => rec'.exit = "ok"

KeepsControl ==
    /\ ctl'.exists = ctl.exists /\ ctl'.requested = ctl.requested
    /\ ctl'.supported = ctl.supported

StartsWith(w) ==
    /\ rec'.starter = w /\ rec'.phase = "running"
    /\ rec'.finished = rec.finished /\ rec'.receipts = rec.receipts

Moved(w, i, to) ==
    \A v \in Workers, j \in Items :
        item'[v][j] = IF v = w /\ j = i THEN to ELSE item[v][j]

\* Moving one item leaves every other item where it was.
LEMMA MovesMoved ==
  ASSUME item \in [Workers -> [Items -> ItemStates]],
         NEW w \in Workers, NEW i \in Items, NEW to, Moves(w, i, to)
  PROVE  Moved(w, i, to)
BY DEF Moved

\* Recording a failed preparation ends the record or, lost, changes nothing.
LEMMA WriteFailed ==
  ASSUME rec \in Record, NEW result, UpdateRecord(result, FailedRecord)
  PROVE  KeepsRecord \/ EndsAs("failed")
BY DEF FailedRecord, Record, KeepsRecord, EndsAs

\* So does recording an unreadable control file.
LEMMA WriteControlFailed ==
  ASSUME rec \in Record, NEW result, UpdateRecord(result, [FailedRecord EXCEPT !.controlFailed = TRUE])
  PROVE  KeepsRecord \/ EndsAs("failed")
BY DEF FailedRecord, Record, KeepsRecord, EndsAs

\* An acknowledgement touches nothing but the acknowledgement.
LEMMA AcknowledgeEffect ==
  ASSUME rec \in Record, ctl \in Control, NEW result \in WriteResults, Acknowledge(result)
  PROVE  /\ KeepsRecord /\ KeepsControl
         /\ ctl'.acked = ctl.acked \/ (~ctl.acked /\ ctl'.acked = TRUE)
<1>1. KeepsControl BY DEF Acknowledge, AcknowledgeCancel, Control, KeepsControl
<1>2. KeepsRecord BY DEF Acknowledge, Record, KeepsRecord
<1>3. ctl'.acked = ctl.acked \/ (~ctl.acked /\ ctl'.acked = TRUE)
  BY DEF Acknowledge, AcknowledgeCancel, Control
<1>4. QED BY <1>1, <1>2, <1>3

\* Store.Lease starts an unstarted record once, or gives the lock back.
LEMMA StartEffect ==
  ASSUME TypeOK, Prepared, NEW w \in Workers, RecordStart(w)
  PROVE  /\ ~Started /\ ~Terminal(rec.phase) /\ pc[w] = "locked"
         /\ ctl'.exists = ctl.exists /\ ctl'.requested = ctl.requested
         /\ ctl'.acked = ctl.acked /\ ctl'.supported \in {ctl.supported, ctl.exists}
         /\ \/ KeepsRecord /\ UNCHANGED rec /\ ReleaseAnd(w, "exited")
            \/ StartsWith(w) /\ ReleaseAnd(w, "exited")
            \/ StartsWith(w) /\ Goes(w, "leased") /\ lease' = lease /\ ctl'.supported
<1> USE DEF TypeOK
<1>1. PICK advertise \in WriteResults, start \in WriteResults :
         /\ UpdateControl(IF ctl.supported THEN "write" ELSE advertise,
                          [ctl EXCEPT !.supported = ctl.exists])
         /\ IF advertise = "ok" \/ ctl.supported
            THEN UpdateRecord(start, [rec EXCEPT !.starter = w, !.phase = "running"])
            ELSE start = "ok" /\ UNCHANGED rec
         /\ IF (advertise = "ok" \/ ctl.supported) /\ start = "ok"
            THEN Goes(w, "leased") /\ KeepLease
            ELSE ReleaseAnd(w, "exited")
  BY DEF RecordStart
<1>2. ctl.exists
  BY DEF RecordStart, Prepared
<1>3. /\ ctl'.exists = ctl.exists /\ ctl'.requested = ctl.requested
      /\ ctl'.acked = ctl.acked /\ ctl'.supported \in {ctl.supported, ctl.exists}
      /\ advertise = "ok" => ctl'.supported
      /\ ctl.supported => ctl'.supported
  BY <1>1, <1>2 DEF Control
<1>4. UNCHANGED rec \/ StartsWith(w)
  BY <1>1 DEF Record, StartsWith
<1>5. start = "ok" /\ (advertise = "ok" \/ ctl.supported) => StartsWith(w)
  BY <1>1 DEF Record, StartsWith
<1>6. QED
  BY <1>1, <1>3, <1>4, <1>5 DEF RecordStart, Startable, KeepLease, KeepsRecord

\* The result saved is true of the items, or the cautious fallback.
LEMMA SaveEffect ==
  ASSUME TypeOK, NEW w \in Workers, SaveResult(w)
  PROVE  \/ KeepsRecord
         \/ EndsAs("completed") /\ \A i \in Items : item[w][i] = "succeeded"
         \/ EndsAs("failed") \/ EndsAs("remote_pending")
<1> USE DEF TypeOK
<1>1. PICK result \in WriteResults :
        \/ UpdateRecord(result,
             [rec EXCEPT !.finished = TRUE, !.exit = ExitOf(w),
                         !.phase = IF ExitOf(w) = "ok" THEN "completed" ELSE "failed"])
        \/ UpdateRecord(result,
             [rec EXCEPT !.finished = TRUE, !.exit = "error",
                         !.phase = IF rec.receipts # {} THEN "remote_pending" ELSE "failed"])
  BY DEF SaveResult
<1>2. CASE result = "write"
  BY <1>1, <1>2 DEF KeepsRecord
<1>3. CASE result # "write"
  <2>1. CASE rec' = [rec EXCEPT !.finished = TRUE, !.exit = ExitOf(w),
                       !.phase = IF ExitOf(w) = "ok" THEN "completed" ELSE "failed"]
    BY <2>1 DEF Record, EndsAs, ExitOf
  <2>2. CASE rec' = [rec EXCEPT !.finished = TRUE, !.exit = "error",
                       !.phase = IF rec.receipts # {} THEN "remote_pending" ELSE "failed"]
    BY <2>2 DEF Record, EndsAs
  <2>3. QED BY <1>1, <1>3, <2>1, <2>2
<1>4. QED BY <1>2, <1>3

-----------------------------------------------------------------------------

\* Every step keeps the invariant.
LEMMA InvStep == ASSUME TypeOK, TypeOK', Inv, [Next]_vars PROVE Inv'
<1> USE DEF Inv
<1>1. ASSUME NEW result \in WriteResults, CreateRecord(result) PROVE Inv'
  <2>1. LockHeld'
    BY <1>1 DEF CreateRecord, TypeOK, Record, Control, Looks, LockHeld, Own,
      Leased
  <2>2. Prepared'
    BY <1>1 DEF CreateRecord, TypeOK, Record, Control, Looks, Prepared, Launched,
      ParentStates
  <2>3. StartKnown'
    BY <1>1 DEF CreateRecord, TypeOK, Record, Control, Looks, StartKnown,
      Started, Terminal, Leased, Gone, Prepared, Launched,
      ParentStates
  <2>4. Stopping'
    BY <1>1 DEF CreateRecord, TypeOK, Record, Control, Looks, Stopping,
      AcknowledgedMeansStopping, Started, Gone
  <2>5. Booked'
    BY <1>1 DEF CreateRecord, TypeOK, Record, Control, Looks, Booked,
      ItemsOnlyOfStarter, AtMostOneSubmission, CompletedIsTrue,
      Started, Untouched, Prepared, Launched, ParentStates, StartKnown,
      Terminal, Leased, Gone
  <2>6. Followed'
    BY <1>1 DEF CreateRecord, TypeOK, Record, Control, Looks, Followed,
      WorkerLostIsFinal, ParentReportsFacts, Started, Gone, Prepared,
      Launched, ParentStates, StartKnown, Terminal, Leased
  <2>7. Inspected'
    BY <1>1 DEF CreateRecord, TypeOK, Record, Control, Looks, Inspected,
      InterruptedMeansWorkerGone, Started, Gone, Prepared, Launched,
      ParentStates, StartKnown, Terminal, Leased
  <2> QED BY <1>1, <2>1, <2>2, <2>3, <2>4, <2>5, <2>6, <2>7, Frame DEF CreateRecord
<1>2. ASSUME NEW result \in WriteResults, PrepareCancel(result) PROVE Inv'
  <2>1. LockHeld'
    BY <1>2 DEF PrepareCancel, TypeOK, Record, Control, Looks, LockHeld, Own,
      Leased
  <2>2. Prepared'
    BY <1>2 DEF PrepareCancel, TypeOK, Record, Control, Looks, Prepared,
      Launched, ParentStates
  <2>3. StartKnown'
    BY <1>2 DEF PrepareCancel, TypeOK, Record, Control, Looks, StartKnown,
      Started, Terminal, Leased, Gone
  <2>4. Stopping'
    BY <1>2 DEF PrepareCancel, TypeOK, Record, Control, Looks, Stopping,
      AcknowledgedMeansStopping, Started, Gone
  <2>5. Followed'
    BY <1>2 DEF PrepareCancel, TypeOK, Record, Control, Looks, Followed,
      WorkerLostIsFinal, ParentReportsFacts, Started, Gone
  <2> QED BY <1>2, <2>1, <2>2, <2>3, <2>4, <2>5, Frame DEF PrepareCancel
<1>3. ASSUME NEW result \in WriteResults, ParentDetaches(result) PROVE Inv'
  <2>1. LockHeld'
    BY <1>3 DEF ParentDetaches, DetachedRecord, TypeOK, Record, Control, Looks,
      LockHeld, Own, Leased
  <2>2. Prepared'
    BY <1>3 DEF ParentDetaches, DetachedRecord, TypeOK, Record, Control, Looks,
      Prepared, Launched, ParentStates
  <2>3. StartKnown'
    BY <1>3 DEF ParentDetaches, DetachedRecord, TypeOK, Record, Control, Looks,
      StartKnown, Started, Terminal, Leased, Gone
  <2>4. Stopping'
    BY <1>3 DEF ParentDetaches, DetachedRecord, TypeOK, Record, Control, Looks,
      Stopping, AcknowledgedMeansStopping, Started, Gone
  <2>5. Booked'
    BY <1>3 DEF ParentDetaches, DetachedRecord, TypeOK, Record, Control, Looks,
      Booked, ItemsOnlyOfStarter, AtMostOneSubmission, CompletedIsTrue,
      Started, Untouched
  <2>6. Followed'
    BY <1>3 DEF ParentDetaches, DetachedRecord, TypeOK, Record, Control, Looks,
      Followed, WorkerLostIsFinal, ParentReportsFacts, Started, Gone
  <2>7. Inspected'
    BY <1>3 DEF ParentDetaches, DetachedRecord, TypeOK, Record, Control, Looks,
      Inspected, InterruptedMeansWorkerGone, Started, Gone
  <2> QED BY <1>3, <2>1, <2>2, <2>3, <2>4, <2>5, <2>6, <2>7, Frame DEF ParentDetaches, DetachedRecord
<1>4. ASSUME Launch PROVE Inv'
  <2>1. LockHeld'
    BY <1>4 DEF Launch, TypeOK, Record, Control, Looks, LockHeld, Own, Leased,
      Prepared, Launched, ParentStates
  <2>2. Prepared'
    BY <1>4 DEF Launch, TypeOK, Record, Control, Looks, Prepared, Launched,
      ParentStates
  <2>3. StartKnown'
    BY <1>4 DEF Launch, TypeOK, Record, Control, Looks, StartKnown, Started,
      Terminal, Leased, Gone, Prepared, Launched, ParentStates
  <2>4. Stopping'
    BY <1>4 DEF Launch, TypeOK, Record, Control, Looks, Stopping,
      AcknowledgedMeansStopping, Started, Gone, Prepared, Launched,
      ParentStates
  <2>5. Followed'
    BY <1>4 DEF Launch, TypeOK, Record, Control, Looks, Followed,
      WorkerLostIsFinal, ParentReportsFacts, Started, Gone, Prepared,
      Launched, ParentStates, StartKnown, Terminal, Leased
  <2>6. Inspected'
    BY <1>4 DEF Launch, TypeOK, Record, Control, Looks, Inspected,
      InterruptedMeansWorkerGone, Started, Gone, Prepared, Launched,
      ParentStates, StartKnown, Terminal, Leased
  <2> QED BY <1>4, <2>1, <2>2, <2>3, <2>4, <2>5, <2>6, Frame DEF Launch
<1>5. ASSUME ParentSeesStart PROVE Inv'
  <2>1. LockHeld'
    BY <1>5 DEF ParentSeesStart, CopyOfRecord, TypeOK, Record, Control, Looks,
      LockHeld, Own, Leased
  <2>2. Prepared'
    BY <1>5 DEF ParentSeesStart, CopyOfRecord, TypeOK, Record, Control, Looks,
      Prepared, Launched, ParentStates
  <2>3. Followed'
    BY <1>5 DEF ParentSeesStart, CopyOfRecord, TypeOK, Record, Control, Looks,
      Followed, WorkerLostIsFinal, ParentReportsFacts, Started, Gone
  <2> QED BY <1>5, <2>1, <2>2, <2>3, Frame DEF ParentSeesStart
<1>6. ASSUME ParentStartTimeout PROVE Inv'
  <2>1. LockHeld'
    BY <1>6 DEF ParentStartTimeout, TypeOK, Record, Control, Looks, LockHeld,
      Own, Leased
  <2>2. Prepared'
    BY <1>6 DEF ParentStartTimeout, TypeOK, Record, Control, Looks, Prepared,
      Launched, ParentStates
  <2>3. Followed'
    BY <1>6 DEF ParentStartTimeout, TypeOK, Record, Control, Looks, Followed,
      WorkerLostIsFinal, ParentReportsFacts, Started, Gone
  <2> QED BY <1>6, <2>1, <2>2, <2>3, Frame DEF ParentStartTimeout
<1>7. ASSUME ParentFinishes PROVE Inv'
  <2>1. LockHeld'
    BY <1>7 DEF ParentFinishes, TypeOK, Record, Control, Looks, LockHeld, Own,
      Leased
  <2>2. Prepared'
    BY <1>7 DEF ParentFinishes, TypeOK, Record, Control, Looks, Prepared,
      Launched, ParentStates
  <2>3. Followed'
    BY <1>7 DEF ParentFinishes, TypeOK, Record, Control, Looks, Followed,
      WorkerLostIsFinal, ParentReportsFacts, Started, Gone
  <2> QED BY <1>7, <2>1, <2>2, <2>3, Frame DEF ParentFinishes
<1>8. ASSUME ParentProbes PROVE Inv'
  <2>1. LockHeld'
    BY <1>8 DEF ParentProbes, TypeOK, Record, Control, Looks, LockHeld, Own,
      Leased
  <2>2. Prepared'
    BY <1>8 DEF ParentProbes, TypeOK, Record, Control, Looks, Prepared, Launched,
      ParentStates
  <2>3. Followed'
    BY <1>8 DEF ParentProbes, TypeOK, Record, Control, Looks, Followed,
      WorkerLostIsFinal, ParentReportsFacts, Started, Gone
  <2> QED BY <1>8, <2>1, <2>2, <2>3, Frame DEF ParentProbes
<1>9. ASSUME ParentReleasesProbe PROVE Inv'
  <2>1. LockHeld'
    BY <1>9 DEF ParentReleasesProbe, TypeOK, Record, Control, Looks, LockHeld,
      Own, Leased
  <2>2. Prepared'
    BY <1>9 DEF ParentReleasesProbe, TypeOK, Record, Control, Looks, Prepared,
      Launched, ParentStates
  <2>3. Followed'
    BY <1>9 DEF ParentReleasesProbe, TypeOK, Record, Control, Looks, Followed,
      WorkerLostIsFinal, ParentReportsFacts, Started, Gone, LockHeld,
      Own, Leased, StartKnown, Terminal
  <2> QED BY <1>9, <2>1, <2>2, <2>3, Frame DEF ParentReleasesProbe
<1>10. ASSUME ParentRereads PROVE Inv'
  <2>1. LockHeld'
    BY <1>10 DEF ParentRereads, CopyOfRecord, TypeOK, Record, Control, Looks,
      LockHeld, Own, Leased
  <2>2. Prepared'
    BY <1>10 DEF ParentRereads, CopyOfRecord, TypeOK, Record, Control, Looks,
      Prepared, Launched, ParentStates
  <2>3. Followed'
    BY <1>10 DEF ParentRereads, CopyOfRecord, TypeOK, Record, Control, Looks,
      Followed, WorkerLostIsFinal, ParentReportsFacts, Started, Gone
  <2> QED BY <1>10, <2>1, <2>2, <2>3, Frame DEF ParentRereads
<1>11. ASSUME ParentWakes PROVE Inv'
  <2>1. LockHeld'
    BY <1>11 DEF ParentWakes, CopyOfRecord, TypeOK, Record, Control, Looks,
      LockHeld, Own, Leased
  <2>2. Prepared'
    BY <1>11 DEF ParentWakes, CopyOfRecord, TypeOK, Record, Control, Looks,
      Prepared, Launched, ParentStates
  <2>3. Followed'
    BY <1>11 DEF ParentWakes, CopyOfRecord, TypeOK, Record, Control, Looks,
      Followed, WorkerLostIsFinal, ParentReportsFacts, Started, Gone
  <2> QED BY <1>11, <2>1, <2>2, <2>3, Frame DEF ParentWakes
<1>12. ASSUME ParentRequestsCancel PROVE Inv'
  <2>1. LockHeld'
    BY <1>12 DEF ParentRequestsCancel, RequestCancel, RequestAccepted, TypeOK,
      Record, Control, Looks, LockHeld, Own, Leased
  <2>2. Prepared'
    BY <1>12 DEF ParentRequestsCancel, RequestCancel, RequestAccepted, TypeOK,
      Record, Control, Looks, Prepared, Launched, ParentStates
  <2>3. StartKnown'
    BY <1>12 DEF ParentRequestsCancel, RequestCancel, RequestAccepted, TypeOK,
      Record, Control, Looks, StartKnown, Started, Terminal, Leased,
      Gone
  <2>4. Stopping'
    BY <1>12 DEF ParentRequestsCancel, RequestCancel, RequestAccepted, TypeOK,
      Record, Control, Looks, Stopping, AcknowledgedMeansStopping,
      Started, Gone
  <2>5. Followed'
    BY <1>12 DEF ParentRequestsCancel, RequestCancel, RequestAccepted, TypeOK,
      Record, Control, Looks, Followed, WorkerLostIsFinal,
      ParentReportsFacts, Started, Gone
  <2> QED BY <1>12, <2>1, <2>2, <2>3, <2>4, <2>5, Frame DEF ParentRequestsCancel, RequestCancel
<1>13. ASSUME ParentReportsCancel PROVE Inv'
  <2>1. LockHeld'
    BY <1>13 DEF ParentReportsCancel, CancelReport, TypeOK, Record, Control,
      Looks, LockHeld, Own, Leased
  <2>2. Prepared'
    BY <1>13 DEF ParentReportsCancel, CancelReport, TypeOK, Record, Control,
      Looks, Prepared, Launched, ParentStates
  <2>3. Followed'
    BY <1>13 DEF ParentReportsCancel, CancelReport, TypeOK, Record, Control,
      Looks, Followed, WorkerLostIsFinal, ParentReportsFacts, Started,
      Gone
  <2> QED BY <1>13, <2>1, <2>2, <2>3, Frame DEF ParentReportsCancel, CancelReport
<1>14. ASSUME ParentReadFails PROVE Inv'
  <2>1. LockHeld'
    BY <1>14 DEF ParentReadFails, TypeOK, Record, Control, Looks, LockHeld, Own,
      Leased
  <2>2. Prepared'
    BY <1>14 DEF ParentReadFails, TypeOK, Record, Control, Looks, Prepared,
      Launched, ParentStates
  <2>3. Followed'
    BY <1>14 DEF ParentReadFails, TypeOK, Record, Control, Looks, Followed,
      WorkerLostIsFinal, ParentReportsFacts, Started, Gone
  <2> QED BY <1>14, <2>1, <2>2, <2>3, Frame DEF ParentReadFails
<1>15. ASSUME ParentInterrupted PROVE Inv'
  <2>1. LockHeld'
    BY <1>15 DEF ParentInterrupted, TypeOK, Record, Control, Looks, LockHeld, Own,
      Leased
  <2>2. Prepared'
    BY <1>15 DEF ParentInterrupted, TypeOK, Record, Control, Looks, Prepared,
      Launched, ParentStates
  <2>3. Followed'
    BY <1>15 DEF ParentInterrupted, TypeOK, Record, Control, Looks, Followed,
      WorkerLostIsFinal, ParentReportsFacts, Started, Gone
  <2> QED BY <1>15, <2>1, <2>2, <2>3, Frame DEF ParentInterrupted
<1>16. ASSUME Expire PROVE Inv'
  <2> QED BY <1>16, Frame DEF Expire
<1>17. ASSUME NEW w \in Workers, SecondWorker(w) PROVE Inv'
  <2>1. LockHeld'
    BY <1>17 DEF SecondWorker, TypeOK, Record, Control, Looks, LockHeld, Own,
      Leased
  <2>2. Prepared'
    BY <1>17 DEF SecondWorker, TypeOK, Record, Control, Looks, Prepared, Launched,
      ParentStates
  <2>3. StartKnown'
    BY <1>17 DEF SecondWorker, TypeOK, Record, Control, Looks, StartKnown,
      Started, Terminal, Leased, Gone
  <2>4. Stopping'
    BY <1>17 DEF SecondWorker, TypeOK, Record, Control, Looks, Stopping,
      AcknowledgedMeansStopping, Started, Gone, StartKnown, Terminal,
      Leased
  <2>5. Followed'
    BY <1>17 DEF SecondWorker, TypeOK, Record, Control, Looks, Followed,
      WorkerLostIsFinal, ParentReportsFacts, Started, Gone
  <2>6. Inspected'
    BY <1>17 DEF SecondWorker, TypeOK, Record, Control, Looks, Inspected,
      InterruptedMeansWorkerGone, Started, Gone
  <2> QED BY <1>17, <2>1, <2>2, <2>3, <2>4, <2>5, <2>6, Frame DEF SecondWorker
<1>18. ASSUME NEW w \in Workers, Boot(w) PROVE Inv'
  <2>1. LockHeld'
    BY <1>18 DEF Boot, TypeOK, Record, Control, Looks, LockHeld, Own, Leased
  <2>2. Prepared'
    BY <1>18 DEF Boot, TypeOK, Record, Control, Looks, Prepared, Launched,
      ParentStates
  <2>3. StartKnown'
    BY <1>18 DEF Boot, TypeOK, Record, Control, Looks, StartKnown, Started,
      Terminal, Leased, Gone
  <2>4. Stopping'
    BY <1>18 DEF Boot, TypeOK, Record, Control, Looks, Stopping,
      AcknowledgedMeansStopping, Started, Gone
  <2>5. Followed'
    BY <1>18 DEF Boot, TypeOK, Record, Control, Looks, Followed,
      WorkerLostIsFinal, ParentReportsFacts, Started, Gone
  <2>6. Inspected'
    BY <1>18 DEF Boot, TypeOK, Record, Control, Looks, Inspected,
      InterruptedMeansWorkerGone, Started, Gone
  <2> QED BY <1>18, <2>1, <2>2, <2>3, <2>4, <2>5, <2>6, Frame DEF Boot
<1>19. ASSUME NEW w \in Workers, TakeLease(w) PROVE Inv'
  <2>1. LockHeld'
    BY <1>19 DEF TakeLease, TypeOK, Record, Control, Looks, LockHeld, Own, Leased
  <2>2. Prepared'
    BY <1>19 DEF TakeLease, TypeOK, Record, Control, Looks, Prepared, Launched,
      ParentStates
  <2>3. StartKnown'
    BY <1>19 DEF TakeLease, TypeOK, Record, Control, Looks, StartKnown, Started,
      Terminal, Leased, Gone
  <2>4. Stopping'
    BY <1>19 DEF TakeLease, TypeOK, Record, Control, Looks, Stopping,
      AcknowledgedMeansStopping, Started, Gone
  <2>5. Followed'
    BY <1>19 DEF TakeLease, TypeOK, Record, Control, Looks, Followed,
      WorkerLostIsFinal, ParentReportsFacts, Started, Gone
  <2>6. Inspected'
    BY <1>19 DEF TakeLease, TypeOK, Record, Control, Looks, Inspected,
      InterruptedMeansWorkerGone, Started, Gone
  <2> QED BY <1>19, <2>1, <2>2, <2>3, <2>4, <2>5, <2>6, Frame DEF TakeLease
<1>20. ASSUME NEW w \in Workers, RecordStart(w) PROVE Inv'
  <2>1. /\ ~Started /\ ~Terminal(rec.phase) /\ pc[w] = "locked"
        /\ ctl'.exists = ctl.exists /\ ctl'.requested = ctl.requested
        /\ ctl'.acked = ctl.acked /\ ctl'.supported \in {ctl.supported, ctl.exists}
        /\ \/ KeepsRecord /\ UNCHANGED rec /\ ReleaseAnd(w, "exited")
           \/ StartsWith(w) /\ ReleaseAnd(w, "exited")
           \/ StartsWith(w) /\ Goes(w, "leased") /\ lease' = lease /\ ctl'.supported
    BY <1>20, StartEffect
  <2>2. pc[w] = "locked" /\ UNCHANGED <<parent, seen, look, view, cancelled, poller, item, admissions, applied, saved>>
    BY <1>20 DEF RecordStart
  <2>3. LockHeld'
    <3>1. CASE ReleaseAnd(w, "exited")
      BY <2>2, <3>1 DEF TypeOK, LockHeld, Own, Leased
    <3>2. CASE Goes(w, "leased") /\ lease' = lease
      BY <2>2, <3>2 DEF TypeOK, LockHeld, Own, Leased
    <3>3. QED BY <2>1, <3>1, <3>2
  <2>4. Prepared'
    BY <2>1, <2>2 DEF StartsWith, KeepsRecord, Terminal, TypeOK, Prepared, Launched,
      ParentStates
  <2>5. StartKnown'
    BY <2>1, <2>2 DEF StartsWith, KeepsRecord, Terminal, TypeOK, StartKnown, Started,
      Leased, Gone, LockHeld, Own, Prepared, Launched, ParentStates
  <2>6. Stopping'
    BY <2>1, <2>2 DEF StartsWith, KeepsRecord, Terminal, TypeOK, Stopping,
      AcknowledgedMeansStopping, Started, Gone, StartKnown, Leased
  <2>7. Booked'
    BY <2>1, <2>2 DEF StartsWith, KeepsRecord, Terminal, TypeOK, Booked,
      ItemsOnlyOfStarter, AtMostOneSubmission, CompletedIsTrue,
      Started, Untouched, StartKnown, Leased, Gone
  <2>8. Followed'
    BY <2>1, <2>2 DEF StartsWith, KeepsRecord, Terminal, TypeOK, Followed,
      WorkerLostIsFinal, ParentReportsFacts, Started, Gone, StartKnown,
      Leased
  <2>9. Inspected'
    BY <2>1, <2>2 DEF StartsWith, KeepsRecord, Terminal, TypeOK, Inspected,
      InterruptedMeansWorkerGone, Started, Gone, StartKnown, Leased
  <2> QED BY <2>1, <2>2, <2>3, <2>4, <2>5, <2>6, <2>7, <2>8, <2>9, Frame
<1>21. ASSUME NEW w \in Workers, RefuseReplay(w) PROVE Inv'
  <2>1. LockHeld'
    BY <1>21 DEF RefuseReplay, TypeOK, Record, Control, Looks, LockHeld, Own,
      Leased
  <2>2. Prepared'
    BY <1>21 DEF RefuseReplay, TypeOK, Record, Control, Looks, Prepared, Launched,
      ParentStates
  <2>3. StartKnown'
    BY <1>21 DEF RefuseReplay, TypeOK, Record, Control, Looks, StartKnown,
      Started, Terminal, Leased, Gone
  <2>4. Stopping'
    BY <1>21 DEF RefuseReplay, TypeOK, Record, Control, Looks, Stopping,
      AcknowledgedMeansStopping, Started, Gone
  <2>5. Followed'
    BY <1>21 DEF RefuseReplay, TypeOK, Record, Control, Looks, Followed,
      WorkerLostIsFinal, ParentReportsFacts, Started, Gone
  <2>6. Inspected'
    BY <1>21 DEF RefuseReplay, TypeOK, Record, Control, Looks, Inspected,
      InterruptedMeansWorkerGone, Started, Gone
  <2> QED BY <1>21, <2>1, <2>2, <2>3, <2>4, <2>5, <2>6, Frame DEF RefuseReplay
<1>22. ASSUME NEW w \in Workers, DecodePreparation(w) PROVE Inv'
  <2>1. \/ Goes(w, "checking") /\ UNCHANGED rec /\ KeepsRecord
        \/ Goes(w, "closing") /\ (KeepsRecord \/ EndsAs("failed"))
    BY <1>22, WriteFailed DEF TypeOK, DecodePreparation, KeepsRecord
  <2>2. pc[w] = "leased" /\ UNCHANGED <<ctl, lease, parent, seen, look, view, cancelled, poller, item, admissions, applied, saved>>
    BY <1>22 DEF DecodePreparation
  <2>3. LockHeld'
    BY <2>1, <2>2 DEF KeepsRecord, EndsAs, TypeOK, LockHeld, Own, Leased
  <2>4. Prepared'
    BY <2>1, <2>2 DEF KeepsRecord, EndsAs, TypeOK, Prepared, Launched, ParentStates
  <2>5. StartKnown'
    <3>1. CASE Goes(w, "checking") /\ KeepsRecord
      BY <2>2, <3>1 DEF KeepsRecord, TypeOK, StartKnown, Started, Terminal, Leased, Gone
    <3>2. CASE Goes(w, "closing") /\ KeepsRecord
      BY <2>2, <3>2 DEF KeepsRecord, TypeOK, StartKnown, Started, Terminal, Leased, Gone
    <3>3. CASE Goes(w, "closing") /\ EndsAs("failed")
      BY <2>2, <3>3 DEF EndsAs, TypeOK, StartKnown, Started, Terminal, Leased, Gone
    <3>4. QED BY <2>1, <3>1, <3>2, <3>3
  <2>6. Stopping'
    <3>1. rec'.starter = rec.starter
      BY <2>1 DEF KeepsRecord, EndsAs
    <3>2. PICK to \in {"checking", "closing"} : Goes(w, to)
      BY <2>1
    <3>3. QED
      BY <2>2, <3>1, <3>2 DEF TypeOK, Stopping, AcknowledgedMeansStopping, Started, Gone
  <2>7. Booked'
    BY <2>1, <2>2 DEF KeepsRecord, EndsAs, TypeOK, Booked, ItemsOnlyOfStarter,
      AtMostOneSubmission, CompletedIsTrue, Started, Untouched,
      StartKnown, Terminal, Leased, Gone
  <2>8. Followed'
    BY <2>1, <2>2 DEF KeepsRecord, EndsAs, TypeOK, Followed, WorkerLostIsFinal,
      ParentReportsFacts, Started, Gone, StartKnown, Terminal, Leased
  <2>9. Inspected'
    BY <2>1, <2>2 DEF KeepsRecord, EndsAs, TypeOK, Inspected,
      InterruptedMeansWorkerGone, Started, Gone, StartKnown, Terminal,
      Leased
  <2> QED BY <2>1, <2>2, <2>3, <2>4, <2>5, <2>6, <2>7, <2>8, <2>9, Frame
<1>23. ASSUME NEW w \in Workers, ReadInitialControl(w) PROVE Inv'
  <2>1. \/ /\ Goes(w, IF ctl.requested THEN "acknowledging" ELSE "running") /\ KeepsRecord
           /\ cancelled' = [cancelled EXCEPT ![w] = ctl.requested]
           /\ poller' = [poller EXCEPT ![w] = IF ctl.requested THEN "off" ELSE "polling"]
        \/ /\ Goes(w, "closing") /\ (KeepsRecord \/ EndsAs("failed"))
           /\ UNCHANGED <<cancelled, poller>>
    BY <1>23, WriteControlFailed DEF TypeOK, ReadInitialControl, KeepsRecord
  <2>2. pc[w] = "checking" /\ UNCHANGED <<ctl, lease, parent, seen, look, view, item, admissions, applied, saved>>
    BY <1>23 DEF ReadInitialControl
  <2>3. LockHeld'
    BY <2>1, <2>2 DEF KeepsRecord, EndsAs, TypeOK, LockHeld, Own, Leased
  <2>4. Prepared'
    BY <2>1, <2>2 DEF KeepsRecord, EndsAs, TypeOK, Prepared, Launched, ParentStates
  <2>5. StartKnown'
    <3>1. CASE Goes(w, IF ctl.requested THEN "acknowledging" ELSE "running") /\ KeepsRecord
      BY <2>2, <3>1 DEF KeepsRecord, TypeOK, StartKnown, Started, Terminal, Leased, Gone
    <3>2. CASE Goes(w, "closing") /\ KeepsRecord
      BY <2>2, <3>2 DEF KeepsRecord, TypeOK, StartKnown, Started, Terminal, Leased, Gone
    <3>3. CASE Goes(w, "closing") /\ EndsAs("failed")
      BY <2>2, <3>3 DEF EndsAs, TypeOK, StartKnown, Started, Terminal, Leased, Gone
    <3>4. QED BY <2>1, <3>1, <3>2, <3>3
  <2>6. Stopping'
    <3>1. rec'.starter = rec.starter /\ rec.starter = w /\ ctl.supported
      BY <2>1, <2>2 DEF KeepsRecord, EndsAs, StartKnown, Leased
    <3>2. PICK to \in {"acknowledging", "running", "closing"} :
            /\ Goes(w, to)
            /\ to = "acknowledging" => ctl.requested /\ cancelled'[w]
      BY <2>1 DEF TypeOK, Control
    <3>3. cancelled' = [cancelled EXCEPT ![w] = ctl.requested] \/ UNCHANGED cancelled
      BY <2>1
    <3>4. \A v \in Workers : poller'[v] = "acking" => poller[v] = "acking" /\ v # w
      BY <2>1, <2>2 DEF TypeOK, Stopping
    <3>5. AcknowledgedMeansStopping'
      BY <2>2, <3>1, <3>2, <3>3
      DEF TypeOK, Control, Stopping, AcknowledgedMeansStopping, Started, Gone
    <3>6. QED
      BY <2>2, <3>2, <3>3, <3>4, <3>5 DEF TypeOK, Stopping
  <2>7. Booked'
    BY <2>1, <2>2 DEF KeepsRecord, EndsAs, TypeOK, Booked, ItemsOnlyOfStarter,
      AtMostOneSubmission, CompletedIsTrue, Started, Untouched,
      StartKnown, Terminal, Leased, Gone
  <2>8. Followed'
    BY <2>1, <2>2 DEF KeepsRecord, EndsAs, TypeOK, Followed, WorkerLostIsFinal,
      ParentReportsFacts, Started, Gone, StartKnown, Terminal, Leased
  <2>9. Inspected'
    BY <2>1, <2>2 DEF KeepsRecord, EndsAs, TypeOK, Inspected,
      InterruptedMeansWorkerGone, Started, Gone, StartKnown, Terminal,
      Leased
  <2> QED BY <2>1, <2>2, <2>3, <2>4, <2>5, <2>6, <2>7, <2>8, <2>9, Frame
<1>24. ASSUME NEW w \in Workers, AcknowledgeAtStart(w) PROVE Inv'
  <2>1. KeepsRecord /\ KeepsControl
    BY <1>24, AcknowledgeEffect DEF TypeOK, AcknowledgeAtStart
  <2>2. /\ pc[w] = "acknowledging" /\ Goes(w, "running")
        /\ poller' = [poller EXCEPT ![w] = "polling"]
        /\ UNCHANGED <<lease, parent, seen, look, view, cancelled, item, admissions, applied, saved>>
    BY <1>24 DEF AcknowledgeAtStart
  <2>3. LockHeld'
    BY <2>1, <2>2 DEF KeepsRecord, KeepsControl, TypeOK, LockHeld, Own, Leased
  <2>4. Prepared'
    BY <2>1, <2>2 DEF KeepsRecord, KeepsControl, TypeOK, Prepared, Launched,
      ParentStates
  <2>5. StartKnown'
    BY <2>1, <2>2 DEF KeepsRecord, KeepsControl, TypeOK, StartKnown, Started, Terminal,
      Leased, Gone
  <2>6. Stopping'
    BY <2>1, <2>2 DEF KeepsRecord, KeepsControl, TypeOK, Stopping,
      AcknowledgedMeansStopping, Started, Gone, StartKnown, Terminal,
      Leased
  <2>7. Booked'
    BY <2>1, <2>2 DEF KeepsRecord, KeepsControl, TypeOK, Booked, ItemsOnlyOfStarter,
      AtMostOneSubmission, CompletedIsTrue, Started, Untouched
  <2>8. Followed'
    BY <2>1, <2>2 DEF KeepsRecord, KeepsControl, TypeOK, Followed, WorkerLostIsFinal,
      ParentReportsFacts, Started, Gone
  <2>9. Inspected'
    BY <2>1, <2>2 DEF KeepsRecord, KeepsControl, TypeOK, Inspected,
      InterruptedMeansWorkerGone, Started, Gone
  <2> QED BY <2>1, <2>2, <2>3, <2>4, <2>5, <2>6, <2>7, <2>8, <2>9, Frame
<1>25. ASSUME NEW w \in Workers, SaveResult(w) PROVE Inv'
  <2>1. \/ KeepsRecord
        \/ EndsAs("completed") /\ \A i \in Items : item[w][i] = "succeeded"
        \/ EndsAs("failed") \/ EndsAs("remote_pending")
    BY <1>25, SaveEffect
  <2>2. /\ pc[w] = "running" /\ Goes(w, "closing")
        /\ UNCHANGED <<ctl, lease, parent, seen, look, view, cancelled, poller, item, admissions, applied, saved>>
    BY <1>25 DEF SaveResult
  <2>3. LockHeld'
    BY <2>1, <2>2 DEF KeepsRecord, EndsAs, TypeOK, LockHeld, Own, Leased
  <2>4. Prepared'
    BY <2>1, <2>2 DEF KeepsRecord, EndsAs, TypeOK, Prepared, Launched, ParentStates
  <2>5. StartKnown'
    BY <2>1, <2>2 DEF KeepsRecord, EndsAs, TypeOK, StartKnown, Started, Terminal,
      Leased, Gone
  <2>6. Stopping'
    BY <2>1, <2>2 DEF KeepsRecord, EndsAs, TypeOK, Stopping, AcknowledgedMeansStopping,
      Started, Gone
  <2>7. Booked'
    <3>1. rec.starter = w /\ rec.phase = "running" /\ rec'.starter = w /\ rec'.receipts = rec.receipts
      BY <2>1, <2>2 DEF StartKnown, Leased, KeepsRecord, EndsAs
    <3>2. rec'.phase = "completed" =>
             rec'.finished /\ rec'.exit = "ok" /\ \A i \in Items : item[w][i] = "succeeded"
      BY <2>1, <3>1 DEF KeepsRecord, EndsAs
    <3>3. CompletedIsTrue'
      <4> SUFFICES ASSUME rec'.phase = "completed" PROVE CompletedIsTrue'
        BY DEF CompletedIsTrue
      <4>1. \A i \in Items : i \in applied /\ i \in saved /\ i \in rec.receipts
        BY <3>2 DEF Booked
      <4>2. applied \subseteq Items /\ saved \subseteq Items /\ rec.receipts \subseteq Items
        BY DEF TypeOK, Record
      <4>3. applied = Items /\ saved = Items /\ rec.receipts = Items
        BY <4>1, <4>2
      <4> QED
        BY <2>2, <3>1, <3>2, <4>3 DEF CompletedIsTrue
    <3>4. QED
      BY <2>2, <3>1, <3>3
      DEF Booked, ItemsOnlyOfStarter, AtMostOneSubmission, Started, Untouched
  <2>8. Followed'
    BY <2>1, <2>2 DEF KeepsRecord, EndsAs, TypeOK, Followed, WorkerLostIsFinal,
      ParentReportsFacts, Started, Gone, StartKnown, Terminal, Leased
  <2>9. Inspected'
    BY <2>1, <2>2 DEF KeepsRecord, EndsAs, TypeOK, Inspected,
      InterruptedMeansWorkerGone, Started, Gone, StartKnown, Terminal,
      Leased
  <2> QED BY <2>1, <2>2, <2>3, <2>4, <2>5, <2>6, <2>7, <2>8, <2>9, Frame
<1>26. ASSUME NEW w \in Workers, Close(w) PROVE Inv'
  <2>1. LockHeld'
    BY <1>26 DEF Close, CancelContext, TypeOK, Record, Control, Looks, LockHeld,
      Own, Leased
  <2>2. Prepared'
    BY <1>26 DEF Close, CancelContext, TypeOK, Record, Control, Looks, Prepared,
      Launched, ParentStates
  <2>3. StartKnown'
    BY <1>26 DEF Close, CancelContext, TypeOK, Record, Control, Looks, StartKnown,
      Started, Terminal, Leased, Gone
  <2>4. Stopping'
    BY <1>26 DEF Close, CancelContext, TypeOK, Record, Control, Looks, Stopping,
      AcknowledgedMeansStopping, Started, Gone
  <2>5. Followed'
    BY <1>26 DEF Close, CancelContext, TypeOK, Record, Control, Looks, Followed,
      WorkerLostIsFinal, ParentReportsFacts, Started, Gone
  <2>6. Inspected'
    BY <1>26 DEF Close, CancelContext, TypeOK, Record, Control, Looks, Inspected,
      InterruptedMeansWorkerGone, Started, Gone
  <2> QED BY <1>26, <2>1, <2>2, <2>3, <2>4, <2>5, <2>6, Frame DEF Close, CancelContext
<1>27. ASSUME NEW w \in Workers, Poll(w) PROVE Inv'
  <2>1. Prepared'
    BY <1>27 DEF Poll, CancelContext, TypeOK, Record, Control, Looks, Prepared,
      Launched, ParentStates
  <2>2. StartKnown'
    BY <1>27 DEF Poll, CancelContext, TypeOK, Record, Control, Looks, StartKnown,
      Started, Terminal, Leased, Gone
  <2>3. Stopping'
    BY <1>27 DEF Poll, CancelContext, TypeOK, Record, Control, Looks, Stopping,
      AcknowledgedMeansStopping, Started, Gone
  <2>4. Booked'
    BY <1>27 DEF Poll, CancelContext, TypeOK, Record, Control, Looks, Booked,
      ItemsOnlyOfStarter, AtMostOneSubmission, CompletedIsTrue,
      Started, Untouched
  <2>5. Followed'
    BY <1>27 DEF Poll, CancelContext, TypeOK, Record, Control, Looks, Followed,
      WorkerLostIsFinal, ParentReportsFacts, Started, Gone
  <2>6. Inspected'
    BY <1>27 DEF Poll, CancelContext, TypeOK, Record, Control, Looks, Inspected,
      InterruptedMeansWorkerGone, Started, Gone
  <2> QED BY <1>27, <2>1, <2>2, <2>3, <2>4, <2>5, <2>6, Frame DEF Poll, CancelContext
<1>28. ASSUME NEW w \in Workers, PollAcknowledges(w) PROVE Inv'
  <2>1. KeepsRecord /\ KeepsControl
    BY <1>28, AcknowledgeEffect DEF TypeOK, PollAcknowledges
  <2>2. /\ poller[w] = "acking" /\ \E to \in {"done", "polling"} : poller' = [poller EXCEPT ![w] = to]
        /\ UNCHANGED <<lease, parent, seen, look, view, pc, cancelled, item, admissions, applied, saved>>
    BY <1>28 DEF PollAcknowledges
  <2>3. Prepared'
    BY <2>1, <2>2 DEF KeepsRecord, KeepsControl, TypeOK, Prepared, Launched,
      ParentStates
  <2>4. StartKnown'
    BY <2>1, <2>2 DEF KeepsRecord, KeepsControl, TypeOK, StartKnown, Started, Terminal,
      Leased, Gone
  <2>5. Stopping'
    BY <2>1, <2>2 DEF KeepsRecord, KeepsControl, TypeOK, Stopping,
      AcknowledgedMeansStopping, Started, Gone, StartKnown, Terminal,
      Leased
  <2>6. Booked'
    BY <2>1, <2>2 DEF KeepsRecord, KeepsControl, TypeOK, Booked, ItemsOnlyOfStarter,
      AtMostOneSubmission, CompletedIsTrue, Started, Untouched
  <2>7. Followed'
    BY <2>1, <2>2 DEF KeepsRecord, KeepsControl, TypeOK, Followed, WorkerLostIsFinal,
      ParentReportsFacts, Started, Gone
  <2>8. Inspected'
    BY <2>1, <2>2 DEF KeepsRecord, KeepsControl, TypeOK, Inspected,
      InterruptedMeansWorkerGone, Started, Gone
  <2> QED BY <2>1, <2>2, <2>3, <2>4, <2>5, <2>6, <2>7, <2>8, Frame
<1>29. ASSUME NEW w \in Workers, NothingStarted(w) PROVE Inv'
  <2>1. Booked'
    BY <1>29 DEF NothingStarted, TypeOK, Record, Control, Looks, Booked,
      ItemsOnlyOfStarter, AtMostOneSubmission, CompletedIsTrue,
      Started, Untouched, StartKnown, Terminal, Leased, Gone
  <2> QED BY <1>29, <2>1, Frame DEF NothingStarted
<1>30. ASSUME NEW w \in Workers, AbandonBatch(w) PROVE Inv'
  <2>1. LockHeld'
    BY <1>30 DEF AbandonBatch, TypeOK, Record, Control, Looks, LockHeld, Own,
      Leased
  <2>2. Prepared'
    BY <1>30 DEF AbandonBatch, TypeOK, Record, Control, Looks, Prepared, Launched,
      ParentStates
  <2>3. StartKnown'
    BY <1>30 DEF AbandonBatch, TypeOK, Record, Control, Looks, StartKnown,
      Started, Terminal, Leased, Gone
  <2>4. Stopping'
    BY <1>30 DEF AbandonBatch, TypeOK, Record, Control, Looks, Stopping,
      AcknowledgedMeansStopping, Started, Gone
  <2>5. Followed'
    BY <1>30 DEF AbandonBatch, TypeOK, Record, Control, Looks, Followed,
      WorkerLostIsFinal, ParentReportsFacts, Started, Gone
  <2>6. Inspected'
    BY <1>30 DEF AbandonBatch, TypeOK, Record, Control, Looks, Inspected,
      InterruptedMeansWorkerGone, Started, Gone
  <2> QED BY <1>30, <2>1, <2>2, <2>3, <2>4, <2>5, <2>6, Frame DEF AbandonBatch
<1>31. ASSUME NEW w \in Workers, Crash(w) PROVE Inv'
  <2>1. LockHeld'
    BY <1>31 DEF Crash, TypeOK, Record, Control, Looks, LockHeld, Own, Leased
  <2>2. Prepared'
    BY <1>31 DEF Crash, TypeOK, Record, Control, Looks, Prepared, Launched,
      ParentStates
  <2>3. StartKnown'
    BY <1>31 DEF Crash, TypeOK, Record, Control, Looks, StartKnown, Started,
      Terminal, Leased, Gone
  <2>4. Stopping'
    BY <1>31 DEF Crash, TypeOK, Record, Control, Looks, Stopping,
      AcknowledgedMeansStopping, Started, Gone
  <2>5. Followed'
    BY <1>31 DEF Crash, TypeOK, Record, Control, Looks, Followed,
      WorkerLostIsFinal, ParentReportsFacts, Started, Gone
  <2>6. Inspected'
    BY <1>31 DEF Crash, TypeOK, Record, Control, Looks, Inspected,
      InterruptedMeansWorkerGone, Started, Gone
  <2> QED BY <1>31, <2>1, <2>2, <2>3, <2>4, <2>5, <2>6, Frame DEF Crash
<1>32. ASSUME NEW w \in Workers, NEW i \in Items, StartItem(w, i) PROVE Inv'
  <2>1. Booked'
    BY <1>32 DEF StartItem, TypeOK, Record, Control, Looks, Booked,
      ItemsOnlyOfStarter, AtMostOneSubmission, CompletedIsTrue,
      Started, Untouched, StartKnown, Terminal, Leased, Gone
  <2> QED BY <1>32, <2>1, Frame DEF StartItem
<1>33. ASSUME NEW w \in Workers, NEW i \in Items, PrepareItem(w, i) PROVE Inv'
  <2>1. Booked'
    BY <1>33 DEF PrepareItem, TypeOK, Record, Control, Looks, Booked,
      ItemsOnlyOfStarter, AtMostOneSubmission, CompletedIsTrue,
      Started, Untouched, StartKnown, Terminal, Leased, Gone
  <2> QED BY <1>33, <2>1, Frame DEF PrepareItem
<1>34. ASSUME NEW w \in Workers, NEW i \in Items, BeginCommit(w, i) PROVE Inv'
  <2>1. Booked'
    <3>1. rec.starter = w /\ rec.phase = "running" /\ item[w][i] = "admitting"
      BY <1>34 DEF BeginCommit, StartKnown, Leased
    <3>2. CASE Moves(w, i, "admitted") /\ admissions' = [admissions EXCEPT ![i] = @ + 1]
      <4>1. admissions[i] = 0 /\ i \notin applied
        BY <3>1 DEF TypeOK, Booked, Untouched
      <4>2. Moved(w, i, "admitted")
        BY <3>2, MovesMoved DEF TypeOK
      <4>3. admissions'[i] = 1 /\ \A j \in Items \ {i} : admissions'[j] = admissions[j]
        BY <3>2, <4>1 DEF TypeOK
      <4>4. AtMostOneSubmission'
        BY <4>3 DEF Booked, AtMostOneSubmission
      <4>5. \A j \in Items : admissions'[j] # 0 \/ j \in applied =>
               Started /\ item'[rec.starter][j] \notin Untouched
        BY <3>1, <4>2, <4>3 DEF Booked, Moved, Started, Untouched
      <4> QED
        BY <1>34, <3>1, <4>1, <4>2, <4>3, <4>4, <4>5
        DEF BeginCommit, Moved, Booked, ItemsOnlyOfStarter, CompletedIsTrue, Started
    <3>3. CASE Moves(w, i, "failed") /\ UNCHANGED admissions
      <4>1. Moved(w, i, "failed")
        BY <3>3, MovesMoved DEF TypeOK
      <4> QED
        BY <1>34, <3>1, <3>3, <4>1
        DEF BeginCommit, Moved, TypeOK, Booked, ItemsOnlyOfStarter, AtMostOneSubmission,
            CompletedIsTrue, Started, Untouched
    <3>4. QED BY <1>34, <3>2, <3>3 DEF BeginCommit
  <2> QED BY <1>34, <2>1, Frame DEF BeginCommit
<1>35. ASSUME NEW w \in Workers, NEW i \in Items, Submit(w, i) PROVE Inv'
  <2>1. Booked'
    <3>1. rec.starter = w /\ rec.phase = "running" /\ item[w][i] = "admitted"
      BY <1>35 DEF Submit, StartKnown, Leased
    <3>2. PICK to \in {"accepted", "failed", "uncertain"} :
            Moves(w, i, to) /\ applied' \in {applied, applied \cup {i}} /\ (to = "accepted" => i \in applied')
      BY <1>35 DEF Submit
    <3>3. Moved(w, i, to)
      BY <3>2, MovesMoved DEF TypeOK
    <3>4. QED
      BY <1>35, <3>1, <3>2, <3>3
      DEF Submit, Moved, TypeOK, Booked, ItemsOnlyOfStarter, AtMostOneSubmission,
          CompletedIsTrue, Started, Untouched
  <2> QED BY <1>35, <2>1, Frame DEF Submit
<1>36. ASSUME NEW w \in Workers, NEW i \in Items, SaveReceipt(w, i) PROVE Inv'
  <2>1. Booked'
    BY <1>36 DEF SaveReceipt, TypeOK, Record, Control, Looks, Booked,
      ItemsOnlyOfStarter, AtMostOneSubmission, CompletedIsTrue,
      Started, Untouched, StartKnown, Terminal, Leased, Gone
  <2> QED BY <1>36, <2>1, Frame DEF SaveReceipt
<1>37. ASSUME NEW w \in Workers, NEW i \in Items, LinkReceipt(w, i) PROVE Inv'
  <2>1. Prepared'
    BY <1>37 DEF LinkReceipt, TypeOK, Record, Control, Looks, Prepared, Launched,
      ParentStates
  <2>2. StartKnown'
    BY <1>37 DEF LinkReceipt, TypeOK, Record, Control, Looks, StartKnown, Started,
      Terminal, Leased, Gone
  <2>3. Stopping'
    BY <1>37 DEF LinkReceipt, TypeOK, Record, Control, Looks, Stopping,
      AcknowledgedMeansStopping, Started, Gone
  <2>4. Booked'
    <3>1. rec.starter = w /\ rec.phase = "running" /\ item[w][i] \in {"acceptedSaved", "uncertainSaved"}
      BY <1>37 DEF LinkReceipt, StartKnown, Leased
    <3>2. PICK result \in WriteResults :
            /\ UpdateRecord(result, [rec EXCEPT !.receipts = @ \cup {i}])
            /\ \/ Moves(w, i, "failed")
               \/ result = "ok" /\ item[w][i] = "acceptedSaved" /\ Moves(w, i, "succeeded")
      BY <1>37 DEF LinkReceipt
    <3>3. PICK to \in {"failed", "succeeded"} :
            /\ Moves(w, i, to)
            /\ to = "succeeded" => result = "ok" /\ item[w][i] = "acceptedSaved"
      BY <3>2
    <3>4. /\ rec'.starter = rec.starter /\ rec'.phase = rec.phase
          /\ rec.receipts \subseteq rec'.receipts /\ (result = "ok" => i \in rec'.receipts)
      BY <3>2 DEF TypeOK, Record
    <3>5. Moved(w, i, to)
      BY <3>3, MovesMoved DEF TypeOK
    <3>6. QED
      BY <1>37, <3>1, <3>3, <3>4, <3>5
      DEF LinkReceipt, Moved, TypeOK, Booked, ItemsOnlyOfStarter, AtMostOneSubmission,
          CompletedIsTrue, Started, Untouched
  <2>5. Followed'
    BY <1>37 DEF LinkReceipt, TypeOK, Record, Control, Looks, Followed,
      WorkerLostIsFinal, ParentReportsFacts, Started, Gone
  <2>6. Inspected'
    BY <1>37 DEF LinkReceipt, TypeOK, Record, Control, Looks, Inspected,
      InterruptedMeansWorkerGone, Started, Gone
  <2> QED BY <1>37, <2>1, <2>2, <2>3, <2>4, <2>5, <2>6, Frame DEF LinkReceipt
<1>38. ASSUME JobCancel PROVE Inv'
  <2>1. Prepared'
    BY <1>38 DEF JobCancel, RequestCancel, RequestAccepted, TypeOK, Record,
      Control, Looks, Prepared, Launched, ParentStates
  <2>2. StartKnown'
    BY <1>38 DEF JobCancel, RequestCancel, RequestAccepted, TypeOK, Record,
      Control, Looks, StartKnown, Started, Terminal, Leased, Gone
  <2>3. Stopping'
    BY <1>38 DEF JobCancel, RequestCancel, RequestAccepted, TypeOK, Record,
      Control, Looks, Stopping, AcknowledgedMeansStopping, Started,
      Gone
  <2>4. Followed'
    BY <1>38 DEF JobCancel, RequestCancel, RequestAccepted, TypeOK, Record,
      Control, Looks, Followed, WorkerLostIsFinal, ParentReportsFacts,
      Started, Gone
  <2> QED BY <1>38, <2>1, <2>2, <2>3, <2>4, Frame DEF JobCancel, RequestCancel
<1>39. ASSUME NEW p \in Inspectors, InspectReads(p) PROVE Inv'
  <2>1. LockHeld'
    BY <1>39 DEF InspectReads, TypeOK, Record, Control, Looks, LockHeld, Own,
      Leased
  <2>2. Inspected'
    BY <1>39 DEF InspectReads, TypeOK, Record, Control, Looks, Inspected,
      InterruptedMeansWorkerGone, Started, Gone, StartKnown, Terminal,
      Leased
  <2> QED BY <1>39, <2>1, <2>2, Frame DEF InspectReads
<1>40. ASSUME NEW p \in Inspectors, InspectProbes(p) PROVE Inv'
  <2>1. LockHeld'
    <3>1. CASE lease # None /\ lease' = lease /\ Reports(p, TRUE)
      BY <1>40, <3>1 DEF InspectProbes, Reports, TypeOK, Looks, LockHeld, Own, Leased
    <3>2. CASE lease = None /\ lease' = p /\ look' = [look EXCEPT ![p].at = "probing"]
      BY <1>40, <3>2 DEF InspectProbes, TypeOK, Looks, LockHeld, Own, Leased
    <3>3. QED BY <1>40, <3>1, <3>2 DEF InspectProbes
  <2>2. Inspected'
    <3>1. CASE lease # None /\ Reports(p, TRUE)
      BY <1>40, <3>1 DEF InspectProbes, Reports, Status, TypeOK, Looks, Inspected,
        InterruptedMeansWorkerGone, Started, Gone
    <3>2. CASE look' = [look EXCEPT ![p].at = "probing"] /\ UNCHANGED view
      BY <1>40, <3>2 DEF InspectProbes, TypeOK, Looks, Inspected,
        InterruptedMeansWorkerGone, Started, Gone
    <3>3. QED BY <1>40, <3>1, <3>2 DEF InspectProbes
  <2> QED BY <1>40, <2>1, <2>2, Frame DEF InspectProbes, Reports
<1>41. ASSUME NEW p \in Inspectors, InspectReleasesProbe(p) PROVE Inv'
  <2>1. LockHeld'
    BY <1>41 DEF InspectReleasesProbe, Reports, Status, TypeOK, Record, Control,
      Looks, LockHeld, Own, Leased
  <2>2. Inspected'
    BY <1>41 DEF InspectReleasesProbe, Reports, Status, TypeOK, Record, Control,
      Looks, Inspected, InterruptedMeansWorkerGone, Started, Gone,
      StartKnown, Terminal, Leased, LockHeld, Own
  <2> QED BY <1>41, <2>1, <2>2, Frame DEF InspectReleasesProbe, Reports
<1>42. CASE UNCHANGED vars
  BY <1>42, Frame DEF vars
<1>43. QED
  BY <1>1, <1>2, <1>3, <1>4, <1>5, <1>6, <1>7, <1>8, <1>9, <1>10, <1>11, <1>12, <1>13, <1>14, <1>15, <1>16, <1>17, <1>18, <1>19, <1>20, <1>21, <1>22, <1>23, <1>24, <1>25, <1>26, <1>27, <1>28, <1>29, <1>30, <1>31, <1>32, <1>33, <1>34, <1>35, <1>36, <1>37, <1>38, <1>39, <1>40, <1>41, <1>42 DEF Next, ParentRuns, WorkerRuns, ItemRuns, ItemPrepares, WorkerPolls, InspectNext

-----------------------------------------------------------------------------
\* A recorded start, receipt or outcome stays; see OutcomeIsFinal.
Final ==
    /\ Started => rec'.starter = rec.starter
    /\ rec.receipts \subseteq rec'.receipts
    /\ rec.finished => /\ rec'.finished /\ rec'.phase = rec.phase
                       /\ rec'.exit = rec.exit

\* No step takes back a start, a receipt or an outcome.
LEMMA FinalStep == ASSUME TypeOK, Inv, [Next]_vars PROVE Final
<1> USE DEF Inv, Final, Started
<1>1. CASE UNCHANGED rec
  BY <1>1
<1>2. ASSUME NEW result \in WriteResults, CreateRecord(result) PROVE Final
  BY <1>2 DEF CreateRecord, TypeOK, Record, Prepared, StartKnown, Terminal
<1>3. ASSUME NEW result \in WriteResults, ParentDetaches(result) PROVE Final
  BY <1>3 DEF ParentDetaches, DetachedRecord, TypeOK, Record
<1>4. ASSUME NEW w \in Workers, RecordStart(w) PROVE Final
  BY <1>4, StartEffect DEF StartKnown, StartsWith, KeepsRecord
<1>5. ASSUME NEW w \in Workers, DecodePreparation(w) PROVE Final
  <2>1. rec.phase = "running" /\ (KeepsRecord \/ EndsAs("failed"))
    BY <1>5, WriteFailed DEF DecodePreparation, TypeOK, StartKnown, Leased, KeepsRecord
  <2> QED BY <2>1 DEF KeepsRecord, EndsAs, StartKnown, Terminal
<1>6. ASSUME NEW w \in Workers, ReadInitialControl(w) PROVE Final
  <2>1. rec.phase = "running" /\ (KeepsRecord \/ EndsAs("failed"))
    BY <1>6, WriteControlFailed DEF ReadInitialControl, TypeOK, StartKnown, Leased, KeepsRecord
  <2> QED BY <2>1 DEF KeepsRecord, EndsAs, StartKnown, Terminal
<1>7. ASSUME NEW w \in Workers, AcknowledgeAtStart(w) PROVE Final
  <2>1. KeepsRecord BY <1>7, AcknowledgeEffect DEF AcknowledgeAtStart, TypeOK
  <2> QED BY <2>1 DEF KeepsRecord
<1>8. ASSUME NEW w \in Workers, SaveResult(w) PROVE Final
  <2>1. rec.phase = "running" BY <1>8 DEF SaveResult, StartKnown, Leased
  <2> QED BY <1>8, <2>1, SaveEffect DEF KeepsRecord, EndsAs, StartKnown, Terminal
<1>9. ASSUME NEW w \in Workers, Poll(w) PROVE Final
  <2>1. PICK report \in WriteResults :
          rec' = rec \/ UpdateRecord(report, [rec EXCEPT !.controlFailed = TRUE])
    BY <1>9 DEF Poll, WriteResults
  <2> QED BY <2>1 DEF TypeOK, Record
<1>10. ASSUME NEW w \in Workers, PollAcknowledges(w) PROVE Final
  <2>1. KeepsRecord BY <1>10, AcknowledgeEffect DEF PollAcknowledges, TypeOK
  <2> QED BY <2>1 DEF KeepsRecord
<1>11. ASSUME NEW w \in Workers, NEW i \in Items, LinkReceipt(w, i) PROVE Final
  BY <1>11 DEF LinkReceipt, TypeOK, Record
<1>12. ASSUME ParentRuns \/ ParentInterrupted \/ Expire PROVE Final
  BY <1>12, <1>1, <1>2, <1>3, <1>4, <1>5, <1>6, <1>7, <1>8, <1>9, <1>10, <1>11
  DEF ParentRuns, PrepareCancel, Launch, ParentSeesStart,
      ParentStartTimeout, ParentFinishes, ParentProbes,
      ParentReleasesProbe, ParentRereads, ParentWakes,
      ParentRequestsCancel, ParentReportsCancel, ParentReadFails,
      ParentInterrupted, Expire
<1>13. ASSUME NEW w \in Workers,
         \/ SecondWorker(w) \/ WorkerRuns(w) \/ WorkerPolls(w) \/ ItemPrepares(w)
         \/ NothingStarted(w) \/ AbandonBatch(w) \/ Crash(w)
   PROVE Final
  BY <1>13, <1>1, <1>2, <1>3, <1>4, <1>5, <1>6, <1>7, <1>8, <1>9, <1>10, <1>11
  DEF WorkerRuns, WorkerPolls, ItemRuns, ItemPrepares, SecondWorker,
      Boot, TakeLease, RefuseReplay, Close, NothingStarted,
      AbandonBatch, Crash, StartItem, PrepareItem, BeginCommit, Submit,
      SaveReceipt
<1>14. ASSUME NEW p \in Inspectors, InspectNext(p) PROVE Final
  BY <1>14, <1>1
  DEF InspectNext, InspectReads, InspectProbes, InspectReleasesProbe
<1> QED
  BY <1>1, <1>12, <1>13, <1>14 DEF Next, vars, JobCancel

\* A cancellation request is a Request of PublishOnce, or a repetition.
LEMMA RequestRefines ==
  ASSUME TypeOK, UNCHANGED <<rec, admissions, applied>>,
         ctl' = ctl \/ (RequestAccepted /\ ~ctl.requested /\ ctl' = [ctl EXCEPT !.requested = TRUE])
  PROVE  [Promise!Next]_(Promise!vars)
<1>1. CASE ctl' = ctl
  BY <1>1 DEF Outcome, Promise!vars
<1>2. CASE RequestAccepted /\ ~ctl.requested /\ ctl' = [ctl EXCEPT !.requested = TRUE]
  <2>1. Outcome = "open"
    BY <1>2 DEF RequestAccepted, Terminal, Outcome
  <2>2. ctl'.requested /\ ctl'.acked = ctl.acked /\ Outcome' = Outcome
    BY <1>2 DEF TypeOK, Control, Outcome
  <2>3. ctl'.requested = TRUE
    BY <1>2 DEF TypeOK, Control
  <2>4. Promise!Request
    BY <1>2, <2>1, <2>2, <2>3 DEF Promise!Request
  <2> QED BY <2>4 DEF Promise!Next
<1> QED BY <1>1, <1>2

\* An acknowledgement is an Acknowledge of PublishOnce, or a repetition.
LEMMA AcknowledgeRefines ==
  ASSUME TypeOK, ctl.requested, UNCHANGED <<admissions, applied>>,
         \E result \in WriteResults : Acknowledge(result)
  PROVE  [Promise!Next]_(Promise!vars)
<1>1. KeepsRecord /\ KeepsControl /\ (ctl'.acked = ctl.acked \/ (~ctl.acked /\ ctl'.acked = TRUE))
  BY AcknowledgeEffect DEF TypeOK
<1>2. Outcome' = Outcome
  BY <1>1 DEF KeepsRecord, Outcome
<1>3. CASE ctl'.acked = ctl.acked
  BY <1>1, <1>2, <1>3 DEF KeepsControl, Promise!vars
<1>4. CASE ~ctl.acked /\ ctl'.acked = TRUE
  <2>1. Promise!Acknowledge
    BY <1>1, <1>2, <1>4 DEF KeepsControl, Promise!Acknowledge
  <2> QED BY <2>1 DEF Promise!Next
<1> QED BY <1>1, <1>3, <1>4

\* A saved outcome is a Conclude of PublishOnce.
LEMMA ConcludeRefines ==
  ASSUME rec.phase = "running", UNCHANGED <<ctl, admissions, applied>>,
         \/ KeepsRecord
         \/ EndsAs("completed") /\ applied = Items
         \/ EndsAs("failed")
         \/ EndsAs("remote_pending")
  PROVE  [Promise!Next]_(Promise!vars)
<1>1. Outcome = "open" BY DEF Outcome
<1>2. CASE KeepsRecord BY <1>2 DEF KeepsRecord, Outcome, Promise!vars
<1>3. CASE EndsAs("completed") /\ applied = Items
  <2>1. Outcome' = "succeeded" BY <1>3 DEF EndsAs, Outcome
  <2>2. Promise!Conclude BY <1>1, <1>3, <2>1 DEF Promise!Conclude
  <2> QED BY <2>2 DEF Promise!Next
<1>4. CASE EndsAs("failed") \/ EndsAs("remote_pending")
  <2>1. Outcome' = "unsuccessful" BY <1>4 DEF EndsAs, Outcome
  <2>2. Promise!Conclude BY <1>1, <2>1 DEF Promise!Conclude
  <2> QED BY <2>2 DEF Promise!Next
<1> QED BY <1>2, <1>3, <1>4

\* Every step is a step of PublishOnce or leaves its variables alone.
LEMMA RefinementStep ==
  ASSUME TypeOK, Inv, [Next]_vars PROVE [Promise!Next]_(Promise!vars)
<1> USE DEF Inv
<1>1. CASE UNCHANGED <<rec, ctl, admissions, applied>>
  BY <1>1 DEF Outcome, Promise!vars
<1>2. ASSUME NEW result \in WriteResults, CreateRecord(result) PROVE [Promise!Next]_(Promise!vars)
  BY <1>2 DEF CreateRecord, TypeOK, Record, Prepared, Outcome, Promise!vars
<1>3. ASSUME NEW result \in WriteResults, PrepareCancel(result) PROVE [Promise!Next]_(Promise!vars)
  BY <1>3 DEF PrepareCancel, TypeOK, Control, Outcome, Promise!vars
<1>4. ASSUME NEW result \in WriteResults, ParentDetaches(result) PROVE [Promise!Next]_(Promise!vars)
  BY <1>4 DEF ParentDetaches, DetachedRecord, TypeOK, Record, Outcome, Promise!vars
<1>5. ASSUME ParentRequestsCancel PROVE [Promise!Next]_(Promise!vars)
  <2>1. /\ ctl' = ctl \/ (RequestAccepted /\ ~ctl.requested /\ ctl' = [ctl EXCEPT !.requested = TRUE])
        /\ UNCHANGED <<rec, admissions, applied>>
    BY <1>5 DEF ParentRequestsCancel, RequestCancel
  <2> QED BY <2>1, RequestRefines
<1>6. ASSUME NEW w \in Workers, RecordStart(w) PROVE [Promise!Next]_(Promise!vars)
  <2>1. Outcome' = Outcome
    BY <1>6, StartEffect DEF Outcome, StartsWith, KeepsRecord, Terminal
  <2> QED BY <1>6, <2>1, StartEffect DEF RecordStart, Promise!vars
<1>7. ASSUME NEW w \in Workers, DecodePreparation(w) PROVE [Promise!Next]_(Promise!vars)
  <2>1. rec.phase = "running" /\ (KeepsRecord \/ EndsAs("failed"))
    BY <1>7, WriteFailed DEF DecodePreparation, TypeOK, StartKnown, Leased, KeepsRecord
  <2>2. UNCHANGED <<ctl, admissions, applied>> BY <1>7 DEF DecodePreparation
  <2> QED BY <2>1, <2>2, ConcludeRefines
<1>8. ASSUME NEW w \in Workers, ReadInitialControl(w) PROVE [Promise!Next]_(Promise!vars)
  <2>1. rec.phase = "running" /\ (KeepsRecord \/ EndsAs("failed"))
    BY <1>8, WriteControlFailed DEF ReadInitialControl, TypeOK, StartKnown, Leased, KeepsRecord
  <2>2. UNCHANGED <<ctl, admissions, applied>> BY <1>8 DEF ReadInitialControl
  <2> QED BY <2>1, <2>2, ConcludeRefines
<1>9. ASSUME NEW w \in Workers, AcknowledgeAtStart(w) PROVE [Promise!Next]_(Promise!vars)
  <2>1. /\ ctl.requested /\ UNCHANGED <<admissions, applied>>
        /\ \E result \in WriteResults : Acknowledge(result)
    BY <1>9 DEF AcknowledgeAtStart, Stopping
  <2> QED BY <2>1, AcknowledgeRefines
<1>10. ASSUME NEW w \in Workers, SaveResult(w) PROVE [Promise!Next]_(Promise!vars)
  <2>1. rec.phase = "running" /\ UNCHANGED <<ctl, admissions, applied>>
    BY <1>10 DEF SaveResult, StartKnown, Leased
  <2>2. (\A i \in Items : item[w][i] = "succeeded") => applied = Items
    BY DEF Booked, TypeOK
  <2> QED BY <1>10, <2>1, <2>2, SaveEffect, ConcludeRefines
<1>11. ASSUME NEW w \in Workers, Poll(w) PROVE [Promise!Next]_(Promise!vars)
  BY <1>11 DEF Poll, TypeOK, Record, Outcome, Promise!vars
<1>12. ASSUME NEW w \in Workers, PollAcknowledges(w) PROVE [Promise!Next]_(Promise!vars)
  <2>1. /\ ctl.requested /\ UNCHANGED <<admissions, applied>>
        /\ \E result \in WriteResults : Acknowledge(result)
    BY <1>12 DEF PollAcknowledges, Stopping
  <2> QED BY <2>1, AcknowledgeRefines
<1>13. ASSUME NEW w \in Workers, NEW i \in Items, BeginCommit(w, i) PROVE [Promise!Next]_(Promise!vars)
  <2>1. UNCHANGED <<rec, ctl, applied>> BY <1>13 DEF BeginCommit
  <2>2. CASE UNCHANGED admissions BY <2>1, <2>2 DEF Outcome, Promise!vars
  <2>3. CASE CommitAdmitted /\ admissions' = [admissions EXCEPT ![i] = @ + 1]
    <3>1. rec.starter = w /\ item[w][i] = "admitting"
      BY <1>13 DEF BeginCommit, StartKnown, Leased
    <3>2. admissions[i] = 0
      BY <3>1 DEF Booked, Untouched
    <3>3. Outcome = "open" /\ ~ctl.requested
      BY <2>3 DEF CommitAdmitted, Terminal, Outcome
    <3>4. admissions' = [admissions EXCEPT ![i] = 1]
      BY <2>3, <3>2 DEF TypeOK
    <3>5. Promise!Admit(i)
      BY <2>1, <3>2, <3>3, <3>4 DEF Promise!Admit, Outcome
    <3> QED BY <3>5 DEF Promise!Next
  <2> QED BY <1>13, <2>2, <2>3 DEF BeginCommit
<1>14. ASSUME NEW w \in Workers, NEW i \in Items, Submit(w, i) PROVE [Promise!Next]_(Promise!vars)
  <2>1. UNCHANGED <<rec, ctl, admissions>> BY <1>14 DEF Submit
  <2>2. CASE UNCHANGED applied BY <2>1, <2>2 DEF Outcome, Promise!vars
  <2>3. CASE applied' = applied \cup {i}
    <3>1. rec.phase = "running" /\ item[w][i] = "admitted"
      BY <1>14 DEF Submit, StartKnown, Leased
    <3>2. admissions[i] = 1 /\ i \notin applied
      BY <3>1 DEF Booked
    <3>3. Promise!TakeEffect(i)
      BY <2>1, <2>3, <3>1, <3>2 DEF Promise!TakeEffect, Outcome
    <3> QED BY <3>3 DEF Promise!Next
  <2> QED BY <1>14, <2>2, <2>3 DEF Submit
<1>15. ASSUME NEW w \in Workers, NEW i \in Items, LinkReceipt(w, i) PROVE [Promise!Next]_(Promise!vars)
  BY <1>15 DEF LinkReceipt, TypeOK, Record, Outcome, Promise!vars
<1>16. ASSUME JobCancel PROVE [Promise!Next]_(Promise!vars)
  <2>1. /\ ctl' = ctl \/ (RequestAccepted /\ ~ctl.requested /\ ctl' = [ctl EXCEPT !.requested = TRUE])
        /\ UNCHANGED <<rec, admissions, applied>>
    BY <1>16 DEF JobCancel, RequestCancel
  <2> QED BY <2>1, RequestRefines
<1>17. ASSUME ParentRuns \/ ParentInterrupted \/ Expire PROVE [Promise!Next]_(Promise!vars)
  BY <1>17, <1>1, <1>2, <1>3, <1>4, <1>5, <1>6, <1>7, <1>8, <1>9, <1>10, <1>11, <1>12, <1>13, <1>14, <1>15, <1>16
  DEF ParentRuns, Launch, ParentSeesStart, ParentStartTimeout,
      ParentFinishes, ParentProbes, ParentReleasesProbe, ParentRereads,
      ParentWakes, ParentReportsCancel, ParentReadFails,
      ParentInterrupted, Expire
<1>18. ASSUME NEW w \in Workers,
         \/ SecondWorker(w) \/ WorkerRuns(w) \/ WorkerPolls(w) \/ ItemPrepares(w)
         \/ NothingStarted(w) \/ AbandonBatch(w) \/ Crash(w)
   PROVE [Promise!Next]_(Promise!vars)
  BY <1>18, <1>1, <1>2, <1>3, <1>4, <1>5, <1>6, <1>7, <1>8, <1>9, <1>10, <1>11, <1>12, <1>13, <1>14, <1>15, <1>16
  DEF WorkerRuns, WorkerPolls, ItemRuns, ItemPrepares, SecondWorker,
      Boot, TakeLease, RefuseReplay, Close, NothingStarted,
      AbandonBatch, Crash, StartItem, PrepareItem, SaveReceipt
<1>19. ASSUME NEW p \in Inspectors, InspectNext(p) PROVE [Promise!Next]_(Promise!vars)
  BY <1>19, <1>1
  DEF InspectNext, InspectReads, InspectProbes, InspectReleasesProbe
<1> QED
  BY <1>1, <1>17, <1>18, <1>19, <1>16 DEF Next, vars

-----------------------------------------------------------------------------
(* The theorems.                                                            *)

\* The initial states are typed and satisfy the invariant.
LEMMA InitInv == Init => TypeOK /\ Inv
<1> SUFFICES ASSUME Init PROVE TypeOK /\ Inv
  OBVIOUS
<1>1. TypeOK
  BY DEF Init, TypeOK, Record, Phases, Control, ParentStates, WorkerStates,
    ItemStates, Looks, Views
<1>2. LockHeld /\ Prepared
  BY DEF Init, LockHeld, Prepared, Own, Leased, Launched, ParentStates
<1>3. StartKnown /\ Stopping
  BY DEF Init, StartKnown, Stopping, Started, Terminal, Leased, AcknowledgedMeansStopping
<1>4. Booked
  BY DEF Init, Booked, ItemsOnlyOfStarter, AtMostOneSubmission, CompletedIsTrue
<1>5. Followed /\ Inspected
  BY DEF Init, Followed, Inspected, WorkerLostIsFinal, ParentReportsFacts,
    InterruptedMeansWorkerGone
<1> QED
  BY <1>1, <1>2, <1>3, <1>4, <1>5 DEF Inv

\* Every variable keeps its type, whatever crashes, races and storage faults.
THEOREM TypeCorrect == Spec => []TypeOK
<1>1. Init => TypeOK
  BY InitInv
<1>2. TypeOK /\ [Next]_vars => TypeOK'
  BY TypingStep
<1> QED
  BY <1>1, <1>2, PTL DEF Spec

\* The inductive invariant holds in every reachable state.
THEOREM Invariant == Spec => []Inv
<1>1. Init => Inv
  BY InitInv
<1>2. TypeOK /\ TypeOK' /\ Inv /\ [Next]_vars => Inv'
  BY InvStep
<1> QED
  BY <1>1, <1>2, TypeCorrect, PTL DEF Spec

\* Two workers never share the items of one operation, and no restart repeats
\* them (Store.Lease).
THEOREM OneOwner == Spec => []ItemsOnlyOfStarter
<1>1. Inv => ItemsOnlyOfStarter
  BY DEF Inv, Booked
<1> QED
  BY <1>1, Invariant, PTL

\* A completed record is true of Tableau and of the receipt store.
THEOREM CompletionIsHonest == Spec => []CompletedIsTrue
<1>1. Inv => CompletedIsTrue
  BY DEF Inv, Booked
<1> QED
  BY <1>1, Invariant, PTL

\* An acknowledged cancellation is durable and has reached the worker's own
\* context (Lease.AcknowledgeCancel).
THEOREM AcknowledgementIsHonest == Spec => []AcknowledgedMeansStopping
<1>1. Inv => AcknowledgedMeansStopping
  BY DEF Inv, Stopping
<1> QED
  BY <1>1, Invariant, PTL

\* The foreground command reports only what is recorded.
THEOREM ForegroundReportsFacts == Spec => []ParentReportsFacts
<1>1. Inv => ParentReportsFacts
  BY DEF Inv, Followed
<1> QED
  BY <1>1, Invariant, PTL

\* A worker that the foreground command called lost never publishes a result
\* afterwards.
THEOREM ForegroundIsHonest == Spec => []WorkerLostIsFinal
<1>1. Inv => WorkerLostIsFinal
  BY DEF Inv, Followed
<1> QED
  BY <1>1, Invariant, PTL

\* `job inspect` calls no running worker interrupted.
THEOREM InspectionIsSafe == Spec => []InterruptedMeansWorkerGone
<1>1. Inv => InterruptedMeansWorkerGone
  BY DEF Inv, Inspected
<1> QED
  BY <1>1, Invariant, PTL

\* No step takes back a recorded start, receipt or outcome.
THEOREM OutcomeStays == Spec => OutcomeIsFinal
<1>1. TypeOK /\ Inv /\ [Next]_vars => [Final]_vars
  BY FinalStep
<1>2. [Final]_vars <=> [/\ Started => rec'.starter = rec.starter
                        /\ rec.receipts \subseteq rec'.receipts
                        /\ rec.finished => /\ rec'.finished /\ rec'.phase = rec.phase
                                           /\ rec'.exit = rec.exit ]_vars
  BY DEF Final
<1> QED
  BY <1>1, <1>2, TypeCorrect, Invariant, PTL DEF Spec, OutcomeIsFinal

\* The record, the control file, the locks and the commit guard implement the
\* promise of PublishOnce: one submission per item at most, none after an
\* accepted cancellation, success only when everything was applied.
THEOREM Refinement == Spec => ImplementsPublishOnce
<1>1. Init => Promise!Init
  BY DEF Init, Promise!Init, Outcome
<1>2. TypeOK /\ Inv /\ [Next]_vars => [Promise!Next]_(Promise!vars)
  BY RefinementStep
<1> QED
  BY <1>1, <1>2, TypeCorrect, Invariant, PTL DEF Spec, ImplementsPublishOnce, Promise!Spec
=============================================================================
