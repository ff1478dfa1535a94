------------------------------ MODULE MCLocal ------------------------------
(* One instance of each protocol over the files of a workspace or of the      *)
(* user, or between the goroutines of one command.  The protocols do not      *)
(* share state: a behaviour runs the one that its initial state selects, and  *)
(* TLC explores them all.  The variables of the others keep one fixed value.  *)
EXTENDS BundleTransaction, ArtifactMove, RootLock, CacheRefresh

VARIABLE component

allVars == <<component, bundleVars, moveVars, rootLockVars, refreshVars>>

TwoEntries == <<"datasource", "workbook">>

FirstPagesThenOthers == <<<<1>>, <<2, 3>>>>

BundleOnly(A) == component = "bundle" /\ A /\ UNCHANGED <<component, moveVars, rootLockVars, refreshVars>>
MoveOnly(A) == component = "move" /\ A /\ UNCHANGED <<component, bundleVars, rootLockVars, refreshVars>>
RootLockOnly(A) == component = "rootLock" /\ A /\ UNCHANGED <<component, bundleVars, moveVars, refreshVars>>
RefreshOnly(A) == component = "refresh" /\ A /\ UNCHANGED <<component, bundleVars, moveVars, rootLockVars>>

LocalInit ==
    /\ component \in {"bundle", "move", "rootLock", "refresh"}
    /\ BundleInit /\ MoveInit /\ RootLockInit /\ RefreshInit
    /\ component # "bundle" => \A t \in BundleTargets : reported[t] = 1

LocalNext ==
    \/ BundleOnly(BeginCommand) \/ BundleOnly(RecoverBundleTransaction)
    \/ BundleOnly(UndoEntry) \/ BundleOnly(RedoEntry) \/ BundleOnly(AllEntriesDone)
    \/ BundleOnly(RemovePrepared) \/ BundleOnly(RemoveCommitted)
    \/ BundleOnly(SweepEntry) \/ BundleOnly(SweepDone)
    \/ BundleOnly(CheckDirty) \/ BundleOnly(Stage) \/ BundleOnly(WriteJournal)
    \/ BundleOnly(SetAside) \/ BundleOnly(InstallEntry) \/ BundleOnly(SyncParents)
    \/ BundleOnly(MarkCommitted) \/ BundleOnly(ReplaceAside) \/ BundleOnly(ReplaceIn)
    \/ BundleOnly(RestoreReplaced) \/ BundleOnly(RemoveReplaced)
    \/ BundleOnly(EndCommand) \/ BundleOnly(CrashCommand)
    \/ \E t \in BundleTargets : BundleOnly(EditArtifact(t))
    \/ MoveOnly(PlanRemoval) \/ MoveOnly(CopyToStage) \/ MoveOnly(CheckStage)
    \/ MoveOnly(SeizeSource) \/ MoveOnly(CheckSeized) \/ MoveOnly(InstallStage)
    \/ MoveOnly(CheckInstalled) \/ MoveOnly(UndoInstall) \/ MoveOnly(RestoreSource)
    \/ MoveOnly(ClearTombstone) \/ MoveOnly(CrashRemoval)
    \/ \E where \in {"source", "destination"} : MoveOnly(UserWrites(where))
    \/ \E p \in Lockers :
        \/ RootLockOnly(TryAcquireIn(p)) \/ RootLockOnly(OpenName(p))
        \/ RootLockOnly(LockFile(p)) \/ RootLockOnly(Confirm(p))
        \/ RootLockOnly(RemoveName(p)) \/ RootLockOnly(UnlockRemoved(p))
        \/ RootLockOnly(KillLocker(p))
    \/ \E w \in Collectors :
        \/ RefreshOnly(TakeTask(w)) \/ RefreshOnly(LeavePool(w)) \/ RefreshOnly(Acquire(w))
        \/ RefreshOnly(StopWaiting(w)) \/ RefreshOnly(BackoffEnds(w))
        \/ \E answer \in Answers : RefreshOnly(Fetch(w, answer))
        \/ RefreshOnly(RequestCancelled(w)) \/ RefreshOnly(Emit(w)) \/ RefreshOnly(ReportResult(w))
    \/ RefreshOnly(CooldownEnds) \/ RefreshOnly(WriteBatch) \/ RefreshOnly(PumpEnds)
    \/ RefreshOnly(HandOut) \/ RefreshOnly(TakeResult) \/ RefreshOnly(SeeCancelled)
    \/ RefreshOnly(NextPhase) \/ RefreshOnly(Unwound) \/ RefreshOnly(RefreshReturn)
    \/ RefreshOnly(CallerCancels)

LocalSpec == LocalInit /\ [][LocalNext]_allVars

(* The fairness of BundleFairness and RefreshFairness.                        *)
LocalFairSpec ==
    /\ LocalSpec
    /\ WF_allVars(BundleOnly(CommandStep)) /\ WF_allVars(BundleOnly(BeginCommand))
    /\ \A w \in Collectors : WF_allVars(RefreshOnly(CollectorStep(w)))
    /\ WF_allVars(RefreshOnly(CooldownEnds)) /\ WF_allVars(RefreshOnly(PumpStep))
    /\ WF_allVars(RefreshOnly(MainStep))

(* RefreshEnds of the refresh that this behaviour runs.                       *)
RefreshReturns == component = "refresh" => RefreshEnds

(* What is begun is ended: every journal left by a crash is rolled back or    *)
(* completed by a later command, and a refresh returns although its workers,  *)
(* its writer and its caller stop each other.                                 *)
BegunIsEnded == JournalResolves /\ RefreshReturns

=============================================================================
