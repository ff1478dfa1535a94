---------------------------- MODULE MCProcesses -----------------------------
(* One instance of each protocol between processes of one user, Tableau and   *)
(* the user's configuration, credential store and workspaces, and of the      *)
(* commands that change something in Tableau.                                 *)
(* The protocols do not share state: a behaviour runs the one that its        *)
(* initial state selects, and TLC explores them all.  The variables of the    *)
(* others keep one fixed value.                                               *)
EXTENDS SessionRenewal, StallWatchdog, JobMonitor, Credentials, WorkspaceRegistry,
        AgentInstallation, RemoteChange, ContentPublication, TLC

VARIABLE component

Publishes ==
    {[kind |-> "workbook", mode |-> "create"], [kind |-> "workbook", mode |-> "overwrite"],
     [kind |-> "datasource", mode |-> "append"], [kind |-> "datasource", mode |-> "overwrite"],
     [kind |-> "flow", mode |-> "create"]}

userVars == <<updateVars, credentialVars, registryVars, installVars>>
siteVars == <<changeVars, publicationVars>>
allVars == <<component, renewalVars, stallVars, jobVars, userVars, siteVars>>

RenewalOnly(A) == component = "renewal" /\ A /\ UNCHANGED <<component, stallVars, jobVars, userVars, siteVars>>
StallOnly(A) == component = "stall" /\ A /\ UNCHANGED <<component, renewalVars, jobVars, userVars, siteVars>>
JobOnly(A) == component = "job" /\ A /\ UNCHANGED <<component, renewalVars, stallVars, userVars, siteVars>>
CredentialsOnly(A) == component = "credentials" /\ A /\ UNCHANGED <<component, renewalVars, stallVars, jobVars, registryVars, installVars, siteVars>>
WorkspacesOnly(A) == component = "workspaces" /\ A /\ UNCHANGED <<component, renewalVars, stallVars, jobVars, credentialVars, installVars, siteVars>>
SkillsOnly(A) == component = "skills" /\ A /\ UNCHANGED <<component, renewalVars, stallVars, jobVars, updateVars, credentialVars, registryVars, siteVars>>
ChangeOnly(A) == component = "change" /\ A /\ UNCHANGED <<component, renewalVars, stallVars, jobVars, userVars, publicationVars>>
PublishOnly(A) == component = "publish" /\ A /\ UNCHANGED <<component, renewalVars, stallVars, jobVars, userVars, changeVars>>

(* The one publication state of the other components.                         *)
PublishesNothing == publishing.mode = "append" /\ publishing.rows = 1 /\ cloud.content[1][<<1, 1>>] = 0

ProcessInit ==
    /\ component \in {"renewal", "stall", "job", "credentials", "workspaces", "skills", "change", "publish"}
    /\ IF component = "change" THEN ChangeInit ELSE \E c \in ProjectDelete : ChangeStart(c, {}, 1, 0, 0, 1)
    /\ PublicationInit /\ (component # "publish" => PublishesNothing)
    /\ RenewalInit /\ StallInit /\ JobInit
    /\ \E registry \in {{}} \cup {{[id |-> 1, root |-> r]} : r \in Roots} :
        configuration = [environment |-> component = "credentials", credential |-> NoRef, workspaces |-> registry]
    /\ UpdateInit /\ CredentialInit /\ RegistryInit /\ InstallInit
    /\ component # "workspaces" => lastID = 0
    /\ component # "skills" => skill = NoPackages
    /\ component # "stall" => exchange.toSend = 0
    /\ component # "job" => \A j \in Jobs : receipt[j] = Accepted

(* Interrupted waits are part of MCProgress.  Bound: one disturbance during a *)
(* batch.                                                                     *)
ProcessNext ==
    \/ \E c \in Calls :
        \/ RenewalOnly(Send(c)) \/ RenewalOnly(Answer(c)) \/ RenewalOnly(RenewCanceled(c))
        \/ RenewalOnly(EnterFlight(c)) \/ RenewalOnly(LeaveFlight(c)) \/ RenewalOnly(CancelCall(c))
    \/ RenewalOnly(RenewUnneeded) \/ RenewalOnly(RenewNeeded) \/ RenewalOnly(SignInAgain)
    \/ RenewalOnly(ReplaceToken) \/ RenewalOnly(RenewFails) \/ RenewalOnly(SessionEnds)
    \/ StallOnly(SendPart) \/ StallOnly(Redirect) \/ StallOnly(Headers) \/ StallOnly(ReadPart)
    \/ StallOnly(EndRequest) \/ StallOnly(CheckStall) \/ StallOnly(StallTick)
    \/ \E w \in Waiters :
        \/ JobOnly(Resolve(w)) \/ JobOnly(StartObservation(w)) \/ JobOnly(SaveObservation(w))
        \/ JobOnly(RegisterSave(w)) \/ JobOnly(RegisterIndex(w)) \/ JobOnly(Look(w))
        \/ JobOnly(StopObserving(w)) \/ JobOnly(WakeUp(w)) \/ JobOnly(TakeRound(w))
        \/ JobOnly(CollectRound(w)) \/ JobOnly(ReadAll(w)) \/ JobOnly(EndRound(w))
        \/ JobOnly(KillWaiter(w))
    \/ \E w \in Waiters, j \in Jobs :
        JobOnly(ReadStatus(w, j)) \/ JobOnly(ReadFails(w, j)) \/ JobOnly(SaveRead(w, j))
    \/ \E j \in Jobs : JobOnly(JobFinishes(j))
    \/ JobOnly(Tick)
    \/ \E p \in Updaters :
        \/ CredentialsOnly(LockConfiguration(p) /\ UNCHANGED credentialVars)
        \/ CredentialsOnly(LockTimesOut(p) /\ UNCHANGED credentialVars)
        \/ CredentialsOnly(SaveConfiguration(p) /\ UNCHANGED credentialVars)
        \/ CredentialsOnly(RestoreConfiguration(p) /\ UNCHANGED credentialVars)
        \/ \E op \in Operations : CredentialsOnly(Enter(p, op))
        \/ CredentialsOnly(StoreNewPAT(p)) \/ CredentialsOnly(ReplacePAT(p))
        \/ CredentialsOnly(ClearReference(p)) \/ CredentialsOnly(ChangeEnvironment(p))
        \/ CredentialsOnly(EnvironmentGone(p)) \/ CredentialsOnly(DeleteSession(p))
        \/ CredentialsOnly(DeleteEntry(p)) \/ CredentialsOnly(NothingStaged(p))
        \/ CredentialsOnly(EndCommand(p)) \/ CredentialsOnly(WriteSession(p))
        \/ CredentialsOnly(KillUpdater(p))
        \/ \E r \in Refs : CredentialsOnly(CheckSession(p, r))
    \/ \E p \in Updaters :
        \/ WorkspacesOnly(LockConfiguration(p) /\ UNCHANGED registryVars)
        \/ WorkspacesOnly(LockTimesOut(p) /\ UNCHANGED registryVars)
        \/ WorkspacesOnly(SaveConfiguration(p) /\ UNCHANGED registryVars)
        \/ WorkspacesOnly(RestoreConfiguration(p) /\ UNCHANGED registryVars)
        \/ \E op \in {"work", "clone", "delete"} : WorkspacesOnly(ResolveWorkspace(p, op))
        \/ WorkspacesOnly(NoteRoot(p)) \/ WorkspacesOnly(Lease(p)) \/ WorkspacesOnly(Validate(p))
        \/ WorkspacesOnly(Finish(p)) \/ WorkspacesOnly(Create(p)) \/ WorkspacesOnly(Clone(p))
        \/ WorkspacesOnly(Register(p)) \/ WorkspacesOnly(Unregister(p))
        \/ WorkspacesOnly(ApplyRegistration(p)) \/ WorkspacesOnly(ApplyUnregistration(p))
        \/ WorkspacesOnly(StageDeletion(p)) \/ WorkspacesOnly(RollBack(p))
        \/ WorkspacesOnly(Updated(p)) \/ WorkspacesOnly(UndoCreate(p))
        \/ WorkspacesOnly(UndoClone(p)) \/ WorkspacesOnly(KillCommand(p))
    \/ \E p \in Installers :
        \/ \E op \in {"install", "uninstall"}, release \in Running : SkillsOnly(Plan(p, op, release))
        \/ SkillsOnly(LockPackages(p)) \/ SkillsOnly(ValidatePackages(p)) \/ SkillsOnly(SkipPackage(p))
        \/ SkillsOnly(MoveAside(p)) \/ SkillsOnly(CommitPackage(p)) \/ SkillsOnly(WriteReceipt(p))
        \/ SkillsOnly(Cleanup(p)) \/ SkillsOnly(WithdrawPackage(p)) \/ SkillsOnly(RestorePackage(p))
        \/ SkillsOnly(Unlock(p)) \/ SkillsOnly(KillInstaller(p))
    \/ \E k \in Packages : SkillsOnly(EditSkill(k))
    \/ ChangeOnly(Stop) \/ ChangeOnly(PlanChange) \/ ChangeOnly(Recheck)
    \/ ChangeOnly(SendRequest) \/ ChangeOnly(RivalActs)
    \/ \E r \in BatchRows :
        \/ PublishOnly(PreparePublication(r)) \/ PublishOnly(PlanRow(r))
        \/ PublishOnly(RevalidateRow(r)) \/ PublishOnly(PreparePublish(r))
        \/ PublishOnly(VerifyAgain(r)) \/ PublishOnly(AdmissionDenied(r))
        \/ \E answer \in TakenAnswers : PublishOnly(RequestTaken(r, answer))
        \/ \E answer \in UntakenAnswers : PublishOnly(RequestNotTaken(r, answer))
    \/ PublishOnly(StartWorker) \/ PublishOnly(RunRows)
    \/ (IsBatch => disturbances = 0) /\ PublishOnly(OthersStep)

ProcessSpec == ProcessInit /\ [][ProcessNext]_allVars


Symmetric == Permutations(Waiters) \cup Permutations(Jobs)
=============================================================================
