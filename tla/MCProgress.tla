---------------------------- MODULE MCProgress -----------------------------
(* What must end, in the protocols between processes of one user and Tableau: *)
(* as in MCProcesses, a behaviour runs one component, here with its fairness.    *)
EXTENDS CommandSessions, SessionRenewal, JobMonitor, TLC

VARIABLE component

allVars == <<component, sessionVars, renewalVars, jobVars>>

CONSTANTS s1, s2

NoReference == [r \in {} |-> s1]

(* Two sites, each reached with the credentials of environment variables.     *)
TwoTargets == {[site |-> s, source |-> Environment] : s \in {s1, s2}}

SessionOnly(A) == component = "session" /\ A /\ UNCHANGED <<component, renewalVars, jobVars>>
RenewalOnly(A) == component = "renewal" /\ A /\ UNCHANGED <<component, sessionVars, jobVars>>
JobOnly(A) == component = "job" /\ A /\ UNCHANGED <<component, sessionVars, renewalVars>>

ProgressInit ==
    /\ component \in {"session", "renewal", "job"}
    /\ SessionInit /\ RenewalInit /\ JobInit
    /\ component # "job" => \A j \in Jobs : receipt[j] = Accepted

NewCall(c, g) == Rejected(c, g) \/ \E mode \in Modes : Start(c, g, mode)

ProgressNext ==
    \/ \E c \in Commands, g \in Targets : SessionOnly(NewCall(c, g)) \/ SessionOnly(Step(c, g))
    \/ \E c \in Commands : SessionOnly(Suspend(c)) \/ SessionOnly(Close(c))
    \/ \E c \in Calls : RenewalOnly(CallStep(c)) \/ RenewalOnly(CancelCall(c))
    \/ RenewalOnly(FlightStep) \/ RenewalOnly(SessionEnds)
    \/ \E w \in Waiters : JobOnly(WaiterStep(w)) \/ JobOnly(Interrupt(w))
    \/ \E j \in Jobs : JobOnly(JobFinishes(j))
    \/ JobOnly(Tick)

(* The fairness of SessionFairness, RenewalFairness and JobFairness.          *)
ProgressSpec ==
    /\ ProgressInit /\ [][ProgressNext]_allVars
    /\ <>[][~NewCalls]_allVars
    /\ \A c \in Commands :
        /\ SF_allVars(SessionOnly(FinishCommand(c)))
        /\ \A g \in Targets :
            WF_allVars(SessionOnly(Step(c, g))) /\ SF_allVars(SessionOnly(TryAgain(c, g)))
    /\ \A c \in Calls : WF_allVars(RenewalOnly(CallStep(c)))
    /\ WF_allVars(RenewalOnly(FlightStep))
    /\ \A w \in Waiters : WF_allVars(JobOnly(WaiterStep(w)))
    /\ WF_allVars(JobOnly(Tick))

(* EveryCallEnds of the requests that this behaviour runs.                    *)
RequestsEnd == component = "renewal" => EveryCallEnds

(* Nobody waits for ever: a command that waits for the use of a credential,   *)
(* whatever uses the others hold; a request whose renewal is shared with, or  *)
(* abandoned by, others; and `job wait` beyond its limit.                     *)
NobodyWaitsForEver == WaitEnds /\ RequestsEnd /\ WaitReturns
=============================================================================
