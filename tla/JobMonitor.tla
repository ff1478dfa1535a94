----------------------------- MODULE JobMonitor -----------------------------
(* `tadx job wait` (src/internal/app/jobs.go) and the monitor behind it       *)
(* (src/internal/jobmonitor): processes that wait for accepted Tableau jobs   *)
(* of one credential and site.  They share a receipt per job, an index of the *)
(* jobs to observe and one lock per observation round, all in files.          *)
(*                                                                            *)
(* Store.Save holds the receipt's own lock from its read to its replace, so a *)
(* save is one step; a receipt read earlier may be stale by then.  CheckedAt  *)
(* is the ordinal of the status answer, NextCheck and WaitUntil are clock     *)
(* values; 0 is the zero time.                                                *)
EXTENDS Naturals

CONSTANTS
    Waiters,         \* processes running `tadx job wait`
    Jobs,            \* Tableau jobs of the credential and site
    NoJob,           \* a process that has not started
    Nobody,          \* the round lock is free
    WaitLimit,       \* publicationWaitLimit, in clock ticks
    PollInterval,    \* pollInterval, in clock ticks
    MaxReadFailures, \* maxReadFailures
    JobFaults,          \* which faults happen: "interrupt", "kill", "read", "index"
    MaxClock,        \* bound: clock ticks
    MaxAnswers       \* bound: status answers of Tableau

ASSUME JobConstants ==
    /\ WaitLimit \in Nat \ {0} /\ PollInterval \in Nat \ {0} /\ MaxReadFailures \in Nat \ {0}
    /\ MaxClock \in Nat /\ MaxAnswers \in Nat
    /\ Nobody \notin Waiters /\ NoJob \notin Jobs

VARIABLES
    clock,
    remote,      \* the job's status at Tableau
    answers,     \* status answers of Tableau so far
    receipt,     \* the saved receipt of each job
    index,       \* the active jobs of the coordination key
    roundLock,   \* the process observing
    waiter,      \* each process
    quietUntil   \* history: the NextCheck of the last saved observation; 0 once cleared

jobVars == <<clock, remote, answers, receipt, index, roundLock, waiter, quietUntil>>

Outcomes == {"succeeded", "failed"}

Terminal(r) == r.status \in Outcomes

Receipt == [status : {"absent", "running"} \cup Outcomes, checked : 0 .. MaxAnswers,
            next : 0 .. MaxClock + PollInterval, failures : Nat,
            manual : BOOLEAN, until : 0 .. MaxClock + WaitLimit]

Accepted == [status |-> "running", checked |-> 0, next |-> 0, failures |-> 0,
             manual |-> FALSE, until |-> 0]

Absent == [Accepted EXCEPT !.status = "absent"]

NoRead == [at |-> "none", status |-> "running", checked |-> 0]

NoWait == [at |-> "start", job |-> NoJob, copy |-> Absent, canceled |-> FALSE,
         copies |-> [j \in Jobs |-> Absent], reads |-> [j \in Jobs |-> NoRead], result |-> "none"]

JobTypeOK ==
    /\ clock \in 0 .. MaxClock /\ answers \in 0 .. MaxAnswers
    /\ remote \in [Jobs -> {"running"} \cup Outcomes]
    /\ receipt \in [Jobs -> Receipt]
    /\ index \subseteq Jobs
    /\ roundLock \in Waiters \cup {Nobody}
    /\ \A w \in Waiters :
        /\ waiter[w].at \in {"start", "observed", "register", "index", "loop", "stop", "sleep",
                             "lock", "collect", "read", "save", "done"}
        /\ waiter[w].copy \in Receipt
        /\ waiter[w].copies \in [Jobs -> Receipt]
    /\ quietUntil \in [Jobs -> 0 .. MaxClock + PollInterval]

(* A publication has saved the receipt of some jobs; others were started      *)
(* elsewhere and have none yet.                                               *)
JobInit ==
    /\ clock = 0 /\ answers = 0
    /\ remote = [j \in Jobs |-> "running"]
    /\ receipt \in [Jobs -> {Accepted, Absent}]
    /\ index = {} /\ roundLock = Nobody
    /\ waiter = [w \in Waiters |-> NoWait]
    /\ quietUntil = [j \in Jobs |-> 0]

-----------------------------------------------------------------------------
(* Store.Save.                                                                *)

Conflict(previous, r) == Terminal(previous) /\ Terminal(r) /\ previous.status # r.status

(* Mutant: the last save wins.                                                *)
LastSave(previous, r) == r

Merge(previous, r) ==
    IF (Terminal(previous) /\ ~Terminal(r)) \/ previous.checked > r.checked
    THEN [previous EXCEPT !.manual = r.manual, !.until = r.until]
    ELSE r

Save(j, r) == receipt' = IF Conflict(receipt[j], r) THEN receipt
                         ELSE [receipt EXCEPT ![j] = Merge(@, r)]

-----------------------------------------------------------------------------
(* jobCommands.Wait, up to the monitor.                                       *)

Become(w, at) == waiter' = [waiter EXCEPT ![w].at = at]

Forget(w, at) == waiter' = [waiter EXCEPT ![w].at = at, ![w].copies = NoWait.copies, ![w].reads = NoWait.reads]

EndWait(w, result) ==
    waiter' = [waiter EXCEPT ![w] = [NoWait EXCEPT !.at = "done", !.job = waiter[w].job, !.result = result]]

(* resolveReceipt finds the job's receipt.                                    *)
Resolve(w) ==
    /\ waiter[w].at = "start"
    /\ \E j \in Jobs :
        /\ receipt[j].status # "absent"
        /\ waiter' = [waiter EXCEPT ![w] =
                IF Terminal(receipt[j])
                THEN [@ EXCEPT !.job = j, !.at = "done", !.result = receipt[j].status]
                ELSE [@ EXCEPT !.job = j, !.at = "register", !.copy = receipt[j]]]
    /\ UNCHANGED <<clock, remote, answers, receipt, index, roundLock, quietUntil>>

(* startObservation: there is no receipt, so inspect the job, then save one.  *)
StartObservation(w) ==
    /\ waiter[w].at = "start" /\ answers < MaxAnswers
    /\ \E j \in Jobs :
        /\ receipt[j].status = "absent"
        /\ waiter' = [waiter EXCEPT
                ![w].job = j, ![w].at = "observed",
                ![w].copy = [Accepted EXCEPT !.status = remote[j], !.checked = answers + 1]]
    /\ answers' = answers + 1
    /\ UNCHANGED <<clock, remote, receipt, index, roundLock, quietUntil>>

SaveObservation(w) ==
    /\ waiter[w].at = "observed"
    /\ LET j == waiter[w].job
           r == waiter[w].copy
       IN /\ Save(j, r)
          /\ quietUntil' = [quietUntil EXCEPT ![j] = IF receipt'[j].next = 0 THEN 0 ELSE @]
          /\ IF Conflict(receipt[j], r) THEN EndWait(w, "error")
             ELSE IF Terminal(r) THEN EndWait(w, r.status)
             ELSE Become(w, "register")
    /\ UNCHANGED <<clock, remote, answers, index, roundLock>>

(* Clear the backoff and register: Store.Register saves the receipt, then     *)
(* adds it to the index.                                                      *)
RegisterSave(w) ==
    /\ waiter[w].at = "register" /\ clock + WaitLimit <= MaxClock
    /\ LET j == waiter[w].job
           r == [waiter[w].copy EXCEPT !.failures = 0, !.next = 0, !.manual = FALSE,
                                       !.until = clock + WaitLimit]
       IN /\ Save(j, r)
          /\ quietUntil' = [quietUntil EXCEPT ![j] = IF receipt'[j].next = 0 THEN 0 ELSE @]
          /\ waiter' = [waiter EXCEPT ![w].at = "index", ![w].copy = r]
    /\ UNCHANGED <<clock, remote, answers, index, roundLock>>

Registered(j) ==
    IF j \in index THEN index ELSE {i \in index : ~Terminal(receipt[i])} \cup {j}

RegisterIndex(w) ==
    /\ waiter[w].at = "index"
    /\ \/ index' = Registered(waiter[w].job) /\ Become(w, "loop")
       \/ "index" \in JobFaults /\ index' = index /\ EndWait(w, "error")    \* full, or not writable
    /\ UNCHANGED <<clock, remote, answers, receipt, roundLock, quietUntil>>

-----------------------------------------------------------------------------
(* Monitor.Wait.                                                              *)

(* The deadline is the one this process set at registration.                 *)
Late(w) == clock >= waiter[w].copy.until

(* Mutant: the deadline is not looked at again.                               *)
NeverUp(w) == FALSE

(* Is it time to give up?  Nothing sets the monitor's StopRequested.          *)
TimeUp(w) == Late(w)

(* Read the receipt and decide what to do next.                               *)
Look(w) ==
    /\ waiter[w].at = "loop"
    /\ LET r == receipt[waiter[w].job]
           Go(at) == waiter' = [waiter EXCEPT ![w].at = at, ![w].copies[waiter[w].job] = r]
       IN IF Terminal(r) THEN EndWait(w, r.status)
          ELSE IF TimeUp(w) THEN Go("stop")
          ELSE IF waiter[w].canceled THEN EndWait(w, "canceled")
          ELSE IF r.failures >= MaxReadFailures THEN EndWait(w, "unavailable")
          ELSE IF r.next > clock THEN Go("sleep")
          ELSE Become(w, "lock")
    /\ UNCHANGED <<clock, remote, answers, receipt, index, roundLock, quietUntil>>

(* The wait is over: leave the job to explicit requests (ManualOnly).  The    *)
(* receipt saved is the one Look read.                                        *)
StopObserving(w) ==
    /\ waiter[w].at = "stop"
    /\ LET j == waiter[w].job IN Save(j, [waiter[w].copies[j] EXCEPT !.manual = TRUE])
    /\ EndWait(w, "limit")
    /\ UNCHANGED <<clock, remote, answers, index, roundLock, quietUntil>>

WakeUp(w) ==
    /\ waiter[w].at = "sleep"
    /\ \/ waiter[w].canceled /\ EndWait(w, "canceled")
       \/ (Late(w) \/ clock >= waiter[w].copies[waiter[w].job].next) /\ Forget(w, "loop")
    /\ UNCHANGED <<clock, remote, answers, receipt, index, roundLock, quietUntil>>

-----------------------------------------------------------------------------
(* Monitor.round.                                                             *)

TakeRound(w) ==
    /\ waiter[w].at = "lock"
    /\ IF Late(w) THEN Become(w, "loop") /\ UNCHANGED roundLock
       ELSE IF waiter[w].canceled THEN EndWait(w, "canceled") /\ UNCHANGED roundLock
       ELSE roundLock = Nobody /\ roundLock' = w /\ Become(w, "collect")
    /\ UNCHANGED <<clock, remote, answers, receipt, index, quietUntil>>

(* Others waited for by somebody are observed in the same round.              *)
DueTogether(j) ==
    /\ j \in index /\ ~Terminal(receipt[j]) /\ ~receipt[j].manual
    /\ receipt[j].until = 0 \/ receipt[j].until > clock
    /\ receipt[j].failures < MaxReadFailures /\ receipt[j].next <= clock

(* Mutant: only the receipt's status is looked at again.                      *)
Ended(j) == Terminal(receipt[j])

NothingDue(j) == Terminal(receipt[j]) \/ receipt[j].next > clock

(* The target is read again under the lock: another process may just have     *)
(* observed it.                                                               *)
CollectRound(w) ==
    /\ waiter[w].at = "collect"
    /\ LET j == waiter[w].job
           due == {j} \cup {i \in Jobs : DueTogether(i)}
       IN IF NothingDue(j)
          THEN roundLock' = Nobody /\ Become(w, "loop")
          ELSE /\ waiter' = [waiter EXCEPT
                    ![w].at = "read", ![w].copies = receipt,
                    ![w].reads = [i \in Jobs |-> [NoRead EXCEPT !.at = IF i \in due THEN "due" ELSE "none"]]]
               /\ UNCHANGED roundLock
    /\ UNCHANGED <<clock, remote, answers, receipt, index, quietUntil>>

(* Observe one job: its status, or an error.  A context that has ended makes  *)
(* every read fail.                                                           *)
ReadStatus(w, j) ==
    /\ waiter[w].at = "read" /\ waiter[w].reads[j].at = "due"
    /\ ~waiter[w].canceled /\ ~Late(w) /\ answers < MaxAnswers
    /\ answers' = answers + 1
    /\ waiter' = [waiter EXCEPT ![w].reads[j] =
            [at |-> "read", status |-> remote[j], checked |-> answers + 1]]
    /\ UNCHANGED <<clock, remote, receipt, index, roundLock, quietUntil>>

ReadFails(w, j) ==
    /\ waiter[w].at = "read" /\ waiter[w].reads[j].at = "due"
    /\ "read" \in JobFaults \/ waiter[w].canceled \/ Late(w)
    /\ waiter' = [waiter EXCEPT ![w].reads[j].at = "failed"]
    /\ UNCHANGED <<clock, remote, answers, receipt, index, roundLock, quietUntil>>

ReadAll(w) ==
    /\ waiter[w].at = "read" /\ \A j \in Jobs : waiter[w].reads[j].at # "due"
    /\ Become(w, "save")
    /\ UNCHANGED <<clock, remote, answers, receipt, index, roundLock, quietUntil>>

Observed(r, read) ==
    IF read.at = "failed"
    THEN [r EXCEPT !.failures = @ + 1, !.next = clock + PollInterval]
    ELSE [r EXCEPT !.status = read.status, !.checked = read.checked, !.failures = 0,
                   !.next = clock + PollInterval]

SaveRead(w, j) ==
    /\ waiter[w].at = "save" /\ waiter[w].reads[j].at \in {"read", "failed"}
    /\ LET r == Observed(waiter[w].copies[j], waiter[w].reads[j])
       IN /\ Save(j, r)
          /\ IF Conflict(receipt[j], r)
             THEN roundLock' = Nobody /\ EndWait(w, "error")
             ELSE /\ waiter' = [waiter EXCEPT ![w].reads[j].at = "none"]
                  /\ UNCHANGED roundLock
          /\ quietUntil' = IF waiter[w].reads[j].at = "read" /\ receipt'[j].next = r.next
                           THEN [quietUntil EXCEPT ![j] = r.next] ELSE quietUntil
    /\ UNCHANGED <<clock, remote, answers, index>>

EndRound(w) ==
    /\ waiter[w].at = "save" /\ \A j \in Jobs : waiter[w].reads[j].at = "none"
    /\ roundLock' = Nobody /\ Forget(w, "loop")
    /\ UNCHANGED <<clock, remote, answers, receipt, index, quietUntil>>

-----------------------------------------------------------------------------
(* What happens around it.                                                    *)

Tick ==
    /\ clock < MaxClock /\ clock' = clock + 1
    /\ UNCHANGED <<remote, answers, receipt, index, roundLock, waiter, quietUntil>>

JobFinishes(j) ==
    /\ remote[j] = "running"
    /\ \E o \in Outcomes : remote' = [remote EXCEPT ![j] = o]
    /\ UNCHANGED <<clock, answers, receipt, index, roundLock, waiter, quietUntil>>

Interrupt(w) ==
    /\ "interrupt" \in JobFaults /\ waiter[w].at # "done" /\ ~waiter[w].canceled
    /\ waiter' = [waiter EXCEPT ![w].canceled = TRUE]
    /\ UNCHANGED <<clock, remote, answers, receipt, index, roundLock, quietUntil>>

(* The process is killed, or ends with an error before it reaches Tableau;    *)
(* the system drops the locks it holds.                                       *)
KillWaiter(w) ==
    /\ "kill" \in JobFaults /\ waiter[w].at # "done"
    /\ EndWait(w, "killed")
    /\ roundLock' = IF roundLock = w THEN Nobody ELSE roundLock
    /\ UNCHANGED <<clock, remote, answers, receipt, index, quietUntil>>

WaiterStep(w) ==
    \/ Resolve(w) \/ StartObservation(w) \/ SaveObservation(w)
    \/ RegisterSave(w) \/ RegisterIndex(w)
    \/ Look(w) \/ StopObserving(w) \/ WakeUp(w)
    \/ TakeRound(w) \/ CollectRound(w) \/ ReadAll(w) \/ EndRound(w)
    \/ \E j \in Jobs : ReadStatus(w, j) \/ ReadFails(w, j) \/ SaveRead(w, j)

JobNext ==
    \/ \E w \in Waiters : WaiterStep(w) \/ Interrupt(w) \/ KillWaiter(w)
    \/ \E j \in Jobs : JobFinishes(j)
    \/ Tick

JobSpec == JobInit /\ [][JobNext]_jobVars

(* Processes run on and time passes.                                          *)
JobFairness == (\A w \in Waiters : WF_jobVars(WaiterStep(w))) /\ WF_jobVars(Tick)

-----------------------------------------------------------------------------
(* An outcome that a receipt holds or that `job wait` returns is the outcome  *)
(* of that job at Tableau, whoever read it and however late it was saved; it  *)
(* stays, and no saved status is replaced by an older one, whichever stale    *)
(* copies of the receipt are saved over it.                                   *)
OutcomeIsTheJobs ==
    /\ \A j \in Jobs : Terminal(receipt[j]) => receipt[j].status = remote[j]
    /\ \A w \in Waiters : waiter[w].result \in Outcomes => waiter[w].result = remote[waiter[w].job]

ObservationsOnlyAdvance ==
    [][\A j \in Jobs :
        /\ receipt'[j].checked >= receipt[j].checked
        /\ Terminal(receipt[j]) => receipt'[j].status = receipt[j].status]_jobVars

OutcomesHold == [](JobTypeOK /\ OutcomeIsTheJobs) /\ ObservationsOnlyAdvance

(* However many processes wait for a job, one saved answer of Tableau is not  *)
(* followed by another status read before its NextCheck, unless a new         *)
(* `job wait` asked for one.                                                  *)
StatusReadsArePaced ==
    [][\A w \in Waiters, j \in Jobs :
        waiter[w].reads[j].at = "due" /\ waiter'[w].reads[j].at = "read" => clock >= quietUntil[j]]_jobVars

(* A registered wait ends at its deadline at the latest, whoever holds the    *)
(* round lock.                                                                *)
WaitReturns == \A w \in Waiters : waiter[w].at = "index" ~> waiter[w].at = "done"
=============================================================================
