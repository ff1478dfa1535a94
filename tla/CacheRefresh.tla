---------------------------- MODULE CacheRefresh ----------------------------
(* One run of the collection engine (src/internal/tableau/cache/engine.go):   *)
(* a goroutine hands tasks to a pool of workers phase by phase, the workers   *)
(* share an adaptive limiter and put what they read on the queue of a writer  *)
(* goroutine.  Contexts, channels and the notification of the limiter are     *)
(* modelled by what wakes whom.                                               *)
EXTENDS Naturals, Sequences, FiniteSets

CONSTANTS
    Collectors,      \* the workers of a phase; their number is MaxConcurrency
    Phases,          \* the tasks of each phase, in order: first pages, further pages, permissions
    Deniable,        \* tasks Tableau may refuse one by one: permission reads
    InitialLimit,    \* InitialConcurrency
    MaxTries,        \* MaxRetries
    JobQueue,        \* capacity of the jobs and results channels
    BatchQueue,      \* capacity of the writer's queue
    RefreshFaults    \* bound: requests that fail, in one run

(* No two tasks are one: a page of a scope, the permissions of a workbook.    *)
ASSUME RefreshConstants ==
    /\ IsFiniteSet(Collectors) /\ InitialLimit \in 1 .. Cardinality(Collectors)
    /\ MaxTries \in Nat \ {0} /\ JobQueue \in Nat \ {0} /\ BatchQueue \in Nat \ {0}
    /\ Phases \in Seq(Seq(Nat)) /\ Phases # <<>>
    /\ \A i, k \in 1 .. Len(Phases) : \A j \in 1 .. Len(Phases[i]), l \in 1 .. Len(Phases[k]) :
        Phases[i][j] = Phases[k][l] => i = k /\ j = l

VARIABLES
    main,            \* the goroutine of Run: phase, tasks handed out and completed, error
    jobs, results,   \* the channels of the phase
    worker,          \* each goroutine of the pool
    limiter,         \* adaptiveLimiter
    pump,            \* batchPump: the queue, what was written, the first error
    cancelled,       \* the contexts that are done: "caller", "run", "phase"
    faults           \* requests failed so far

refreshVars == <<main, jobs, results, worker, limiter, pump, cancelled, faults>>

NoError == "none"
MaxConcurrency == Cardinality(Collectors)
AllTasks == UNION {{Phases[i][j] : j \in 1 .. Len(Phases[i])} : i \in 1 .. Len(Phases)}
RefreshOutcomes == {NoError, "ok", "fetch", "write", "cancelled"}
IdleWorker == [at |-> "idle", task |-> 0, try |-> 1, error |-> NoError]

RefreshTypeOK ==
    /\ main \in [phase : 1 .. Len(Phases) + 1, next : Nat, completed : Nat,
                 at : {"tasks", "unwind", "closing", "returned"}, error : RefreshOutcomes, answer : RefreshOutcomes]
    /\ worker \in [Collectors -> [at : {"idle", "acquire", "parked", "cooling", "request",
                                        "backoff", "emit", "report", "gone"},
                                  task : AllTasks \cup {0}, try : 1 .. MaxTries, error : RefreshOutcomes]]
    /\ limiter \in [limit : 1 .. MaxConcurrency, inFlight : 0 .. MaxConcurrency,
                    successes : 0 .. MaxConcurrency, cooldown : BOOLEAN]
    /\ cancelled \subseteq {"caller", "run", "phase"}
    /\ Len(jobs) <= JobQueue /\ Len(results) <= JobQueue /\ Len(pump.queue) <= BatchQueue

RefreshInit ==
    /\ main = [phase |-> 1, next |-> 0, completed |-> 0, at |-> "tasks", error |-> NoError, answer |-> NoError]
    /\ jobs = <<>> /\ results = <<>>
    /\ worker = [w \in Collectors |-> IdleWorker]
    /\ limiter = [limit |-> InitialLimit, inFlight |-> 0, successes |-> 0, cooldown |-> FALSE]
    /\ pump = [queue |-> <<>>, closed |-> FALSE, running |-> TRUE, error |-> NoError, written |-> <<>>]
    /\ cancelled = {} /\ faults = 0

PhaseTasks == Phases[main.phase]
Cancel(context) == CASE context = "caller" -> {"caller", "run", "phase"}
                     [] context = "run" -> {"run", "phase"}
                     [] OTHER -> {"phase"}

-----------------------------------------------------------------------------
(* The workers.                                                               *)

Goto(w, place) == worker' = [worker EXCEPT ![w].at = place]

(* select of a worker: with its context done it may still receive a task.     *)
TakeTask(w) ==
    /\ worker[w].at = "idle" /\ main.at \in {"tasks", "unwind"} /\ jobs # <<>>
    /\ worker' = [worker EXCEPT ![w] = [IdleWorker EXCEPT !.at = "acquire", !.task = Head(jobs)]]
    /\ jobs' = Tail(jobs)
    /\ UNCHANGED <<main, results, limiter, pump, cancelled, faults>>

(* The phase is over for this worker: its context is done or jobs is closed   *)
(* and drained.                                                               *)
LeavePool(w) ==
    /\ worker[w].at = "idle"
    /\ "phase" \in cancelled \/ (main.at = "tasks" /\ main.completed = Len(PhaseTasks))
    /\ Goto(w, "gone")
    /\ UNCHANGED <<main, jobs, results, limiter, pump, cancelled, faults>>

Fails(w, e) == worker' = [worker EXCEPT ![w].at = "report", ![w].error = e]

(* Acquire: a slot, or the wait for one.                                      *)
Acquire(w) ==
    /\ worker[w].at = "acquire"
    /\ IF "phase" \in cancelled
       THEN Fails(w, "cancelled") /\ UNCHANGED limiter
       ELSE IF limiter.cooldown THEN Goto(w, "cooling") /\ UNCHANGED limiter
       ELSE IF limiter.inFlight < limiter.limit
       THEN Goto(w, "request") /\ limiter' = [limiter EXCEPT !.inFlight = @ + 1]
       ELSE Goto(w, "parked") /\ UNCHANGED limiter
    /\ UNCHANGED <<main, jobs, results, pump, cancelled, faults>>

(* A waiting worker sees its context done.                                    *)
StopWaiting(w) ==
    /\ worker[w].at \in {"parked", "cooling", "backoff"} /\ "phase" \in cancelled
    /\ Fails(w, "cancelled")
    /\ UNCHANGED <<main, jobs, results, limiter, pump, cancelled, faults>>

BackoffEnds(w) ==
    /\ worker[w].at = "backoff" /\ Goto(w, "acquire")
    /\ UNCHANGED <<main, jobs, results, limiter, pump, cancelled, faults>>

(* Mutant: a throttled answer, which frees a slot too, wakes nobody.          *)
WakesOnSuccess(success, l) == success /\ l.inFlight < l.limit

(* release broadcasts whenever a slot is free.                                *)
Wakes(success, l) == l.inFlight < l.limit

(* release: the cooldown first, then the limit, then the slot.                *)
Released(success, throttled, cooldown) ==
    LET cooling == limiter.cooldown \/ cooldown
        count == IF limiter.successes < MaxConcurrency THEN limiter.successes + 1 ELSE MaxConcurrency
        grows == count >= limiter.limit /\ limiter.limit < MaxConcurrency
    IN [limiter EXCEPT !.inFlight = @ - 1, !.cooldown = cooling,
            !.limit = IF throttled THEN (IF @ = 1 THEN 1 ELSE @ \div 2)
                      ELSE IF success /\ ~cooling /\ grows THEN @ + 1 ELSE @,
            !.successes = IF throttled \/ (success /\ ~cooling /\ grows) THEN 0
                          ELSE IF success /\ ~cooling THEN count ELSE @]

Woken(ws, wakes) ==
    [w \in Collectors |-> IF wakes /\ ws[w].at \in {"parked", "cooling"} THEN [ws[w] EXCEPT !.at = "acquire"] ELSE ws[w]]

(* One answer of fetch: a page, a refusal of one permission read, an error    *)
(* that may pass (throttling, or a delay the server names, holds back all     *)
(* workers; other errors delay only this one), or an error that is final,     *)
(* which includes a page that does not fit the others.                        *)
Answers == {"page", "denied", "throttled", "delayed", "failed", "refused"}

AfterAnswer(w, answer) ==
    LET me == worker[w]
    IN IF answer = "page" THEN [me EXCEPT !.at = "emit"]
       ELSE IF "phase" \in cancelled THEN [me EXCEPT !.at = "report", !.error = "cancelled"]
       ELSE IF answer = "denied" THEN [me EXCEPT !.at = "report"]
       ELSE IF answer = "refused" \/ me.try = MaxTries THEN [me EXCEPT !.at = "report", !.error = "fetch"]
       ELSE [me EXCEPT !.at = IF answer = "failed" THEN "backoff" ELSE "acquire", !.try = @ + 1]

Fetch(w, answer) ==
    /\ worker[w].at = "request"
    /\ answer = "denied" => worker[w].task \in Deniable
    /\ answer \notin {"page", "denied"} => faults < RefreshFaults
    /\ faults' = IF answer \in {"page", "denied"} THEN faults ELSE faults + 1
    /\ \E cooldown \in IF answer = "throttled" THEN BOOLEAN ELSE {answer = "delayed"} :
        limiter' = Released(answer = "page", answer = "throttled", cooldown)
    /\ worker' = Woken([worker EXCEPT ![w] = AfterAnswer(w, answer)], Wakes(answer = "page", limiter'))
    /\ UNCHANGED <<main, jobs, results, pump, cancelled>>

(* The request carries the context of the phase and ends with it.             *)
RequestCancelled(w) ==
    /\ worker[w].at = "request" /\ "phase" \in cancelled
    /\ limiter' = Released(FALSE, FALSE, FALSE)
    /\ worker' = Woken([worker EXCEPT ![w].at = "report", ![w].error = "cancelled"], Wakes(FALSE, limiter'))
    /\ UNCHANGED <<main, jobs, results, pump, cancelled, faults>>

(* The delay Tableau asked for is over.                                       *)
CooldownEnds ==
    /\ limiter.cooldown /\ limiter' = [limiter EXCEPT !.cooldown = FALSE]
    /\ worker' = [w \in Collectors |-> IF worker[w].at = "cooling" THEN [worker[w] EXCEPT !.at = "acquire"] ELSE worker[w]]
    /\ UNCHANGED <<main, jobs, results, pump, cancelled, faults>>

(* Emit: the rows go to the writer, unless it or the run is gone.             *)
Emit(w) ==
    /\ worker[w].at = "emit"
    /\ \/ /\ Len(pump.queue) < BatchQueue
          /\ pump' = [pump EXCEPT !.queue = Append(@, worker[w].task)]
          /\ Goto(w, "report")
       \/ /\ "phase" \in cancelled \/ ~pump.running
          /\ Fails(w, IF pump.error # NoError THEN pump.error ELSE "cancelled")
          /\ UNCHANGED pump
    /\ UNCHANGED <<main, jobs, results, limiter, cancelled, faults>>

(* The result goes to the goroutine of Run, or is dropped with the phase.     *)
ReportResult(w) ==
    /\ worker[w].at = "report"
    /\ \/ Len(results) < JobQueue /\ results' = Append(results, worker[w].error) /\ Goto(w, "idle")
       \/ "phase" \in cancelled /\ Goto(w, "gone") /\ UNCHANGED results
    /\ UNCHANGED <<main, jobs, limiter, pump, cancelled, faults>>

CollectorStep(w) ==
    \/ TakeTask(w) \/ LeavePool(w) \/ Acquire(w) \/ StopWaiting(w) \/ BackoffEnds(w)
    \/ \E answer \in Answers : Fetch(w, answer)
    \/ RequestCancelled(w) \/ Emit(w) \/ ReportResult(w)

-----------------------------------------------------------------------------
(* The writer's goroutine.                                                    *)

(* WriteBatch of the head of the queue; it may fail, and a cancelled context  *)
(* makes it fail.                                                             *)
WriteBatch ==
    /\ pump.running /\ pump.queue # <<>>
    /\ \/ /\ pump' = [pump EXCEPT !.queue = Tail(@), !.written = Append(@, Head(pump.queue))]
          /\ UNCHANGED <<cancelled, faults>>
       \/ \E e \in {"write"} \cup IF "run" \in cancelled THEN {"cancelled"} ELSE {} :
            /\ e = "write" => faults < RefreshFaults
            /\ faults' = IF e = "write" THEN faults + 1 ELSE faults
            /\ pump' = [pump EXCEPT !.queue = Tail(@), !.running = FALSE, !.error = e]
            /\ cancelled' = cancelled \cup Cancel("run")
    /\ UNCHANGED <<main, jobs, results, worker, limiter>>

(* The writer leaves: the run is cancelled, or the queue closed and empty.    *)
PumpEnds ==
    /\ pump.running /\ ("run" \in cancelled \/ (pump.closed /\ pump.queue = <<>>))
    /\ pump' = [pump EXCEPT !.running = FALSE]
    /\ UNCHANGED <<main, jobs, results, worker, limiter, cancelled, faults>>

-----------------------------------------------------------------------------
(* The goroutine of Run.                                                      *)

HandOut ==
    /\ main.at = "tasks" /\ main.next < Len(PhaseTasks) /\ Len(jobs) < JobQueue
    /\ jobs' = Append(jobs, PhaseTasks[main.next + 1])
    /\ main' = [main EXCEPT !.next = @ + 1]
    /\ UNCHANGED <<results, worker, limiter, pump, cancelled, faults>>

(* A result, or the first error, which ends the phase.                        *)
TakeResult ==
    /\ main.at = "tasks" /\ results # <<>>
    /\ results' = Tail(results)
    /\ IF Head(results) = NoError
       THEN main' = [main EXCEPT !.completed = @ + 1] /\ UNCHANGED cancelled
       ELSE /\ main' = [main EXCEPT !.at = "unwind", !.error = Head(results)]
            /\ cancelled' = cancelled \cup Cancel("phase")
    /\ UNCHANGED <<jobs, worker, limiter, pump, faults>>

(* The context of the run ended while tasks were outstanding.                 *)
SeeCancelled ==
    /\ main.at = "tasks" /\ main.completed < Len(PhaseTasks) /\ "run" \in cancelled
    /\ main' = [main EXCEPT !.at = "unwind", !.error = "cancelled"]
    /\ UNCHANGED <<jobs, results, worker, limiter, pump, cancelled, faults>>

PoolGone == \A w \in Collectors : worker[w].at = "gone"

(* All results of the phase are in and its workers have gone: the next phase  *)
(* starts with a pool and channels of its own.                                *)
NextPhase ==
    /\ main.at = "tasks" /\ main.completed = Len(PhaseTasks) /\ PoolGone
    /\ main' = [main EXCEPT !.phase = @ + 1, !.next = 0, !.completed = 0,
                            !.at = IF main.phase = Len(Phases) THEN "closing" ELSE "tasks"]
    /\ worker' = [w \in Collectors |-> IdleWorker]
    /\ jobs' = <<>> /\ results' = <<>>
    /\ cancelled' = cancelled \ (IF "run" \in cancelled THEN {} ELSE {"phase"})
    /\ pump' = IF main.phase = Len(Phases) THEN [pump EXCEPT !.closed = TRUE] ELSE pump
    /\ UNCHANGED <<limiter, faults>>

(* A failed phase: every worker is awaited, the run cancelled, the queue      *)
(* closed.                                                                    *)
Unwound ==
    /\ main.at = "unwind" /\ PoolGone
    /\ main' = [main EXCEPT !.at = "closing"]
    /\ cancelled' = cancelled \cup Cancel("run")
    /\ pump' = [pump EXCEPT !.closed = TRUE]
    /\ UNCHANGED <<jobs, results, worker, limiter, faults>>

(* Mutant: the writer's error, which the cancellation caused, comes first.    *)
PumpErrorFirst ==
    IF pump.error # NoError THEN pump.error
    ELSE IF main.error # NoError THEN main.error
    ELSE IF "caller" \in cancelled THEN "cancelled" ELSE "ok"

(* What Run returns.                                                          *)
Verdict ==
    IF main.error # NoError /\ pump.error \in {NoError, "cancelled"} THEN main.error
    ELSE IF pump.error # NoError THEN pump.error
    ELSE IF "caller" \in cancelled THEN "cancelled" ELSE "ok"

RefreshReturn ==
    /\ main.at = "closing" /\ ~pump.running
    /\ main' = [main EXCEPT !.at = "returned", !.answer = Verdict]
    /\ UNCHANGED <<jobs, results, worker, limiter, pump, cancelled, faults>>

(* The command is interrupted or its deadline passes.                         *)
CallerCancels ==
    /\ main.at # "returned" /\ "caller" \notin cancelled
    /\ cancelled' = Cancel("caller")
    /\ UNCHANGED <<main, jobs, results, worker, limiter, pump, faults>>

MainStep == HandOut \/ TakeResult \/ SeeCancelled \/ NextPhase \/ Unwound \/ RefreshReturn
PumpStep == WriteBatch \/ PumpEnds

RefreshNext ==
    (\E w \in Collectors : CollectorStep(w)) \/ CooldownEnds \/ PumpStep \/ MainStep \/ CallerCancels

(* Each goroutine runs, requests and writes end, timers go off.               *)
RefreshFairness ==
    /\ \A w \in Collectors : WF_refreshVars(CollectorStep(w))
    /\ WF_refreshVars(CooldownEnds) /\ WF_refreshVars(PumpStep) /\ WF_refreshVars(MainStep)

RefreshSpec == RefreshInit /\ [][RefreshNext]_refreshVars /\ RefreshFairness

-----------------------------------------------------------------------------
Denied(written) == AllTasks \ {written[i] : i \in 1 .. Len(written)}

(* A run that succeeds has written every page exactly once, missing at most   *)
(* permissions Tableau refused; one that fails names the request or the write *)
(* that failed, and calls itself cancelled only when its caller cancelled it. *)
(* Nobody writes to the queue once it is closed.                              *)
RefreshIsTrue ==
    /\ RefreshTypeOK
    /\ pump.closed => \A w \in Collectors : worker[w].at \in {"idle", "gone"}
    /\ main.answer = "ok" =>
        Denied(pump.written) \subseteq Deniable /\ Len(pump.written) = Cardinality(AllTasks \ Denied(pump.written))
    /\ main.answer = "cancelled" => "caller" \in cancelled
    /\ main.answer \in {"fetch", "write"} => faults > 0

(* Every run returns: no worker is left waiting for a slot, a queue or a      *)
(* result that nobody gives it.                                               *)
RefreshEnds == <>(main.at = "returned")
=============================================================================
