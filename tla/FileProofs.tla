----------------------------- MODULE FileProofs -----------------------------
(* Proofs about one run of the collection engine (CacheRefresh) and about two *)
(* protocols over files: the lock file that its holder removes (RootLock) and *)
(* the move of an artifact that is not changed meanwhile (ArtifactMove).      *)
EXTENDS RootLock, ArtifactMove, CacheRefresh, SequenceTheorems, FiniteSetTheorems, TLAPS

-----------------------------------------------------------------------------
(* The inductive invariant of CacheRefresh.                                   *)

Failures == {NoError, "fetch", "write", "cancelled"}

WorkingStages == {"acquire", "parked", "cooling", "request", "backoff", "emit"}

WorkerStates ==
    [at : WorkingStages \cup {"idle", "report", "gone"}, task : AllTasks \cup {0}, try : 1 .. MaxTries,
     error : Failures]

MainStates ==
    [phase : 1 .. Len(Phases) + 1, next : Nat, completed : Nat,
     at : {"tasks", "unwind", "closing", "returned"}, error : Failures, answer : RefreshOutcomes]

LimiterStates ==
    [limit : 1 .. MaxConcurrency, inFlight : 0 .. MaxConcurrency,
     successes : 0 .. MaxConcurrency, cooldown : BOOLEAN]

PumpStates ==
    [queue : Seq(AllTasks), closed : BOOLEAN, running : BOOLEAN,
     error : {NoError, "write", "cancelled"}, written : Seq(AllTasks)]

Contexts == {"caller", "run", "phase"}

Requesting == {w \in Collectors : worker[w].at = "request"}

(* The types, and the count of the slots that are in use.                     *)
RefreshTyped ==
    /\ main \in MainStates /\ limiter \in LimiterStates /\ pump \in PumpStates
    /\ worker \in [Collectors -> WorkerStates]
    /\ jobs \in Seq(AllTasks) /\ results \in Seq(Failures)
    /\ cancelled \subseteq Contexts /\ faults \in Nat
    /\ Len(jobs) <= JobQueue /\ Len(results) <= JobQueue /\ Len(pump.queue) <= BatchQueue
    /\ limiter.inFlight = Cardinality(Requesting)

OutOfPhase(w) == worker[w].at \in {"idle", "gone"}
Working(w) == worker[w].at \in WorkingStages
Ended == main.at \in {"closing", "returned"}

(* Where the goroutines are together.                                         *)
RefreshStages ==
    /\ pump.closed <=> Ended
    /\ Ended => \A w \in Collectors : OutOfPhase(w)
    /\ pump.running => pump.error = NoError
    /\ main.at = "returned" => ~pump.running
    /\ main.at = "tasks" => main.phase <= Len(Phases) /\ main.error = NoError
    /\ main.at = "unwind" => main.error # NoError
    /\ Ended /\ main.error = NoError => main.phase = Len(Phases) + 1
    /\ \A w \in Collectors : Working(w) => worker[w].task \in AllTasks /\ worker[w].error = NoError

(* What ends a run that no request has failed.                                *)
Stopped == "caller" \in cancelled \/ pump.error = "write"

(* Whoever ends early has a reason, and whoever names an error had one.       *)
CausesKnown ==
    /\ "run" \in cancelled => Stopped \/ (Ended /\ main.error # NoError)
    /\ main.at = "tasks" /\ "phase" \in cancelled => "run" \in cancelled
    /\ main.error = "cancelled" => Stopped
    /\ pump.error = "cancelled" => Stopped \/ main.error # NoError
    /\ ~pump.running /\ pump.error = NoError /\ "run" \notin cancelled => Ended /\ pump.queue = <<>>
    /\ main.error \in {"fetch", "write"} \/ pump.error = "write" => faults > 0

ErrorKnown(e) ==
    /\ e = "cancelled" => Stopped
    /\ e \in {"fetch", "write"} => faults > 0

ErrorsKnown ==
    main.at = "tasks" =>
        /\ \A w \in Collectors : ErrorKnown(worker[w].error)
        /\ \A i \in 1 .. Len(results) : ErrorKnown(results[i])

Contents(s) == {s[i] : i \in 1 .. Len(s)}
Sent == Contents(pump.written) \cup Contents(pump.queue)
Earlier == UNION {Contents(Phases[i]) : i \in 1 .. main.phase - 1}

(* The tasks of the phase that a worker has received.                         *)
Taken == main.next - Len(jobs)
TakenTasks == {PhaseTasks[k] : k \in 1 .. Taken}

BusyWorkers == {w \in Collectors : ~OutOfPhase(w)}
Answered == main.completed + Len(results) + Cardinality(BusyWorkers)

JobsInOrder ==
    main.at = "tasks" =>
        /\ Taken \in Nat /\ main.next <= Len(PhaseTasks) /\ Answered <= Taken
        /\ \A i \in 1 .. Len(jobs) : jobs[i] = PhaseTasks[Taken + i]

(* A result was dropped, or one that names an error is on its way: this phase *)
(* does not complete.                                                         *)
Trouble ==
    \/ Answered < Taken
    \/ \E i \in 1 .. Len(results) : results[i] # NoError
    \/ \E w \in BusyWorkers : worker[w].error # NoError

(* Unless a write failed, what the writer has and will have are tasks         *)
(* received, each once, and no task received is forgotten.                    *)
TasksKept ==
    main.error = NoError /\ pump.error = NoError =>
        /\ IsFiniteSet(Sent) /\ Cardinality(Sent) = Len(pump.written) + Len(pump.queue)
        /\ Earlier \subseteq Sent \cup Deniable
        /\ main.at = "tasks" =>
            /\ Sent \subseteq Earlier \cup TakenTasks
            /\ \A w \in Collectors : Working(w) => worker[w].task \in TakenTasks \ Sent
            /\ \A v, w \in Collectors :
                Working(v) /\ Working(w) /\ worker[v].task = worker[w].task => v = w
            /\ \/ Trouble
               \/ \A t \in TakenTasks :
                    t \in Sent \cup Deniable \/ \E w \in Collectors : Working(w) /\ worker[w].task = t

AnswerTrue ==
    /\ main.at # "returned" => main.answer = NoError
    /\ main.answer = "ok" =>
        Denied(pump.written) \subseteq Deniable /\ Len(pump.written) = Cardinality(AllTasks \ Denied(pump.written))
    /\ main.answer = "cancelled" => "caller" \in cancelled
    /\ main.answer \in {"fetch", "write"} => faults > 0

RefreshInv ==
    RefreshTyped /\ RefreshStages /\ CausesKnown /\ ErrorsKnown /\ JobsInOrder /\ TasksKept /\ AnswerTrue

-----------------------------------------------------------------------------
(* Sets of workers and sequences of tasks.                                    *)

LEMMA WorkersCounted ==
    ASSUME NEW S \in SUBSET Collectors
    PROVE  IsFiniteSet(S) /\ Cardinality(S) \in 0 .. MaxConcurrency
<1>1. IsFiniteSet(Collectors)
    BY RefreshConstants
<1>2. IsFiniteSet(S) /\ Cardinality(S) <= Cardinality(Collectors)
    BY <1>1, FS_Subset
<1>3. Cardinality(S) \in Nat /\ Cardinality(Collectors) \in Nat
    BY <1>1, <1>2, FS_CardinalityType
<1> QED
    BY <1>2, <1>3 DEF MaxConcurrency

LEMMA OneMoreWorker ==
    ASSUME NEW S \in SUBSET Collectors, NEW w \in Collectors, w \notin S
    PROVE  Cardinality(S \cup {w}) = Cardinality(S) + 1
BY WorkersCounted, FS_AddElement

LEMMA OneWorkerLess ==
    ASSUME NEW S \in SUBSET Collectors, NEW w \in S
    PROVE  Cardinality(S) >= 1 /\ Cardinality(S \ {w}) = Cardinality(S) - 1
<1>1. IsFiniteSet(S) /\ Cardinality(S) \in Nat /\ Cardinality(S \ {w}) \in Nat
    BY WorkersCounted, FS_RemoveElement
<1>2. Cardinality(S \ {w}) = Cardinality(S) - 1
    BY <1>1, FS_RemoveElement
<1> QED
    BY <1>1, <1>2

LEMMA ContentsGrow ==
    ASSUME NEW S, NEW s \in Seq(S), NEW e \in S
    PROVE  Append(s, e) \in Seq(S) /\ Len(Append(s, e)) = Len(s) + 1
           /\ Contents(Append(s, e)) = Contents(s) \cup {e}
<1>1. /\ Append(s, e) \in Seq(S) /\ Len(Append(s, e)) = Len(s) + 1 /\ Len(s) \in Nat
      /\ \A i \in 1 .. Len(s) : Append(s, e)[i] = s[i]
      /\ Append(s, e)[Len(s) + 1] = e
    BY AppendProperties, LenProperties
<1>2. \A i \in 1 .. Len(s) + 1 : i \in 1 .. Len(s) \/ i = Len(s) + 1
    BY <1>1
<1>3. 1 .. Len(s) \subseteq 1 .. Len(s) + 1 /\ Len(s) + 1 \in 1 .. Len(s) + 1
    BY <1>1
<1> QED
    BY <1>1, <1>2, <1>3 DEF Contents

LEMMA ContentsShrink ==
    ASSUME NEW S, NEW s \in Seq(S), s # <<>>
    PROVE  /\ Head(s) \in S /\ Head(s) = s[1] /\ Tail(s) \in Seq(S) /\ Len(s) \in Nat \ {0}
           /\ Len(Tail(s)) = Len(s) - 1
           /\ \A i \in 1 .. Len(Tail(s)) : Tail(s)[i] = s[i + 1]
           /\ Contents(s) = Contents(Tail(s)) \cup {Head(s)}
<1>1. /\ Head(s) \in S /\ Head(s) = s[1] /\ Tail(s) \in Seq(S) /\ Len(s) \in Nat \ {0}
      /\ Len(Tail(s)) = Len(s) - 1 /\ \A i \in 1 .. Len(Tail(s)) : Tail(s)[i] = s[i + 1]
    BY HeadTailProperties, EmptySeq, LenProperties
<1>2. \A i \in 1 .. Len(s) : i = 1 \/ (i - 1 \in 1 .. Len(Tail(s)) /\ s[i] = Tail(s)[i - 1])
    BY <1>1
<1>3. \A i \in 1 .. Len(Tail(s)) : i + 1 \in 1 .. Len(s) /\ Tail(s)[i] = s[i + 1]
    BY <1>1
<1>4. 1 \in 1 .. Len(s)
    BY <1>1
<1>5. Contents(s) \subseteq Contents(Tail(s)) \cup {Head(s)}
    BY <1>1, <1>2 DEF Contents
<1>6. Contents(Tail(s)) \cup {Head(s)} \subseteq Contents(s)
    BY <1>1, <1>3, <1>4 DEF Contents
<1> QED
    BY <1>1, <1>5, <1>6

(* Every task of a phase has its place.                                       *)
LEMMA PhasesTyped ==
    /\ Len(Phases) \in Nat \ {0}
    /\ \A i \in 1 .. Len(Phases) : Phases[i] \in Seq(Nat) /\ Len(Phases[i]) \in Nat
    /\ \A i \in 1 .. Len(Phases) : \A j \in 1 .. Len(Phases[i]) : Phases[i][j] \in AllTasks
    /\ \A t \in AllTasks : \E i \in 1 .. Len(Phases) : \E j \in 1 .. Len(Phases[i]) : t = Phases[i][j]
<1>1. Phases \in Seq(Seq(Nat)) /\ Phases # <<>>
    BY RefreshConstants
<1>2. Len(Phases) \in Nat \ {0}
    BY <1>1, EmptySeq
<1>3. \A i \in 1 .. Len(Phases) : Phases[i] \in Seq(Nat)
    BY <1>1, ElementOfSeq
<1>4. \A i \in 1 .. Len(Phases) : Len(Phases[i]) \in Nat
    BY <1>3, LenProperties
<1>5. AllTasks = UNION {Contents(Phases[i]) : i \in 1 .. Len(Phases)}
    BY DEF AllTasks, Contents
<1>6. \A i \in 1 .. Len(Phases) : \A j \in 1 .. Len(Phases[i]) : Phases[i][j] \in AllTasks
    BY <1>5 DEF Contents
<1>7. \A t \in AllTasks : \E i \in 1 .. Len(Phases) : \E j \in 1 .. Len(Phases[i]) : t = Phases[i][j]
    BY <1>5 DEF Contents
<1> QED
    BY <1>2, <1>3, <1>4, <1>6, <1>7

-----------------------------------------------------------------------------
(* Steps that only move workers.                                              *)

Known(e, failed) ==
    /\ e = "cancelled" => Stopped
    /\ e \in {"fetch", "write"} => failed > 0

(* A worker goes on with its task, or has its result: that it was denied, or  *)
(* an error that it has a reason for.                                         *)
Moved(p, q, failed) ==
    /\ q \in WorkerStates /\ q.task = p.task
    /\ p.at \in WorkingStages =>
        \/ q.at \in WorkingStages /\ q.error = p.error
        \/ q.at = "report" /\ q.error = p.error /\ p.task \in Deniable
        \/ q.at = "report" /\ q.error # NoError /\ (main.at = "tasks" => Known(q.error, failed))
    /\ p.at \notin WorkingStages => q.error = p.error /\ (q.at = p.at \/ (p.at = "idle" /\ q.at = "gone"))

WorkersMove ==
    /\ worker' \in [Collectors -> WorkerStates]
    /\ \A w \in Collectors : Moved(worker[w], worker'[w], faults')
    /\ faults' \in Nat /\ faults' >= faults
    /\ limiter' \in LimiterStates /\ limiter'.inFlight = Cardinality(Requesting')
    /\ UNCHANGED <<main, jobs, results, pump, cancelled>>

LEMMA WorkerIs ==
    ASSUME NEW q \in WorkerStates
    PROVE  /\ q.at \in WorkingStages \cup {"idle", "report", "gone"}
           /\ q.task \in AllTasks \cup {0} /\ q.try \in 1 .. MaxTries /\ q.error \in Failures
BY DEF WorkerStates

LEMMA MovedFacts ==
    ASSUME RefreshTyped, RefreshStages, WorkersMove, NEW w \in Collectors
    PROVE  /\ OutOfPhase(w)' <=> OutOfPhase(w)
           /\ worker'[w].task = worker[w].task
           /\ Working(w)' => Working(w) /\ worker'[w].error = NoError
           /\ ~Working(w) => worker'[w].error = worker[w].error
           /\ Working(w) => Working(w)' \/ worker[w].task \in Deniable \/ worker'[w].error # NoError
           /\ main.at = "tasks" => worker'[w].error = worker[w].error \/ Known(worker'[w].error, faults')
<1> DEFINE p == worker[w]
           q == worker'[w]
<1>1. p \in WorkerStates /\ q \in WorkerStates /\ Moved(p, q, faults')
    BY DEF RefreshTyped, WorkersMove
<1>2. p.at \in WorkingStages => p.error = NoError
    BY DEF RefreshStages, Working
<1>3. /\ p.at \in WorkingStages \cup {"idle", "report", "gone"}
      /\ q.at \in WorkingStages \cup {"idle", "report", "gone"}
    BY <1>1, WorkerIs
<1> HIDE DEF p, q
<1>4. /\ q.at \in {"idle", "gone"} <=> p.at \in {"idle", "gone"}
      /\ q.task = p.task
      /\ q.at \in WorkingStages => p.at \in WorkingStages /\ q.error = NoError
      /\ p.at \notin WorkingStages => q.error = p.error
      /\ p.at \in WorkingStages => q.at \in WorkingStages \/ p.task \in Deniable \/ q.error # NoError
      /\ main.at = "tasks" => q.error = p.error \/ Known(q.error, faults')
    BY <1>1, <1>2, <1>3 DEF Moved, WorkingStages
<1> QED
    BY <1>4 DEF p, q, OutOfPhase, Working

LEMMA MovesKeepTyped == RefreshTyped /\ WorkersMove => RefreshTyped'
<1> SUFFICES ASSUME RefreshTyped, WorkersMove PROVE RefreshTyped'
    OBVIOUS
<1>1. UNCHANGED <<main, jobs, results, pump, cancelled>> /\ faults' \in Nat
    BY DEF WorkersMove
<1>2. worker' \in [Collectors -> WorkerStates] /\ limiter' \in LimiterStates
      /\ limiter'.inFlight = Cardinality(Requesting')
    BY DEF WorkersMove
<1> QED
    BY <1>1, <1>2 DEF RefreshTyped

LEMMA MovesKeepStages == RefreshTyped /\ RefreshStages /\ WorkersMove => RefreshStages'
<1> SUFFICES ASSUME RefreshTyped, RefreshStages, WorkersMove PROVE RefreshStages'
    OBVIOUS
<1>1. UNCHANGED <<main, jobs, results, pump, cancelled>>
    BY DEF WorkersMove
<1>2. \A w \in Collectors : OutOfPhase(w)' <=> OutOfPhase(w)
    BY MovedFacts
<1>3. \A w \in Collectors : Working(w)' => worker'[w].task \in AllTasks /\ worker'[w].error = NoError
    BY MovedFacts DEF RefreshStages
<1>4. Ended' <=> Ended
    BY <1>1 DEF Ended
<1> QED
    BY <1>1, <1>2, <1>3, <1>4 DEF RefreshStages

LEMMA MovesKeepCauses ==
    RefreshTyped /\ RefreshStages /\ CausesKnown /\ ErrorsKnown /\ WorkersMove => CausesKnown' /\ ErrorsKnown'
<1> SUFFICES ASSUME RefreshTyped, RefreshStages, CausesKnown, ErrorsKnown, WorkersMove
             PROVE  CausesKnown' /\ ErrorsKnown'
    OBVIOUS
<1>1. UNCHANGED <<main, jobs, results, pump, cancelled>> /\ faults \in Nat /\ faults' \in Nat /\ faults' >= faults
    BY DEF WorkersMove, RefreshTyped
<1>2. CausesKnown'
    BY <1>1 DEF CausesKnown, Stopped, Ended
<1>3. ASSUME main.at = "tasks", NEW w \in Collectors PROVE ErrorKnown(worker[w].error)'
    <2>1. worker'[w].error = worker[w].error \/ Known(worker'[w].error, faults')
        BY <1>3, MovedFacts
    <2>2. ErrorKnown(worker[w].error)
        BY <1>3 DEF ErrorsKnown
    <2> QED
        BY <1>1, <2>1, <2>2 DEF ErrorKnown, Known, Stopped
<1>4. ASSUME main.at = "tasks", NEW i \in 1 .. Len(results) PROVE ErrorKnown(results[i])'
    <2>1. ErrorKnown(results[i])
        BY <1>4 DEF ErrorsKnown
    <2> QED
        BY <1>1, <2>1 DEF ErrorKnown, Stopped
<1> QED
    BY <1>1, <1>2, <1>3, <1>4 DEF ErrorsKnown

LEMMA MovesKeepTasks ==
    RefreshTyped /\ RefreshStages /\ JobsInOrder /\ TasksKept /\ WorkersMove => JobsInOrder' /\ TasksKept'
<1> SUFFICES ASSUME RefreshTyped, RefreshStages, JobsInOrder, TasksKept, WorkersMove
             PROVE  JobsInOrder' /\ TasksKept'
    OBVIOUS
<1>1. UNCHANGED <<main, jobs, results, pump, cancelled>>
    BY DEF WorkersMove
<1>2. /\ \A w \in Collectors : OutOfPhase(w)' <=> OutOfPhase(w)
      /\ \A w \in Collectors : worker'[w].task = worker[w].task
      /\ \A w \in Collectors : Working(w)' => Working(w)
      /\ \A w \in Collectors : ~Working(w) => worker'[w].error = worker[w].error
      /\ \A w \in Collectors :
          Working(w) => Working(w)' \/ worker[w].task \in Deniable \/ worker'[w].error # NoError
    BY MovedFacts
<1>3. BusyWorkers' = BusyWorkers
    BY <1>2 DEF BusyWorkers
<1>4. Answered' = Answered /\ Taken' = Taken /\ TakenTasks' = TakenTasks /\ Sent' = Sent /\ Earlier' = Earlier
    BY <1>1, <1>3 DEF Answered, Taken, TakenTasks, Sent, Earlier, PhaseTasks
<1>5. JobsInOrder'
    BY <1>1, <1>4 DEF JobsInOrder, PhaseTasks
<1>6. \A w \in BusyWorkers : worker[w].error # NoError => worker'[w].error # NoError
    BY <1>2 DEF BusyWorkers, RefreshStages
<1>7. Trouble => Trouble'
    BY <1>1, <1>3, <1>4, <1>6 DEF Trouble
<1>8. ASSUME NEW w \in Collectors, Working(w), worker'[w].error # NoError PROVE Trouble'
    <2>1. ~OutOfPhase(w)
        BY <1>8 DEF Working, OutOfPhase, WorkingStages
    <2>2. w \in BusyWorkers'
        BY <1>3, <2>1 DEF BusyWorkers
    <2> QED
        BY <1>8, <2>2 DEF Trouble
<1>9. ASSUME main.error = NoError, pump.error = NoError PROVE TasksKept'
    <2>1. /\ IsFiniteSet(Sent) /\ Cardinality(Sent) = Len(pump.written) + Len(pump.queue)
          /\ Earlier \subseteq Sent \cup Deniable
        BY <1>9 DEF TasksKept
    <2>2. ASSUME main.at = "tasks"
          PROVE  /\ Sent' \subseteq (Earlier \cup TakenTasks)'
                 /\ \A w \in Collectors : Working(w)' => worker'[w].task \in (TakenTasks \ Sent)'
                 /\ \A v, w \in Collectors :
                     Working(v)' /\ Working(w)' /\ worker'[v].task = worker'[w].task => v = w
        BY <1>2, <1>4, <1>9, <2>2 DEF TasksKept
    <2>3. ASSUME main.at = "tasks", ~Trouble', NEW t \in TakenTasks
          PROVE  t \in Sent \cup Deniable \/ \E w \in Collectors : Working(w)' /\ worker'[w].task = t
        <3>1. t \in Sent \cup Deniable \/ \E w \in Collectors : Working(w) /\ worker[w].task = t
            BY <1>7, <1>9, <2>3 DEF TasksKept
        <3> QED
            BY <1>2, <1>8, <2>3, <3>1
    <2> QED
        BY <1>1, <1>4, <2>1, <2>2, <2>3 DEF TasksKept
<1>10. ~(main.error = NoError /\ pump.error = NoError) => TasksKept'
    BY <1>1 DEF TasksKept
<1> QED
    BY <1>5, <1>9, <1>10


LEMMA WorkersMoveSafely == RefreshInv /\ WorkersMove => RefreshInv'
<1> SUFFICES ASSUME RefreshInv, WorkersMove PROVE RefreshInv'
    OBVIOUS
<1>1. AnswerTrue'
    BY DEF WorkersMove, RefreshInv, AnswerTrue, Denied, RefreshTyped
<1> QED
    BY <1>1, MovesKeepTyped, MovesKeepStages, MovesKeepCauses, MovesKeepTasks DEF RefreshInv

-----------------------------------------------------------------------------
(* The steps of one worker that leave the channels alone.                     *)

At(q, at) == [q EXCEPT !.at = at]
Reports(q, e) == [q EXCEPT !.at = "report", !.error = e]

LEMMA AtIs ==
    ASSUME NEW q \in WorkerStates, NEW at \in WorkingStages \cup {"idle", "report", "gone"}
    PROVE  /\ At(q, at) \in WorkerStates /\ At(q, at).at = at
           /\ At(q, at).task = q.task /\ At(q, at).error = q.error
BY DEF At, WorkerStates

LEMMA ReportsIs ==
    ASSUME NEW q \in WorkerStates, NEW e \in Failures
    PROVE  /\ Reports(q, e) \in WorkerStates /\ Reports(q, e).at = "report"
           /\ Reports(q, e).task = q.task /\ Reports(q, e).error = e
BY DEF Reports, WorkerStates

LEMMA GotoIs ==
    ASSUME RefreshTyped, NEW w \in Collectors, NEW at, Goto(w, at)
    PROVE  worker' = [worker EXCEPT ![w] = At(worker[w], at)]
BY DEF Goto, At, RefreshTyped

LEMMA FailsIs ==
    ASSUME RefreshTyped, NEW w \in Collectors, NEW e, Fails(w, e)
    PROVE  worker' = [worker EXCEPT ![w] = Reports(worker[w], e)]
BY DEF Fails, Reports, RefreshTyped

LEMMA WorkerAfter ==
    ASSUME RefreshTyped, NEW w \in Collectors, NEW r \in WorkerStates, worker' = [worker EXCEPT ![w] = r]
    PROVE  /\ worker' \in [Collectors -> WorkerStates] /\ worker'[w] = r /\ worker[w] \in WorkerStates
           /\ \A v \in Collectors : v # w => worker'[v] = worker[v]
BY DEF RefreshTyped

LEMMA RequestsAfter ==
    ASSUME RefreshTyped, NEW w \in Collectors, worker' \in [Collectors -> WorkerStates],
           \A v \in Collectors : v # w => (worker'[v].at = "request" <=> worker[v].at = "request")
    PROVE  /\ (worker'[w].at = "request" <=> worker[w].at = "request") =>
                Cardinality(Requesting') = Cardinality(Requesting)
           /\ worker'[w].at = "request" /\ worker[w].at # "request" =>
                Cardinality(Requesting') = Cardinality(Requesting) + 1
           /\ worker'[w].at # "request" /\ worker[w].at = "request" =>
                Cardinality(Requesting) >= 1 /\ Cardinality(Requesting') = Cardinality(Requesting) - 1
           /\ Cardinality(Requesting') \in 0 .. MaxConcurrency
<1>1. Requesting \in SUBSET Collectors /\ Requesting' \in SUBSET Collectors
    BY DEF Requesting
<1>2. ASSUME worker'[w].at = "request" <=> worker[w].at = "request" PROVE Requesting' = Requesting
    BY <1>2 DEF Requesting
<1>3. ASSUME worker'[w].at = "request", worker[w].at # "request"
      PROVE  Requesting' = Requesting \cup {w} /\ w \notin Requesting
    BY <1>3 DEF Requesting
<1>4. ASSUME worker'[w].at # "request", worker[w].at = "request"
      PROVE  Requesting' = Requesting \ {w} /\ w \in Requesting
    BY <1>4 DEF Requesting
<1>5. Cardinality(Requesting') \in 0 .. MaxConcurrency
    BY <1>1, WorkersCounted
<1>6. worker'[w].at = "request" /\ worker[w].at # "request" =>
          Cardinality(Requesting') = Cardinality(Requesting) + 1
    BY <1>1, <1>3, OneMoreWorker
<1>7. worker'[w].at # "request" /\ worker[w].at = "request" =>
          Cardinality(Requesting) >= 1 /\ Cardinality(Requesting') = Cardinality(Requesting) - 1
    BY <1>1, <1>4, OneWorkerLess
<1> QED
    BY <1>2, <1>5, <1>6, <1>7

LEMMA OneMoves ==
    ASSUME RefreshTyped, NEW w \in Collectors, NEW r \in WorkerStates, worker' = [worker EXCEPT ![w] = r],
           Moved(worker[w], r, faults'), UNCHANGED <<main, jobs, results, pump, cancelled, faults>>,
           limiter' \in LimiterStates, limiter'.inFlight = Cardinality(Requesting')
    PROVE  WorkersMove
<1>1. /\ worker' \in [Collectors -> WorkerStates] /\ worker'[w] = r
      /\ \A v \in Collectors : v # w => worker'[v] = worker[v] /\ worker[v] \in WorkerStates
    BY WorkerAfter DEF RefreshTyped
<1>2. \A v \in Collectors : v # w => Moved(worker[v], worker'[v], faults')
    BY <1>1 DEF Moved
<1>3. faults \in Nat /\ faults' = faults
    BY DEF RefreshTyped
<1> QED
    BY <1>1, <1>2, <1>3 DEF WorkersMove

LEMMA PhaseEnded ==
    ASSUME CausesKnown, main.at = "tasks", "phase" \in cancelled
    PROVE  Stopped
BY DEF CausesKnown, Ended

LEMMA LeavePoolMoves ==
    ASSUME RefreshInv, NEW w \in Collectors, LeavePool(w)
    PROVE  WorkersMove
<1> DEFINE r == At(worker[w], "gone")
<1>1. RefreshTyped /\ worker[w] \in WorkerStates
    BY DEF RefreshInv, RefreshTyped
<1>2. /\ worker[w].at = "idle" /\ worker' = [worker EXCEPT ![w] = r]
      /\ UNCHANGED <<main, jobs, results, limiter, pump, cancelled, faults>>
    BY <1>1, GotoIs DEF LeavePool
<1>3. r \in WorkerStates /\ r.at = "gone" /\ r.task = worker[w].task /\ r.error = worker[w].error
    BY <1>1, AtIs
<1> HIDE DEF r
<1>4. Moved(worker[w], r, faults')
    BY <1>2, <1>3 DEF Moved, WorkingStages
<1>5. Cardinality(Requesting') = Cardinality(Requesting)
    BY <1>1, <1>2, <1>3, WorkerAfter, RequestsAfter
<1>6. limiter' \in LimiterStates /\ limiter'.inFlight = Cardinality(Requesting')
    BY <1>1, <1>2, <1>5 DEF RefreshTyped
<1> QED
    BY <1>1, <1>2, <1>3, <1>4, <1>6, OneMoves

(* A worker that waits is told that its phase is over.                        *)
LEMMA CancelMoves ==
    ASSUME RefreshInv, NEW w \in Collectors, worker[w].at \in WorkingStages, "phase" \in cancelled,
           Fails(w, "cancelled"), worker[w].at # "request",
           UNCHANGED <<main, jobs, results, limiter, pump, cancelled, faults>>
    PROVE  WorkersMove
<1> DEFINE r == Reports(worker[w], "cancelled")
<1>1. RefreshTyped /\ worker[w] \in WorkerStates /\ CausesKnown
    BY DEF RefreshInv, RefreshTyped
<1>2. worker' = [worker EXCEPT ![w] = r]
    BY <1>1, FailsIs
<1>3. r \in WorkerStates /\ r.at = "report" /\ r.task = worker[w].task /\ r.error = "cancelled"
    BY <1>1, ReportsIs DEF Failures
<1> HIDE DEF r
<1>4. main.at = "tasks" => Known("cancelled", faults')
    BY <1>1, PhaseEnded DEF Known
<1>5. Moved(worker[w], r, faults')
    BY <1>3, <1>4 DEF Moved, NoError
<1>6. Cardinality(Requesting') = Cardinality(Requesting)
    BY <1>1, <1>2, <1>3, WorkerAfter, RequestsAfter
<1>7. limiter' \in LimiterStates /\ limiter'.inFlight = Cardinality(Requesting')
    BY <1>1, <1>6 DEF RefreshTyped
<1> QED
    BY <1>1, <1>2, <1>3, <1>5, <1>7, OneMoves

LEMMA StopWaitingMoves ==
    ASSUME RefreshInv, NEW w \in Collectors, StopWaiting(w)
    PROVE  WorkersMove
<1>1. /\ worker[w].at \in WorkingStages /\ "phase" \in cancelled /\ Fails(w, "cancelled")
      /\ worker[w].at # "request"
      /\ UNCHANGED <<main, jobs, results, limiter, pump, cancelled, faults>>
    BY DEF StopWaiting, WorkingStages
<1> QED
    BY <1>1, CancelMoves

(* A worker goes from one stage of its task to another.                       *)
LEMMA GoesOn ==
    ASSUME RefreshInv, NEW w \in Collectors, NEW at \in WorkingStages, worker[w].at \in WorkingStages,
           Goto(w, at), UNCHANGED <<main, jobs, results, pump, cancelled, faults>>,
           worker[w].at # "request",
           IF at = "request" THEN limiter' = [limiter EXCEPT !.inFlight = @ + 1] ELSE limiter' = limiter
    PROVE  WorkersMove
<1> DEFINE r == At(worker[w], at)
<1>1. RefreshTyped /\ worker[w] \in WorkerStates
    BY DEF RefreshInv, RefreshTyped
<1>2. worker' = [worker EXCEPT ![w] = r]
    BY <1>1, GotoIs
<1>3. r \in WorkerStates /\ r.at = at /\ r.task = worker[w].task /\ r.error = worker[w].error
    BY <1>1, AtIs
<1> HIDE DEF r
<1>4. Moved(worker[w], r, faults')
    BY <1>3 DEF Moved
<1>5. /\ Cardinality(Requesting') = IF at = "request" THEN Cardinality(Requesting) + 1 ELSE Cardinality(Requesting)
      /\ Cardinality(Requesting') \in 0 .. MaxConcurrency
    BY <1>1, <1>2, <1>3, WorkerAfter, RequestsAfter
<1>6. limiter' \in LimiterStates /\ limiter'.inFlight = Cardinality(Requesting')
    BY <1>1, <1>5 DEF RefreshTyped, LimiterStates
<1> QED
    BY <1>1, <1>2, <1>3, <1>4, <1>6, OneMoves

LEMMA BackoffEndsMoves ==
    ASSUME RefreshInv, NEW w \in Collectors, BackoffEnds(w)
    PROVE  WorkersMove
<1>1. /\ worker[w].at \in WorkingStages /\ worker[w].at # "request" /\ Goto(w, "acquire")
      /\ UNCHANGED <<main, jobs, results, pump, cancelled, faults>> /\ limiter' = limiter
    BY DEF BackoffEnds, WorkingStages
<1>2. "acquire" \in WorkingStages
    BY DEF WorkingStages
<1> QED
    BY <1>1, <1>2, GoesOn

LEMMA AcquireMoves ==
    ASSUME RefreshInv, NEW w \in Collectors, Acquire(w)
    PROVE  WorkersMove
<1>1. /\ worker[w].at \in WorkingStages /\ worker[w].at # "request"
      /\ UNCHANGED <<main, jobs, results, pump, cancelled, faults>>
      /\ {"request", "cooling", "parked"} \subseteq WorkingStages
    BY DEF Acquire, WorkingStages
<1>2. CASE "phase" \in cancelled
    BY <1>1, <1>2, CancelMoves DEF Acquire
<1>3. CASE "phase" \notin cancelled /\ limiter.cooldown
    BY <1>1, <1>3, GoesOn DEF Acquire
<1>4. CASE "phase" \notin cancelled /\ ~limiter.cooldown /\ limiter.inFlight < limiter.limit
    BY <1>1, <1>4, GoesOn DEF Acquire
<1>5. CASE "phase" \notin cancelled /\ ~limiter.cooldown /\ ~(limiter.inFlight < limiter.limit)
    BY <1>1, <1>5, GoesOn DEF Acquire
<1> QED
    BY <1>2, <1>3, <1>4, <1>5

-----------------------------------------------------------------------------
(* Requests that end, and the workers that wait for the limiter.              *)

LEMMA ReleasedIs ==
    ASSUME limiter \in LimiterStates, limiter.inFlight >= 1,
           NEW s \in BOOLEAN, NEW t \in BOOLEAN, NEW c \in BOOLEAN
    PROVE  Released(s, t, c) \in LimiterStates /\ Released(s, t, c).inFlight = limiter.inFlight - 1
<1> DEFINE cooling == limiter.cooldown \/ c
           count == IF limiter.successes < MaxConcurrency THEN limiter.successes + 1 ELSE MaxConcurrency
           grows == count >= limiter.limit /\ limiter.limit < MaxConcurrency
           newLimit == IF t THEN (IF limiter.limit = 1 THEN 1 ELSE limiter.limit \div 2)
                       ELSE IF s /\ ~cooling /\ grows THEN limiter.limit + 1 ELSE limiter.limit
           newSuccesses == IF t \/ (s /\ ~cooling /\ grows) THEN 0
                           ELSE IF s /\ ~cooling THEN count ELSE limiter.successes
<1>1. /\ limiter.limit \in 1 .. MaxConcurrency /\ limiter.inFlight \in 0 .. MaxConcurrency
      /\ limiter.successes \in 0 .. MaxConcurrency /\ limiter.cooldown \in BOOLEAN
    BY DEF LimiterStates
<1>2. MaxConcurrency \in Nat
    BY WorkersCounted DEF MaxConcurrency
<1>3. count \in 0 .. MaxConcurrency
    BY <1>1, <1>2
<1>4. limiter.limit # 1 => limiter.limit \div 2 \in 1 .. MaxConcurrency
    BY <1>1, <1>2
<1>5. newLimit \in 1 .. MaxConcurrency
    BY <1>1, <1>2, <1>4
<1>6. newSuccesses \in 0 .. MaxConcurrency
    BY <1>1, <1>2, <1>3
<1>7. Released(s, t, c) = [limiter EXCEPT !.inFlight = @ - 1, !.cooldown = cooling,
                              !.limit = newLimit, !.successes = newSuccesses]
    BY DEF Released
<1>8. cooling \in BOOLEAN /\ limiter.inFlight - 1 \in 0 .. MaxConcurrency
    BY <1>1, <1>2
<1> HIDE DEF cooling, newLimit, newSuccesses
<1> QED
    BY <1>5, <1>6, <1>7, <1>8 DEF LimiterStates

(* Waking moves those who wait back to where they ask for a slot.             *)
LEMMA WokenIs ==
    ASSUME NEW ws \in [Collectors -> WorkerStates], NEW b \in BOOLEAN
    PROVE  /\ Woken(ws, b) \in [Collectors -> WorkerStates]
           /\ \A v \in Collectors :
               Woken(ws, b)[v] = IF b /\ ws[v].at \in {"parked", "cooling"} THEN At(ws[v], "acquire") ELSE ws[v]
<1>1. \A v \in Collectors :
          Woken(ws, b)[v] = IF b /\ ws[v].at \in {"parked", "cooling"} THEN At(ws[v], "acquire") ELSE ws[v]
    BY DEF Woken, At
<1>2. \A v \in Collectors : ws[v] \in WorkerStates /\ At(ws[v], "acquire") \in WorkerStates
    BY AtIs DEF WorkingStages
<1>3. Woken(ws, b) = [v \in Collectors |->
          IF b /\ ws[v].at \in {"parked", "cooling"} THEN At(ws[v], "acquire") ELSE ws[v]]
    BY DEF Woken, At
<1> QED
    BY <1>1, <1>2, <1>3

LEMMA WokenMoves ==
    ASSUME NEW p \in WorkerStates, NEW q, q = p \/ (p.at \in {"parked", "cooling"} /\ q = At(p, "acquire")), NEW n
    PROVE  Moved(p, q, n) /\ (q.at = "request" <=> p.at = "request")
<1>1. CASE q = p
    BY <1>1 DEF Moved
<1>2. CASE p.at \in {"parked", "cooling"} /\ q = At(p, "acquire")
    <2>1. /\ "acquire" \in WorkingStages /\ p.at \in WorkingStages /\ p.at # "request"
          /\ q \in WorkerStates /\ q.at = "acquire" /\ q.task = p.task /\ q.error = p.error
        BY <1>2, AtIs DEF WorkingStages
    <2> QED
        BY <2>1 DEF Moved
<1> QED
    BY <1>1, <1>2

(* A request of w ends: its slot is free, and whoever waits may be woken.     *)
LEMMA RequestEnds ==
    ASSUME RefreshInv, NEW w \in Collectors, worker[w].at = "request",
           NEW r \in WorkerStates, r.at \notin {"parked", "cooling", "request"},
           Moved(worker[w], r, faults'), NEW b \in BOOLEAN,
           worker' = Woken([worker EXCEPT ![w] = r], b),
           NEW s \in BOOLEAN, NEW t \in BOOLEAN, NEW c \in BOOLEAN, limiter' = Released(s, t, c),
           UNCHANGED <<main, jobs, results, pump, cancelled>>, faults' \in {faults, faults + 1}
    PROVE  WorkersMove
<1> DEFINE ws == [worker EXCEPT ![w] = r]
<1>1. /\ RefreshTyped /\ worker \in [Collectors -> WorkerStates] /\ limiter \in LimiterStates
      /\ limiter.inFlight = Cardinality(Requesting) /\ faults \in Nat
    BY DEF RefreshInv, RefreshTyped
<1>2. /\ ws \in [Collectors -> WorkerStates] /\ ws[w] = r
      /\ \A v \in Collectors : v # w => ws[v] = worker[v] /\ worker[v] \in WorkerStates
    BY <1>1
<1> HIDE DEF ws
<1>3. /\ worker' \in [Collectors -> WorkerStates]
      /\ \A v \in Collectors :
          worker'[v] = IF b /\ ws[v].at \in {"parked", "cooling"} THEN At(ws[v], "acquire") ELSE ws[v]
    BY <1>2, WokenIs DEF ws
<1>4. worker'[w] = r
    BY <1>2, <1>3
<1>5. \A v \in Collectors : v # w =>
          /\ worker[v] \in WorkerStates
          /\ worker'[v] = worker[v] \/ (worker[v].at \in {"parked", "cooling"} /\ worker'[v] = At(worker[v], "acquire"))
    BY <1>2, <1>3
<1>6. \A v \in Collectors : v # w =>
          Moved(worker[v], worker'[v], faults') /\ (worker'[v].at = "request" <=> worker[v].at = "request")
    BY <1>5, WokenMoves
<1>7. Cardinality(Requesting) >= 1 /\ Cardinality(Requesting') = Cardinality(Requesting) - 1
    BY <1>1, <1>3, <1>4, <1>6, RequestsAfter
<1>8. limiter' \in LimiterStates /\ limiter'.inFlight = Cardinality(Requesting')
    BY <1>1, <1>7, ReleasedIs
<1>9. faults' \in Nat /\ faults' >= faults
    BY <1>1
<1> QED
    BY <1>3, <1>4, <1>6, <1>8, <1>9 DEF WorkersMove

LEMMA RequestCancelledMoves ==
    ASSUME RefreshInv, NEW w \in Collectors, RequestCancelled(w)
    PROVE  WorkersMove
<1> DEFINE r == Reports(worker[w], "cancelled")
           b == Wakes(FALSE, limiter')
<1>1. /\ RefreshTyped /\ worker[w] \in WorkerStates /\ CausesKnown /\ worker \in [Collectors -> WorkerStates]
      /\ worker[w].at = "request" /\ "phase" \in cancelled /\ limiter' = Released(FALSE, FALSE, FALSE)
      /\ UNCHANGED <<main, jobs, results, pump, cancelled, faults>>
    BY DEF RefreshInv, RefreshTyped, RequestCancelled
<1>2. worker' = Woken([worker EXCEPT ![w] = r], b)
    BY <1>1 DEF RequestCancelled, Reports
<1>3. b \in BOOLEAN
    BY DEF Wakes
<1>4. r \in WorkerStates /\ r.at = "report" /\ r.task = worker[w].task /\ r.error = "cancelled"
    BY <1>1, ReportsIs DEF Failures
<1> HIDE DEF r, b
<1>5. main.at = "tasks" => Known("cancelled", faults')
    BY <1>1, PhaseEnded DEF Known
<1>6. Moved(worker[w], r, faults')
    BY <1>1, <1>4, <1>5 DEF Moved, NoError, WorkingStages
<1>7. r.at \notin {"parked", "cooling", "request"} /\ faults' \in {faults, faults + 1}
    BY <1>1, <1>4
<1> QED
    BY <1>1, <1>2, <1>3, <1>4, <1>6, <1>7, RequestEnds

LEMMA AnswerMoves ==
    ASSUME RefreshInv, NEW w \in Collectors, NEW answer \in Answers, Fetch(w, answer)
    PROVE  /\ AfterAnswer(w, answer) \in WorkerStates
           /\ AfterAnswer(w, answer).at \notin {"parked", "cooling", "request"}
           /\ Moved(worker[w], AfterAnswer(w, answer), faults')
<1> DEFINE me == worker[w]
           r == AfterAnswer(w, answer)
<1>1. /\ RefreshTyped /\ CausesKnown /\ me \in WorkerStates /\ me.at = "request" /\ faults \in Nat
      /\ answer = "denied" => me.task \in Deniable
      /\ faults' = IF answer \in {"page", "denied"} THEN faults ELSE faults + 1
    BY DEF RefreshInv, RefreshTyped, Fetch
<1>2. me.at \in WorkingStages /\ {"emit", "acquire", "backoff"} \subseteq WorkingStages
    BY <1>1 DEF WorkingStages
<1>3. CASE answer = "page"
    <2>1. r = At(me, "emit")
        BY <1>3 DEF AfterAnswer, At
    <2>2. "emit" \in WorkingStages \cup {"idle", "report", "gone"}
        BY <1>2
    <2>3. r \in WorkerStates /\ r.at = "emit" /\ r.task = me.task /\ r.error = me.error
        BY <1>1, <2>1, <2>2, AtIs
    <2> QED
        BY <1>2, <2>3 DEF Moved
<1>4. CASE answer # "page" /\ "phase" \in cancelled
    <2>1. r = Reports(me, "cancelled")
        BY <1>4 DEF AfterAnswer, Reports
    <2>2. r \in WorkerStates /\ r.at = "report" /\ r.task = me.task /\ r.error = "cancelled"
        BY <1>1, <2>1, ReportsIs DEF Failures
    <2>3. main.at = "tasks" => Known("cancelled", faults')
        BY <1>1, <1>4, PhaseEnded DEF Known
    <2> QED
        BY <1>2, <2>2, <2>3 DEF Moved, NoError
<1>5. CASE answer = "denied" /\ "phase" \notin cancelled
    <2>1. r = At(me, "report")
        BY <1>5 DEF AfterAnswer, At
    <2>2. r \in WorkerStates /\ r.at = "report" /\ r.task = me.task /\ r.error = me.error
        BY <1>1, <2>1, AtIs
    <2> QED
        BY <1>1, <1>2, <1>5, <2>2 DEF Moved
<1>6. CASE answer \notin {"page", "denied"} /\ "phase" \notin cancelled /\ (answer = "refused" \/ me.try = MaxTries)
    <2>1. r = Reports(me, "fetch")
        BY <1>6 DEF AfterAnswer, Reports
    <2>2. r \in WorkerStates /\ r.at = "report" /\ r.task = me.task /\ r.error = "fetch"
        BY <1>1, <2>1, ReportsIs DEF Failures
    <2>3. Known("fetch", faults')
        BY <1>1, <1>6 DEF Known
    <2> QED
        BY <1>2, <2>2, <2>3 DEF Moved, NoError
<1>7. CASE answer \notin {"page", "denied"} /\ "phase" \notin cancelled /\ ~(answer = "refused" \/ me.try = MaxTries)
    <2> DEFINE at == IF answer = "failed" THEN "backoff" ELSE "acquire"
    <2>1. r = [me EXCEPT !.at = at, !.try = @ + 1]
        BY <1>7 DEF AfterAnswer
    <2>2. MaxTries \in Nat \ {0} /\ me.try \in 1 .. MaxTries /\ me.try # MaxTries
        BY <1>1, <1>7, WorkerIs, RefreshConstants
    <2>3. me.try + 1 \in 1 .. MaxTries
        BY <2>2
    <2>4. at \in WorkingStages /\ at \in {"backoff", "acquire"}
        BY <1>2
    <2> HIDE DEF at, me
    <2>5. r \in WorkerStates /\ r.at = at /\ r.task = me.task /\ r.error = me.error
        BY <1>1, <2>1, <2>3, <2>4 DEF WorkerStates
    <2> QED
        BY <1>2, <2>4, <2>5 DEF Moved, me
<1> QED
    BY <1>3, <1>4, <1>5, <1>6, <1>7

LEMMA FetchMoves ==
    ASSUME RefreshInv, NEW w \in Collectors, NEW answer \in Answers, Fetch(w, answer)
    PROVE  WorkersMove
<1> DEFINE r == AfterAnswer(w, answer)
           b == Wakes(answer = "page", limiter')
<1>1. /\ worker[w].at = "request" /\ worker' = Woken([worker EXCEPT ![w] = r], b)
      /\ UNCHANGED <<main, jobs, results, pump, cancelled>> /\ faults' \in {faults, faults + 1}
    BY DEF Fetch
<1>2. PICK c \in BOOLEAN : limiter' = Released(answer = "page", answer = "throttled", c)
    BY DEF Fetch
<1>3. b \in BOOLEAN
    BY DEF Wakes
<1>4. r \in WorkerStates /\ r.at \notin {"parked", "cooling", "request"} /\ Moved(worker[w], r, faults')
    BY AnswerMoves
<1>5. (answer = "page") \in BOOLEAN /\ (answer = "throttled") \in BOOLEAN
    OBVIOUS
<1> HIDE DEF r, b
<1> QED
    BY <1>1, <1>2, <1>3, <1>4, <1>5, RequestEnds

LEMMA CooldownEndsMoves ==
    ASSUME RefreshInv, CooldownEnds
    PROVE  WorkersMove
<1>1. /\ RefreshTyped /\ worker \in [Collectors -> WorkerStates] /\ limiter \in LimiterStates
      /\ limiter.inFlight = Cardinality(Requesting) /\ faults \in Nat
      /\ UNCHANGED <<main, jobs, results, pump, cancelled, faults>>
      /\ limiter' = [limiter EXCEPT !.cooldown = FALSE]
    BY DEF RefreshInv, RefreshTyped, CooldownEnds
<1>2. worker' = [w \in Collectors |-> IF worker[w].at = "cooling" THEN At(worker[w], "acquire") ELSE worker[w]]
    BY DEF CooldownEnds, At
<1>3. \A w \in Collectors :
          /\ worker[w] \in WorkerStates
          /\ worker'[w] = worker[w] \/ (worker[w].at \in {"parked", "cooling"} /\ worker'[w] = At(worker[w], "acquire"))
    BY <1>1, <1>2
<1>4. \A w \in Collectors :
          Moved(worker[w], worker'[w], faults') /\ (worker'[w].at = "request" <=> worker[w].at = "request")
    BY <1>3, WokenMoves
<1>5. \A w \in Collectors : worker'[w] \in WorkerStates
    BY <1>4 DEF Moved
<1>6. worker' \in [Collectors -> WorkerStates]
    BY <1>2, <1>5
<1>7. Requesting' = Requesting
    BY <1>4 DEF Requesting
<1>8. limiter' \in LimiterStates /\ limiter'.inFlight = Cardinality(Requesting')
    BY <1>1, <1>7 DEF LimiterStates
<1> QED
    BY <1>1, <1>4, <1>6, <1>8 DEF WorkersMove

-----------------------------------------------------------------------------
(* The steps by which a worker receives a task and gives up its result.       *)

(* One worker changes: what that says of the others and of who is busy.       *)
LEMMA BusyAfter ==
    ASSUME NEW w \in Collectors, \A v \in Collectors : v # w => worker'[v] = worker[v]
    PROVE  /\ \A v \in Collectors : v # w => (Working(v)' <=> Working(v)) /\ (OutOfPhase(v)' <=> OutOfPhase(v))
           /\ (OutOfPhase(w)' <=> OutOfPhase(w)) => BusyWorkers' = BusyWorkers
           /\ OutOfPhase(w) /\ ~OutOfPhase(w)' =>
                BusyWorkers' = BusyWorkers \cup {w} /\ Cardinality(BusyWorkers') = Cardinality(BusyWorkers) + 1
           /\ ~OutOfPhase(w) /\ OutOfPhase(w)' =>
                BusyWorkers' = BusyWorkers \ {w} /\ Cardinality(BusyWorkers') = Cardinality(BusyWorkers) - 1
           /\ Cardinality(BusyWorkers) \in Nat /\ Cardinality(BusyWorkers') \in Nat
<1>1. \A v \in Collectors : v # w => (Working(v)' <=> Working(v)) /\ (OutOfPhase(v)' <=> OutOfPhase(v))
    BY DEF Working, OutOfPhase
<1>2. BusyWorkers \in SUBSET Collectors /\ BusyWorkers' \in SUBSET Collectors
    BY DEF BusyWorkers
<1>3. ASSUME OutOfPhase(w)' <=> OutOfPhase(w) PROVE BusyWorkers' = BusyWorkers
    BY <1>1, <1>3 DEF BusyWorkers
<1>4. ASSUME OutOfPhase(w), ~OutOfPhase(w)'
      PROVE  BusyWorkers' = BusyWorkers \cup {w} /\ w \notin BusyWorkers
    BY <1>1, <1>4 DEF BusyWorkers
<1>5. ASSUME ~OutOfPhase(w), OutOfPhase(w)' PROVE BusyWorkers' = BusyWorkers \ {w} /\ w \in BusyWorkers
    BY <1>1, <1>5 DEF BusyWorkers
<1>6. Cardinality(BusyWorkers) \in Nat /\ Cardinality(BusyWorkers') \in Nat
    BY <1>2, WorkersCounted
<1>7. OutOfPhase(w) /\ ~OutOfPhase(w)' => Cardinality(BusyWorkers') = Cardinality(BusyWorkers) + 1
    BY <1>2, <1>4, OneMoreWorker
<1>8. ~OutOfPhase(w) /\ OutOfPhase(w)' => Cardinality(BusyWorkers') = Cardinality(BusyWorkers) - 1
    BY <1>2, <1>5, OneWorkerLess
<1> QED
    BY <1>1, <1>3, <1>4, <1>5, <1>6, <1>7, <1>8

LEMMA MainIs ==
    ASSUME RefreshTyped
    PROVE  /\ main.phase \in 1 .. Len(Phases) + 1 /\ main.next \in Nat /\ main.completed \in Nat
           /\ main.at \in {"tasks", "unwind", "closing", "returned"} /\ main.error \in Failures
           /\ pump.queue \in Seq(AllTasks) /\ pump.written \in Seq(AllTasks)
           /\ pump.error \in {NoError, "write", "cancelled"}
           /\ pump.closed \in BOOLEAN /\ pump.running \in BOOLEAN
           /\ Len(jobs) \in Nat /\ Len(results) \in Nat
           /\ Len(pump.queue) \in Nat /\ Len(pump.written) \in Nat
BY LenProperties DEF RefreshTyped, MainStates, PumpStates

(* The next task in the channel is the next one of the phase, a new one.      *)
LEMMA NextTask ==
    ASSUME RefreshTyped, RefreshStages, JobsInOrder, main.at = "tasks", jobs # <<>>
    PROVE  /\ Taken + 1 \in 1 .. Len(PhaseTasks) /\ Head(jobs) = PhaseTasks[Taken + 1]
           /\ Head(jobs) \in AllTasks /\ Head(jobs) \notin TakenTasks \cup Earlier
<1>1. /\ main.next \in Nat /\ Len(jobs) \in Nat \ {0} /\ Head(jobs) = jobs[1] /\ Head(jobs) \in AllTasks
    BY MainIs, ContentsShrink DEF RefreshTyped
<1>2. main.phase \in 1 .. Len(Phases) /\ Len(PhaseTasks) \in Nat
    BY MainIs, PhasesTyped DEF RefreshStages, PhaseTasks
<1>3. /\ Taken \in Nat /\ main.next <= Len(PhaseTasks)
      /\ \A i \in 1 .. Len(jobs) : jobs[i] = PhaseTasks[Taken + i]
    BY DEF JobsInOrder
<1>4. Taken + 1 \in 1 .. Len(PhaseTasks) /\ Taken = main.next - Len(jobs)
    BY <1>1, <1>2, <1>3 DEF Taken
<1>5. Head(jobs) = PhaseTasks[Taken + 1]
    BY <1>1, <1>3
<1> DEFINE p == main.phase
           n == Taken + 1
<1>6. Head(jobs) = Phases[p][n] /\ p \in 1 .. Len(Phases) /\ n \in 1 .. Len(Phases[p])
    BY <1>2, <1>4, <1>5 DEF PhaseTasks
<1> HIDE DEF p
<1>7. ASSUME NEW k \in 1 .. Taken PROVE PhaseTasks[k] # Head(jobs)
    <2>1. k \in 1 .. Len(Phases[p]) /\ k # n /\ PhaseTasks[k] = Phases[p][k]
        BY <1>2, <1>3, <1>4 DEF PhaseTasks, p
    <2> QED
        BY <1>6, <2>1, RefreshConstants, SMTT(30)
<1>8. ASSUME NEW i \in 1 .. p - 1, NEW j \in 1 .. Len(Phases[i]) PROVE Phases[i][j] # Head(jobs)
    <2>1. i \in 1 .. Len(Phases) /\ i # p
        BY <1>2, PhasesTyped DEF p
    <2> QED
        BY <1>6, <2>1, RefreshConstants, SMTT(30)
<1>9. Head(jobs) \notin TakenTasks
    BY <1>7 DEF TakenTasks
<1>10. Head(jobs) \notin Earlier
    BY <1>8 DEF Earlier, Contents, p
<1> QED
    BY <1>1, <1>4, <1>5, <1>9, <1>10

Begun(task) == [IdleWorker EXCEPT !.at = "acquire", !.task = task]

LEMMA BegunIs ==
    ASSUME NEW t \in AllTasks
    PROVE  Begun(t) \in WorkerStates /\ Begun(t).at = "acquire" /\ Begun(t).task = t /\ Begun(t).error = NoError
<1>1. 1 \in 1 .. MaxTries
    BY RefreshConstants
<1> QED
    BY <1>1 DEF Begun, IdleWorker, WorkerStates, WorkingStages, Failures

LEMMA TakeTaskFacts ==
    ASSUME RefreshTyped, NEW w \in Collectors, TakeTask(w)
    PROVE  /\ worker[w].at = "idle" /\ main.at \in {"tasks", "unwind"} /\ jobs # <<>>
           /\ worker' \in [Collectors -> WorkerStates]
           /\ worker'[w].at = "acquire" /\ worker'[w].task = Head(jobs) /\ worker'[w].error = NoError
           /\ \A v \in Collectors : v # w => worker'[v] = worker[v]
           /\ Head(jobs) \in AllTasks /\ jobs' = Tail(jobs) /\ jobs' \in Seq(AllTasks)
           /\ Len(jobs) \in Nat \ {0} /\ Len(jobs') = Len(jobs) - 1
           /\ \A i \in 1 .. Len(jobs') : jobs'[i] = jobs[i + 1]
           /\ UNCHANGED <<main, results, limiter, pump, cancelled, faults>>
           /\ OutOfPhase(w) /\ ~OutOfPhase(w)' /\ ~Working(w) /\ Working(w)'
<1>1. /\ worker[w].at = "idle" /\ main.at \in {"tasks", "unwind"} /\ jobs # <<>>
      /\ worker' = [worker EXCEPT ![w] = Begun(Head(jobs))] /\ jobs' = Tail(jobs)
      /\ UNCHANGED <<main, results, limiter, pump, cancelled, faults>>
    BY DEF TakeTask, Begun
<1>2. /\ Head(jobs) \in AllTasks /\ Tail(jobs) \in Seq(AllTasks) /\ Len(jobs) \in Nat \ {0}
      /\ Len(Tail(jobs)) = Len(jobs) - 1 /\ \A i \in 1 .. Len(Tail(jobs)) : Tail(jobs)[i] = jobs[i + 1]
    BY <1>1, ContentsShrink DEF RefreshTyped
<1>3. /\ Begun(Head(jobs)) \in WorkerStates /\ Begun(Head(jobs)).at = "acquire"
      /\ Begun(Head(jobs)).task = Head(jobs) /\ Begun(Head(jobs)).error = NoError
    BY <1>2, BegunIs
<1>4. /\ worker' \in [Collectors -> WorkerStates] /\ worker'[w] = Begun(Head(jobs))
      /\ \A v \in Collectors : v # w => worker'[v] = worker[v]
    BY <1>1, <1>3, WorkerAfter
<1>5. worker'[w].at = "acquire" /\ worker[w].at = "idle"
    BY <1>1, <1>3, <1>4
<1>6. OutOfPhase(w) /\ ~OutOfPhase(w)' /\ ~Working(w) /\ Working(w)'
    BY <1>5 DEF OutOfPhase, Working, WorkingStages
<1> QED
    BY <1>1, <1>2, <1>3, <1>4, <1>6

LEMMA TakeTaskTasks ==
    ASSUME RefreshTyped, RefreshStages, JobsInOrder, TasksKept, NEW w \in Collectors, TakeTask(w)
    PROVE  JobsInOrder' /\ TasksKept'
<1> DEFINE h == Head(jobs)
<1>1. /\ main' = main /\ results' = results /\ pump' = pump
      /\ worker'[w].task = h /\ worker'[w].error = NoError
      /\ \A v \in Collectors : v # w => worker'[v] = worker[v]
      /\ jobs # <<>> /\ main.at \in {"tasks", "unwind"}
      /\ Len(jobs) \in Nat \ {0} /\ Len(jobs') = Len(jobs) - 1
      /\ \A i \in 1 .. Len(jobs') : jobs'[i] = jobs[i + 1]
    BY TakeTaskFacts
<1>2. OutOfPhase(w) /\ ~OutOfPhase(w)' /\ ~Working(w) /\ Working(w)'
    BY TakeTaskFacts
<1>3. /\ \A v \in Collectors : v # w => (Working(v)' <=> Working(v)) /\ (OutOfPhase(v)' <=> OutOfPhase(v))
      /\ BusyWorkers' = BusyWorkers \cup {w} /\ Cardinality(BusyWorkers') = Cardinality(BusyWorkers) + 1
      /\ Cardinality(BusyWorkers) \in Nat
    BY <1>1, <1>2, BusyAfter
<1>4. /\ main.next \in Nat /\ main.completed \in Nat /\ Len(results) \in Nat
    BY MainIs
<1>5. Taken' = Taken + 1 /\ Taken \in Int /\ Answered' = Answered + 1 /\ Answered \in Int
    <2>1. Taken' = Taken + 1 /\ Taken \in Int
        BY <1>1, <1>4 DEF Taken
    <2>2. Answered' = main.completed + Len(results) + Cardinality(BusyWorkers')
        BY <1>1 DEF Answered
    <2>3. Answered' = Answered + 1 /\ Answered \in Int
        BY <1>3, <1>4, <2>2 DEF Answered
    <2> QED
        BY <2>1, <2>3
<1>6. Sent' = Sent /\ Earlier' = Earlier /\ PhaseTasks' = PhaseTasks
    BY <1>1 DEF Sent, Earlier, PhaseTasks
<1>7. ASSUME main.at = "tasks" PROVE JobsInOrder'
    <2>1. /\ Taken \in Nat /\ main.next <= Len(PhaseTasks) /\ Answered <= Taken
          /\ \A i \in 1 .. Len(jobs) : jobs[i] = PhaseTasks[Taken + i]
        BY <1>7 DEF JobsInOrder
    <2>2. ASSUME NEW i \in 1 .. Len(jobs') PROVE jobs'[i] = PhaseTasks[(Taken + 1) + i]
        <3>1. i + 1 \in 1 .. Len(jobs) /\ Taken + (i + 1) = (Taken + 1) + i
            BY <1>1, <2>1
        <3> QED
            BY <1>1, <2>1, <3>1
    <2> QED
        BY <1>1, <1>5, <1>6, <2>1, <2>2 DEF JobsInOrder
<1>8. ASSUME main.at # "tasks" PROVE JobsInOrder' /\ main.error # NoError
    BY <1>1, <1>8 DEF JobsInOrder, RefreshStages
<1>9. ASSUME main.at = "tasks", main.error = NoError, pump.error = NoError PROVE TasksKept'
    <2>1. /\ Taken + 1 \in 1 .. Len(PhaseTasks) /\ h = PhaseTasks[Taken + 1]
          /\ h \notin TakenTasks \cup Earlier
        BY <1>1, <1>9, NextTask
    <2>2. Taken \in Nat
        BY <1>9 DEF JobsInOrder
    <2>3. TakenTasks' = {PhaseTasks[k] : k \in 1 .. Taken + 1}
        BY <1>5, <1>6 DEF TakenTasks
    <2>4. \A k \in 1 .. Taken + 1 : k \in 1 .. Taken \/ k = Taken + 1
        BY <2>2
    <2>5. TakenTasks' = TakenTasks \cup {h}
        <3>1. TakenTasks' \subseteq TakenTasks \cup {h}
            BY <2>1, <2>3, <2>4 DEF TakenTasks
        <3>2. 1 .. Taken \subseteq 1 .. Taken + 1 /\ Taken + 1 \in 1 .. Taken + 1
            BY <2>2
        <3>3. TakenTasks \cup {h} \subseteq TakenTasks'
            BY <2>1, <2>3, <3>2 DEF TakenTasks
        <3> QED
            BY <3>1, <3>3
    <2>6. /\ IsFiniteSet(Sent) /\ Cardinality(Sent) = Len(pump.written) + Len(pump.queue)
          /\ Earlier \subseteq Sent \cup Deniable
          /\ Sent \subseteq Earlier \cup TakenTasks
          /\ \A v \in Collectors : Working(v) => worker[v].task \in TakenTasks \ Sent
          /\ \A v, u \in Collectors : Working(v) /\ Working(u) /\ worker[v].task = worker[u].task => v = u
          /\ \/ Trouble
             \/ \A t \in TakenTasks :
                  t \in Sent \cup Deniable \/ \E v \in Collectors : Working(v) /\ worker[v].task = t
        BY <1>9 DEF TasksKept
    <2>7. Trouble => Trouble'
        <3>1. \A v \in BusyWorkers : v \in BusyWorkers' /\ (worker[v].error # NoError => worker'[v].error # NoError)
            BY <1>1, <1>2, <1>3 DEF BusyWorkers
        <3> QED
            BY <1>1, <1>5, <3>1 DEF Trouble
    <2> HIDE DEF h
    <2>8. /\ Sent' \subseteq (Earlier \cup TakenTasks)'
          /\ \A v \in Collectors : Working(v)' => worker'[v].task \in (TakenTasks \ Sent)'
          /\ \A v, u \in Collectors : Working(v)' /\ Working(u)' /\ worker'[v].task = worker'[u].task => v = u
        <3>1. ASSUME NEW v \in Collectors, Working(v)' PROVE worker'[v].task \in (TakenTasks \ Sent)'
            BY <1>1, <1>3, <1>6, <2>1, <2>5, <2>6, <3>1
        <3>2. ASSUME NEW v \in Collectors, NEW u \in Collectors, Working(v)', Working(u)',
                     worker'[v].task = worker'[u].task
              PROVE  v = u
            <4>1. \A x \in Collectors : x # w /\ Working(x)' => worker'[x].task # h /\ Working(x) /\ worker'[x].task = worker[x].task
                BY <1>1, <1>3, <2>1, <2>6
            <4> QED
                BY <1>1, <2>6, <3>2, <4>1
        <3> QED
            BY <1>6, <2>5, <2>6, <3>1, <3>2
    <2>9. ASSUME ~Trouble', NEW t \in TakenTasks'
          PROVE  t \in (Sent \cup Deniable)' \/ \E v \in Collectors : Working(v)' /\ worker'[v].task = t
        <3>1. CASE t = h
            BY <1>1, <1>2, <3>1
        <3>2. CASE t \in TakenTasks
            <4>1. t \in Sent \cup Deniable \/ \E v \in Collectors : Working(v) /\ worker[v].task = t
                BY <2>6, <2>7, <2>9, <3>2
            <4>2. \A v \in Collectors : Working(v) => Working(v)' /\ worker'[v].task = worker[v].task
                BY <1>1, <1>2, <1>3
            <4> QED
                BY <1>6, <4>1, <4>2
        <3> QED
            BY <2>5, <2>9, <3>1, <3>2
    <2> QED
        BY <1>1, <1>6, <2>6, <2>8, <2>9 DEF TasksKept
<1>10. ~(main.error = NoError /\ pump.error = NoError) => TasksKept'
    BY <1>1 DEF TasksKept
<1> QED
    BY <1>7, <1>8, <1>9, <1>10

LEMMA TakeTaskIsSafe ==
    ASSUME RefreshInv, NEW w \in Collectors, TakeTask(w)
    PROVE  RefreshInv'
<1>1. /\ RefreshTyped /\ RefreshStages /\ CausesKnown /\ ErrorsKnown /\ JobsInOrder /\ TasksKept /\ AnswerTrue
    BY DEF RefreshInv
<1>2. /\ worker[w].at = "idle" /\ main.at \in {"tasks", "unwind"}
      /\ worker' \in [Collectors -> WorkerStates]
      /\ worker'[w].at = "acquire" /\ worker'[w].task = Head(jobs) /\ worker'[w].error = NoError
      /\ \A v \in Collectors : v # w => worker'[v] = worker[v]
      /\ Head(jobs) \in AllTasks /\ jobs' \in Seq(AllTasks)
      /\ Len(jobs) \in Nat \ {0} /\ Len(jobs') = Len(jobs) - 1
      /\ UNCHANGED <<main, results, limiter, pump, cancelled, faults>>
    BY <1>1, TakeTaskFacts
<1>3. \A v \in Collectors : v # w => (Working(v)' <=> Working(v)) /\ (OutOfPhase(v)' <=> OutOfPhase(v))
    BY <1>2, BusyAfter
<1>4. Cardinality(Requesting') = Cardinality(Requesting)
    BY <1>1, <1>2, RequestsAfter
<1>5. JobQueue \in Nat
    BY RefreshConstants
<1>6. RefreshTyped'
    BY <1>1, <1>2, <1>4, <1>5 DEF RefreshTyped
<1>7. RefreshStages'
    BY <1>1, <1>2, <1>3 DEF RefreshStages, Ended
<1>8. CausesKnown'
    BY <1>1, <1>2 DEF CausesKnown, Ended, Stopped
<1>9. ErrorsKnown'
    BY <1>1, <1>2 DEF ErrorsKnown, ErrorKnown, Stopped, NoError
<1>10. AnswerTrue'
    BY <1>1, <1>2 DEF AnswerTrue, Denied
<1> QED
    BY <1>1, <1>6, <1>7, <1>8, <1>9, <1>10, TakeTaskTasks DEF RefreshInv

(* The rows of a page are refused when the writer or the run is gone.         *)
LEMMA RefusedMoves ==
    ASSUME RefreshInv, NEW w \in Collectors, worker[w].at = "emit",
           "phase" \in cancelled \/ ~pump.running,
           Fails(w, IF pump.error # NoError THEN pump.error ELSE "cancelled"),
           UNCHANGED <<main, jobs, results, limiter, pump, cancelled, faults>>
    PROVE  WorkersMove
<1> DEFINE e == IF pump.error # NoError THEN pump.error ELSE "cancelled"
           r == Reports(worker[w], e)
<1>1. RefreshTyped /\ RefreshStages /\ CausesKnown /\ worker[w] \in WorkerStates
    BY DEF RefreshInv, RefreshTyped
<1>2. pump.error \in {NoError, "write", "cancelled"}
    BY <1>1, MainIs
<1>3. e \in {"write", "cancelled"} /\ e \in Failures
    BY <1>2 DEF Failures
<1>4. main.at = "tasks" => Known(e, faults')
    <2> SUFFICES ASSUME main.at = "tasks" PROVE Known(e, faults')
        OBVIOUS
    <2>1. main.error = NoError /\ ~Ended
        BY <1>1 DEF RefreshStages, Ended
    <2>2. CASE pump.error = "write"
        BY <1>1, <2>2 DEF CausesKnown, Known, Stopped, NoError
    <2>3. CASE pump.error = "cancelled"
        BY <1>1, <2>1, <2>3 DEF CausesKnown, Known, NoError
    <2>4. CASE pump.error = NoError
        BY <1>1, <2>1, <2>4, PhaseEnded DEF CausesKnown, Known
    <2> QED
        BY <1>2, <2>2, <2>3, <2>4
<1>5. worker' = [worker EXCEPT ![w] = r]
    BY <1>1, FailsIs
<1>6. r \in WorkerStates /\ r.at = "report" /\ r.task = worker[w].task /\ r.error = e
    BY <1>1, <1>3, ReportsIs
<1> HIDE DEF r, e
<1>7. Moved(worker[w], r, faults')
    BY <1>3, <1>4, <1>6 DEF Moved, NoError, WorkingStages
<1>8. Cardinality(Requesting') = Cardinality(Requesting)
    BY <1>1, <1>5, <1>6, WorkerAfter, RequestsAfter
<1>9. limiter' \in LimiterStates /\ limiter'.inFlight = Cardinality(Requesting')
    BY <1>1, <1>8 DEF RefreshTyped
<1> QED
    BY <1>1, <1>5, <1>6, <1>7, <1>9, OneMoves

Queued(w) ==
    /\ worker[w].at = "emit" /\ Len(pump.queue) < BatchQueue
    /\ pump' = [pump EXCEPT !.queue = Append(@, worker[w].task)]
    /\ Goto(w, "report")
    /\ UNCHANGED <<main, jobs, results, limiter, cancelled, faults>>

LEMMA QueuedFacts ==
    ASSUME RefreshTyped, RefreshStages, NEW w \in Collectors, Queued(w)
    PROVE  /\ worker' \in [Collectors -> WorkerStates]
           /\ worker[w].at = "emit" /\ worker'[w].at = "report"
           /\ worker'[w].task = worker[w].task /\ worker'[w].error = NoError /\ worker[w].error = NoError
           /\ \A v \in Collectors : v # w => worker'[v] = worker[v]
           /\ Working(w) /\ ~Working(w)' /\ ~OutOfPhase(w) /\ ~OutOfPhase(w)' /\ ~Ended
           /\ pump' \in PumpStates /\ pump'.closed = pump.closed /\ pump'.running = pump.running
           /\ pump'.error = pump.error /\ pump'.written = pump.written
           /\ Len(pump'.queue) = Len(pump.queue) + 1 /\ Len(pump'.queue) <= BatchQueue
           /\ Sent' = Sent \cup {worker[w].task}
           /\ UNCHANGED <<main, jobs, results, limiter, cancelled, faults>>
<1>1. worker[w].at = "emit" /\ worker' = [worker EXCEPT ![w] = At(worker[w], "report")] /\ worker[w] \in WorkerStates
    BY GotoIs DEF Queued, RefreshTyped
<1>2. Working(w) /\ ~OutOfPhase(w)
    BY <1>1 DEF Working, OutOfPhase, WorkingStages
<1>3. worker[w].task \in AllTasks /\ worker[w].error = NoError /\ ~Ended
    BY <1>2 DEF RefreshStages
<1>4. /\ At(worker[w], "report") \in WorkerStates /\ At(worker[w], "report").at = "report"
      /\ At(worker[w], "report").task = worker[w].task /\ At(worker[w], "report").error = worker[w].error
    BY <1>1, AtIs
<1>5. /\ worker' \in [Collectors -> WorkerStates] /\ worker'[w] = At(worker[w], "report")
      /\ \A v \in Collectors : v # w => worker'[v] = worker[v]
    BY <1>1, <1>4, WorkerAfter
<1>6. ~Working(w)' /\ ~OutOfPhase(w)'
    BY <1>4, <1>5 DEF Working, OutOfPhase, WorkingStages
<1> DEFINE q == Append(pump.queue, worker[w].task)
<1>7. pump.queue \in Seq(AllTasks) /\ Len(pump.queue) \in Nat /\ Len(pump.queue) < BatchQueue /\ BatchQueue \in Nat
    BY MainIs, RefreshConstants DEF Queued
<1>8. q \in Seq(AllTasks) /\ Len(q) = Len(pump.queue) + 1 /\ Contents(q) = Contents(pump.queue) \cup {worker[w].task}
    BY <1>3, <1>7, ContentsGrow
<1>9. pump' = [pump EXCEPT !.queue = q] /\ pump \in PumpStates
    BY DEF Queued, RefreshTyped
<1> HIDE DEF q
<1>10. /\ pump' \in PumpStates /\ pump'.closed = pump.closed /\ pump'.running = pump.running
       /\ pump'.error = pump.error /\ pump'.written = pump.written /\ pump'.queue = q
    BY <1>8, <1>9 DEF PumpStates
<1>11. Sent' = Sent \cup {worker[w].task}
    BY <1>8, <1>10 DEF Sent
<1>12. Len(pump'.queue) = Len(pump.queue) + 1 /\ Len(pump'.queue) <= BatchQueue
    BY <1>7, <1>8, <1>10
<1>13. UNCHANGED <<main, jobs, results, limiter, cancelled, faults>>
    BY DEF Queued
<1> QED
    BY <1>1, <1>2, <1>3, <1>4, <1>5, <1>6, <1>10, <1>11, <1>12, <1>13

LEMMA Regrouped == \A a, b \in Nat : a + b + 1 = a + (b + 1)
OBVIOUS

LEMMA QueuedTasks ==
    ASSUME RefreshTyped, RefreshStages, JobsInOrder, TasksKept, NEW w \in Collectors, Queued(w)
    PROVE  JobsInOrder' /\ TasksKept'
<1> DEFINE h == worker[w].task
<1>1. /\ main' = main /\ jobs' = jobs /\ results' = results
      /\ worker'[w].task = h /\ worker'[w].error = NoError /\ worker[w].error = NoError
      /\ \A v \in Collectors : v # w => worker'[v] = worker[v]
      /\ Working(w) /\ ~Working(w)' /\ ~OutOfPhase(w) /\ ~OutOfPhase(w)' /\ ~Ended
      /\ pump'.error = pump.error /\ pump'.written = pump.written
      /\ Len(pump'.queue) = Len(pump.queue) + 1 /\ Sent' = Sent \cup {h}
    BY QueuedFacts
<1>2. /\ \A v \in Collectors : v # w => (Working(v)' <=> Working(v)) /\ (OutOfPhase(v)' <=> OutOfPhase(v))
      /\ BusyWorkers' = BusyWorkers
    BY <1>1, BusyAfter
<1>3. Answered' = Answered /\ Taken' = Taken /\ TakenTasks' = TakenTasks /\ Earlier' = Earlier
    BY <1>1, <1>2 DEF Answered, Taken, TakenTasks, Earlier, PhaseTasks
<1>4. JobsInOrder'
    BY <1>1, <1>3 DEF JobsInOrder, PhaseTasks
<1>5. ASSUME main.error = NoError, pump.error = NoError PROVE TasksKept'
    <2>1. main.at = "tasks"
        BY <1>1, <1>5, MainIs DEF RefreshStages, Ended
    <2>2. /\ IsFiniteSet(Sent) /\ Cardinality(Sent) = Len(pump.written) + Len(pump.queue)
          /\ Earlier \subseteq Sent \cup Deniable
          /\ Sent \subseteq Earlier \cup TakenTasks
          /\ \A v \in Collectors : Working(v) => worker[v].task \in TakenTasks \ Sent
          /\ \A v, u \in Collectors : Working(v) /\ Working(u) /\ worker[v].task = worker[u].task => v = u
          /\ \/ Trouble
             \/ \A t \in TakenTasks :
                  t \in Sent \cup Deniable \/ \E v \in Collectors : Working(v) /\ worker[v].task = t
        BY <1>5, <2>1 DEF TasksKept
    <2>3. Trouble => Trouble'
        BY <1>1, <1>2, <1>3 DEF Trouble, BusyWorkers
    <2>4. h \in TakenTasks \ Sent /\ \A v \in Collectors : v # w /\ Working(v) => worker[v].task # h
        BY <1>1, <2>2
    <2> HIDE DEF h
    <2>5. IsFiniteSet(Sent') /\ Cardinality(Sent') = Len(pump'.written) + Len(pump'.queue)
        <3>1. IsFiniteSet(Sent') /\ Cardinality(Sent') = Cardinality(Sent) + 1
            BY <1>1, <2>2, <2>4, FS_AddElement
        <3>2. Len(pump.written) \in Nat /\ Len(pump.queue) \in Nat
            BY MainIs
        <3>3. Len(pump'.written) = Len(pump.written) /\ Len(pump'.queue) = Len(pump.queue) + 1
            BY <1>1
        <3>4. Cardinality(Sent) = Len(pump.written) + Len(pump.queue)
            BY <2>2
        <3>5. Cardinality(Sent') = Len(pump.written) + Len(pump.queue) + 1
            BY <3>1, <3>4
        <3>6. Cardinality(Sent') = Len(pump'.written) + Len(pump'.queue)
            <4>1. Len(pump.written) + Len(pump.queue) + 1 = Len(pump.written) + (Len(pump.queue) + 1)
                BY <3>2, Regrouped, Zenon
            <4> QED
                BY <3>3, <3>5, <4>1, Zenon
        <3> QED
            BY <3>1, <3>6
    <2>6. /\ Sent' \subseteq (Earlier \cup TakenTasks)'
          /\ Earlier' \subseteq (Sent \cup Deniable)'
          /\ \A v \in Collectors : Working(v)' => worker'[v].task \in (TakenTasks \ Sent)'
          /\ \A v, u \in Collectors : Working(v)' /\ Working(u)' /\ worker'[v].task = worker'[u].task => v = u
        BY <1>1, <1>2, <1>3, <2>2, <2>4
    <2>7. ASSUME ~Trouble', NEW t \in TakenTasks'
          PROVE  t \in (Sent \cup Deniable)' \/ \E v \in Collectors : Working(v)' /\ worker'[v].task = t
        <3>1. t \in Sent \cup Deniable \/ \E v \in Collectors : Working(v) /\ worker[v].task = t
            BY <1>3, <2>2, <2>3, <2>7
        <3> QED
            BY <1>1, <1>2, <3>1 DEF h
    <2> QED
        BY <2>5, <2>6, <2>7 DEF TasksKept
<1>6. ~(main.error = NoError /\ pump.error = NoError) => TasksKept'
    BY <1>1 DEF TasksKept
<1> QED
    BY <1>4, <1>5, <1>6

LEMMA EmitIsSafe ==
    ASSUME RefreshInv, NEW w \in Collectors, Emit(w)
    PROVE  RefreshInv'
<1>1. /\ RefreshTyped /\ RefreshStages /\ CausesKnown /\ ErrorsKnown /\ JobsInOrder /\ TasksKept /\ AnswerTrue
    BY DEF RefreshInv
<1>2. CASE Queued(w)
    <2>1. /\ worker' \in [Collectors -> WorkerStates]
          /\ worker[w].at = "emit" /\ worker'[w].at = "report"
          /\ worker'[w].error = NoError /\ ~Working(w)' /\ ~OutOfPhase(w) /\ ~OutOfPhase(w)' /\ ~Ended
          /\ \A v \in Collectors : v # w => worker'[v] = worker[v]
          /\ pump' \in PumpStates /\ pump'.closed = pump.closed /\ pump'.running = pump.running
          /\ pump'.error = pump.error /\ pump'.written = pump.written
          /\ Len(pump'.queue) <= BatchQueue
          /\ UNCHANGED <<main, jobs, results, limiter, cancelled, faults>>
        BY <1>1, <1>2, QueuedFacts
    <2>2. \A v \in Collectors : v # w => (Working(v)' <=> Working(v)) /\ (OutOfPhase(v)' <=> OutOfPhase(v))
        BY <2>1, BusyAfter
    <2>3. Cardinality(Requesting') = Cardinality(Requesting)
        BY <1>1, <2>1, RequestsAfter
    <2>4. RefreshTyped'
        BY <1>1, <2>1, <2>3 DEF RefreshTyped
    <2>5. RefreshStages'
        BY <1>1, <2>1, <2>2 DEF RefreshStages, Ended
    <2>6. CausesKnown'
        BY <1>1, <2>1 DEF CausesKnown, Ended, Stopped
    <2>7. ErrorsKnown'
        BY <1>1, <2>1 DEF ErrorsKnown, ErrorKnown, Stopped, NoError
    <2>8. AnswerTrue'
        BY <1>1, <2>1 DEF AnswerTrue, Denied
    <2> QED
        BY <1>1, <1>2, <2>4, <2>5, <2>6, <2>7, <2>8, QueuedTasks DEF RefreshInv
<1>3. CASE ~Queued(w)
    <2>1. /\ worker[w].at = "emit" /\ ("phase" \in cancelled \/ ~pump.running)
          /\ Fails(w, IF pump.error # NoError THEN pump.error ELSE "cancelled")
          /\ UNCHANGED <<main, jobs, results, limiter, pump, cancelled, faults>>
        BY <1>3 DEF Emit, Queued
    <2> QED
        BY <2>1, RefusedMoves, WorkersMoveSafely
<1> QED
    BY <1>2, <1>3

(* The result goes to the channel.                                            *)
Delivered(w) ==
    /\ worker[w].at = "report" /\ Len(results) < JobQueue
    /\ results' = Append(results, worker[w].error) /\ Goto(w, "idle")
    /\ UNCHANGED <<main, jobs, limiter, pump, cancelled, faults>>

(* The result is dropped with the phase.                                      *)
Dropped(w) ==
    /\ worker[w].at = "report" /\ Goto(w, "gone")
    /\ UNCHANGED <<main, jobs, results, limiter, pump, cancelled, faults>>

LEMMA ReportFacts ==
    ASSUME RefreshTyped, RefreshStages, NEW w \in Collectors, Delivered(w) \/ Dropped(w)
    PROVE  /\ worker' \in [Collectors -> WorkerStates]
           /\ worker'[w].error = worker[w].error /\ worker[w].error \in Failures
           /\ worker[w].at = "report" /\ worker'[w].at \in {"idle", "gone"}
           /\ \A v \in Collectors : v # w => worker'[v] = worker[v]
           /\ ~Working(w) /\ ~Working(w)' /\ ~OutOfPhase(w) /\ OutOfPhase(w)' /\ ~Ended
           /\ UNCHANGED <<main, jobs, limiter, pump, cancelled, faults>>
           /\ Cardinality(Requesting') = Cardinality(Requesting)
<1> DEFINE at == IF Delivered(w) THEN "idle" ELSE "gone"
<1>1. worker[w].at = "report" /\ worker' = [worker EXCEPT ![w] = At(worker[w], at)] /\ worker[w] \in WorkerStates
    BY GotoIs DEF Delivered, Dropped, RefreshTyped
<1> HIDE DEF at
<1>2. at \in {"idle", "gone"}
    BY DEF at
<1>3. At(worker[w], at) \in WorkerStates /\ At(worker[w], at).at = at /\ At(worker[w], at).error = worker[w].error
    BY <1>1, <1>2, AtIs
<1>4. /\ worker' \in [Collectors -> WorkerStates] /\ worker'[w] = At(worker[w], at)
      /\ \A v \in Collectors : v # w => worker'[v] = worker[v]
    BY <1>1, <1>3, WorkerAfter
<1>5. ~Working(w) /\ ~Working(w)' /\ ~OutOfPhase(w) /\ OutOfPhase(w)'
    BY <1>1, <1>2, <1>3, <1>4 DEF Working, OutOfPhase, WorkingStages
<1>6. ~Ended
    BY <1>5 DEF RefreshStages
<1>7. Cardinality(Requesting') = Cardinality(Requesting)
    BY <1>1, <1>2, <1>3, <1>4, RequestsAfter
<1>8. worker[w].error \in Failures
    BY <1>1, WorkerIs
<1>9. UNCHANGED <<main, jobs, limiter, pump, cancelled, faults>>
    BY DEF Delivered, Dropped
<1> QED
    BY <1>1, <1>2, <1>3, <1>4, <1>5, <1>6, <1>7, <1>8, <1>9

LEMMA ResultsAfter ==
    ASSUME RefreshTyped, NEW w \in Collectors, Delivered(w) \/ Dropped(w), worker[w].error \in Failures
    PROVE  /\ results' \in Seq(Failures) /\ Len(results') <= JobQueue
           /\ Len(results') = Len(results) + IF Delivered(w) THEN 1 ELSE 0
           /\ \A i \in 1 .. Len(results) : i \in 1 .. Len(results') /\ results'[i] = results[i]
           /\ \A i \in 1 .. Len(results') :
                (i \in 1 .. Len(results) /\ results'[i] = results[i]) \/ results'[i] = worker[w].error
           /\ Delivered(w) => \E i \in 1 .. Len(results') : results'[i] = worker[w].error
<1>1. results \in Seq(Failures) /\ Len(results) \in Nat /\ Len(results) <= JobQueue /\ JobQueue \in Nat
    BY MainIs, RefreshConstants DEF RefreshTyped
<1>2. CASE Delivered(w)
    <2>1. /\ Len(results) < JobQueue /\ results' = Append(results, worker[w].error)
          /\ results' \in Seq(Failures) /\ Len(results') = Len(results) + 1
          /\ \A i \in 1 .. Len(results) : results'[i] = results[i]
          /\ results'[Len(results) + 1] = worker[w].error
        BY <1>1, <1>2, AppendProperties DEF Delivered
    <2>2. \A i \in 1 .. Len(results) + 1 : i \in 1 .. Len(results) \/ i = Len(results) + 1
        BY <1>1
    <2>3. 1 .. Len(results) \subseteq 1 .. Len(results) + 1 /\ Len(results) + 1 \in 1 .. Len(results) + 1
        BY <1>1
    <2>4. Len(results') <= JobQueue
        BY <1>1, <2>1
    <2> QED
        BY <1>2, <2>1, <2>2, <2>3, <2>4
<1>3. CASE ~Delivered(w)
    <2>1. results' = results
        BY <1>3 DEF Dropped
    <2> QED
        BY <1>1, <1>3, <2>1
<1> QED
    BY <1>2, <1>3

LEMMA ReportTasks ==
    ASSUME RefreshTyped, RefreshStages, JobsInOrder, TasksKept, NEW w \in Collectors, Delivered(w) \/ Dropped(w)
    PROVE  JobsInOrder' /\ TasksKept'
<1>1. /\ main' = main /\ jobs' = jobs /\ pump' = pump
      /\ worker'[w].error = worker[w].error /\ worker[w].error \in Failures
      /\ \A v \in Collectors : v # w => worker'[v] = worker[v]
      /\ ~Working(w) /\ ~Working(w)' /\ ~OutOfPhase(w) /\ OutOfPhase(w)' /\ ~Ended
    BY ReportFacts
<1>2. /\ Len(results') = Len(results) + IF Delivered(w) THEN 1 ELSE 0
      /\ \A i \in 1 .. Len(results) : i \in 1 .. Len(results') /\ results'[i] = results[i]
      /\ Delivered(w) => \E i \in 1 .. Len(results') : results'[i] = worker[w].error
    BY <1>1, ResultsAfter
<1>3. /\ \A v \in Collectors : v # w => (Working(v)' <=> Working(v)) /\ (OutOfPhase(v)' <=> OutOfPhase(v))
      /\ BusyWorkers' = BusyWorkers \ {w} /\ Cardinality(BusyWorkers') = Cardinality(BusyWorkers) - 1
      /\ Cardinality(BusyWorkers) \in Nat
    BY <1>1, BusyAfter
<1>4. Taken' = Taken /\ TakenTasks' = TakenTasks /\ Sent' = Sent /\ Earlier' = Earlier
    BY <1>1 DEF Taken, TakenTasks, Sent, Earlier, PhaseTasks
<1>5. Answered' = Answered - (IF Delivered(w) THEN 0 ELSE 1) /\ Answered \in Int
    <2>1. main.completed \in Nat /\ Len(results) \in Nat
        BY MainIs
    <2>2. Answered' = main.completed + Len(results') + Cardinality(BusyWorkers')
        BY <1>1 DEF Answered
    <2> HIDE DEF Delivered
    <2> QED
        BY <1>2, <1>3, <2>1, <2>2 DEF Answered
<1>6. JobsInOrder'
    BY <1>1, <1>4, <1>5 DEF JobsInOrder, PhaseTasks
<1>7. ASSUME main.error = NoError, pump.error = NoError PROVE TasksKept'
    <2>1. main.at = "tasks"
        BY <1>1, <1>7, MainIs DEF RefreshStages, Ended
    <2>2. /\ IsFiniteSet(Sent) /\ Cardinality(Sent) = Len(pump.written) + Len(pump.queue)
          /\ Earlier \subseteq Sent \cup Deniable
          /\ Sent \subseteq Earlier \cup TakenTasks
          /\ \A v \in Collectors : Working(v) => worker[v].task \in TakenTasks \ Sent
          /\ \A v, u \in Collectors : Working(v) /\ Working(u) /\ worker[v].task = worker[u].task => v = u
          /\ \/ Trouble
             \/ \A t \in TakenTasks :
                  t \in Sent \cup Deniable \/ \E v \in Collectors : Working(v) /\ worker[v].task = t
        BY <1>7, <2>1 DEF TasksKept
    <2>3. Answered <= Taken /\ Taken \in Nat
        BY <2>1 DEF JobsInOrder
    <2>4. Trouble => Trouble'
        <3>1. ASSUME NEW v \in BusyWorkers, worker[v].error # NoError, Delivered(w) PROVE Trouble'
            <4>1. CASE v = w
                BY <1>2, <3>1, <4>1 DEF Trouble
            <4>2. CASE v # w
                <5>1. v \in BusyWorkers' /\ worker'[v].error # NoError
                    BY <1>1, <1>3, <3>1, <4>2 DEF BusyWorkers
                <5> QED
                    BY <5>1 DEF Trouble
            <4> QED
                BY <4>1, <4>2
        <3>2. ASSUME ~Delivered(w) PROVE Trouble'
            BY <1>4, <1>5, <2>3, <3>2 DEF Trouble
        <3>3. ASSUME Answered < Taken PROVE Trouble'
            BY <1>4, <1>5, <2>3, <3>3 DEF Trouble
        <3>4. ASSUME NEW i \in 1 .. Len(results), results[i] # NoError PROVE Trouble'
            BY <1>2, <3>4 DEF Trouble
        <3> QED
            BY <3>1, <3>2, <3>3, <3>4 DEF Trouble
    <2>5. ASSUME ~Trouble', NEW t \in TakenTasks'
          PROVE  t \in (Sent \cup Deniable)' \/ \E v \in Collectors : Working(v)' /\ worker'[v].task = t
        <3>1. t \in Sent \cup Deniable \/ \E v \in Collectors : Working(v) /\ worker[v].task = t
            BY <1>4, <2>2, <2>4, <2>5
        <3> QED
            BY <1>1, <1>3, <1>4, <3>1
    <2>6. /\ \A v \in Collectors : Working(v)' => worker'[v].task \in (TakenTasks \ Sent)'
          /\ \A v, u \in Collectors : Working(v)' /\ Working(u)' /\ worker'[v].task = worker'[u].task => v = u
        BY <1>1, <1>3, <1>4, <2>2
    <2> QED
        BY <1>1, <1>4, <2>2, <2>5, <2>6 DEF TasksKept
<1>8. ~(main.error = NoError /\ pump.error = NoError) => TasksKept'
    BY <1>1 DEF TasksKept
<1> QED
    BY <1>6, <1>7, <1>8

LEMMA ReportResultIsSafe ==
    ASSUME RefreshInv, NEW w \in Collectors, ReportResult(w)
    PROVE  RefreshInv'
<1>1. /\ RefreshTyped /\ RefreshStages /\ CausesKnown /\ ErrorsKnown /\ JobsInOrder /\ TasksKept /\ AnswerTrue
    BY DEF RefreshInv
<1>2. Delivered(w) \/ Dropped(w)
    BY DEF ReportResult, Delivered, Dropped
<1>3. /\ worker' \in [Collectors -> WorkerStates]
      /\ worker'[w].error = worker[w].error /\ worker[w].error \in Failures
      /\ \A v \in Collectors : v # w => worker'[v] = worker[v]
      /\ ~Working(w)' /\ ~OutOfPhase(w) /\ OutOfPhase(w)' /\ ~Ended
      /\ UNCHANGED <<main, jobs, limiter, pump, cancelled, faults>>
      /\ Cardinality(Requesting') = Cardinality(Requesting)
    BY <1>1, <1>2, ReportFacts
<1>4. /\ results' \in Seq(Failures) /\ Len(results') <= JobQueue
      /\ \A i \in 1 .. Len(results') :
            (i \in 1 .. Len(results) /\ results'[i] = results[i]) \/ results'[i] = worker[w].error
    BY <1>1, <1>2, <1>3, ResultsAfter
<1>5. \A v \in Collectors : v # w => (Working(v)' <=> Working(v)) /\ (OutOfPhase(v)' <=> OutOfPhase(v))
    BY <1>3, BusyAfter
<1>6. RefreshTyped'
    BY <1>1, <1>3, <1>4 DEF RefreshTyped
<1>7. RefreshStages'
    BY <1>1, <1>3, <1>5 DEF RefreshStages, Ended
<1>8. CausesKnown'
    BY <1>1, <1>3 DEF CausesKnown, Ended, Stopped
<1>9. ErrorsKnown'
    <2> SUFFICES ASSUME main.at = "tasks"
                 PROVE  /\ \A v \in Collectors : ErrorKnown(worker'[v].error)
                        /\ \A i \in 1 .. Len(results') : ErrorKnown(results'[i])
        BY <1>3 DEF ErrorsKnown, ErrorKnown, Stopped
    <2>1. /\ \A v \in Collectors : ErrorKnown(worker[v].error)
          /\ \A i \in 1 .. Len(results) : ErrorKnown(results[i])
        BY <1>1 DEF ErrorsKnown
    <2>2. \A v \in Collectors : worker'[v].error = worker[v].error
        BY <1>3
    <2>3. \A i \in 1 .. Len(results') : ErrorKnown(results'[i])
        BY <1>4, <2>1
    <2> QED
        BY <2>1, <2>2, <2>3
<1>10. AnswerTrue'
    BY <1>1, <1>3 DEF AnswerTrue, Denied
<1> QED
    BY <1>1, <1>2, <1>6, <1>7, <1>8, <1>9, <1>10, ReportTasks DEF RefreshInv

-----------------------------------------------------------------------------
(* The writer and the caller.                                                 *)

LEMMA NoAnswerYet ==
    ASSUME AnswerTrue, main.at # "returned", main'.answer = main.answer
    PROVE  AnswerTrue'
BY DEF AnswerTrue, NoError

LEMMA PoolUnmoved ==
    ASSUME RefreshTyped, RefreshStages, JobsInOrder, TasksKept, UNCHANGED <<main, jobs, results, worker>>,
           \/ pump'.error # NoError
           \/ /\ pump'.error = pump.error /\ Sent' = Sent
              /\ Len(pump'.written) + Len(pump'.queue) = Len(pump.written) + Len(pump.queue)
    PROVE  JobsInOrder' /\ TasksKept'
<1>1. /\ Answered' = Answered /\ Taken' = Taken /\ TakenTasks' = TakenTasks /\ Earlier' = Earlier
      /\ BusyWorkers' = BusyWorkers /\ PhaseTasks' = PhaseTasks /\ (Trouble' <=> Trouble)
      /\ \A w \in Collectors : Working(w)' <=> Working(w)
    BY DEF Answered, Taken, TakenTasks, Earlier, BusyWorkers, OutOfPhase, PhaseTasks, Trouble, Working
<1>2. JobsInOrder'
    BY <1>1 DEF JobsInOrder
<1>3. CASE pump'.error # NoError
    BY <1>2, <1>3 DEF TasksKept
<1>4. CASE /\ pump'.error = pump.error /\ Sent' = Sent
           /\ Len(pump'.written) + Len(pump'.queue) = Len(pump.written) + Len(pump.queue)
    BY <1>1, <1>2, <1>4 DEF TasksKept
<1> QED
    BY <1>2, <1>3, <1>4

LEMMA UnmovedTyped ==
    ASSUME RefreshTyped, UNCHANGED <<jobs, results, worker, limiter>>, main' \in MainStates,
           pump' \in PumpStates, Len(pump'.queue) <= BatchQueue, cancelled' \subseteq Contexts, faults' \in Nat
    PROVE  RefreshTyped'
<1>1. Requesting' = Requesting
    BY DEF Requesting
<1> QED
    BY <1>1 DEF RefreshTyped

LEMMA UnmovedWorkers ==
    ASSUME RefreshStages, UNCHANGED worker
    PROVE  /\ \A w \in Collectors : (OutOfPhase(w)' <=> OutOfPhase(w)) /\ (Working(w)' <=> Working(w))
           /\ \A w \in Collectors : Working(w)' => worker'[w].task \in AllTasks /\ worker'[w].error = NoError
BY DEF OutOfPhase, Working, RefreshStages

LEMMA OneMovesOver == \A a \in Nat, b \in Nat \ {0} : (a + 1) + (b - 1) = a + b
OBVIOUS

LEMMA WrittenIsSafe ==
    ASSUME RefreshInv, pump.running, pump.queue # <<>>,
           pump' = [pump EXCEPT !.queue = Tail(@), !.written = Append(@, Head(pump.queue))],
           UNCHANGED <<main, jobs, results, worker, limiter, cancelled, faults>>
    PROVE  RefreshInv'
<1>1. /\ RefreshTyped /\ RefreshStages /\ CausesKnown /\ ErrorsKnown /\ JobsInOrder /\ TasksKept /\ AnswerTrue
    BY DEF RefreshInv
<1> DEFINE q == Tail(pump.queue)
           d == Append(pump.written, Head(pump.queue))
<1>2. pump \in PumpStates /\ pump.queue \in Seq(AllTasks) /\ pump.written \in Seq(AllTasks)
      /\ Len(pump.queue) <= BatchQueue /\ BatchQueue \in Nat
    BY <1>1, MainIs, RefreshConstants DEF RefreshTyped
<1>3. /\ Head(pump.queue) \in AllTasks /\ q \in Seq(AllTasks) /\ Len(pump.queue) \in Nat \ {0}
      /\ Len(q) = Len(pump.queue) - 1 /\ Contents(pump.queue) = Contents(q) \cup {Head(pump.queue)}
    BY <1>2, ContentsShrink
<1>4. /\ d \in Seq(AllTasks) /\ Len(d) = Len(pump.written) + 1 /\ Len(pump.written) \in Nat
      /\ Contents(d) = Contents(pump.written) \cup {Head(pump.queue)}
    BY <1>1, <1>2, <1>3, ContentsGrow, MainIs
<1>5. pump' = [pump EXCEPT !.queue = q, !.written = d]
    OBVIOUS
<1> HIDE DEF q, d
<1>6. /\ pump' \in PumpStates /\ pump'.queue = q /\ pump'.written = d /\ pump'.closed = pump.closed
      /\ pump'.running = pump.running /\ pump'.error = pump.error
    BY <1>2, <1>3, <1>4, <1>5 DEF PumpStates
<1>7. Len(pump'.queue) <= BatchQueue
    BY <1>2, <1>3, <1>6
<1>8. Sent' = Sent
    BY <1>3, <1>4, <1>6 DEF Sent
<1>9. Len(pump'.written) + Len(pump'.queue) = Len(pump.written) + Len(pump.queue)
    <2>1. Len(pump'.written) = Len(pump.written) + 1 /\ Len(pump'.queue) = Len(pump.queue) - 1
        BY <1>3, <1>4, <1>6
    <2> QED
        BY <1>3, <1>4, <2>1, OneMovesOver, Zenon
<1>10. JobsInOrder' /\ TasksKept'
    BY <1>1, <1>6, <1>8, <1>9, PoolUnmoved
<1>11. RefreshTyped'
    <2>1. main' \in MainStates /\ cancelled' \subseteq Contexts /\ faults' \in Nat
        BY <1>1 DEF RefreshTyped
    <2> QED
        BY <1>1, <1>6, <1>7, <2>1, UnmovedTyped
<1>12. RefreshStages'
    BY <1>1, <1>6, UnmovedWorkers DEF RefreshStages, Ended
<1>13. CausesKnown'
    BY <1>1, <1>6 DEF CausesKnown, Ended, Stopped
<1>14. ErrorsKnown'
    BY <1>1, <1>6 DEF ErrorsKnown, ErrorKnown, Stopped
<1>15. AnswerTrue'
    BY <1>1, NoAnswerYet DEF RefreshStages
<1> QED
    BY <1>10, <1>11, <1>12, <1>13, <1>14, <1>15 DEF RefreshInv

LEMMA WriteFailsIsSafe ==
    ASSUME RefreshInv, pump.running, pump.queue # <<>>, NEW e \in {"write", "cancelled"},
           e = "cancelled" => "run" \in cancelled,
           faults' = IF e = "write" THEN faults + 1 ELSE faults,
           pump' = [pump EXCEPT !.queue = Tail(@), !.running = FALSE, !.error = e],
           cancelled' = cancelled \cup Cancel("run"),
           UNCHANGED <<main, jobs, results, worker, limiter>>
    PROVE  RefreshInv'
<1>1. /\ RefreshTyped /\ RefreshStages /\ CausesKnown /\ ErrorsKnown /\ JobsInOrder /\ TasksKept /\ AnswerTrue
    BY DEF RefreshInv
<1> DEFINE q == Tail(pump.queue)
<1>2. /\ pump \in PumpStates /\ pump.queue \in Seq(AllTasks) /\ faults \in Nat
      /\ Len(pump.queue) <= BatchQueue /\ BatchQueue \in Nat /\ cancelled \subseteq Contexts /\ main \in MainStates
    BY <1>1, MainIs, RefreshConstants DEF RefreshTyped
<1>3. q \in Seq(AllTasks) /\ Len(pump.queue) \in Nat \ {0} /\ Len(q) = Len(pump.queue) - 1
    BY <1>2, ContentsShrink
<1>4. pump' = [pump EXCEPT !.queue = q, !.running = FALSE, !.error = e]
    OBVIOUS
<1> HIDE DEF q
<1>5. /\ pump' \in PumpStates /\ pump'.queue = q /\ pump'.written = pump.written /\ pump'.closed = pump.closed
      /\ pump'.running = FALSE /\ pump'.error = e
    BY <1>2, <1>3, <1>4 DEF PumpStates
<1>6. Len(pump'.queue) <= BatchQueue
    BY <1>2, <1>3, <1>5
<1>7. cancelled' = cancelled \cup {"run", "phase"} /\ cancelled' \subseteq Contexts
    BY <1>2 DEF Cancel, Contexts
<1>8. faults' \in Nat /\ faults' >= faults /\ (e = "write" => faults' > 0)
    BY <1>2
<1>9. JobsInOrder' /\ TasksKept'
    BY <1>1, <1>5, PoolUnmoved DEF NoError
<1>10. RefreshTyped'
    BY <1>1, <1>2, <1>5, <1>6, <1>7, <1>8, UnmovedTyped
<1>11. RefreshStages'
    BY <1>1, <1>5, UnmovedWorkers DEF RefreshStages, Ended
<1>12. pump.error = NoError
    BY <1>1 DEF RefreshStages
<1>13. Stopped => Stopped'
    BY <1>7, <1>12 DEF Stopped, NoError
<1>14. Stopped' \/ (Ended /\ main.error # NoError)
    BY <1>1, <1>5, <1>13 DEF CausesKnown, Stopped
<1>15. CausesKnown'
    <2>1. /\ "run" \in cancelled'
          /\ Ended' <=> Ended
          /\ main.error = "cancelled" => Stopped
          /\ main.error \in {"fetch", "write"} => faults > 0
          /\ pump'.error # NoError
          /\ pump'.error = "write" => faults' > 0
        BY <1>1, <1>5, <1>7, <1>8 DEF CausesKnown, Ended, NoError
    <2> QED
        BY <1>2, <1>8, <1>13, <1>14, <2>1 DEF CausesKnown
<1>16. ErrorsKnown'
    BY <1>1, <1>2, <1>8, <1>13 DEF ErrorsKnown, ErrorKnown
<1>17. AnswerTrue'
    BY <1>1, NoAnswerYet DEF RefreshStages
<1> QED
    BY <1>9, <1>10, <1>11, <1>15, <1>16, <1>17 DEF RefreshInv

LEMMA WriteBatchIsSafe ==
    ASSUME RefreshInv, WriteBatch
    PROVE  RefreshInv'
<1>1. pump.running /\ pump.queue # <<>> /\ UNCHANGED <<main, jobs, results, worker, limiter>>
    BY DEF WriteBatch
<1>2. CASE /\ pump' = [pump EXCEPT !.queue = Tail(@), !.written = Append(@, Head(pump.queue))]
           /\ UNCHANGED <<cancelled, faults>>
    BY <1>1, <1>2, WrittenIsSafe
<1>3. ASSUME NEW e \in {"write"} \cup IF "run" \in cancelled THEN {"cancelled"} ELSE {},
             faults' = IF e = "write" THEN faults + 1 ELSE faults,
             pump' = [pump EXCEPT !.queue = Tail(@), !.running = FALSE, !.error = e],
             cancelled' = cancelled \cup Cancel("run")
      PROVE  RefreshInv'
    <2>1. e \in {"write", "cancelled"} /\ (e = "cancelled" => "run" \in cancelled)
        BY <1>3
    <2> QED
        BY <1>1, <1>3, <2>1, WriteFailsIsSafe
<1> QED
    BY <1>2, <1>3 DEF WriteBatch

LEMMA PumpEndsIsSafe ==
    ASSUME RefreshInv, PumpEnds
    PROVE  RefreshInv'
<1>1. /\ RefreshTyped /\ RefreshStages /\ CausesKnown /\ ErrorsKnown /\ JobsInOrder /\ TasksKept /\ AnswerTrue
    BY DEF RefreshInv
<1>2. /\ pump.running /\ ("run" \in cancelled \/ (pump.closed /\ pump.queue = <<>>))
      /\ pump' = [pump EXCEPT !.running = FALSE] /\ pump \in PumpStates /\ Len(pump.queue) <= BatchQueue
      /\ UNCHANGED <<main, jobs, results, worker, limiter, cancelled, faults>>
    BY <1>1 DEF PumpEnds, RefreshTyped
<1>3. /\ pump' \in PumpStates /\ pump'.queue = pump.queue /\ pump'.written = pump.written
      /\ pump'.closed = pump.closed /\ pump'.running = FALSE /\ pump'.error = pump.error
    BY <1>2 DEF PumpStates
<1>4. JobsInOrder' /\ TasksKept'
    BY <1>1, <1>2, <1>3, PoolUnmoved DEF Sent
<1>5. RefreshTyped'
    <2>1. main' \in MainStates /\ cancelled' \subseteq Contexts /\ faults' \in Nat /\ Len(pump'.queue) <= BatchQueue
        BY <1>1, <1>2, <1>3 DEF RefreshTyped
    <2> QED
        BY <1>1, <1>2, <1>3, <2>1, UnmovedTyped
<1>6. RefreshStages'
    BY <1>1, <1>2, <1>3, UnmovedWorkers DEF RefreshStages, Ended
<1>7. CausesKnown'
    BY <1>1, <1>2, <1>3 DEF CausesKnown, Ended, Stopped, RefreshStages
<1>8. ErrorsKnown'
    BY <1>1, <1>2, <1>3 DEF ErrorsKnown, ErrorKnown, Stopped
<1>9. AnswerTrue'
    BY <1>1, <1>2, NoAnswerYet DEF RefreshStages
<1> QED
    BY <1>4, <1>5, <1>6, <1>7, <1>8, <1>9 DEF RefreshInv

LEMMA CallerCancelsIsSafe ==
    ASSUME RefreshInv, CallerCancels
    PROVE  RefreshInv'
<1>1. /\ RefreshTyped /\ RefreshStages /\ CausesKnown /\ ErrorsKnown /\ JobsInOrder /\ TasksKept /\ AnswerTrue
    BY DEF RefreshInv
<1>2. /\ main.at # "returned" /\ cancelled' = Contexts
      /\ UNCHANGED <<main, jobs, results, worker, limiter, pump, faults>>
    BY DEF CallerCancels, Cancel, Contexts
<1>3. JobsInOrder' /\ TasksKept'
    BY <1>1, <1>2, PoolUnmoved DEF Sent
<1>4. RefreshTyped'
    <2>1. main' \in MainStates /\ pump' \in PumpStates /\ faults' \in Nat /\ Len(pump'.queue) <= BatchQueue
        BY <1>1, <1>2 DEF RefreshTyped
    <2> QED
        BY <1>1, <1>2, <2>1, UnmovedTyped
<1>5. RefreshStages'
    BY <1>1, <1>2, UnmovedWorkers DEF RefreshStages, Ended
<1>6. Stopped' /\ "run" \in cancelled'
    BY <1>2 DEF Stopped, Contexts
<1>7. CausesKnown'
    BY <1>1, <1>2, <1>6 DEF CausesKnown
<1>8. ErrorsKnown'
    BY <1>1, <1>2, <1>6 DEF ErrorsKnown, ErrorKnown
<1>9. AnswerTrue'
    BY <1>1, <1>2, NoAnswerYet
<1> QED
    BY <1>3, <1>4, <1>5, <1>7, <1>8, <1>9 DEF RefreshInv

-----------------------------------------------------------------------------
(* The goroutine of Run.                                                      *)

LEMMA HandOutIsSafe ==
    ASSUME RefreshInv, HandOut
    PROVE  RefreshInv'
<1>1. /\ RefreshTyped /\ RefreshStages /\ CausesKnown /\ ErrorsKnown /\ JobsInOrder /\ TasksKept /\ AnswerTrue
    BY DEF RefreshInv
<1> DEFINE t == PhaseTasks[main.next + 1]
<1>2. /\ main.at = "tasks" /\ main.next < Len(PhaseTasks) /\ Len(jobs) < JobQueue
      /\ jobs' = Append(jobs, t) /\ main' = [main EXCEPT !.next = @ + 1]
      /\ UNCHANGED <<results, worker, limiter, pump, cancelled, faults>>
    BY DEF HandOut
<1>3. /\ main \in MainStates /\ main.next \in Nat /\ Len(jobs) \in Nat /\ jobs \in Seq(AllTasks)
      /\ main.phase \in 1 .. Len(Phases) /\ Len(PhaseTasks) \in Nat /\ JobQueue \in Nat
    <2>1. main \in MainStates /\ jobs \in Seq(AllTasks) /\ JobQueue \in Nat
        BY <1>1, RefreshConstants DEF RefreshTyped
    <2>2. main.next \in Nat /\ Len(jobs) \in Nat /\ main.phase \in 1 .. Len(Phases) + 1
        BY <1>1, MainIs
    <2>3. Len(Phases) \in Nat /\ main.phase <= Len(Phases)
        BY <1>1, <1>2, PhasesTyped DEF RefreshStages
    <2>4. main.phase \in 1 .. Len(Phases)
        BY <2>2, <2>3
    <2>5. Len(PhaseTasks) \in Nat
        BY <2>4, PhasesTyped DEF PhaseTasks
    <2> QED
        BY <2>1, <2>2, <2>4, <2>5
<1>4. main.next + 1 \in 1 .. Len(PhaseTasks)
    BY <1>2, <1>3
<1>5. t \in AllTasks
    BY <1>3, <1>4, PhasesTyped DEF PhaseTasks
<1> HIDE DEF t
<1>6. /\ main' \in MainStates /\ main'.next = main.next + 1 /\ main'.phase = main.phase
      /\ main'.completed = main.completed /\ main'.at = main.at /\ main'.error = main.error
      /\ main'.answer = main.answer
    <2>1. main' = [main EXCEPT !.next = @ + 1]
        BY <1>2
    <2>2. main.next + 1 \in Nat /\ main \in MainStates
        BY <1>3
    <2> QED
        BY <2>1, <2>2 DEF MainStates
<1>7. /\ jobs' \in Seq(AllTasks) /\ Len(jobs') = Len(jobs) + 1
      /\ \A i \in 1 .. Len(jobs) : jobs'[i] = jobs[i]
      /\ jobs'[Len(jobs) + 1] = t
    BY <1>2, <1>3, <1>5, AppendProperties
<1>8. Len(jobs') <= JobQueue
    BY <1>2, <1>3, <1>7
<1>9. Taken' = Taken /\ Taken \in Int /\ Taken + Len(jobs) = main.next
    BY <1>3, <1>6, <1>7, SMTT(30) DEF Taken
<1>10. /\ Answered' = Answered /\ TakenTasks' = TakenTasks /\ Earlier' = Earlier /\ Sent' = Sent
       /\ BusyWorkers' = BusyWorkers /\ PhaseTasks' = PhaseTasks /\ (Trouble' <=> Trouble)
       /\ \A w \in Collectors : Working(w)' <=> Working(w)
    BY <1>2, <1>6, <1>9
       DEF Answered, TakenTasks, Earlier, BusyWorkers, OutOfPhase, PhaseTasks, Trouble, Working, Sent
<1>11. JobsInOrder'
    <2>1. /\ Taken \in Nat /\ Answered <= Taken
          /\ \A i \in 1 .. Len(jobs) : jobs[i] = PhaseTasks[Taken + i]
        BY <1>1, <1>2 DEF JobsInOrder
    <2>2. main.next + 1 <= Len(PhaseTasks)
        BY <1>4
    <2>3. ASSUME NEW i \in 1 .. Len(jobs') PROVE jobs'[i] = PhaseTasks[Taken + i]
        <3>1. CASE i \in 1 .. Len(jobs)
            BY <1>7, <2>1, <3>1
        <3>2. CASE i = Len(jobs) + 1
            <4>1. Taken + i = main.next + 1
                BY <1>3, <1>9, <3>2
            <4> QED
                BY <1>7, <3>2, <4>1 DEF t
        <3>3. i \in 1 .. Len(jobs) \/ i = Len(jobs) + 1
            BY <1>3, <1>7
        <3> QED
            BY <3>1, <3>2, <3>3
    <2> QED
        BY <1>6, <1>9, <1>10, <2>1, <2>2, <2>3 DEF JobsInOrder
<1>12. TasksKept'
    BY <1>1, <1>2, <1>6, <1>10 DEF TasksKept
<1>13. RefreshTyped'
    <2>1. Requesting' = Requesting
        BY <1>2 DEF Requesting
    <2> QED
        BY <1>1, <1>2, <1>6, <1>7, <1>8, <2>1 DEF RefreshTyped
<1>14. RefreshStages'
    BY <1>1, <1>2, <1>6, UnmovedWorkers DEF RefreshStages, Ended
<1>15. CausesKnown'
    BY <1>1, <1>2, <1>6 DEF CausesKnown, Ended, Stopped
<1>16. ErrorsKnown'
    BY <1>1, <1>2, <1>6 DEF ErrorsKnown, ErrorKnown, Stopped
<1>17. AnswerTrue'
    BY <1>1, <1>2, <1>6, NoAnswerYet
<1> QED
    BY <1>11, <1>12, <1>13, <1>14, <1>15, <1>16, <1>17 DEF RefreshInv

LEMMA ResultTakenIsSafe ==
    ASSUME RefreshInv, main.at = "tasks", results # <<>>, results' = Tail(results), Head(results) = NoError,
           main' = [main EXCEPT !.completed = @ + 1],
           UNCHANGED <<jobs, worker, limiter, pump, cancelled, faults>>
    PROVE  RefreshInv'
<1>1. /\ RefreshTyped /\ RefreshStages /\ CausesKnown /\ ErrorsKnown /\ JobsInOrder /\ TasksKept /\ AnswerTrue
    BY DEF RefreshInv
<1>2. /\ main \in MainStates /\ main.completed \in Nat /\ results \in Seq(Failures)
      /\ Len(results) <= JobQueue /\ JobQueue \in Nat
    BY <1>1, MainIs, RefreshConstants DEF RefreshTyped
<1>3. /\ main' \in MainStates /\ main'.next = main.next /\ main'.phase = main.phase
      /\ main'.completed = main.completed + 1 /\ main'.at = main.at /\ main'.error = main.error
      /\ main'.answer = main.answer
    <2>1. main.completed + 1 \in Nat
        BY <1>2
    <2> QED
        BY <1>2, <2>1, SMTT(30) DEF MainStates
<1>4. /\ results' \in Seq(Failures) /\ Len(results) \in Nat \ {0} /\ Len(results') = Len(results) - 1
      /\ \A i \in 1 .. Len(results') : results'[i] = results[i + 1] /\ results[1] = NoError
    BY <1>2, ContentsShrink
<1>5. /\ \A i \in 1 .. Len(results') : i + 1 \in 1 .. Len(results) /\ results'[i] = results[i + 1]
      /\ \A i \in 1 .. Len(results) : i = 1 \/ i - 1 \in 1 .. Len(results')
      /\ Len(results') <= JobQueue
    BY <1>2, <1>4
<1>6. /\ TakenTasks' = TakenTasks /\ Taken' = Taken /\ Earlier' = Earlier /\ Sent' = Sent
      /\ BusyWorkers' = BusyWorkers /\ PhaseTasks' = PhaseTasks
      /\ \A w \in Collectors : Working(w)' <=> Working(w)
    BY <1>3 DEF TakenTasks, Taken, Earlier, BusyWorkers, OutOfPhase, PhaseTasks, Working, Sent
<1>7. Answered' = Answered
    <2>1. (main.completed + 1) + (Len(results) - 1) = main.completed + Len(results)
        BY <1>2, <1>4, OneMovesOver, Zenon
    <2>2. Answered' = (main.completed + 1) + (Len(results) - 1) + Cardinality(BusyWorkers)
        BY <1>3, <1>4, <1>6 DEF Answered
    <2> QED
        BY <2>1, <2>2 DEF Answered
<1>8. JobsInOrder'
    BY <1>1, <1>3, <1>6, <1>7 DEF JobsInOrder
<1>9. Trouble => Trouble'
    <2>1. ASSUME NEW i \in 1 .. Len(results), results[i] # NoError PROVE Trouble'
        <3>1. i # 1 /\ i - 1 \in 1 .. Len(results')
            BY <1>5, <2>1, ContentsShrink, <1>2
        <3>2. results'[i - 1] = results[(i - 1) + 1] /\ (i - 1) + 1 = i
            BY <1>4, <1>5, <3>1
        <3> QED
            BY <2>1, <3>1, <3>2 DEF Trouble
    <2>2. ASSUME NEW w \in BusyWorkers, worker[w].error # NoError PROVE Trouble'
        BY <1>6, <2>2 DEF Trouble
    <2>3. ASSUME Answered < Taken PROVE Trouble'
        BY <1>6, <1>7, <2>3 DEF Trouble
    <2> QED
        BY <2>1, <2>2, <2>3 DEF Trouble
<1>10. TasksKept'
    BY <1>1, <1>3, <1>6, <1>9 DEF TasksKept
<1>11. RefreshTyped'
    <2>1. Requesting' = Requesting
        BY DEF Requesting
    <2> QED
        BY <1>1, <1>3, <1>4, <1>5, <2>1 DEF RefreshTyped
<1>12. RefreshStages'
    BY <1>1, <1>3, UnmovedWorkers DEF RefreshStages, Ended
<1>13. CausesKnown'
    BY <1>1, <1>3 DEF CausesKnown, Ended, Stopped
<1>14. ErrorsKnown'
    BY <1>1, <1>3, <1>5 DEF ErrorsKnown, ErrorKnown, Stopped
<1>15. AnswerTrue'
    BY <1>1, <1>3, NoAnswerYet
<1> QED
    BY <1>8, <1>10, <1>11, <1>12, <1>13, <1>14, <1>15 DEF RefreshInv

(* The goroutine of Run leaves a phase with an error that it has a reason for.*)
LEMMA UnwindIsSafe ==
    ASSUME RefreshInv, main.at = "tasks", NEW e \in Failures, e # NoError, ErrorKnown(e),
           main' = [main EXCEPT !.at = "unwind", !.error = e],
           results' \in Seq(Failures), Len(results') <= JobQueue,
           cancelled' \in {cancelled, cancelled \cup {"phase"}},
           UNCHANGED <<jobs, worker, limiter, pump, faults>>
    PROVE  RefreshInv'
<1>1. /\ RefreshTyped /\ RefreshStages /\ CausesKnown /\ AnswerTrue
    BY DEF RefreshInv
<1>2. /\ main' \in MainStates /\ main'.at = "unwind" /\ main'.error = e /\ main'.answer = main.answer
    BY <1>1 DEF RefreshTyped, MainStates
<1>3. /\ cancelled' \subseteq Contexts /\ ("run" \in cancelled' <=> "run" \in cancelled)
      /\ ("caller" \in cancelled' <=> "caller" \in cancelled)
    BY <1>1 DEF RefreshTyped, Contexts
<1>4. JobsInOrder' /\ TasksKept' /\ ErrorsKnown'
    BY <1>2 DEF JobsInOrder, TasksKept, ErrorsKnown
<1>5. RefreshTyped'
    <2>1. Requesting' = Requesting
        BY DEF Requesting
    <2> QED
        BY <1>1, <1>2, <1>3, <2>1 DEF RefreshTyped
<1>6. RefreshStages'
    BY <1>1, <1>2, UnmovedWorkers DEF RefreshStages, Ended
<1>7. CausesKnown'
    BY <1>1, <1>2, <1>3 DEF CausesKnown, Ended, Stopped, ErrorKnown
<1>8. AnswerTrue'
    BY <1>1, <1>2, NoAnswerYet
<1> QED
    BY <1>4, <1>5, <1>6, <1>7, <1>8 DEF RefreshInv

LEMMA TakeResultIsSafe ==
    ASSUME RefreshInv, TakeResult
    PROVE  RefreshInv'
<1>1. /\ main.at = "tasks" /\ results # <<>> /\ results' = Tail(results)
      /\ UNCHANGED <<jobs, worker, limiter, pump, faults>>
    BY DEF TakeResult
<1>2. CASE Head(results) = NoError
    <2>1. main' = [main EXCEPT !.completed = @ + 1] /\ cancelled' = cancelled
        BY <1>2 DEF TakeResult
    <2> QED
        BY <1>1, <1>2, <2>1, ResultTakenIsSafe
<1>3. CASE Head(results) # NoError
    <2> DEFINE e == Head(results)
    <2>1. RefreshTyped /\ ErrorsKnown /\ results \in Seq(Failures) /\ Len(results) <= JobQueue /\ JobQueue \in Nat
        BY RefreshConstants DEF RefreshInv, RefreshTyped
    <2>2. /\ e \in Failures /\ e = results[1] /\ Tail(results) \in Seq(Failures) /\ Len(results) \in Nat \ {0}
          /\ Len(Tail(results)) = Len(results) - 1
        BY <1>1, <2>1, ContentsShrink
    <2>3. Len(results') <= JobQueue
        BY <1>1, <2>1, <2>2
    <2>4. ErrorKnown(e)
        <3>1. 1 \in 1 .. Len(results)
            BY <2>2
        <3> QED
            BY <1>1, <2>1, <2>2, <3>1 DEF ErrorsKnown
    <2>5. main' = [main EXCEPT !.at = "unwind", !.error = e] /\ cancelled' \in {cancelled, cancelled \cup {"phase"}}
        BY <1>3 DEF TakeResult, Cancel
    <2>6. results' \in Seq(Failures)
        BY <1>1, <2>2
    <2> HIDE DEF e
    <2>7. e # NoError
        BY <1>3 DEF e
    <2> QED
        BY <1>1, <2>2, <2>3, <2>4, <2>5, <2>6, <2>7, UnwindIsSafe
<1> QED
    BY <1>2, <1>3

LEMMA SeeCancelledIsSafe ==
    ASSUME RefreshInv, SeeCancelled
    PROVE  RefreshInv'
<1>1. /\ main.at = "tasks" /\ "run" \in cancelled /\ main' = [main EXCEPT !.at = "unwind", !.error = "cancelled"]
      /\ UNCHANGED <<jobs, results, worker, limiter, pump, cancelled, faults>>
    BY DEF SeeCancelled
<1>2. results' \in Seq(Failures) /\ Len(results') <= JobQueue
    BY <1>1 DEF RefreshInv, RefreshTyped
<1>3. ErrorKnown("cancelled")
    BY <1>1 DEF RefreshInv, CausesKnown, ErrorKnown, Ended
<1>4. "cancelled" \in Failures /\ "cancelled" # NoError /\ cancelled' \in {cancelled, cancelled \cup {"phase"}}
    BY <1>1 DEF Failures, NoError
<1> QED
    BY <1>1, <1>2, <1>3, <1>4, UnwindIsSafe

LEMMA IdleIs == IdleWorker \in WorkerStates /\ IdleWorker.at = "idle" /\ IdleWorker.error = NoError
<1>1. 1 \in 1 .. MaxTries
    BY RefreshConstants
<1> QED
    BY <1>1 DEF IdleWorker, WorkerStates, Failures

(* A phase that is complete has lost no task.                                 *)
LEMMA PhaseComplete ==
    ASSUME RefreshTyped, RefreshStages, JobsInOrder, TasksKept, main.at = "tasks",
           main.completed = Len(PhaseTasks), PoolGone, pump.error = NoError
    PROVE  /\ IsFiniteSet(Sent) /\ Cardinality(Sent) = Len(pump.written) + Len(pump.queue)
           /\ Earlier \cup Contents(PhaseTasks) \subseteq Sent \cup Deniable
           /\ Sent \subseteq Earlier \cup Contents(PhaseTasks)
<1>1. /\ main.error = NoError /\ main.next \in Nat /\ main.completed \in Nat
      /\ Len(jobs) \in Nat /\ Len(results) \in Nat
    BY MainIs DEF RefreshStages
<1>2. \A w \in Collectors : OutOfPhase(w) /\ ~Working(w)
    BY DEF PoolGone, OutOfPhase, Working, WorkingStages
<1>3. BusyWorkers = {} /\ Cardinality(BusyWorkers) = 0
    BY <1>2, FS_EmptySet DEF BusyWorkers
<1>4. Taken \in Nat /\ main.next <= Len(PhaseTasks) /\ Answered <= Taken
    BY DEF JobsInOrder
<1>5. Answered = main.completed + Len(results)
    BY <1>1, <1>3 DEF Answered
<1>6. Taken = Len(PhaseTasks) /\ Len(results) = 0 /\ ~(Answered < Taken)
    BY <1>1, <1>4, <1>5 DEF Taken
<1>7. ~Trouble
    BY <1>3, <1>6 DEF Trouble
<1>8. TakenTasks = Contents(PhaseTasks)
    BY <1>6 DEF TakenTasks, Contents
<1> QED
    BY <1>1, <1>2, <1>7, <1>8 DEF TasksKept

LEMMA NextPhaseTasks ==
    ASSUME RefreshTyped, RefreshStages, JobsInOrder, TasksKept, NextPhase
    PROVE  JobsInOrder' /\ TasksKept'
<1>1. /\ main.at = "tasks" /\ main.completed = Len(PhaseTasks) /\ PoolGone
      /\ worker' = [w \in Collectors |-> IdleWorker] /\ jobs' = <<>> /\ results' = <<>>
    BY DEF NextPhase
<1>2. /\ main'.phase = main.phase + 1 /\ main'.next = 0 /\ main'.completed = 0
      /\ main'.at = (IF main.phase = Len(Phases) THEN "closing" ELSE "tasks") /\ main'.error = main.error
    BY DEF NextPhase, RefreshTyped, MainStates
<1>3. pump'.queue = pump.queue /\ pump'.written = pump.written /\ pump'.error = pump.error
    BY DEF NextPhase, RefreshTyped, PumpStates
<1>4. Sent' = Sent
    BY <1>3 DEF Sent
<1>5. \A w \in Collectors : OutOfPhase(w)' /\ ~Working(w)'
    BY <1>1, IdleIs DEF OutOfPhase, Working, WorkingStages
<1>6. BusyWorkers' = {} /\ Cardinality(BusyWorkers') = 0
    BY <1>5, FS_EmptySet DEF BusyWorkers
<1>7. Len(jobs') = 0 /\ Len(results') = 0
    BY <1>1, EmptySeq
<1>8. Taken' = 0 /\ Answered' = 0
    BY <1>2, <1>6, <1>7 DEF Taken, Answered
<1>9. main.phase \in 1 .. Len(Phases) /\ Len(Phases) \in Nat
    BY <1>1, MainIs, PhasesTyped DEF RefreshStages
<1>10. JobsInOrder'
    <2> SUFFICES ASSUME main'.at = "tasks" PROVE Len(Phases[main'.phase]) \in Nat
        BY <1>2, <1>7, <1>8 DEF JobsInOrder, PhaseTasks
    <2>1. main.phase # Len(Phases)
        BY <1>2
    <2>2. main'.phase \in 1 .. Len(Phases)
        BY <1>2, <1>9, <2>1
    <2> QED
        BY <2>2, PhasesTyped
<1>11. ASSUME main.error = NoError, pump.error = NoError PROVE TasksKept'
    <2>1. /\ IsFiniteSet(Sent) /\ Cardinality(Sent) = Len(pump.written) + Len(pump.queue)
          /\ Earlier \cup Contents(PhaseTasks) \subseteq Sent \cup Deniable
          /\ Sent \subseteq Earlier \cup Contents(PhaseTasks)
        BY <1>1, <1>11, PhaseComplete
    <2>2. Earlier' = UNION {Contents(Phases[i]) : i \in 1 .. (main.phase + 1) - 1}
        BY <1>2 DEF Earlier
    <2>3. \A i : i \in 1 .. (main.phase + 1) - 1 <=> i \in 1 .. main.phase - 1 \/ i = main.phase
        BY <1>9
    <2>4. Earlier' = Earlier \cup Contents(PhaseTasks)
        BY <2>2, <2>3 DEF Earlier, PhaseTasks
    <2>5. TakenTasks' = {}
        BY <1>8 DEF TakenTasks
    <2> QED
        BY <1>3, <1>4, <1>5, <2>1, <2>4, <2>5 DEF TasksKept
<1>12. ~(main.error = NoError /\ pump.error = NoError) => TasksKept'
    BY <1>2, <1>3 DEF TasksKept
<1> QED
    BY <1>10, <1>11, <1>12

LEMMA NextPhaseIsSafe ==
    ASSUME RefreshInv, NextPhase
    PROVE  RefreshInv'
<1>1. /\ RefreshTyped /\ RefreshStages /\ CausesKnown /\ ErrorsKnown /\ JobsInOrder /\ TasksKept /\ AnswerTrue
    BY DEF RefreshInv
<1> DEFINE at == IF main.phase = Len(Phases) THEN "closing" ELSE "tasks"
<1>2. /\ main.at = "tasks" /\ PoolGone
      /\ main' = [main EXCEPT !.phase = @ + 1, !.next = 0, !.completed = 0, !.at = at]
      /\ worker' = [w \in Collectors |-> IdleWorker] /\ jobs' = <<>> /\ results' = <<>>
      /\ cancelled' = cancelled \ (IF "run" \in cancelled THEN {} ELSE {"phase"})
      /\ pump' = (IF main.phase = Len(Phases) THEN [pump EXCEPT !.closed = TRUE] ELSE pump)
      /\ UNCHANGED <<limiter, faults>>
    BY DEF NextPhase
<1>3. main.phase \in 1 .. Len(Phases) /\ Len(Phases) \in Nat /\ main.error = NoError
    BY <1>1, <1>2, MainIs, PhasesTyped, SMTT(30) DEF RefreshStages
<1>4. main.phase + 1 \in 1 .. Len(Phases) + 1 /\ (main.phase = Len(Phases) <=> main.phase + 1 = Len(Phases) + 1)
      /\ (main.phase # Len(Phases) => main.phase + 1 <= Len(Phases))
    BY <1>3
<1>5. at \in {"tasks", "closing"} /\ (at = "closing" <=> main.phase = Len(Phases))
    OBVIOUS
<1> HIDE DEF at
<1>6. /\ main' \in MainStates /\ main'.phase = main.phase + 1 /\ main'.at = at /\ main'.error = NoError
      /\ main'.answer = main.answer
    BY <1>1, <1>2, <1>3, <1>4, <1>5 DEF RefreshTyped, MainStates
<1>7. /\ pump' \in PumpStates /\ pump'.queue = pump.queue /\ pump'.written = pump.written
      /\ pump'.running = pump.running /\ pump'.error = pump.error
      /\ (main.phase = Len(Phases) => pump'.closed = TRUE)
      /\ (main.phase # Len(Phases) => pump'.closed = pump.closed)
    BY <1>1, <1>2 DEF RefreshTyped, PumpStates
<1>8. /\ \A w \in Collectors : OutOfPhase(w)' /\ ~Working(w)' /\ worker'[w].at # "request" /\ worker[w].at # "request"
      /\ \A w \in Collectors : worker'[w].error = NoError
      /\ worker' \in [Collectors -> WorkerStates]
    BY <1>2, IdleIs DEF OutOfPhase, Working, WorkingStages, PoolGone
<1>9. ~Ended /\ (Ended' <=> main.phase = Len(Phases)) /\ main'.at # "unwind" /\ main'.at # "returned"
    BY <1>2, <1>5, <1>6 DEF Ended
<1>10. RefreshTyped'
    <2>1. Requesting' = Requesting
        BY <1>8 DEF Requesting
    <2>2. jobs' \in Seq(AllTasks) /\ results' \in Seq(Failures) /\ Len(jobs') = 0 /\ Len(results') = 0
        BY <1>2, EmptySeq
    <2>3. Len(jobs') <= JobQueue /\ Len(results') <= JobQueue
        BY <2>2, RefreshConstants
    <2>4. cancelled' \subseteq Contexts
        BY <1>1, <1>2 DEF RefreshTyped
    <2> QED
        BY <1>1, <1>2, <1>6, <1>7, <1>8, <2>1, <2>2, <2>3, <2>4 DEF RefreshTyped
<1>11. RefreshStages'
    BY <1>1, <1>4, <1>5, <1>6, <1>7, <1>8, <1>9 DEF RefreshStages
<1>12. /\ "run" \in cancelled' <=> "run" \in cancelled
       /\ "caller" \in cancelled' <=> "caller" \in cancelled
       /\ "phase" \in cancelled' => "run" \in cancelled'
    BY <1>2
<1>13. CausesKnown'
    BY <1>1, <1>2, <1>3, <1>6, <1>7, <1>9, <1>12 DEF CausesKnown, Stopped, NoError
<1>14. ErrorsKnown'
    <2>1. Len(results') = 0
        BY <1>2, EmptySeq
    <2> QED
        BY <1>8, <2>1 DEF ErrorsKnown, ErrorKnown, NoError
<1>15. AnswerTrue'
    BY <1>1, <1>2, <1>6, NoAnswerYet
<1> QED
    BY <1>1, <1>10, <1>11, <1>13, <1>14, <1>15, NextPhaseTasks DEF RefreshInv

LEMMA UnwoundIsSafe ==
    ASSUME RefreshInv, Unwound
    PROVE  RefreshInv'
<1>1. /\ RefreshTyped /\ RefreshStages /\ CausesKnown /\ ErrorsKnown /\ JobsInOrder /\ TasksKept /\ AnswerTrue
    BY DEF RefreshInv
<1>2. /\ main.at = "unwind" /\ PoolGone /\ main' = [main EXCEPT !.at = "closing"]
      /\ cancelled' = cancelled \cup {"run", "phase"} /\ pump' = [pump EXCEPT !.closed = TRUE]
      /\ UNCHANGED <<jobs, results, worker, limiter, faults>>
    BY DEF Unwound, Cancel
<1>3. /\ main' \in MainStates /\ main'.phase = main.phase /\ main'.at = "closing" /\ main'.error = main.error
      /\ main'.answer = main.answer /\ main.error # NoError
    BY <1>1, <1>2 DEF RefreshTyped, RefreshStages, MainStates
<1>4. /\ pump' \in PumpStates /\ pump'.queue = pump.queue /\ pump'.written = pump.written
      /\ pump'.running = pump.running /\ pump'.error = pump.error /\ pump'.closed = TRUE
    BY <1>1, <1>2 DEF RefreshTyped, PumpStates
<1>5. JobsInOrder' /\ TasksKept' /\ ErrorsKnown'
    BY <1>3 DEF JobsInOrder, TasksKept, ErrorsKnown
<1>6. RefreshTyped'
    <2>1. cancelled' \subseteq Contexts /\ faults' \in Nat /\ Len(pump'.queue) <= BatchQueue
        BY <1>1, <1>2, <1>4 DEF RefreshTyped, Contexts
    <2> QED
        BY <1>1, <1>2, <1>3, <1>4, <2>1, UnmovedTyped
<1>7. \A w \in Collectors : OutOfPhase(w)'
    BY <1>2 DEF PoolGone, OutOfPhase
<1>8. Ended'
    BY <1>3 DEF Ended
<1>9. RefreshStages'
    BY <1>1, <1>2, <1>3, <1>4, <1>7, <1>8, UnmovedWorkers DEF RefreshStages
<1>10. CausesKnown'
    BY <1>1, <1>2, <1>3, <1>4, <1>8 DEF CausesKnown, Stopped
<1>11. AnswerTrue'
    BY <1>1, <1>2, <1>3, NoAnswerYet
<1> QED
    BY <1>5, <1>6, <1>9, <1>10, <1>11 DEF RefreshInv

(* Run answers "ok" only when everything is written.                          *)
LEMMA SuccessIsWhole ==
    ASSUME RefreshInv, main.at = "closing", ~pump.running, main.error = NoError, pump.error = NoError,
           "caller" \notin cancelled
    PROVE  /\ Denied(pump.written) \subseteq Deniable
           /\ Len(pump.written) = Cardinality(AllTasks \ Denied(pump.written))
<1>1. RefreshTyped /\ RefreshStages /\ CausesKnown /\ TasksKept
    BY DEF RefreshInv
<1>2. "run" \notin cancelled
    BY <1>1 DEF CausesKnown, Stopped, NoError
<1>3. pump.queue = <<>>
    BY <1>1, <1>2 DEF CausesKnown
<1>4. main.phase = Len(Phases) + 1 /\ Len(Phases) \in Nat
    BY <1>1, PhasesTyped DEF RefreshStages, Ended
<1>5. Len(pump.queue) = 0 /\ Contents(pump.queue) = {}
    BY <1>3, EmptySeq DEF Contents
<1>6. Sent = Contents(pump.written)
    BY <1>5 DEF Sent
<1>7. pump.written \in Seq(AllTasks) /\ Len(pump.written) \in Nat
    BY <1>1, MainIs
<1>8. Contents(pump.written) \subseteq AllTasks
    BY <1>7, ElementOfSeq DEF Contents
<1>9. AllTasks \subseteq Earlier
    <2> SUFFICES ASSUME NEW t \in AllTasks PROVE t \in Earlier
        OBVIOUS
    <2>1. PICK i \in 1 .. Len(Phases) : \E j \in 1 .. Len(Phases[i]) : t = Phases[i][j]
        BY PhasesTyped
    <2>2. i \in 1 .. main.phase - 1
        BY <1>4
    <2> QED
        BY <2>1, <2>2 DEF Earlier, Contents
<1>10. AllTasks \subseteq Contents(pump.written) \cup Deniable
    BY <1>1, <1>6, <1>9 DEF TasksKept
<1>11. Denied(pump.written) = AllTasks \ Contents(pump.written)
    BY DEF Denied, Contents
<1>12. AllTasks \ Denied(pump.written) = Contents(pump.written)
    BY <1>8, <1>11
<1>13. Cardinality(Contents(pump.written)) = Len(pump.written)
    BY <1>1, <1>5, <1>6, <1>7 DEF TasksKept
<1> QED
    BY <1>10, <1>11, <1>12, <1>13

LEMMA RefreshReturnIsSafe ==
    ASSUME RefreshInv, RefreshReturn
    PROVE  RefreshInv'
<1>1. /\ RefreshTyped /\ RefreshStages /\ CausesKnown /\ ErrorsKnown /\ JobsInOrder /\ TasksKept /\ AnswerTrue
    BY DEF RefreshInv
<1>2. /\ main.at = "closing" /\ ~pump.running /\ main' = [main EXCEPT !.at = "returned", !.answer = Verdict]
      /\ UNCHANGED <<jobs, results, worker, limiter, pump, cancelled, faults>>
    BY DEF RefreshReturn
<1>3. main.error \in Failures /\ pump.error \in {NoError, "write", "cancelled"} /\ main \in MainStates
    BY <1>1, MainIs DEF RefreshTyped
<1>4. /\ Verdict \in RefreshOutcomes
      /\ Verdict = "ok" => main.error = NoError /\ pump.error = NoError /\ "caller" \notin cancelled
    BY <1>3 DEF Verdict, RefreshOutcomes, Failures, NoError
<1>5. Verdict = "cancelled" => "caller" \in cancelled
    BY <1>1, <1>3 DEF Verdict, CausesKnown, Stopped, NoError, Failures
<1>6. Verdict \in {"fetch", "write"} => faults > 0
    BY <1>1, <1>3 DEF Verdict, CausesKnown, NoError, Failures
<1>7. /\ main' \in MainStates /\ main'.phase = main.phase /\ main'.at = "returned" /\ main'.error = main.error
      /\ main'.answer = Verdict /\ main'.next = main.next /\ main'.completed = main.completed
    BY <1>2, <1>3, <1>4 DEF MainStates
<1>8. JobsInOrder' /\ ErrorsKnown'
    BY <1>7 DEF JobsInOrder, ErrorsKnown
<1>9. TasksKept'
    <2>1. Sent' = Sent /\ Earlier' = Earlier
        BY <1>2, <1>7 DEF Sent, Earlier
    <2> QED
        BY <1>1, <1>2, <1>7, <2>1 DEF TasksKept
<1>10. RefreshTyped'
    <2>1. pump' \in PumpStates /\ cancelled' \subseteq Contexts /\ faults' \in Nat /\ Len(pump'.queue) <= BatchQueue
        BY <1>1, <1>2 DEF RefreshTyped
    <2> QED
        BY <1>1, <1>2, <1>7, <2>1, UnmovedTyped
<1>11. RefreshStages'
    BY <1>1, <1>2, <1>7, UnmovedWorkers DEF RefreshStages, Ended
<1>12. CausesKnown'
    BY <1>1, <1>2, <1>7 DEF CausesKnown, Stopped, Ended
<1>13. AnswerTrue'
    <2>1. Verdict = "ok" =>
              /\ Denied(pump.written) \subseteq Deniable
              /\ Len(pump.written) = Cardinality(AllTasks \ Denied(pump.written))
        BY <1>2, <1>4, SuccessIsWhole
    <2>2. Denied(pump'.written) = Denied(pump.written) /\ pump' = pump /\ cancelled' = cancelled /\ faults' = faults
        BY <1>2
    <2> HIDE DEF Verdict
    <2> QED
        BY <1>5, <1>6, <1>7, <2>1, <2>2 DEF AnswerTrue
<1> QED
    BY <1>8, <1>9, <1>10, <1>11, <1>12, <1>13 DEF RefreshInv

-----------------------------------------------------------------------------
(* The refresh.                                                               *)

LEMMA RefreshInvInitially == RefreshInit => RefreshInv
<1> SUFFICES ASSUME RefreshInit PROVE RefreshInv
    OBVIOUS
<1>1. /\ main = [phase |-> 1, next |-> 0, completed |-> 0, at |-> "tasks", error |-> NoError, answer |-> NoError]
      /\ jobs = <<>> /\ results = <<>> /\ worker = [w \in Collectors |-> IdleWorker]
      /\ limiter = [limit |-> InitialLimit, inFlight |-> 0, successes |-> 0, cooldown |-> FALSE]
      /\ pump = [queue |-> <<>>, closed |-> FALSE, running |-> TRUE, error |-> NoError, written |-> <<>>]
      /\ cancelled = {} /\ faults = 0
    BY DEF RefreshInit
<1>2. Len(Phases) \in Nat \ {0} /\ Len(Phases[1]) \in Nat
    BY PhasesTyped
<1>3. /\ worker \in [Collectors -> WorkerStates]
      /\ \A w \in Collectors : worker[w].at = "idle" /\ worker[w].error = NoError
    BY <1>1, IdleIs
<1>4. \A w \in Collectors : OutOfPhase(w) /\ ~Working(w)
    BY <1>3 DEF OutOfPhase, Working, WorkingStages
<1>5. Requesting = {} /\ BusyWorkers = {} /\ Cardinality({}) = 0 /\ IsFiniteSet({})
    BY <1>3, <1>4, FS_EmptySet DEF Requesting, BusyWorkers
<1>6. /\ jobs \in Seq(AllTasks) /\ results \in Seq(Failures) /\ Len(jobs) = 0 /\ Len(results) = 0
      /\ pump.queue \in Seq(AllTasks) /\ pump.written \in Seq(AllTasks)
      /\ Len(pump.queue) = 0 /\ Len(pump.written) = 0
    BY <1>1, EmptySeq
<1>7. main \in MainStates
    BY <1>1, <1>2 DEF MainStates, Failures, RefreshOutcomes
<1>8. limiter \in LimiterStates /\ limiter.inFlight = 0
    <2>1. MaxConcurrency \in Nat /\ InitialLimit \in 1 .. MaxConcurrency
        BY WorkersCounted, RefreshConstants DEF MaxConcurrency
    <2> QED
        BY <1>1, <2>1 DEF LimiterStates
<1>9. pump \in PumpStates
    BY <1>1, <1>6 DEF PumpStates
<1>10. RefreshTyped
    <2>1. JobQueue >= 0 /\ BatchQueue >= 0
        BY RefreshConstants
    <2> QED
        BY <1>1, <1>3, <1>5, <1>6, <1>7, <1>8, <1>9, <2>1 DEF RefreshTyped
<1>11. RefreshStages
    BY <1>1, <1>2, <1>4 DEF RefreshStages, Ended
<1>12. CausesKnown /\ ErrorsKnown /\ AnswerTrue
    BY <1>1, <1>3, <1>6 DEF CausesKnown, ErrorsKnown, ErrorKnown, AnswerTrue, Stopped, Ended, NoError
<1>13. Taken = 0 /\ Answered = 0
    BY <1>1, <1>5, <1>6 DEF Taken, Answered
<1>14. JobsInOrder
    BY <1>1, <1>2, <1>6, <1>13 DEF JobsInOrder, PhaseTasks
<1>15. Sent = {} /\ TakenTasks = {} /\ Earlier = {}
    BY <1>1, <1>6, <1>13 DEF Sent, Contents, TakenTasks, Earlier
<1>16. TasksKept
    BY <1>4, <1>5, <1>6, <1>15 DEF TasksKept
<1> QED
    BY <1>10, <1>11, <1>12, <1>14, <1>16 DEF RefreshInv

LEMMA CollectorIsSafe ==
    ASSUME RefreshInv, NEW w \in Collectors, CollectorStep(w)
    PROVE  RefreshInv'
<1>1. CASE TakeTask(w)
    BY <1>1, TakeTaskIsSafe
<1>2. CASE LeavePool(w)
    BY <1>2, LeavePoolMoves, WorkersMoveSafely
<1>3. CASE Acquire(w)
    BY <1>3, AcquireMoves, WorkersMoveSafely
<1>4. CASE StopWaiting(w)
    BY <1>4, StopWaitingMoves, WorkersMoveSafely
<1>5. CASE BackoffEnds(w)
    BY <1>5, BackoffEndsMoves, WorkersMoveSafely
<1>6. ASSUME NEW answer \in Answers, Fetch(w, answer) PROVE RefreshInv'
    BY <1>6, FetchMoves, WorkersMoveSafely
<1>7. CASE RequestCancelled(w)
    BY <1>7, RequestCancelledMoves, WorkersMoveSafely
<1>8. CASE Emit(w)
    BY <1>8, EmitIsSafe
<1>9. CASE ReportResult(w)
    BY <1>9, ReportResultIsSafe
<1> QED
    BY <1>1, <1>2, <1>3, <1>4, <1>5, <1>6, <1>7, <1>8, <1>9 DEF CollectorStep

LEMMA RefreshInvKept == RefreshInv /\ [RefreshNext]_refreshVars => RefreshInv'
<1> SUFFICES ASSUME RefreshInv, [RefreshNext]_refreshVars PROVE RefreshInv'
    OBVIOUS
<1>1. CASE \E w \in Collectors : CollectorStep(w)
    BY <1>1, CollectorIsSafe
<1>2. CASE CooldownEnds
    BY <1>2, CooldownEndsMoves, WorkersMoveSafely
<1>3. CASE PumpStep
    BY <1>3, WriteBatchIsSafe, PumpEndsIsSafe DEF PumpStep
<1>4. CASE MainStep
    BY <1>4, HandOutIsSafe, TakeResultIsSafe, SeeCancelledIsSafe, NextPhaseIsSafe, UnwoundIsSafe,
       RefreshReturnIsSafe DEF MainStep
<1>5. CASE CallerCancels
    BY <1>5, CallerCancelsIsSafe
<1>6. CASE UNCHANGED refreshVars
    <2>1. UNCHANGED <<main, jobs, results, worker, limiter, pump, cancelled, faults>>
        BY <1>6 DEF refreshVars
    <2>2. /\ RefreshTyped /\ RefreshStages /\ CausesKnown /\ ErrorsKnown /\ JobsInOrder /\ TasksKept /\ AnswerTrue
        BY DEF RefreshInv
    <2>3. JobsInOrder' /\ TasksKept'
        BY <2>1, <2>2, PoolUnmoved DEF Sent
    <2>4. RefreshTyped'
        BY <2>1, <2>2 DEF RefreshTyped, Requesting
    <2>5. RefreshStages'
        BY <2>1, <2>2 DEF RefreshStages, Ended, OutOfPhase, Working
    <2>6. CausesKnown' /\ ErrorsKnown'
        BY <2>1, <2>2 DEF CausesKnown, ErrorsKnown, ErrorKnown, Stopped, Ended
    <2>7. AnswerTrue'
        BY <2>1, <2>2 DEF AnswerTrue, Denied
    <2> QED
        BY <2>3, <2>4, <2>5, <2>6, <2>7 DEF RefreshInv
<1> QED
    BY <1>1, <1>2, <1>3, <1>4, <1>5, <1>6 DEF RefreshNext

LEMMA RefreshInvImplies == RefreshInv => RefreshIsTrue
<1> SUFFICES ASSUME RefreshInv PROVE RefreshIsTrue
    OBVIOUS
<1>1. RefreshTyped /\ RefreshStages /\ AnswerTrue
    BY DEF RefreshInv
<1>2. RefreshTypeOK
    <2>1. main \in [phase : 1 .. Len(Phases) + 1, next : Nat, completed : Nat,
                    at : {"tasks", "unwind", "closing", "returned"}, error : RefreshOutcomes, answer : RefreshOutcomes]
        BY <1>1 DEF RefreshTyped, MainStates, Failures, RefreshOutcomes
    <2>2. worker \in [Collectors -> [at : {"idle", "acquire", "parked", "cooling", "request",
                                           "backoff", "emit", "report", "gone"},
                                     task : AllTasks \cup {0}, try : 1 .. MaxTries, error : RefreshOutcomes]]
        BY <1>1 DEF RefreshTyped, WorkerStates, WorkingStages, Failures, RefreshOutcomes
    <2> QED
        BY <1>1, <2>1, <2>2 DEF RefreshTypeOK, RefreshTyped, LimiterStates, Contexts
<1>3. pump.closed => \A w \in Collectors : worker[w].at \in {"idle", "gone"}
    BY <1>1 DEF RefreshStages, OutOfPhase
<1> QED
    BY <1>1, <1>2, <1>3 DEF RefreshIsTrue, AnswerTrue

(* A run of the collection engine that succeeds has written every page once,  *)
(* but for permissions that Tableau refused; one that fails says truly why.   *)
(* For any phases of distinct tasks, any number of workers and any capacity   *)
(* of the queues.                                                             *)
THEOREM RefreshesAreTrue == RefreshSpec => []RefreshIsTrue
<1>1. RefreshInit => RefreshInv
    BY RefreshInvInitially
<1>2. RefreshInv /\ [RefreshNext]_refreshVars => RefreshInv'
    BY RefreshInvKept
<1>3. RefreshInv => RefreshIsTrue
    BY RefreshInvImplies
<1> QED
    BY <1>1, <1>2, <1>3, PTL DEF RefreshSpec

USE RootLockConstants

-----------------------------------------------------------------------------
(* RootLock.                                                                  *)

HasOpen(p) == locker[p].at \in {"lock", "confirm", "held", "removed"}
HasLock(p) == locker[p].at \in {"confirm", "held", "removed"}
Trying(p) == locker[p].at \in {"open", "lock", "confirm"}

(* A process that has opened the file knows one that exists, and has attempts *)
(* left while it tries.                                                       *)
OpenFiles ==
    /\ lockName <= lockFiles
    /\ \A p \in Lockers :
        /\ HasOpen(p) => File(p) \in 1 .. lockFiles
        /\ locker[p].at = "away" => locker[p].attempt = 0
        /\ locker[p].at = "open" => locker[p].attempt < RootAttempts

(* The system's lock on a file and the process that has it name each other.   *)
LockOwners ==
    /\ \A p \in Lockers : HasLock(p) => lockedBy[File(p)] = p
    /\ \A f \in 1 .. MaxFiles, p \in Lockers : lockedBy[f] = p => HasLock(p) /\ File(p) = f

(* Who holds the lock has locked the very file that the name refers to.       *)
HeldIsNamed == \A p \in Lockers : locker[p].at = "held" => lockName = File(p)

(* A process that meets another one, or whose file has lost its name, has     *)
(* noted that it was contended.                                               *)
ContentionNoted ==
    /\ \A p, q \in Lockers : p # q /\ Trying(p) /\ HasLock(q) => locker[p].contended
    /\ \A p \in Lockers :
        locker[p].at \in {"lock", "confirm"} /\ lockName # File(p) => locker[p].contended
    /\ \A p \in Lockers : locker[p].at = "refused" => locker[p].contended

LockInv ==
    /\ RootLockTypeOK /\ OpenFiles /\ LockOwners /\ HeldIsNamed /\ ContentionNoted

USE DEF HasOpen, HasLock, Trying, File

LockerStages == {"away", "open", "lock", "confirm", "held", "removed", "refused"}
LockerState ==
    [at : LockerStages, file : 0 .. MaxFiles, attempt : 0 .. RootAttempts, contended : BOOLEAN]

LEMMA LockTypes ==
    RootLockTypeOK <=>
        /\ lockName \in 0 .. MaxFiles /\ lockFiles \in 0 .. MaxFiles
        /\ lockedBy \in [1 .. MaxFiles -> Lockers \cup {NoLocker}]
        /\ locker \in [Lockers -> LockerState]
BY DEF RootLockTypeOK, LockerState, LockerStages

(* A process that moves on stays one.                                         *)
LEMMA LockerMoves ==
    ASSUME NEW r \in LockerState, NEW at \in LockerStages
    PROVE  [r EXCEPT !.at = at] \in LockerState
BY DEF LockerState

(* Every step keeps the types; the attempts are bounded because a process     *)
(* opens the file again only while it has attempts left.                      *)
LEMMA LockTyping == ASSUME LockInv, [RootLockNext]_rootLockVars PROVE RootLockTypeOK'
<1>1. lockName \in 0 .. MaxFiles /\ lockFiles \in 0 .. MaxFiles
    BY DEF LockInv, RootLockTypeOK
<1>2. lockedBy \in [1 .. MaxFiles -> Lockers \cup {NoLocker}]
    BY DEF LockInv, RootLockTypeOK
<1>3. locker \in [Lockers -> LockerState]
    BY LockTypes DEF LockInv
<1>4. SUFFICES /\ lockName' \in 0 .. MaxFiles /\ lockFiles' \in 0 .. MaxFiles
               /\ lockedBy' \in [1 .. MaxFiles -> Lockers \cup {NoLocker}]
               /\ locker' \in [Lockers -> LockerState]
    BY DEF RootLockTypeOK, LockerState, LockerStages
<1>5. Away \in LockerState
    BY DEF LockerState, LockerStages, Away
<1>6. ASSUME NEW p \in Lockers
      PROVE  \A at \in LockerStages : [locker EXCEPT ![p] = [locker[p] EXCEPT !.at = at]] \in [Lockers -> LockerState]
    BY <1>3, LockerMoves
<1>7. {"open", "lock", "confirm", "held", "removed", "refused"} \subseteq LockerStages
    BY DEF LockerStages
<1>8. ASSUME NEW p \in Lockers
      PROVE  [lockedBy EXCEPT ![File(p)] = NoLocker] \in [1 .. MaxFiles -> Lockers \cup {NoLocker}]
    BY <1>2
<1>9. ASSUME NEW p \in Lockers, TryAcquireIn(p) PROVE locker' \in [Lockers -> LockerState]
    <2>1. [locker[p] EXCEPT !.at = "open", !.contended = Busy] \in LockerState
        BY <1>3 DEF LockerState, LockerStages, Busy
    <2> QED
        BY <1>3, <1>9, <2>1 DEF TryAcquireIn
<1>10. ASSUME NEW p \in Lockers, OpenName(p)
       PROVE  /\ lockName' \in 0 .. MaxFiles /\ lockFiles' \in 0 .. MaxFiles
              /\ locker' \in [Lockers -> LockerState]
    <2>1. lockName' \in 0 .. MaxFiles /\ lockFiles' \in 0 .. MaxFiles
        BY <1>1, <1>10 DEF OpenName
    <2>2. locker[p] \in LockerState /\ locker[p].attempt + 1 \in 0 .. RootAttempts
        BY <1>3, <1>10 DEF OpenName, LockInv, OpenFiles, LockerState
    <2>3. [locker[p] EXCEPT !.at = "lock", !.file = lockName', !.attempt = @ + 1] \in LockerState
        BY <2>1, <2>2 DEF LockerState, LockerStages
    <2> QED
        BY <1>3, <1>10, <2>1, <2>3 DEF OpenName
<1>11. ASSUME NEW p \in Lockers, LockFile(p)
       PROVE  /\ lockedBy' \in [1 .. MaxFiles -> Lockers \cup {NoLocker}]
              /\ locker' \in [Lockers -> LockerState]
    <2>1. \A q \in Lockers : [locker[q] EXCEPT !.contended = TRUE] \in LockerState
        BY <1>3 DEF LockerState
    <2>2. Contend \in [Lockers -> LockerState]
        BY <1>3, <2>1 DEF Contend
    <2>3. [locker[p] EXCEPT !.at = "confirm"] \in LockerState
        BY <1>3, <1>7, LockerMoves
    <2>4. [Contend EXCEPT ![p] = [locker[p] EXCEPT !.at = "confirm"]] \in [Lockers -> LockerState]
        BY <2>2, <2>3
    <2>5. [lockedBy EXCEPT ![File(p)] = p] \in [1 .. MaxFiles -> Lockers \cup {NoLocker}]
        BY <1>2
    <2> QED
        BY <1>2, <1>6, <1>7, <1>11, <2>4, <2>5 DEF LockFile
<1>12. ASSUME NEW p \in Lockers, Confirm(p)
       PROVE  /\ lockedBy' \in [1 .. MaxFiles -> Lockers \cup {NoLocker}]
              /\ locker' \in [Lockers -> LockerState]
    <2>1. CASE SameFile(p)
        <3>1. locker' = [locker EXCEPT ![p] = [locker[p] EXCEPT !.at = "held"]] /\ lockedBy' = lockedBy
            BY <1>12, <2>1 DEF Confirm
        <3> QED
            BY <1>2, <1>6, <1>7, <3>1
    <2>2. CASE ~SameFile(p)
        <3> DEFINE at == IF locker[p].attempt = RootAttempts THEN "refused" ELSE "open"
        <3>1. locker' = [locker EXCEPT ![p] = [locker[p] EXCEPT !.at = at]]
              /\ lockedBy' = [lockedBy EXCEPT ![File(p)] = NoLocker]
            BY <1>12, <2>2 DEF Confirm, Unlocked
        <3>2. at \in LockerStages
            BY <1>7
        <3> HIDE DEF at
        <3> QED
            BY <1>6, <1>8, <3>1, <3>2
    <2> QED
        BY <2>1, <2>2
<1>13. ASSUME NEW p \in Lockers, RemoveName(p) PROVE lockName' \in 0 .. MaxFiles /\ locker' \in [Lockers -> LockerState]
    <2>1. lockName' = 0 /\ locker' = [locker EXCEPT ![p] = [locker[p] EXCEPT !.at = "removed"]]
        BY <1>13 DEF RemoveName
    <2> QED
        BY <1>6, <1>7, <2>1
<1>14. ASSUME NEW p \in Lockers, UnlockRemoved(p) \/ KillLocker(p)
       PROVE  /\ lockedBy' \in [1 .. MaxFiles -> Lockers \cup {NoLocker}]
              /\ locker' \in [Lockers -> LockerState]
    BY <1>2, <1>3, <1>5, <1>8, <1>14 DEF UnlockRemoved, KillLocker, Unlocked
<1> QED
    BY <1>1, <1>2, <1>3, <1>9, <1>10, <1>11, <1>12, <1>13, <1>14
    DEF RootLockNext, rootLockVars, TryAcquireIn, OpenName, LockFile, Confirm, RemoveName, UnlockRemoved, KillLocker

(* Who holds the lock is the only one, and nobody is refused by a lock that   *)
(* no other process had: every step keeps the invariant.                      *)
LEMMA LockStep == ASSUME LockInv, [RootLockNext]_rootLockVars PROVE LockInv'
<1>1. RootLockTypeOK /\ RootLockTypeOK'
    BY LockTyping DEF LockInv
<1>2. DOMAIN locker = Lockers /\ DOMAIN lockedBy = 1 .. MaxFiles
    BY <1>1 DEF RootLockTypeOK
<1>3. /\ \A p \in Lockers : /\ File(p) \in 0 .. MaxFiles /\ locker[p].attempt \in 0 .. RootAttempts
                             /\ DOMAIN locker[p] = {"at", "file", "attempt", "contended"}
      /\ lockName \in 0 .. MaxFiles /\ lockFiles \in 0 .. MaxFiles
    BY <1>1 DEF RootLockTypeOK
<1>4. OpenFiles /\ LockOwners /\ HeldIsNamed /\ ContentionNoted
    BY DEF LockInv
<1>5. ASSUME NEW p \in Lockers, TryAcquireIn(p) PROVE LockInv'
    <2>1. /\ \A q \in Lockers \ {p} : locker'[q] = locker[q]
          /\ locker[p].at = "away" /\ locker'[p].at = "open" /\ locker'[p].attempt = locker[p].attempt
          /\ Busy => locker'[p].contended
          /\ UNCHANGED <<lockName, lockFiles, lockedBy>>
        BY <1>2, <1>3, <1>5 DEF TryAcquireIn
    <2>2. OpenFiles'
        BY <1>3, <1>4, <1>5, <2>1 DEF OpenFiles
    <2>3. LockOwners'
        BY <1>3, <1>4, <1>5, <2>1 DEF LockOwners, OpenFiles
    <2>4. HeldIsNamed'
        BY <1>3, <1>4, <1>5, <2>1 DEF HeldIsNamed, LockOwners, OpenFiles
    <2>5. ContentionNoted'
        BY <1>3, <1>4, <1>5, <2>1 DEF ContentionNoted, LockOwners, HeldIsNamed, OpenFiles, Busy
    <2> QED
        BY <1>1, <2>2, <2>3, <2>4, <2>5 DEF LockInv
<1>6. ASSUME NEW p \in Lockers, OpenName(p) PROVE LockInv'
    <2>1. /\ \A q \in Lockers \ {p} : locker'[q] = locker[q]
          /\ locker[p].at = "open" /\ locker'[p].at = "lock" /\ locker'[p].contended = locker[p].contended
          /\ File(p)' = lockName' /\ lockedBy' = lockedBy
          /\ \/ lockName' = lockName /\ lockFiles' = lockFiles /\ lockName # 0
             \/ lockName = 0 /\ lockName' = lockFiles + 1 /\ lockFiles' = lockFiles + 1
        BY <1>2, <1>3, <1>6 DEF OpenName
    <2>2. OpenFiles'
        BY <1>3, <1>4, <1>6, <2>1 DEF OpenFiles
    <2>3. LockOwners'
        BY <1>3, <1>4, <1>6, <2>1 DEF LockOwners, OpenFiles
    <2>4. HeldIsNamed'
        BY <1>3, <1>4, <1>6, <2>1 DEF HeldIsNamed, LockOwners, OpenFiles
    <2>5. ContentionNoted'
        BY <1>3, <1>4, <1>6, <2>1 DEF ContentionNoted, LockOwners, HeldIsNamed, OpenFiles
    <2> QED
        BY <1>1, <2>2, <2>3, <2>4, <2>5 DEF LockInv
<1>7. ASSUME NEW p \in Lockers, LockFile(p), lockedBy[File(p)] = NoLocker PROVE LockInv'
    <2>1. /\ \A q \in Lockers \ {p} :
                /\ locker'[q].at = locker[q].at /\ File(q)' = File(q)
                /\ locker'[q].attempt = locker[q].attempt
                /\ locker[q].contended \/ Trying(q) => locker'[q].contended
          /\ locker[p].at = "lock" /\ locker'[p].at = "confirm" /\ locker'[p].contended = locker[p].contended
          /\ File(p)' = File(p) /\ UNCHANGED <<lockName, lockFiles>>
        <3>1. \A q \in Lockers \ {p} : locker'[q] =
                    IF Trying(q) THEN [locker[q] EXCEPT !.contended = TRUE] ELSE locker[q]
            BY <1>2, <1>7 DEF LockFile, Contend
        <3>2. locker'[p] = [locker[p] EXCEPT !.at = "confirm"]
            BY <1>2, <1>7 DEF LockFile, Contend
        <3>3. locker[p].at = "lock" /\ UNCHANGED <<lockName, lockFiles>>
            BY <1>7 DEF LockFile
        <3> QED
            BY <1>3, <3>1, <3>2, <3>3
    <2>2. lockedBy'[File(p)] = p /\ \A f \in 1 .. MaxFiles : f # File(p) => lockedBy'[f] = lockedBy[f]
        BY <1>2, <1>3, <1>4, <1>7, <2>1 DEF LockFile, OpenFiles
    <2>3. OpenFiles'
        BY <1>3, <1>4, <1>7, <2>1, <2>2 DEF OpenFiles
    <2>4. LockOwners'
        BY <1>3, <1>4, <1>7, <2>1, <2>2 DEF LockOwners, OpenFiles
    <2>5. HeldIsNamed'
        BY <1>3, <1>4, <1>7, <2>1, <2>2 DEF HeldIsNamed, LockOwners, OpenFiles
    <2>6. ContentionNoted'
        BY <1>3, <1>4, <1>7, <2>1, <2>2 DEF ContentionNoted, LockOwners, HeldIsNamed, OpenFiles
    <2> QED
        BY <1>1, <2>3, <2>4, <2>5, <2>6 DEF LockInv
<1>8. ASSUME NEW p \in Lockers, LockFile(p), lockedBy[File(p)] # NoLocker PROVE LockInv'
    <2>1. /\ \A q \in Lockers \ {p} : locker'[q] = locker[q]
          /\ locker[p].at = "lock" /\ locker'[p].at = "refused" /\ locker'[p].contended = locker[p].contended
          /\ UNCHANGED <<lockName, lockFiles, lockedBy>>
        BY <1>2, <1>3, <1>8 DEF LockFile
    <2>2. PICK q \in Lockers : lockedBy[File(p)] = q
        BY <1>1, <1>3, <1>4, <1>8, <2>1 DEF RootLockTypeOK, OpenFiles
    <2>3. q # p /\ HasLock(q)
        BY <1>3, <1>4, <2>1, <2>2 DEF LockOwners, OpenFiles
    <2>4. OpenFiles'
        BY <1>3, <1>4, <1>8, <2>1, <2>2, <2>3 DEF OpenFiles
    <2>5. LockOwners'
        BY <1>3, <1>4, <1>8, <2>1, <2>2, <2>3 DEF LockOwners, OpenFiles
    <2>6. HeldIsNamed'
        BY <1>3, <1>4, <1>8, <2>1, <2>2, <2>3 DEF HeldIsNamed, LockOwners, OpenFiles
    <2>7. ContentionNoted'
        BY <1>3, <1>4, <1>8, <2>1, <2>2, <2>3 DEF ContentionNoted, LockOwners, HeldIsNamed, OpenFiles
    <2> QED
        BY <1>1, <2>4, <2>5, <2>6, <2>7 DEF LockInv
<1>9. ASSUME NEW p \in Lockers, Confirm(p), SameFile(p) PROVE LockInv'
    <2>1. /\ \A q \in Lockers \ {p} : locker'[q] = locker[q]
          /\ locker[p].at = "confirm" /\ locker'[p].at = "held" /\ locker'[p].contended = locker[p].contended
          /\ File(p)' = File(p) /\ lockName = File(p)
          /\ UNCHANGED <<lockName, lockFiles, lockedBy>>
        BY <1>2, <1>3, <1>9 DEF Confirm, SameFile
    <2>2. OpenFiles'
        BY <1>3, <1>4, <1>9, <2>1 DEF OpenFiles
    <2>3. LockOwners'
        BY <1>3, <1>4, <1>9, <2>1 DEF LockOwners, OpenFiles
    <2>4. HeldIsNamed'
        BY <1>3, <1>4, <1>9, <2>1 DEF HeldIsNamed, LockOwners, OpenFiles
    <2>5. ContentionNoted'
        BY <1>3, <1>4, <1>9, <2>1 DEF ContentionNoted, LockOwners, HeldIsNamed, OpenFiles
    <2> QED
        BY <1>1, <2>2, <2>3, <2>4, <2>5 DEF LockInv
<1>10. ASSUME NEW p \in Lockers, Confirm(p), ~SameFile(p) PROVE LockInv'
    <2>1. /\ \A q \in Lockers \ {p} : locker'[q] = locker[q]
          /\ locker[p].at = "confirm" /\ locker'[p].contended = locker[p].contended
          /\ locker'[p].attempt = locker[p].attempt
          /\ \/ locker'[p].at = "refused"
             \/ locker'[p].at = "open" /\ locker[p].attempt # RootAttempts
          /\ lockName # File(p)
          /\ UNCHANGED <<lockName, lockFiles>>
        BY <1>2, <1>3, <1>10 DEF Confirm, SameFile
    <2>2. lockedBy'[File(p)] = NoLocker /\ \A f \in 1 .. MaxFiles : f # File(p) => lockedBy'[f] = lockedBy[f]
        BY <1>2, <1>3, <1>4, <1>10, <2>1 DEF Confirm, UnlockRemoved, Unlocked, OpenFiles
    <2>3. OpenFiles'
        BY <1>3, <1>4, <1>10, <2>1, <2>2 DEF OpenFiles
    <2>4. LockOwners'
        BY <1>3, <1>4, <1>10, <2>1, <2>2 DEF LockOwners, OpenFiles
    <2>5. HeldIsNamed'
        BY <1>3, <1>4, <1>10, <2>1, <2>2 DEF HeldIsNamed, LockOwners, OpenFiles
    <2>6. ContentionNoted'
        BY <1>3, <1>4, <1>10, <2>1, <2>2 DEF ContentionNoted, LockOwners, HeldIsNamed, OpenFiles
    <2> QED
        BY <1>1, <2>3, <2>4, <2>5, <2>6 DEF LockInv
<1>11. ASSUME NEW p \in Lockers, RemoveName(p) PROVE LockInv'
    <2>1. /\ \A q \in Lockers \ {p} : locker'[q] = locker[q]
          /\ locker[p].at = "held" /\ locker'[p].at = "removed" /\ locker'[p].contended = locker[p].contended
          /\ File(p)' = File(p) /\ lockName' = 0
          /\ UNCHANGED <<lockFiles, lockedBy>>
        BY <1>2, <1>3, <1>11 DEF RemoveName
    <2>2. OpenFiles'
        BY <1>3, <1>4, <1>11, <2>1 DEF OpenFiles
    <2>3. LockOwners'
        BY <1>3, <1>4, <1>11, <2>1 DEF LockOwners, OpenFiles
    <2>4. HeldIsNamed'
        BY <1>3, <1>4, <1>11, <2>1 DEF HeldIsNamed, LockOwners, OpenFiles
    <2>5. ContentionNoted'
        BY <1>3, <1>4, <1>11, <2>1 DEF ContentionNoted, LockOwners, HeldIsNamed, OpenFiles
    <2> QED
        BY <1>1, <2>2, <2>3, <2>4, <2>5 DEF LockInv
<1>12. ASSUME NEW p \in Lockers, UnlockRemoved(p) PROVE LockInv'
    <2>1. /\ \A q \in Lockers \ {p} : locker'[q] = locker[q]
          /\ locker[p].at = "removed" /\ locker'[p].at = "away" /\ locker'[p].attempt = 0
          /\ UNCHANGED <<lockName, lockFiles>>
        BY <1>2, <1>3, <1>12 DEF UnlockRemoved, Away
    <2>2. lockedBy'[File(p)] = NoLocker /\ \A f \in 1 .. MaxFiles : f # File(p) => lockedBy'[f] = lockedBy[f]
        BY <1>2, <1>3, <1>4, <1>12, <2>1 DEF Confirm, UnlockRemoved, Unlocked, OpenFiles
    <2>3. OpenFiles'
        BY <1>3, <1>4, <1>12, <2>1, <2>2 DEF OpenFiles
    <2>4. LockOwners'
        BY <1>3, <1>4, <1>12, <2>1, <2>2 DEF LockOwners, OpenFiles
    <2>5. HeldIsNamed'
        BY <1>3, <1>4, <1>12, <2>1, <2>2 DEF HeldIsNamed, LockOwners, OpenFiles
    <2>6. ContentionNoted'
        BY <1>3, <1>4, <1>12, <2>1, <2>2 DEF ContentionNoted, LockOwners, HeldIsNamed, OpenFiles
    <2> QED
        BY <1>1, <2>3, <2>4, <2>5, <2>6 DEF LockInv
<1>13. ASSUME NEW p \in Lockers, KillLocker(p) PROVE LockInv'
    <2>1. /\ \A q \in Lockers \ {p} : locker'[q] = locker[q]
          /\ HasOpen(p) /\ locker'[p].at = "away" /\ locker'[p].attempt = 0
          /\ UNCHANGED <<lockName, lockFiles>>
        BY <1>2, <1>3, <1>13 DEF KillLocker, Away
    <2>2. \A f \in 1 .. MaxFiles : lockedBy'[f] = IF lockedBy[f] = p THEN NoLocker ELSE lockedBy[f]
        BY <1>13 DEF KillLocker
    <2>3. OpenFiles'
        BY <1>3, <1>4, <1>13, <2>1, <2>2 DEF OpenFiles
    <2>4. LockOwners'
        BY <1>3, <1>4, <1>13, <2>1, <2>2 DEF LockOwners, OpenFiles
    <2>5. HeldIsNamed'
        BY <1>3, <1>4, <1>13, <2>1, <2>2 DEF HeldIsNamed, LockOwners, OpenFiles
    <2>6. ContentionNoted'
        BY <1>3, <1>4, <1>13, <2>1, <2>2 DEF ContentionNoted, LockOwners, HeldIsNamed, OpenFiles
    <2> QED
        BY <1>1, <2>3, <2>4, <2>5, <2>6 DEF LockInv
<1>14. CASE UNCHANGED rootLockVars
    BY <1>1, <1>4, <1>14 DEF rootLockVars, LockInv, OpenFiles, LockOwners, HeldIsNamed, ContentionNoted
<1> QED
    BY <1>5, <1>6, <1>7, <1>8, <1>9, <1>10, <1>11, <1>12, <1>13, <1>14 DEF RootLockNext

(* TryAcquireIn and Release: two processes never hold the lock at once, for   *)
(* any number of processes, files and attempts, and nobody is refused for the *)
(* file that a killed holder left.                                            *)
THEOREM LockExcludes == RootLockSpec => []LockIsExclusive
<1>1. RootLockInit => LockInv
    BY DEF RootLockInit, LockInv, RootLockTypeOK, OpenFiles, LockOwners, HeldIsNamed,
           ContentionNoted, Away
<1>2. LockInv /\ [RootLockNext]_rootLockVars => LockInv'
    BY LockStep
<1>3. LockInv => LockIsExclusive
    <2> SUFFICES ASSUME LockInv, NEW p \in Lockers, NEW q \in Lockers,
                        locker[p].at = "held", locker[q].at = "held"
                 PROVE  p = q
        BY DEF LockInv, LockIsExclusive, ContentionNoted
    <2> QED
        BY DEF LockInv, HeldIsNamed, LockOwners
<1> QED
    BY <1>1, <1>2, <1>3, PTL DEF RootLockSpec

-----------------------------------------------------------------------------
(* ArtifactMove.                                                              *)

(* No directory is younger than the user's last version.                      *)
NoneYounger ==
    /\ place.source <= latest /\ place.tombstone <= latest
    /\ place.stage <= latest /\ place.destination <= latest

Moving == removal.kind = "move"

(* What each stage of a command knows of the directories.                     *)
StageKnows ==
    /\ removal.at \in {"idle", "planned", "copied", "seize"} => place.tombstone = 0
    /\ removal.at \in {"copied", "install", "installed", "undo"} => Moving
    /\ removal.at \in {"seize", "seized", "install"} /\ Moving => place.stage = removal.planned
    /\ removal.at = "install" => place.tombstone = removal.planned
    /\ removal.at = "clear" /\ ~Moving => place.tombstone = removal.planned

(* What is at the source while the artifact is set aside is another version,  *)
(* and what is set aside is not at the destination when it is restored.       *)
OneHome ==
    /\ removal.at \in {"seized", "install"} => place.source # place.tombstone \/ place.source = 0
    /\ removal.at \in {"seized", "install", "restore"} =>
        (place.tombstone = place.destination /\ place.tombstone # 0 => "undo" \in incidents)

(* The installed copy replaces the tombstone, and the tombstone replaces the  *)
(* copy if it is taken back, except for what the user wrote to it.            *)
CopyReplaces ==
    /\ removal.at \in {"installed", "clear"} /\ Moving =>
        place.tombstone \in {place.destination} \cup released
    /\ removal.at \in {"installed", "undo"} => place.destination \in {place.tombstone} \cup released

(* A tombstone stays only after a crash or a clean-up that failed.            *)
LeftByIncidents == incidents \subseteq {"undo"} => leftovers = {}

MoveInv == MoveKeepsArtifact /\ NoneYounger /\ StageKnows /\ OneHome /\ CopyReplaces /\ LeftByIncidents

Places == [{"source", "tombstone", "stage", "destination"} -> Versions]

USE MoveConstants

LEMMA MoveTypes ==
    ASSUME MoveTypeOK
    PROVE  /\ place \in Places
           /\ place.source \in Versions /\ place.tombstone \in Versions
           /\ place.stage \in Versions /\ place.destination \in Versions
           /\ latest \in Versions /\ latest # 0
           /\ removal.planned \in Versions
           /\ NoRemoval.at = "idle" /\ 0 \in Versions
BY DEF MoveTypeOK, Places, Versions, NoRemoval

(* A command that moves on keeps its plan.                                    *)
LEMMA MoveGoes ==
    ASSUME MoveTypeOK, NEW at \in {"copied", "seize", "seized", "install", "installed", "undo", "restore", "clear"},
           Go(at)
    PROVE  /\ removal'.at = at /\ removal'.kind = removal.kind /\ removal'.planned = removal.planned
           /\ removal' \in [at : {"idle", "planned", "copied", "seize", "seized", "install",
                                   "installed", "undo", "restore", "clear"},
                             kind : {"move", "delete"}, planned : Versions]
BY DEF Go, MoveTypeOK

(* A command that ends in directories that hold every version that has to be  *)
(* kept, and whose tombstone stays only by an incident, keeps the invariant.  *)
LEMMA FinishKeeps ==
    ASSUME MoveInv, UNCHANGED <<removals, latest>>,
           NEW dirs \in Places, Finish(dirs),
           dirs.source <= latest, dirs.destination <= latest,
           incidents \subseteq incidents', released \subseteq released',
           incidents' \subseteq {"undo", "restore", "clear", "crash"}, released' \subseteq Versions,
           (1 .. latest) \ released' \subseteq {dirs.source, dirs.destination, dirs.tombstone} \cup leftovers,
           dirs.tombstone # 0 => \E what \in {"restore", "clear", "crash"} : what \in incidents',
           dirs.source = dirs.destination /\ dirs.source # 0 => "undo" \in incidents
    PROVE  MoveInv'
<1>1. /\ place'.source = dirs.source /\ place'.destination = dirs.destination
      /\ place'.tombstone = 0 /\ place'.stage = 0 /\ place' \in Places
    <2>1. place' = [dirs EXCEPT !.tombstone = 0, !.stage = 0]
        BY DEF Finish
    <2>2. 0 \in Versions
        BY DEF Versions
    <2> QED
        BY <2>1, <2>2 DEF Places
<1>2. removal' = NoRemoval /\ leftovers' = leftovers \cup ({dirs.tombstone} \ {0})
    BY DEF Finish
<1>3. MoveTypeOK /\ latest # 0 /\ latest \in Nat /\ dirs.tombstone \in Versions
    BY MoveTypes DEF MoveInv, MoveKeepsArtifact, Places, Versions
<1>4. MoveTypeOK'
    <2>1. NoRemoval \in [at : {"idle", "planned", "copied", "seize", "seized", "install",
                               "installed", "undo", "restore", "clear"},
                         kind : {"move", "delete"}, planned : Versions]
        BY DEF NoRemoval, Versions
    <2>2. leftovers' \subseteq Versions
        BY <1>2, <1>3 DEF MoveTypeOK
    <2> QED
        BY <1>1, <1>2, <1>3, <2>1, <2>2 DEF MoveTypeOK, Places
<1>5. Owned' = (1 .. latest) \ released'
    BY DEF Owned
<1>6. Owned' \subseteq ({place.source, place.destination, place.tombstone} \cup leftovers)'
    <2>1. 0 \notin 1 .. latest
        BY <1>3
    <2> QED
        BY <1>1, <1>2, <1>5, <2>1
<1>7. LeftByIncidents'
    <2>1. SUFFICES ASSUME incidents' \subseteq {"undo"} PROVE leftovers' = {}
        BY DEF LeftByIncidents
    <2>2. incidents \subseteq {"undo"} /\ dirs.tombstone = 0
        BY <2>1
    <2> QED
        BY <1>2, <2>2 DEF MoveInv, LeftByIncidents
<1>8. (removal.at = "idle" /\ incidents \subseteq {"undo"} => Owned \subseteq {place.source, place.destination})'
    <2>1. SUFFICES ASSUME incidents' \subseteq {"undo"} PROVE Owned' \subseteq {place'.source, place'.destination}
        OBVIOUS
    <2>2. leftovers' = {} /\ place'.tombstone = 0 /\ 0 \notin 1 .. latest
        BY <1>1, <1>3, <1>7, <2>1 DEF LeftByIncidents
    <2> QED
        BY <1>5, <1>6, <2>2
<1>9. (place.source = place.destination /\ place.source # 0 => "undo" \in incidents)'
    BY <1>1
<1>10. NoneYounger' /\ StageKnows' /\ OneHome' /\ CopyReplaces'
    BY <1>1, <1>2, <1>3 DEF NoneYounger, StageKnows, OneHome, CopyReplaces, NoRemoval
<1> QED
    BY <1>4, <1>6, <1>7, <1>8, <1>9, <1>10 DEF MoveInv, MoveKeepsArtifact

(* A command that ends where it stands leaves its tombstone by an incident.   *)
LEMMA StopKeeps ==
    ASSUME MoveInv, Finish(place), UNCHANGED <<removals, latest, released>>,
           \/ place.tombstone = 0 /\ UNCHANGED incidents
           \/ \E what \in {"restore", "clear", "crash"} : Incident(what)
    PROVE  MoveInv'
<1>1. /\ place \in Places /\ place.source <= latest /\ place.destination <= latest
      /\ released \subseteq Versions /\ incidents \subseteq {"undo", "restore", "clear", "crash"}
      /\ Owned \subseteq {place.source, place.destination, place.tombstone} \cup leftovers
      /\ place.source = place.destination /\ place.source # 0 => "undo" \in incidents
    BY MoveTypes DEF MoveInv, MoveKeepsArtifact, MoveTypeOK, NoneYounger
<1>2. /\ incidents \subseteq incidents' /\ incidents' \subseteq {"undo", "restore", "clear", "crash"}
      /\ place.tombstone # 0 => \E what \in {"restore", "clear", "crash"} : what \in incidents'
    BY <1>1 DEF Incident
<1>3. (1 .. latest) \ released' \subseteq {place.source, place.destination, place.tombstone} \cup leftovers
    BY <1>1 DEF Owned
<1> QED
    BY <1>1, <1>2, <1>3, FinishKeeps

(* A tombstone that is cleared was deleted as planned, or its copy is         *)
(* installed.                                                                 *)
LEMMA ClearKeeps ==
    ASSUME MoveInv, removal.at = "clear", UNCHANGED <<removals, latest, incidents>>,
           Finish([place EXCEPT !.tombstone = 0]),
           released' = released \cup (IF removal.kind = "delete" THEN {removal.planned} ELSE {})
    PROVE  MoveInv'
<1> DEFINE dirs == [place EXCEPT !.tombstone = 0]
<1>1. /\ place \in Places /\ removal.kind \in {"move", "delete"} /\ removal.planned \in Versions
      /\ released \subseteq Versions /\ incidents \subseteq {"undo", "restore", "clear", "crash"}
    BY MoveTypes DEF MoveInv, MoveKeepsArtifact, MoveTypeOK
<1>2. dirs.source = place.source /\ dirs.destination = place.destination /\ dirs.tombstone = 0 /\ dirs \in Places
    BY <1>1 DEF Places, Versions
<1> HIDE DEF dirs
<1>3. /\ dirs.source <= latest /\ dirs.destination <= latest
      /\ dirs.source = dirs.destination /\ dirs.source # 0 => "undo" \in incidents
    BY <1>2 DEF MoveInv, MoveKeepsArtifact, NoneYounger
<1>4. Finish(dirs)
    BY DEF dirs
<1>5. place.tombstone \in {place.destination} \cup released'
    BY <1>1 DEF MoveInv, CopyReplaces, StageKnows, Moving
<1>6. (1 .. latest) \ released' \subseteq {dirs.source, dirs.destination, dirs.tombstone} \cup leftovers
    BY <1>2, <1>5 DEF MoveInv, MoveKeepsArtifact, Owned
<1>7. released \subseteq released' /\ released' \subseteq Versions
    BY <1>1
<1> QED
    BY <1>1, <1>2, <1>3, <1>4, <1>6, <1>7, FinishKeeps

(* What each step of a running command has to show: nothing that has to be    *)
(* kept goes, and no new tombstone is left behind.                            *)
LEMMA RunningKeeps ==
    ASSUME MoveInv, MoveTypeOK', NoneYounger', StageKnows', OneHome', CopyReplaces',
           UNCHANGED leftovers, incidents \subseteq incidents', removal'.at # "idle",
           Owned' \subseteq ({place.source, place.destination, place.tombstone} \cup leftovers)',
           (place.source = place.destination /\ place.source # 0 => "undo" \in incidents)'
    PROVE  MoveInv'
BY DEF MoveInv, MoveKeepsArtifact, LeftByIncidents

(* Every step keeps the invariant.                                            *)
LEMMA MoveStep == ASSUME MoveInv, [MoveNext]_moveVars PROVE MoveInv'
<1>1. MoveTypeOK /\ NoneYounger /\ StageKnows /\ OneHome /\ CopyReplaces
    BY DEF MoveInv, MoveKeepsArtifact
<1>2. /\ place \in Places
      /\ place.source \in Nat /\ place.tombstone \in Nat /\ place.stage \in Nat /\ place.destination \in Nat
      /\ latest \in Nat /\ latest # 0 /\ removal.planned \in Nat /\ removal.planned \in Versions
    BY <1>1, MoveTypes DEF Versions
<1>3. /\ Owned \subseteq {place.source, place.destination, place.tombstone} \cup leftovers
      /\ place.source = place.destination /\ place.source # 0 => "undo" \in incidents
    BY DEF MoveInv, MoveKeepsArtifact
<1>4. removal.kind \in {"move", "delete"}
    BY <1>1 DEF MoveTypeOK
<1> USE DEF NoneYounger, StageKnows, OneHome, CopyReplaces, Moving
<1>5. ASSUME UNCHANGED <<latest, released>> PROVE Owned' = Owned
    BY <1>5 DEF Owned
<1>6. ASSUME PlanRemoval PROVE MoveInv'
    <2>1. /\ removal.at = "idle" /\ removal'.at = "planned"
          /\ UNCHANGED <<place, leftovers, latest, released, incidents>>
        BY <1>6 DEF PlanRemoval
    <2>2. MoveTypeOK'
        BY <1>1, <1>6 DEF PlanRemoval, MoveTypeOK, Versions
    <2> QED
        BY <1>1, <1>2, <1>3, <1>5, <2>1, <2>2, RunningKeeps
<1>7. ASSUME CopyToStage PROVE MoveInv'
    <2>1. /\ removal.at = "planned" /\ removal.kind = "move" /\ Go("copied")
          /\ UNCHANGED <<leftovers, removals, latest, released, incidents>>
          /\ place' = [place EXCEPT !.stage = place.source]
        BY <1>7 DEF CopyToStage
    <2>2. /\ place'.source = place.source /\ place'.tombstone = place.tombstone
          /\ place'.destination = place.destination /\ place'.stage = place.source
          /\ place' \in Places
        BY <1>2, <2>1 DEF Places, Versions
    <2>3. MoveTypeOK'
        BY <1>1, <2>1, <2>2, MoveGoes DEF MoveTypeOK, Places
    <2> QED
        BY <1>1, <1>2, <1>3, <1>5, <2>1, <2>2, <2>3, MoveGoes, RunningKeeps
<1>8. ASSUME CheckStage PROVE MoveInv'
    <2>0. /\ removal.at = "copied" \/ (removal.at = "planned" /\ removal.kind = "delete")
          /\ UNCHANGED <<removals, latest, released, incidents>>
          /\ place.tombstone = 0
        BY <1>1, <1>8 DEF CheckStage
    <2>1. CASE Go("seize") /\ UNCHANGED <<place, leftovers>>
        <3>1. removal.kind = "move" => place.stage = removal.planned
            BY <1>8, <2>1 DEF CheckStage, SameSnapshot, Finish, Go, NoRemoval
        <3>2. MoveTypeOK'
            BY <1>1, <2>0, <2>1, MoveGoes DEF MoveTypeOK
        <3> QED
            BY <1>1, <1>2, <1>3, <1>5, <2>0, <2>1, <3>1, <3>2, MoveGoes, RunningKeeps
    <2>2. CASE Finish(place)
        BY <2>0, <2>2, StopKeeps
    <2> QED
        BY <1>8, <2>1, <2>2 DEF CheckStage
<1>9. ASSUME SeizeSource PROVE MoveInv'
    <2>0. removal.at = "seize" /\ UNCHANGED <<removals, latest, released, incidents>> /\ place.tombstone = 0
        BY <1>1, <1>9 DEF SeizeSource
    <2>1. CASE place' = MoveDir("source", "tombstone") /\ Go("seized") /\ UNCHANGED leftovers
        <3>1. /\ place'.source = 0 /\ place'.tombstone = place.source
              /\ place'.destination = place.destination /\ place'.stage = place.stage
              /\ place' \in Places
            BY <1>2, <2>1 DEF MoveDir, Places, Versions
        <3>2. MoveTypeOK'
            BY <1>1, <2>0, <2>1, <3>1, MoveGoes DEF MoveTypeOK, Places
        <3>3. Owned' \subseteq {place'.source, place'.destination, place'.tombstone} \cup leftovers'
            BY <1>2, <1>3, <1>5, <2>0, <2>1, <3>1 DEF Owned
        <3> QED
            BY <1>1, <1>2, <1>3, <1>4, <2>0, <2>1, <3>1, <3>2, <3>3, MoveGoes, RunningKeeps
    <2>2. CASE Finish(place)
        BY <2>0, <2>2, StopKeeps
    <2> QED
        BY <1>9, <2>1, <2>2 DEF SeizeSource
<1>10. ASSUME CheckSeized PROVE MoveInv'
    <2>1. /\ removal.at = "seized"
          /\ \/ /\ place.tombstone = removal.planned
                /\ Go(IF removal.kind = "move" THEN "install" ELSE "clear")
             \/ Go("restore")
          /\ UNCHANGED <<place, leftovers, removals, latest, released, incidents>>
        BY <1>10 DEF CheckSeized, SameSnapshot
    <2>2. PICK at \in {"install", "clear", "restore"} :
            /\ Go(at)
            /\ at = "install" => removal.kind = "move" /\ place.tombstone = removal.planned
            /\ at = "clear" => removal.kind # "move" /\ place.tombstone = removal.planned
        BY <2>1
    <2>3. /\ removal'.at = at /\ removal'.kind = removal.kind /\ removal'.planned = removal.planned
          /\ MoveTypeOK'
        BY <1>1, <2>1, <2>2, MoveGoes DEF MoveTypeOK
    <2> QED
        BY <1>1, <1>2, <1>3, <1>4, <1>5, <2>1, <2>2, <2>3, RunningKeeps
<1>11. ASSUME InstallStage PROVE MoveInv'
    <2>1. removal.at = "install" /\ UNCHANGED <<leftovers, removals, latest, released, incidents>>
        BY <1>11 DEF InstallStage
    <2>2. CASE place.destination = 0 /\ place' = MoveDir("stage", "destination") /\ Go("installed")
        <3>1. /\ place'.source = place.source /\ place'.tombstone = place.tombstone
              /\ place'.destination = place.stage /\ place'.stage = 0
              /\ place' \in Places
            BY <1>2, <2>2 DEF MoveDir, Places, Versions
        <3>2. MoveTypeOK'
            BY <1>1, <2>1, <2>2, <3>1, MoveGoes DEF MoveTypeOK, Places
        <3>3. Owned' \subseteq {place'.source, place'.destination, place'.tombstone} \cup leftovers'
            BY <1>2, <1>3, <1>5, <2>1, <2>2, <3>1 DEF Owned
        <3> QED
            BY <1>1, <1>2, <1>3, <2>1, <2>2, <3>1, <3>2, <3>3, MoveGoes, RunningKeeps
    <2>3. CASE Go("restore") /\ UNCHANGED place
        <3>1. MoveTypeOK'
            BY <1>1, <2>1, <2>3, MoveGoes DEF MoveTypeOK
        <3> QED
            BY <1>1, <1>2, <1>3, <1>5, <2>1, <2>3, <3>1, MoveGoes, RunningKeeps
    <2> QED
        BY <1>11, <2>2, <2>3 DEF InstallStage
<1>12. ASSUME CheckInstalled PROVE MoveInv'
    <2>1. removal.at = "installed" /\ UNCHANGED <<place, leftovers, removals, latest, incidents>>
        BY <1>12 DEF CheckInstalled
    <2>2. PICK at \in {"clear", "undo"} :
            Go(at) /\ (at = "clear" => released' = released \ {place.destination})
                   /\ (at = "undo" => UNCHANGED released)
        BY <1>12 DEF CheckInstalled
    <2>3. /\ removal'.at = at /\ removal'.kind = removal.kind /\ removal'.planned = removal.planned
          /\ MoveTypeOK'
        BY <1>1, <2>1, <2>2, MoveGoes DEF MoveTypeOK
    <2>4. Owned' \subseteq {place'.source, place'.destination, place'.tombstone} \cup leftovers'
        BY <1>3, <2>1, <2>2 DEF Owned
    <2> QED
        BY <1>1, <1>2, <1>3, <2>1, <2>2, <2>3, <2>4, RunningKeeps
<1>13. ASSUME UndoInstall PROVE MoveInv'
    <2>1. /\ removal.at = "undo" /\ Go("restore")
          /\ UNCHANGED <<leftovers, removals, latest, released>>
        BY <1>13 DEF UndoInstall
    <2>2. CASE place' = MoveDir("destination", "stage") /\ UNCHANGED incidents
        <3>1. /\ place'.source = place.source /\ place'.tombstone = place.tombstone
              /\ place'.destination = 0 /\ place'.stage = place.destination
              /\ place' \in Places
            BY <1>2, <2>2 DEF MoveDir, Places, Versions
        <3>2. MoveTypeOK'
            BY <1>1, <2>1, <2>2, <3>1, MoveGoes DEF MoveTypeOK, Places
        <3>3. Owned' \subseteq {place'.source, place'.destination, place'.tombstone} \cup leftovers'
            BY <1>1, <1>2, <1>3, <1>5, <2>1, <2>2, <3>1 DEF Owned
        <3> QED
            BY <1>1, <1>2, <1>3, <2>1, <2>2, <3>1, <3>2, <3>3, MoveGoes, RunningKeeps
    <2>3. CASE UNCHANGED place /\ Incident("undo")
        <3>1. MoveTypeOK'
            BY <1>1, <2>1, <2>3, MoveGoes DEF MoveTypeOK, Incident
        <3>2. incidents \subseteq incidents' /\ "undo" \in incidents'
            BY <2>3 DEF Incident
        <3> QED
            BY <1>1, <1>2, <1>3, <1>5, <2>1, <2>3, <3>1, <3>2, MoveGoes, RunningKeeps
    <2> QED
        BY <1>13, <2>2, <2>3 DEF UndoInstall
<1>14. ASSUME RestoreSource PROVE MoveInv'
    <2>1. removal.at = "restore" /\ UNCHANGED <<removals, latest, released>>
        BY <1>14 DEF RestoreSource
    <2>2. CASE place.source = 0 /\ Finish(MoveDir("tombstone", "source")) /\ UNCHANGED incidents
        <3> DEFINE dirs == MoveDir("tombstone", "source")
        <3>1. /\ dirs.source = place.tombstone /\ dirs.tombstone = 0
              /\ dirs.destination = place.destination /\ dirs \in Places
            BY <1>2 DEF MoveDir, Places, Versions
        <3>2. Finish(dirs)
            BY <2>2
        <3> HIDE DEF dirs
        <3>3. (1 .. latest) \ released' \subseteq {dirs.source, dirs.destination, dirs.tombstone} \cup leftovers
            BY <1>2, <1>3, <2>1, <2>2, <3>1 DEF Owned
        <3>4. /\ dirs.source <= latest /\ dirs.destination <= latest
              /\ dirs.source = dirs.destination /\ dirs.source # 0 => "undo" \in incidents
            BY <1>1, <2>1, <3>1
        <3>5. /\ released \subseteq released' /\ released' \subseteq Versions
              /\ incidents \subseteq incidents' /\ incidents' \subseteq {"undo", "restore", "clear", "crash"}
            BY <1>1, <2>1, <2>2 DEF MoveTypeOK
        <3> QED
            BY <2>1, <3>1, <3>2, <3>3, <3>4, <3>5, FinishKeeps
    <2>3. CASE Finish(place) /\ Incident("restore")
        BY <2>1, <2>3, StopKeeps
    <2> QED
        BY <1>14, <2>2, <2>3 DEF RestoreSource
<1>15. ASSUME ClearTombstone PROVE MoveInv'
    <2>1. removal.at = "clear" /\ UNCHANGED <<removals, latest>>
        BY <1>15 DEF ClearTombstone
    <2>2. CASE /\ Finish([place EXCEPT !.tombstone = 0]) /\ UNCHANGED incidents
               /\ released' = released \cup (IF removal.kind = "delete" THEN {removal.planned} ELSE {})
        BY <2>1, <2>2, ClearKeeps
    <2>3. CASE Finish(place) /\ Incident("clear") /\ UNCHANGED released
        BY <2>1, <2>3, StopKeeps
    <2> QED
        BY <1>15, <2>2, <2>3 DEF ClearTombstone
<1>16. ASSUME NEW where \in {"source", "destination"}, UserWrites(where) PROVE MoveInv'
    <2>1. /\ latest <= MaxEdits /\ latest' = latest + 1
          /\ UNCHANGED <<leftovers, removal, removals, incidents>>
        BY <1>16 DEF UserWrites
    <2>2. /\ place'.source = IF where = "source" THEN latest + 1 ELSE place.source
          /\ place'.destination = IF where = "destination" THEN latest + 1 ELSE place.destination
          /\ place'.tombstone = place.tombstone /\ place'.stage = place.stage
          /\ place' \in Places
        BY <1>2, <1>16, <2>1 DEF UserWrites, Places, Versions
    <2>3. /\ released \subseteq released' /\ place[where] \in released' /\ released' \subseteq Versions
          /\ where = "destination" /\ removal.at \in {"installed", "undo"} => latest + 1 \in released'
        <3>1. place[where] \in Versions /\ latest + 1 \in Versions /\ released \subseteq Versions
            BY <1>1, <1>2, <1>16, <2>1 DEF MoveTypeOK, Places, Versions
        <3> QED
            BY <1>16, <3>1 DEF UserWrites
    <2>4. MoveTypeOK'
        BY <1>1, <1>2, <2>1, <2>2, <2>3 DEF MoveTypeOK, Places, Versions
    <2>5. Owned' \subseteq {place'.source, place'.destination, place'.tombstone} \cup leftovers'
        <3>1. Owned' \subseteq Owned \cup {latest + 1} /\ place[where] \notin Owned'
            BY <1>2, <2>1, <2>3 DEF Owned
        <3>2. CASE where = "source"
            BY <1>3, <2>1, <2>2, <3>1, <3>2
        <3>3. CASE where = "destination"
            BY <1>3, <2>1, <2>2, <3>1, <3>3
        <3> QED
            BY <1>16, <3>2, <3>3
    <2>6. NoneYounger' /\ StageKnows'
        BY <1>1, <1>2, <2>1, <2>2
    <2>7. OneHome' /\ (place.source = place.destination /\ place.source # 0 => "undo" \in incidents)'
        <3>1. place.source # latest + 1 /\ place.destination # latest + 1 /\ place.tombstone # latest + 1
            BY <1>1, <1>2
        <3>2. CASE where = "source"
            BY <1>1, <1>3, <2>1, <2>2, <3>1, <3>2
        <3>3. CASE where = "destination"
            BY <1>1, <1>3, <2>1, <2>2, <3>1, <3>3
        <3> QED
            BY <1>16, <3>2, <3>3
    <2>8. CopyReplaces'
        <3>1. CASE where = "source"
            BY <1>1, <2>1, <2>2, <2>3, <3>1
        <3>2. CASE where = "destination"
            BY <1>1, <2>1, <2>2, <2>3, <3>2
        <3> QED
            BY <1>16, <3>1, <3>2
    <2>9. CASE removal.at # "idle"
        BY <2>1, <2>4, <2>5, <2>6, <2>7, <2>8, <2>9, RunningKeeps
    <2>10. CASE removal.at = "idle"
        <3>1. place'.tombstone = 0 /\ 0 \notin Owned' /\ LeftByIncidents /\ LeftByIncidents'
            BY <1>1, <1>2, <2>1, <2>2, <2>10 DEF Owned, MoveInv, LeftByIncidents
        <3>2. incidents' \subseteq {"undo"} => Owned' \subseteq {place'.source, place'.destination}
            BY <2>1, <2>5, <3>1 DEF LeftByIncidents
        <3> QED
            BY <2>4, <2>5, <2>6, <2>7, <2>8, <3>1, <3>2 DEF MoveInv, MoveKeepsArtifact
    <2> QED
        BY <2>9, <2>10
<1>17. ASSUME CrashRemoval PROVE MoveInv'
    BY <1>17, StopKeeps DEF CrashRemoval
<1>18. CASE UNCHANGED moveVars
    BY <1>1, <1>3, <1>18 DEF moveVars, MoveInv, MoveKeepsArtifact, MoveTypeOK, LeftByIncidents, Owned
<1> QED
    BY <1>6, <1>7, <1>8, <1>9, <1>10, <1>11, <1>12, <1>13, <1>14, <1>15, <1>16, <1>17, <1>18 DEF MoveNext

(* Moving and deleting: no version the user still counts on is lost or        *)
(* replaced, it is visible in one of the two workspaces once the commands     *)
(* have ended without an incident, and never in both unless an install could  *)
(* not be taken back, whatever is written, fails or is killed meanwhile.      *)
THEOREM MoveIsSafe == MoveSpec => []MoveKeepsArtifact
<1>1. ASSUME MoveInit PROVE MoveInv
    <2>1. /\ place = [source |-> 1, tombstone |-> 0, stage |-> 0, destination |-> 0] /\ latest = 1
          /\ leftovers = {} /\ removal = NoRemoval /\ removals = 0 /\ released = {} /\ incidents = {}
        BY <1>1 DEF MoveInit
    <2>2. place \in [{"source", "tombstone", "stage", "destination"} -> Versions]
        BY <2>1 DEF Versions
    <2>3. MoveTypeOK
        <3>1. 0 \in Versions /\ latest \in 1 .. MaxEdits + 1 /\ removals \in 0 .. MaxRemovals
            BY <2>1 DEF Versions
        <3> QED
            BY <2>1, <2>2, <3>1 DEF MoveTypeOK, NoRemoval
    <2>4. Owned \subseteq {place.source, place.destination}
        BY <2>1 DEF Owned
    <2> QED
        BY <2>1, <2>3, <2>4 DEF MoveInv, MoveKeepsArtifact, NoneYounger, StageKnows, OneHome, CopyReplaces,
            LeftByIncidents, NoRemoval, Moving
<1>2. MoveInv /\ [MoveNext]_moveVars => MoveInv'
    BY MoveStep
<1>3. MoveInv => MoveKeepsArtifact
    BY DEF MoveInv
<1> QED
    BY <1>1, <1>2, <1>3, PTL DEF MoveSpec

=============================================================================
