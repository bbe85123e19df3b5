----------------------------- MODULE Scheduling -----------------------------
(***************************************************************************)
(* Scheduled actions and the job queue of the 1.x framework (scheduling/): *)
(* processes that call process_due_actions() turn the occurrences of an    *)
(* action into jobs, workers that call run_next() or run_all() execute     *)
(* them.  Neither claims what it has read: statements of others come in    *)
(* between, and a process may die between two of its own.                  *)
(***************************************************************************)
EXTENDS Naturals, Sequences, FiniteSets, FiniteSetsExt

CONSTANTS
  Dispatcher,   \* threads that process due actions
  Runner,       \* threads that run jobs
  Intervals,    \* interval_seconds of the schedule; 0: a one-shot action
  MaxTime,      \* bound on the clock
  MaxJobs,      \* bound on jobs
  MaxDeaths     \* bound on the deaths of processes

ASSUME SchedulingAssumption ==
  /\ IsFiniteSet(Dispatcher) /\ IsFiniteSet(Runner)
  /\ Intervals \subseteq Nat /\ MaxTime \in Nat /\ MaxJobs \in Nat /\ MaxDeaths \in Nat

VARIABLES
  clock,      \* now
  action,     \* the scheduled_actions row, and whether a user archived it
  jobs,       \* the jobs table, in the order of creation
  dispatcher, \* per thread: the process_due_actions() it is in
  runner,     \* per thread: the jobs it has read and what it does with the first
  deaths      \* of dispatchers and of runners

schedVars == <<clock, action, jobs, dispatcher, runner, deaths>>

\* Job: the occurrence it is for; `runs` counts calls of the executor, `calm`
\* tells that it was cancelled while no runner had read it.
NewJob(t) == [at |-> t, state |-> "queued", runs |-> 0, calm |-> FALSE]

Vacant == [pc |-> "vacant", at |-> 0]
Unoccupied == [pc |-> "vacant", todo |-> {}]

SchedInit ==
  /\ clock = 0
  /\ \E n \in Intervals :
       action = [life |-> "ACTIVE", next |-> 1, interval |-> n, withdrawn |-> FALSE]
  /\ jobs = <<>>
  /\ dispatcher = [d \in Dispatcher |-> Vacant]
  /\ runner = [r \in Runner |-> Unoccupied]
  /\ deaths = [dispatchers |-> 0, runners |-> 0]

Tick ==
  /\ clock < MaxTime
  /\ clock' = clock + 1
  /\ UNCHANGED <<action, jobs, dispatcher, runner, deaths>>

-----------------------------------------------------------------------------
(* Scheduler. *)

\* Mutant: next_run_at has passed.
Overdue == action.life = "ACTIVE" /\ action.next < clock

\* get_due_actions(): active, and next_run_at has come.
Due == action.life = "ACTIVE" /\ action.next <= clock

DispatchReads(d) ==
  /\ dispatcher[d].pc = "vacant"
  /\ Due
  /\ Len(jobs) + Cardinality({e \in Dispatcher : dispatcher[e].pc = "enqueue"}) < MaxJobs
  /\ dispatcher' = [dispatcher EXCEPT ![d] = [pc |-> "enqueue", at |-> action.next]]
  /\ UNCHANGED <<clock, action, jobs, runner, deaths>>

\* Mutant: the action moves on before the job is there.
AdvanceFirst(d) ==
  /\ dispatcher[d].pc = "enqueue"
  /\ action' = IF action.interval > 0 THEN [action EXCEPT !.next = dispatcher[d].at + action.interval]
               ELSE [action EXCEPT !.life = "ARCHIVED"]
  /\ dispatcher' = [dispatcher EXCEPT ![d].pc = "advance"]
  /\ UNCHANGED <<clock, jobs, runner, deaths>>

\* enqueue(): a job for what was read.
DispatchEnqueues(d) ==
  /\ dispatcher[d].pc = "enqueue"
  /\ jobs' = Append(jobs, NewJob(dispatcher[d].at))
  /\ dispatcher' = [dispatcher EXCEPT ![d].pc = "advance"]
  /\ UNCHANGED <<clock, action, runner, deaths>>

\* advance_action() from the time that was read, by the schedule's interval
\* whether the schedule is archived or not; a one-shot action is archived.
DispatchAdvances(d) ==
  /\ dispatcher[d].pc = "advance"
  /\ action' = IF action.interval > 0 THEN [action EXCEPT !.next = dispatcher[d].at + action.interval]
               ELSE [action EXCEPT !.life = "ARCHIVED"]
  /\ dispatcher' = [dispatcher EXCEPT ![d] = Vacant]
  /\ UNCHANGED <<clock, jobs, runner, deaths>>

\* archive_action() by its owner.
WithdrawAction ==
  /\ action.life = "ACTIVE"
  /\ action' = [action EXCEPT !.life = "ARCHIVED", !.withdrawn = TRUE]
  /\ UNCHANGED <<clock, jobs, dispatcher, runner, deaths>>

-----------------------------------------------------------------------------
(* JobQueue. *)

\* Mutant: jobs left behind as running are taken up again.
Unfinished == {i \in 1..Len(jobs) : jobs[i].state \in {"queued", "running"}}

\* The queued jobs; of those it has read, a thread takes the oldest first.
Queued == {i \in 1..Len(jobs) : jobs[i].state = "queued"}

\* run_next() and run_all() read rows ...
ReadJobs(r, rows) ==
  /\ runner[r].pc = "vacant"
  /\ Queued # {}
  /\ runner' = [runner EXCEPT ![r] = [pc |-> "start", todo |-> rows]]
  /\ UNCHANGED <<clock, action, jobs, dispatcher, deaths>>

RunNext(r) == ReadJobs(r, {Min(Queued)})
RunAll(r) == ReadJobs(r, Queued)

\* ... and _run_job() sets each running, whatever its state is by then ...
StartJob(r) ==
  LET i == Min(runner[r].todo) IN
  /\ runner[r].pc = "start"
  /\ jobs' = [jobs EXCEPT ![i].state = "running", ![i].runs = @ + 1]
  /\ runner' = [runner EXCEPT ![r].pc = "execute"]
  /\ UNCHANGED <<clock, action, dispatcher, deaths>>

\* ... executes it, and records how that went.
FinishJob(r, outcome) ==
  LET i == Min(runner[r].todo) IN
  /\ runner[r].pc = "execute"
  /\ jobs' = [jobs EXCEPT ![i].state = outcome]
  /\ runner' = [runner EXCEPT ![r] =
       IF @.todo = {i} THEN Unoccupied ELSE [pc |-> "start", todo |-> @.todo \ {i}]]
  /\ UNCHANGED <<clock, action, dispatcher, deaths>>

\* Mutant: any job.
Uncancelled(j) == j.state # "cancelled"

\* The condition of cancel_job()'s UPDATE.
Cancellable(j) == j.state = "queued"

CancelJob(i) ==
  /\ Cancellable(jobs[i])
  /\ jobs' = [jobs EXCEPT ![i].state = "cancelled",
                          ![i].calm = \A r \in Runner : i \notin runner[r].todo]
  /\ UNCHANGED <<clock, action, dispatcher, runner, deaths>>

-----------------------------------------------------------------------------
DispatcherDies(d) ==
  /\ dispatcher[d].pc # "vacant"
  /\ deaths.dispatchers < MaxDeaths
  /\ deaths' = [deaths EXCEPT !.dispatchers = @ + 1]
  /\ dispatcher' = [dispatcher EXCEPT ![d] = Vacant]
  /\ UNCHANGED <<clock, action, jobs, runner>>

RunnerDies(r) ==
  /\ runner[r].pc # "vacant"
  /\ deaths.runners < MaxDeaths
  /\ deaths' = [deaths EXCEPT !.runners = @ + 1]
  /\ runner' = [runner EXCEPT ![r] = Unoccupied]
  /\ UNCHANGED <<clock, action, jobs, dispatcher>>

Dispatch(d) == DispatchReads(d) \/ DispatchEnqueues(d) \/ DispatchAdvances(d)
Work(r) == RunNext(r) \/ RunAll(r) \/ StartJob(r) \/ \E o \in {"completed", "failed"} : FinishJob(r, o)

SchedNext ==
  \/ Tick \/ WithdrawAction
  \/ \E d \in Dispatcher : Dispatch(d) \/ DispatcherDies(d)
  \/ \E r \in Runner : Work(r) \/ RunnerDies(r)
  \/ \E i \in 1..Len(jobs) : CancelJob(i)

\* The application calls process_due_actions() and run_next() again and again.
SchedFairness ==
  /\ \A d \in Dispatcher : WF_schedVars(Dispatch(d))
  /\ \A r \in Runner : WF_schedVars(Work(r))

SchedSpec == SchedInit /\ [][SchedNext]_schedVars /\ SchedFairness

-----------------------------------------------------------------------------
(* Properties. *)

SchedTypeOK ==
  /\ clock \in 0..MaxTime
  /\ action.life \in {"ACTIVE", "ARCHIVED"}
  /\ Len(jobs) <= MaxJobs
  /\ \A i \in 1..Len(jobs) :
       jobs[i].state \in {"queued", "running", "completed", "failed", "cancelled"}
  /\ \A r \in Runner : runner[r].todo \subseteq 1..Len(jobs)

HasJob(t) == \E i \in 1..Len(jobs) : jobs[i].at = t

\* No occurrence is lost: however many processes dispatch the action and die
\* half-way, one that next_run_at has passed, or that a one-shot action was
\* archived for, has its job.
NoOccurrenceLost ==
  /\ action.interval > 0 =>
       \A t \in 1..MaxTime : t < action.next /\ (t - 1) % action.interval = 0 => HasJob(t)
  /\ action.life = "ARCHIVED" /\ ~action.withdrawn => HasJob(action.next)

\* Where one thread runs the queue, no job is executed twice, and one that was
\* cancelled before it was read is never executed.
RunsOnce ==
  Cardinality(Runner) = 1 =>
    \A i \in 1..Len(jobs) : jobs[i].runs <= 1 /\ (jobs[i].calm => jobs[i].runs = 0)

\* The first occurrence, once due, ends up executed or cancelled, unless its
\* owner withdraws the action or a runner dies: nobody takes up the jobs it had.
DueIsSettled ==
  clock >= 1 ~> \/ \E i \in 1..Len(jobs) :
                     jobs[i].at = 1 /\ jobs[i].state \in {"completed", "failed", "cancelled"}
                \/ action.withdrawn
                \/ deaths.runners > 0

=============================================================================
