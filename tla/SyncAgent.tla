--------------------------- MODULE SyncAgent ---------------------------
(***************************************************************************)
(* The background agent that pushes the audit trail to the management      *)
(* plane (src/legacy/v1/scoped/sync): a daemon thread reads entries past   *)
(* the watermark in _sync_state, pushes them as a batch over HTTP and then *)
(* moves the watermark.  stop() joins the thread for ten seconds only, a   *)
(* request may take thirty, and start() clears the event the old thread    *)
(* waits for: two threads may run.                                         *)
(***************************************************************************)
EXTENDS AuditTrail

CONSTANTS
  SyncThread,   \* the threads start() may create
  PushLimit,    \* SyncConfig.batch_size
  MaxFaults     \* bound on failed requests and on calls that stop or pause

ASSUME SyncAssumption == PushLimit \in Nat \ {0} /\ MaxFaults \in Nat

VARIABLES
  syncState,    \* the _sync_state row: watermark and status
  thread,       \* what each thread is doing, with the batch in its hands
  current,      \* the thread in self._thread, if any
  stopEvent,    \* _stop_event is set
  resumed,      \* _pause_event is set
  received,     \* ids of the entries the management plane has taken
  faults

syncVars == <<syncState, thread, current, stopEvent, resumed, received, faults>>

SyncStatus == {"none", "idle", "syncing", "paused", "stopped", "error"}
Ended == [pc |-> "ended", seqs |-> {}, batch |-> {}]

SyncInit ==
  /\ AuditInit
  /\ syncState = [last |-> 0, status |-> "none"]
  /\ thread = [t \in SyncThread |-> Ended]
  /\ current = {}
  /\ stopEvent = FALSE
  /\ resumed = TRUE
  /\ received = {}
  /\ faults = 0

\* UPDATE _sync_state SET status: no row, no effect.
WithStatus(status) ==
  IF syncState.status = "none" THEN syncState ELSE [syncState EXCEPT !.status = status]

\* start(): refused while self._thread is alive; the row is created if missing.
AgentStart(t) ==
  /\ \A u \in current : thread[u].pc = "ended"
  /\ thread[t].pc = "ended"
  /\ syncState' = [syncState EXCEPT !.status = "syncing"]
  /\ stopEvent' = FALSE
  /\ resumed' = TRUE
  /\ current' = {t}
  /\ thread' = [thread EXCEPT ![t] = [Ended EXCEPT !.pc = "loop"]]
  /\ UNCHANGED <<received, faults>>

AgentPause ==
  /\ faults < MaxFaults
  /\ faults' = faults + 1
  /\ resumed' = FALSE
  /\ syncState' = WithStatus("paused")
  /\ UNCHANGED <<thread, current, stopEvent, received>>

AgentResume ==
  /\ ~resumed
  /\ resumed' = TRUE
  /\ syncState' = WithStatus("syncing")
  /\ UNCHANGED <<thread, current, stopEvent, received, faults>>

\* stop(): the events first ...
StopSignals ==
  /\ faults < MaxFaults
  /\ faults' = faults + 1
  /\ stopEvent' = TRUE
  /\ resumed' = TRUE
  /\ UNCHANGED <<syncState, thread, current, received>>

\* ... and, the thread gone or the join timed out, the rest.
StopJoins ==
  /\ stopEvent
  /\ current' = {}
  /\ syncState' = WithStatus("stopped")
  /\ current # {} \/ syncState.status # "stopped"
  /\ UNCHANGED <<thread, stopEvent, resumed, received, faults>>

-----------------------------------------------------------------------------
(* _run(). *)

\* The loop sees the stop event.
LoopEnds(t) ==
  /\ thread[t].pc = "loop"
  /\ stopEvent
  /\ thread' = [thread EXCEPT ![t] = Ended]
  /\ UNCHANGED <<syncState, current, stopEvent, resumed, received, faults>>

\* _query_new_entries(): the first of them past the watermark.
NewEntries(after) ==
  {s \in Sequences : s > after /\ Cardinality({u \in Sequences : after < u /\ u < s}) < PushLimit}

\* Mutant: nothing is pushed after an error until the agent is resumed.
CycleUnlessError(t) ==
  LET seqs == NewEntries(syncState.last) IN
  /\ thread[t].pc = "loop"
  /\ ~stopEvent /\ resumed /\ syncState.status # "error"
  /\ seqs # {}
  /\ thread' = [thread EXCEPT ![t] =
       [pc |-> "push", seqs |-> seqs, batch |-> {trail[s].id : s \in seqs}]]
  /\ UNCHANGED <<syncState, current, stopEvent, resumed, received, faults>>

\* _sync_cycle() reads the watermark and the entries, and builds the batch.
CycleReads(t) ==
  LET seqs == NewEntries(syncState.last) IN
  /\ thread[t].pc = "loop"
  /\ ~stopEvent /\ resumed
  /\ seqs # {}
  /\ thread' = [thread EXCEPT ![t] =
       [pc |-> "push", seqs |-> seqs, batch |-> {trail[s].id : s \in seqs}]]
  /\ UNCHANGED <<syncState, current, stopEvent, resumed, received, faults>>

\* push_batch(), taken by the other side and acknowledged.
PushAccepted(t) ==
  /\ thread[t].pc = "push"
  /\ received' = received \union thread[t].batch
  /\ thread' = [thread EXCEPT ![t].pc = "acked"]
  /\ UNCHANGED <<syncState, current, stopEvent, resumed, faults>>

\* The request fails, or its answer is lost after the batch was taken; an
\* answer that does not accept the batch leaves the row alone.
PushFails(t, taken, answered) ==
  /\ thread[t].pc = "push"
  /\ faults < MaxFaults
  /\ taken => ~answered
  /\ faults' = faults + 1
  /\ received' = IF taken THEN received \union thread[t].batch ELSE received
  /\ thread' = [thread EXCEPT ![t].pc = IF answered THEN "loop" ELSE "failed"]
  /\ UNCHANGED <<syncState, current, stopEvent, resumed>>

\* Mutant: the watermark moves before the request.
EagerWatermark(t) ==
  /\ thread[t].pc = "push"
  /\ syncState' = [last |-> Max(thread[t].seqs), status |-> "syncing"]
  /\ thread' = [thread EXCEPT ![t] = [Ended EXCEPT !.pc = "loop"]]
  /\ UNCHANGED <<current, stopEvent, resumed, received, faults>>

\* _update_watermark().
UpdateWatermark(t) ==
  /\ thread[t].pc = "acked"
  /\ syncState' = [last |-> Max(thread[t].seqs), status |-> "syncing"]
  /\ thread' = [thread EXCEPT ![t] = [Ended EXCEPT !.pc = "loop"]]
  /\ UNCHANGED <<current, stopEvent, resumed, received, faults>>

\* _handle_error(); the back-off is a wait.
HandleError(t) ==
  /\ thread[t].pc = "failed"
  /\ syncState' = WithStatus("error")
  /\ thread' = [thread EXCEPT ![t] = [Ended EXCEPT !.pc = "loop"]]
  /\ UNCHANGED <<current, stopEvent, resumed, received, faults>>

\* The process dies and starts again: daemon threads are gone, the row is not.
AgentCrash ==
  /\ faults < MaxFaults
  /\ faults' = faults + 1
  /\ thread' = [t \in SyncThread |-> Ended]
  /\ current' = {}
  /\ stopEvent' = FALSE
  /\ resumed' = TRUE
  /\ UNCHANGED <<syncState, received>>

-----------------------------------------------------------------------------
ThreadNext(t) ==
  \/ LoopEnds(t)
  \/ CycleReads(t)
  \/ PushAccepted(t)
  \/ \E taken, answered \in BOOLEAN : PushFails(t, taken, answered)
  \/ UpdateWatermark(t)
  \/ HandleError(t)

AgentNext ==
  \/ \E t \in SyncThread : AgentStart(t) \/ ThreadNext(t)
  \/ AgentPause
  \/ AgentResume
  \/ StopSignals
  \/ StopJoins
  \/ AgentCrash

SyncNext ==
  \/ AgentNext /\ UNCHANGED auditVars
  \/ ((\E p \in Process : WriterNext(p)) \/ RetentionNext) /\ UNCHANGED syncVars

\* A thread that can run runs, and the network does not fail for ever (MaxFaults).
SyncFairness ==
  \A t \in SyncThread :
    /\ WF_<<auditVars, syncVars>>(CycleReads(t) /\ UNCHANGED auditVars)
    /\ WF_<<auditVars, syncVars>>(PushAccepted(t) /\ UNCHANGED auditVars)
    /\ WF_<<auditVars, syncVars>>(UpdateWatermark(t) /\ UNCHANGED auditVars)
    /\ WF_<<auditVars, syncVars>>(HandleError(t) /\ UNCHANGED auditVars)

SyncSpec == SyncInit /\ [][SyncNext]_<<auditVars, syncVars>> /\ SyncFairness

-----------------------------------------------------------------------------
(* Properties. *)

SyncTypeOK ==
  /\ syncState \in [last : 0..MaxIds, status : SyncStatus]
  /\ \A t \in SyncThread :
       /\ thread[t].pc \in {"ended", "loop", "push", "acked", "failed"}
       /\ thread[t].seqs \subseteq 1..MaxIds
       /\ thread[t].batch \subseteq 1..MaxIds
  /\ current \subseteq SyncThread
  /\ stopEvent \in BOOLEAN /\ resumed \in BOOLEAN
  /\ received \subseteq 1..MaxIds

\* Every entry at or below the watermark has been taken by the management
\* plane, through lost answers, crashes between push and watermark, and two
\* threads that push and move the watermark by turns: the agent "can resume
\* after restarts" and loses nothing.
WatermarkHonest ==
  \A s \in Sequences : s <= syncState.last => trail[s].id \in received

\* An agent that is left running comes level with the trail again and again:
\* a failed or unanswered push, a crash or a restart holds nothing up for good.
EntriesArrive ==
  <>[](resumed /\ ~stopEvent /\ \E t \in SyncThread : thread[t].pc # "ended")
    => []<>(\A s \in Sequences : trail[s].id \in received)

=============================================================================
