------------------------------ MODULE MCProgress ------------------------------
(***************************************************************************)
(* The parts in which something is waited for, for TLC: in every behaviour *)
(* one part, the focus, moves.  Nothing that fairness is about can happen  *)
(* to a part that has not moved.                                           *)
(***************************************************************************)
EXTENDS RelationGuards, SyncAgent, Scheduling, EventDelivery, TLC

VARIABLE focus

progressVars == <<relationVars, auditVars, syncVars, schedVars, eventVars, focus>>

\* What has several initial states has them in its own behaviours only.
ProgressInit ==
  /\ focus \in {"relations", "sync", "scheduling", "events"}
  /\ RelationInit /\ SyncInit /\ SchedInit /\ EventInit
  /\ focus # "relations" => parents = [p \in Parent |-> NoTenant]
  /\ focus # "scheduling" => action.interval = 0

ProgressNext ==
  /\ UNCHANGED focus
  /\ \/ /\ focus = "relations" /\ RelationNext
        /\ UNCHANGED <<auditVars, syncVars, schedVars, eventVars>>
     \/ /\ focus = "sync" /\ SyncNext
        /\ UNCHANGED <<relationVars, schedVars, eventVars>>
     \/ /\ focus = "scheduling" /\ SchedNext
        /\ UNCHANGED <<relationVars, auditVars, syncVars, eventVars>>
     \/ /\ focus = "events" /\ EventNext
        /\ UNCHANGED <<relationVars, auditVars, syncVars, schedVars>>

ProgressSpec ==
  /\ ProgressInit /\ [][ProgressNext]_progressVars
  /\ RelationFairness /\ SyncFairness /\ SchedFairness /\ EventFairness

\* Types of the state of the part that moves.
ProgressTypeOK ==
  /\ focus = "relations" => RelationTypeOK
  /\ focus = "sync" => SyncTypeOK
  /\ focus = "scheduling" => SchedTypeOK
  /\ focus = "events" => EventTypeOK

-----------------------------------------------------------------------------
(* What the parts promise; each conjunct is stated in the part's module.   *)

\* Nothing is passed over: entries below the watermark have arrived, past
\* occurrences of an action have their jobs, what is recorded as delivered was
\* received.  A job runs once and a delivery is posted as often as max_retries
\* allows; that an occurrence has one job only is not said, and two dispatchers
\* at once may enqueue it twice.
NothingMissed ==
  /\ WatermarkHonest
  /\ NoOccurrenceLost /\ RunsOnce
  /\ DeliveredIsReceived /\ PostsBounded

=============================================================================
