----------------------------- MODULE StageFlow -----------------------------
(***************************************************************************)
(* An object in a pipeline of the 1.x framework (flow/pipeline.py): two    *)
(* calls of transition() may both read the current stage before either     *)
(* inserts its row, and the pipeline may be archived in between.           *)
(***************************************************************************)
EXTENDS Naturals, Sequences

CONSTANTS
  Stage,      \* stages of the pipeline
  NoStage,    \* no stage yet
  Mover,      \* threads of the object's owner
  MaxMoves    \* bound on stage transitions

ASSUME StageFlowAssumption == NoStage \notin Stage /\ MaxMoves \in Nat

VARIABLES
  pipelineOpen,   \* lifecycle of the pipeline is ACTIVE
  moves,          \* the stage_transitions table, in order of transitioned_at
  mover           \* per thread: the transition() under way

stageVars == <<pipelineOpen, moves, mover>>

NotMoving == [pc |-> "still", from |-> NoStage, to |-> NoStage]

StageInit ==
  /\ pipelineOpen = TRUE
  /\ moves = <<>>
  /\ mover = [m \in Mover |-> NotMoving]

\* get_current_stage()
CurrentStage == IF moves = <<>> THEN NoStage ELSE moves[Len(moves)].to

\* Mutant: the source stage is not compared.
AnyStage(from) == TRUE

\* from_stage_id is the object's current stage, None before the first.
FromCurrent(from) == from = CurrentStage

\* transition() checks the pipeline and the current stage ...
CheckMove(m, from, to) ==
  /\ mover[m].pc = "still"
  /\ pipelineOpen
  /\ FromCurrent(from)
  /\ mover' = [mover EXCEPT ![m] = [pc |-> "insert", from |-> from, to |-> to]]
  /\ UNCHANGED <<pipelineOpen, moves>>

\* ... and inserts the row.
Move(m) ==
  /\ mover[m].pc = "insert"
  /\ Len(moves) < MaxMoves
  /\ moves' = Append(moves, [from |-> mover[m].from, to |-> mover[m].to])
  /\ mover' = [mover EXCEPT ![m] = NotMoving]
  /\ UNCHANGED pipelineOpen

ArchivePipeline ==
  /\ pipelineOpen
  /\ pipelineOpen' = FALSE
  /\ UNCHANGED <<moves, mover>>

StageNext ==
  \/ ArchivePipeline
  \/ \E m \in Mover :
       Move(m) \/ \E from \in Stage \union {NoStage}, to \in Stage : CheckMove(m, from, to)

StageSpec == StageInit /\ [][StageNext]_stageVars

-----------------------------------------------------------------------------
(* Properties. *)

StageTypeOK ==
  /\ pipelineOpen \in BOOLEAN
  /\ \A k \in 1..Len(moves) : moves[k].to \in Stage /\ moves[k].from \in Stage \union {NoStage}

\* "from_stage_id must equal the object's current stage": whatever two callers
\* do to each other, an object only leaves a stage it has been in.
StagesConnected ==
  \A k \in 1..Len(moves) :
    moves[k].from = NoStage \/ \E j \in 1..(k - 1) : moves[j].to = moves[k].from

=============================================================================
