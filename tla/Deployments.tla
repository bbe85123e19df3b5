---------------------------- MODULE Deployments ----------------------------
(***************************************************************************)
(* Deployments of the 1.x framework (deployments/) to one target: a        *)
(* deployment passes its gates, runs, and may be rolled back by another    *)
(* one.  Every call reads first and writes later, statement by statement,  *)
(* so that two calls interleave; a process may die in between.             *)
(***************************************************************************)
EXTENDS Naturals, Sequences, FiniteSets

CONSTANTS
  Agent,            \* threads of the owner
  MaxDeployments,   \* bound on deployments
  MaxAgentDeaths

ASSUME DeploymentsAssumption ==
  /\ MaxDeployments \in Nat /\ MaxAgentDeaths \in Nat

VARIABLES
  targetOpen,     \* lifecycle of the target is ACTIVE
  deployments,    \* the deployments table: state, version, rollback_of (0: none)
  failedGates,    \* deployments with a failed gate
  succeeded,      \* deployments whose deploy_fn returned true
  agent,          \* per thread: the call under way
  agentDeaths

deploymentVars == <<targetOpen, deployments, failedGates, succeeded, agent, agentDeaths>>

deployVars == <<targetOpen, deployments, failedGates, succeeded>>

FreeAgent == [pc |-> "free", id |-> 0, version |-> 0]

DeploymentsInit ==
  /\ targetOpen = TRUE
  /\ deployments = <<>>
  /\ failedGates = {}
  /\ succeeded = {}
  /\ agent = [a \in Agent |-> FreeAgent]
  /\ agentDeaths = 0

Goes(a, call) == agent' = [agent EXCEPT ![a] = call]

-----------------------------------------------------------------------------
(* DeploymentExecutor and GateChecker. *)

AllowedTransition ==
  {<<"pending", "deploying">>, <<"deploying", "deployed">>, <<"deploying", "failed">>,
   <<"deployed", "rolled_back">>}

LastVersion == IF deployments = <<>> THEN 0
              ELSE CHOOSE v \in {deployments[i].version : i \in 1..Len(deployments)} :
                     \A i \in 1..Len(deployments) : deployments[i].version <= v

\* create_deployment(), for a rollback too: the target is checked and the
\* version computed ...
PrepareDeployment(a, of) ==
  /\ targetOpen
  /\ Len(deployments) < MaxDeployments
  /\ Goes(a, [FreeAgent EXCEPT !.pc = "insert", !.id = of, !.version = LastVersion + 1])
  /\ UNCHANGED <<deployVars, agentDeaths>>

CreateDeployment(a) == agent[a].pc = "free" /\ PrepareDeployment(a, 0)

\* ... and the row inserted; a rollback goes on with its original.
InsertDeployment(a) ==
  LET of == agent[a].id IN
  /\ agent[a].pc = "insert"
  /\ deployments' = Append(deployments, [state |-> "pending", version |-> agent[a].version, rollbackOf |-> of])
  /\ Goes(a, IF of = 0 THEN FreeAgent ELSE [FreeAgent EXCEPT !.pc = "rolled_back", !.id = of])
  /\ UNCHANGED <<targetOpen, failedGates, succeeded, agentDeaths>>

ArchiveTarget ==
  /\ targetOpen
  /\ targetOpen' = FALSE
  /\ UNCHANGED <<deployments, failedGates, succeeded, agent, agentDeaths>>

\* record_gate(passed=False); a passed gate changes no decision.
RecordGate(i) ==
  /\ i \in 1..Len(deployments)
  /\ failedGates' = failedGates \union {i}
  /\ UNCHANGED <<targetOpen, deployments, succeeded, agent, agentDeaths>>

\* execute_deployment() checks state, target and gates ...
BeginExecute(a, i) ==
  /\ agent[a].pc = "free"
  /\ i \in 1..Len(deployments)
  /\ deployments[i].state = "pending"
  /\ targetOpen
  /\ i \notin failedGates
  /\ Goes(a, [FreeAgent EXCEPT !.pc = "deploying", !.id = i])
  /\ UNCHANGED <<deployVars, agentDeaths>>

\* transition_state(): reads and checks once more ...
CheckTransition(a, new, next) ==
  LET i == agent[a].id IN
  /\ agent[a].pc = new
  /\ Goes(a, IF <<deployments[i].state, new>> \in AllowedTransition
             THEN [agent[a] EXCEPT !.pc = next] ELSE FreeAgent)
  /\ UNCHANGED <<deployVars, agentDeaths>>

\* ... and writes.
WriteTransition(a, pc, new, next) ==
  LET i == agent[a].id IN
  /\ agent[a].pc = pc
  /\ deployments' = [deployments EXCEPT ![i].state = new]
  /\ Goes(a, IF next = "free" THEN FreeAgent ELSE [agent[a] EXCEPT !.pc = next])
  /\ UNCHANGED <<targetOpen, failedGates, succeeded, agentDeaths>>

\* Mutant: a deploy_fn that returned false counts as success.
RunsFine(a, ok) ==
  /\ agent[a].pc = "run"
  /\ succeeded' = IF ok THEN succeeded \union {agent[a].id} ELSE succeeded
  /\ Goes(a, [agent[a] EXCEPT !.pc = "deployed"])
  /\ UNCHANGED <<targetOpen, deployments, failedGates, agentDeaths>>

\* deploy_fn() returns true, or returns false or raises.
RunDeployFn(a, ok) ==
  /\ agent[a].pc = "run"
  /\ succeeded' = IF ok THEN succeeded \union {agent[a].id} ELSE succeeded
  /\ Goes(a, [agent[a] EXCEPT !.pc = IF ok THEN "deployed" ELSE "failed"])
  /\ UNCHANGED <<targetOpen, deployments, failedGates, agentDeaths>>

Execute(a) ==
  \/ \E i \in 1..MaxDeployments : BeginExecute(a, i)
  \/ CheckTransition(a, "deploying", "deploying!")
  \/ WriteTransition(a, "deploying!", "deploying", "run")
  \/ \E ok \in BOOLEAN : RunDeployFn(a, ok)
  \/ CheckTransition(a, "deployed", "deployed!")
  \/ WriteTransition(a, "deployed!", "deployed", "free")
  \/ CheckTransition(a, "failed", "failed!")
  \/ WriteTransition(a, "failed!", "failed", "free")

-----------------------------------------------------------------------------
(* DeploymentRollbackManager. *)

\* Mutant: the original is marked, and no reversal created.
RollbackMarksFirst(a, i) ==
  /\ agent[a].pc = "free"
  /\ i \in 1..Len(deployments)
  /\ deployments[i].state = "deployed"
  /\ Goes(a, [FreeAgent EXCEPT !.pc = "rolled_back", !.id = i])
  /\ UNCHANGED <<deployVars, agentDeaths>>

\* rollback_deployment(): the original is deployed, a reversal is created ...
RollbackDeployment(a, i) ==
  /\ agent[a].pc = "free"
  /\ i \in 1..Len(deployments)
  /\ deployments[i].state = "deployed"
  /\ PrepareDeployment(a, i)

\* ... and then the original marked.
MarkOriginal(a) ==
  \/ CheckTransition(a, "rolled_back", "rolled_back!")
  \/ WriteTransition(a, "rolled_back!", "rolled_back", "free")

AgentDies(a) ==
  /\ agent[a].pc # "free"
  /\ agentDeaths < MaxAgentDeaths
  /\ agentDeaths' = agentDeaths + 1
  /\ Goes(a, FreeAgent)
  /\ UNCHANGED deployVars

-----------------------------------------------------------------------------
DeploymentsNext ==
  \/ ArchiveTarget
  \/ \E i \in 1..MaxDeployments : RecordGate(i)
  \/ \E a \in Agent :
       \/ CreateDeployment(a) \/ InsertDeployment(a) \/ Execute(a)
       \/ \E i \in 1..MaxDeployments : RollbackDeployment(a, i)
       \/ MarkOriginal(a) \/ AgentDies(a)

DeploymentsSpec == DeploymentsInit /\ [][DeploymentsNext]_deploymentVars

-----------------------------------------------------------------------------
(* Properties. *)

DeploymentsTypeOK ==
  /\ \A i \in 1..Len(deployments) :
       /\ deployments[i].state \in {"pending", "deploying", "deployed", "failed", "rolled_back"}
       /\ deployments[i].rollbackOf \in 0..Len(deployments)
  /\ \A a \in Agent : agent[a].id \in 0..Len(deployments)

\* A deployment is recorded as deployed only when a run of it succeeded, also
\* when two executors run the same one or one of them dies.
DeployedHasRun ==
  \A i \in 1..Len(deployments) : deployments[i].state = "deployed" => i \in succeeded

\* "Roll back a deployment by creating a new reversal deployment": one that is
\* rolled back has its reversal, even if the target was archived meanwhile or
\* the process died between the two writes.
RolledBackHasReversal ==
  \A i \in 1..Len(deployments) :
    deployments[i].state = "rolled_back" => \E j \in 1..Len(deployments) : deployments[j].rollbackOf = i

=============================================================================
