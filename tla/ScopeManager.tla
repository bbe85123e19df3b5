---------------------------- MODULE ScopeManager ----------------------------
(***************************************************************************)
(* The scope(...) context managers (src/pyscoped/context.py).  Each thread *)
(* or asyncio task has its own value of the ContextVar _current; a manager *)
(* keeps in _token what _current.set() gave it when it was entered.        *)
(* Managers are used again after they were left, nested, and handed from   *)
(* task to task; blocks of a task end in nesting order.                    *)
(*                                                                         *)
(* A context is named by the manager that was made for it.                 *)
(***************************************************************************)
EXTENDS Naturals, Sequences

CONSTANTS
  Task,         \* what has a contextvars.Context of its own
  Manager,      \* the scope(...) objects
  NoManager,    \* None: no context, no token
  MaxBlocks     \* bound on the blocks entered

ASSUME ManagerAssumption == NoManager \notin Manager /\ MaxBlocks \in Nat

\* None is no token.
ASSUME TokenAssumption == NoManager \notin [task : Task, old : Manager \union {NoManager}]

VARIABLES
  bound,        \* _current, per task
  token,        \* _token, per manager: the task it is of and the value to go back to
  entering,     \* the manager a task is inside __enter__ of, past the check
  blocks,       \* the with-blocks a task is in, oldest first, with what encloses them
  collided,     \* two tasks were inside __enter__ of one manager, both past its check
  entered       \* blocks entered

managerVars == <<bound, token, entering, blocks, collided, entered>>

ManagerInit ==
  /\ bound = [t \in Task |-> NoManager]
  /\ token = [m \in Manager |-> NoManager]
  /\ entering = [t \in Task |-> NoManager]
  /\ blocks = [t \in Task |-> <<>>]
  /\ collided = FALSE
  /\ entered = 0

\* Mutant: no check that the manager is free.
AnyToken(m) == TRUE

\* A manager that is in use is refused.
Fresh(m) == token[m] = NoManager

\* __enter__, its check and its _current.set(): other threads run in between.
EnterChecks(t, m) ==
  /\ entering[t] = NoManager
  /\ entered < MaxBlocks
  /\ Fresh(m)
  /\ entering' = [entering EXCEPT ![t] = m]
  /\ collided' = (collided \/ \E o \in Task : entering[o] = m)
  /\ entered' = entered + 1
  /\ UNCHANGED <<bound, token, blocks>>

EnterSets(t) ==
  LET m == entering[t] IN
  /\ m # NoManager
  /\ token' = [token EXCEPT ![m] = [task |-> t, old |-> bound[t]]]
  /\ bound' = [bound EXCEPT ![t] = m]
  /\ blocks' = [blocks EXCEPT ![t] = Append(@, [manager |-> m, outer |-> bound[t]])]
  /\ entering' = [entering EXCEPT ![t] = NoManager]
  /\ UNCHANGED <<collided, entered>>

\* __exit__.  _current.reset() raises for no token or another task's, and then
\* _token stays as it is.
ExitBlock(t) ==
  LET m == blocks[t][Len(blocks[t])].manager IN
  /\ entering[t] = NoManager
  /\ blocks[t] # <<>>
  /\ blocks' = [blocks EXCEPT ![t] = SubSeq(@, 1, Len(@) - 1)]
  /\ IF token[m] # NoManager /\ token[m].task = t
     THEN /\ bound' = [bound EXCEPT ![t] = token[m].old]
          /\ token' = [token EXCEPT ![m] = NoManager]
     ELSE UNCHANGED <<bound, token>>
  /\ UNCHANGED <<entering, collided, entered>>

ManagerNext ==
  \E t \in Task : EnterSets(t) \/ ExitBlock(t) \/ \E m \in Manager : EnterChecks(t, m)

ManagerSpec == ManagerInit /\ [][ManagerNext]_managerVars

-----------------------------------------------------------------------------
(* Properties. *)

ManagerTypeOK ==
  /\ bound \in [Task -> Manager \union {NoManager}]
  /\ \A m \in Manager : token[m] # NoManager => token[m].task \in Task
  /\ entering \in [Task -> Manager \union {NoManager}]

\* "Always restores the enclosing context": at every depth of nesting a task
\* runs in the context of its innermost block, and outside all blocks in none,
\* with managers used again and shared by tasks, unless two of them passed the
\* check of one manager at once.
InnermostContext ==
  ~collided =>
    \A t \in Task : bound[t] = IF blocks[t] = <<>> THEN NoManager
                               ELSE blocks[t][Len(blocks[t])].manager

=============================================================================
