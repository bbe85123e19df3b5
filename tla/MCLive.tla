------------------------------- MODULE MCLive -------------------------------
(***************************************************************************)
(* The parts of PyScoped 2 that do not share state with the audited        *)
(* writes, for TLC: in every behaviour one of them, the focus, moves.      *)
(* Two requests on two threads, the second thread's server code in a       *)
(* context of its own, as a test client inside scope(...) is; three scope  *)
(* managers, two of one scope, shared by two tasks; three models that      *)
(* refer to each other and to themselves.                                  *)
(***************************************************************************)
EXTENDS RequestContext, ScopedReads, Registration, HistoryChain, TLC

CONSTANTS t1, t2, m1, m2, m3

MCHome == [t \in Thread |-> IF t = t2 THEN Server ELSE NoContext]

MCScopeOf == m1 :> "s1" @@ m2 :> "s2" @@ m3 :> "s1"
MCRowScope == 1 :> "s1" @@ 2 :> "s2"

Declared(name, model, target, one_to_one, hidden) ==
  [name |-> name, model |-> model, target |-> target, one_to_one |-> one_to_one, hidden |-> hidden]

MCRelation ==
  { Declared("order", "line", "order", FALSE, FALSE), Declared("note", "line", "note", TRUE, FALSE),
    Declared("first", "order", "line", TRUE, TRUE), Declared("parent", "note", "note", FALSE, FALSE),
    Declared("about", "note", "line", TRUE, FALSE) }

VARIABLE focus

liveVars == <<vars, managerVars, readVars, registrationVars, chainVars, focus>>

LiveInit ==
  /\ focus \in {"requests", "reads", "registration", "chain"}
  /\ Init /\ ReadsInit /\ RegistrationInit /\ ChainInit

LiveNext ==
  /\ UNCHANGED focus
  /\ \/ focus = "requests" /\ Next /\ UNCHANGED <<managerVars, readVars, registrationVars, chainVars>>
     \/ focus = "reads" /\ ReadsNext /\ UNCHANGED <<vars, registrationVars, chainVars>>
     \/ focus = "registration" /\ RegistrationNext /\ UNCHANGED <<vars, managerVars, readVars, chainVars>>
     \/ focus = "chain" /\ ChainNext /\ UNCHANGED <<vars, managerVars, readVars, registrationVars>>

LiveSpec == LiveInit /\ [][LiveNext]_liveVars

\* Types of the state of each part.
LiveTypeOK == TypeOK /\ ReadsTypeOK /\ RegistrationTypeOK /\ ChainTypeOK

=============================================================================
