-------------------------- MODULE AuditedStore --------------------------
(***************************************************************************)
(* What PyScoped promises of a registered model, with no transactions,      *)
(* locks or statements in sight: a store of rows in which every change of a *)
(* row comes with the events that account for it, in one step.             *)
(*                                                                         *)
(* README.md: "Supported writes and audit records commit or roll back      *)
(* together."                                                              *)
(***************************************************************************)
EXTENDS Naturals, Sequences, SequencesExt

CONSTANTS Key, Scope, Null

VARIABLES
  row,     \* [Key -> a record with fields scope and val, or Null]
  log      \* [Key -> the sequence of the row's events]

\* The audited fields of a row.
Image(r) == IF r = Null THEN Null ELSE r.val

Init == log = [k \in Key |-> <<>>]

\* A step appends the events new to the history of k.  They lead from the row
\* before the step to the row after it with no gap, each in scope s.  Only a
\* baseline, and only as the first event of all, may start from a row that is
\* already there without saying so.
Accounted(k, s, new) ==
  /\ \A i \in DOMAIN new :
       LET prior == IF i = 1 THEN Image(row[k]) ELSE new[i - 1].after IN
       /\ new[i].scope = s
       /\ IF new[i].action = "baseline"
          THEN Len(log[k]) + i = 1 /\ new[i].before = Null /\ new[i].after = prior
          ELSE new[i].before = prior
  /\ Image(row'[k]) = Last(new).after
  /\ row[k] # Null => row[k].scope = s
  /\ row'[k] # Null => row'[k].scope = s

Write(k, s) ==
  /\ Len(log'[k]) > Len(log[k])
  /\ IsPrefix(log[k], log'[k])
  /\ Accounted(k, s, SubSeq(log'[k], Len(log[k]) + 1, Len(log'[k])))

Keep(k) == row'[k] = row[k] /\ log'[k] = log[k]

\* A transaction writes some rows of one scope and leaves all others alone.
Transaction(s) == \A k \in Key : Write(k, s) \/ Keep(k)

Spec == Init /\ [][\E s \in Scope : Transaction(s)]_<<row, log>>

\* The promise of a model registered in audit mode: nothing confines a
\* transaction to one scope, each row's events are in its own.
AuditSpec ==
  Init /\ [][\A k \in Key : (\E s \in Scope : Write(k, s)) \/ Keep(k)]_<<row, log>>

=============================================================================
