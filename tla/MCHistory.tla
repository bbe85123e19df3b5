---------------------------- MODULE MCHistory ----------------------------
(* Small instances of ScopedHistory for TLC. *)
EXTENDS ScopedHistory

CONSTANTS w1, w2, s1, s2, a, b

SameScope == [w \in Worker |-> s1]
TwoScopes == [w \in Worker |-> IF w = w1 THEN s1 ELSE s2]

\* The operations each question needs.
Maintenance == {"backfill", "verify", "restore", "update", "delete", "save_fields"}
Restoring == {"restore", "save_fields", "delete"}
Locking == {"restore", "backfill", "update", "delete"}

=============================================================================
