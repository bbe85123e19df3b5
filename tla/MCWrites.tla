---------------------------- MODULE MCWrites ----------------------------
(* Small instances of ScopedWrites for TLC. *)
EXTENDS ScopedWrites

CONSTANTS w1, w2, s1, s2, a, b

\* Both workers in one tenant, or one in each.
SameScope == [w \in Worker |-> s1]
TwoScopes == [w \in Worker |-> IF w = w1 THEN s1 ELSE s2]

\* The ways the application uses the library that the runs tell apart.
NoDeletes == {"save", "save_fields", "create", "update", "bulk_update", "bulk_create"}
NoRevival == {"save_fields", "create", "update", "bulk_update", "bulk_create", "delete"}
Everything == NoDeletes \union NoRevival

=============================================================================
