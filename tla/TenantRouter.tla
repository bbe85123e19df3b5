---------------------------- MODULE TenantRouter ----------------------------
(***************************************************************************)
(* The tenant router of the 1.x framework (storage/tenant_router.py):      *)
(* threads look a tenant's backend up in a cache, create it under a lock   *)
(* when it is not there, and use it; teardown_tenant() takes it out under  *)
(* the lock and closes it after; close() closes it under the lock and takes*)
(* it out after.  One tenant: a tenant's key, backend and operations touch *)
(* no other tenant's; what the others add is that the lock waits longer,   *)
(* and that close() may raise at one of theirs.                            *)
(***************************************************************************)
EXTENDS Naturals, FiniteSets

CONSTANTS
  RouterCaller,         \* threads that run operations of the tenant
  Admin,          \* threads that tear it down, or close the router
  MaxBackends     \* bound on backends created

ASSUME RouterAssumption == MaxBackends \in Nat

VARIABLES
  cached,     \* _backends[tenant]: the backend's number, 0 for none
  made,       \* backends created so far
  open,       \* those initialized and not closed
  lockedBy,   \* holders of _lock
  caller,     \* per thread: where it is, and the backend it has got
  strays,     \* history: backends that an initialize() or close() that raised left open
  cutShort    \* history: backends that a close() of the router that raised left in the cache

routerVars == <<cached, made, open, lockedBy, caller, strays, cutShort>>

Away == [pc |-> "away", backend |-> 0]

RouterInit ==
  /\ cached = 0
  /\ made = 0
  /\ open = {}
  /\ lockedBy = {}
  /\ caller = [t \in RouterCaller \union Admin |-> Away]
  /\ strays = {}
  /\ cutShort = {}

Turns(t, pc, backend) == caller' = [caller EXCEPT ![t] = [pc |-> pc, backend |-> backend]]

-----------------------------------------------------------------------------
(* _get_backend() and the operation that asked for it. *)

LookUp(t) ==
  /\ caller[t].pc = "away"
  /\ IF cached # 0 THEN Turns(t, "use", cached) ELSE Turns(t, "lock", 0)
  /\ UNCHANGED <<cached, made, open, lockedBy, strays, cutShort>>

TakeLock(t) ==
  /\ caller[t].pc = "lock"
  /\ lockedBy = {}
  /\ lockedBy' = {t}
  /\ Turns(t, "check", 0)
  /\ UNCHANGED <<cached, made, open, strays, cutShort>>

\* Mutant: no double check after the lock.
CheckOnce(t) ==
  /\ caller[t].pc = "check"
  /\ Turns(t, "create", 0)
  /\ UNCHANGED <<cached, made, open, lockedBy, strays, cutShort>>

\* "Double-check after acquiring lock".
CheckAgain(t) ==
  /\ caller[t].pc = "check"
  /\ IF cached # 0
     THEN Turns(t, "use", cached) /\ lockedBy' = {}
     ELSE Turns(t, "create", 0) /\ UNCHANGED lockedBy
  /\ UNCHANGED <<cached, made, open, strays, cutShort>>

\* The factory makes the backend, or raises.
CreateBackend(t, ok) ==
  /\ caller[t].pc = "create"
  /\ made < MaxBackends
  /\ IF ok
     THEN Turns(t, "initialize", made + 1) /\ made' = made + 1 /\ UNCHANGED lockedBy
     ELSE Turns(t, "away", 0) /\ lockedBy' = {} /\ UNCHANGED made
  /\ UNCHANGED <<cached, open, strays, cutShort>>

\* initialize() opens it and runs the schema.  When it raises, before or after it
\* has opened the backend, nothing is cached and nobody closes it.
InitializeBackend(t, ok, opened) ==
  LET b == caller[t].backend IN
  /\ caller[t].pc = "initialize"
  /\ open' = IF opened THEN open \union {b} ELSE open
  /\ IF ok
     THEN opened /\ cached' = b /\ Turns(t, "use", b) /\ UNCHANGED strays
     ELSE /\ strays' = IF opened THEN strays \union {b} ELSE strays
          /\ Turns(t, "away", 0)
          /\ UNCHANGED cached
  /\ lockedBy' = {}
  /\ UNCHANGED <<made, cutShort>>

Use(t) ==
  /\ caller[t].pc = "use"
  /\ Turns(t, "away", 0)
  /\ UNCHANGED <<cached, made, open, lockedBy, strays, cutShort>>

-----------------------------------------------------------------------------
(* teardown_tenant() and close(). *)

\* Mutant: the backend is closed and stays in the cache.
PopNothing(a) ==
  /\ caller[a].pc = "away"
  /\ lockedBy = {} /\ cached # 0
  /\ Turns(a, "close", cached)
  /\ UNCHANGED <<cached, made, open, lockedBy, strays, cutShort>>

PopBackend(a) ==
  /\ caller[a].pc = "away"
  /\ lockedBy = {} /\ cached # 0
  /\ Turns(a, "close", cached)
  /\ cached' = 0
  /\ UNCHANGED <<made, open, lockedBy, strays, cutShort>>

\* The backend is closed, or its close() raises.
CloseBackend(a, ok) ==
  LET b == caller[a].backend IN
  /\ caller[a].pc = "close"
  /\ IF ok
     THEN open' = open \ {b} /\ UNCHANGED strays
     ELSE strays' = strays \union ({b} \intersect open) /\ UNCHANGED open
  /\ Turns(a, "away", 0)
  /\ UNCHANGED <<cached, made, lockedBy, cutShort>>

\* close() closes the backend while it is still in _backends, where a thread that
\* does not take the lock finds it ...
CloseCached(a) ==
  /\ caller[a].pc = "away"
  /\ lockedBy = {} /\ cached # 0
  /\ lockedBy' = {a}
  /\ open' = open \ {cached}
  /\ Turns(a, "clear", 0)
  /\ UNCHANGED <<cached, made, strays, cutShort>>

\* ... and empties _backends after the loop; unless the close() of another
\* tenant's backend raises, and every backend stays there.
ClearCache(a, ok) ==
  /\ caller[a].pc = "clear"
  /\ IF ok
     THEN cached' = 0 /\ UNCHANGED cutShort
     ELSE cutShort' = cutShort \union {cached} /\ UNCHANGED cached
  /\ lockedBy' = {}
  /\ Turns(a, "away", 0)
  /\ UNCHANGED <<made, open, strays>>

-----------------------------------------------------------------------------
RouterNext ==
  \/ \E t \in RouterCaller :
       \/ LookUp(t) \/ TakeLock(t) \/ CheckAgain(t) \/ Use(t)
       \/ \E ok \in BOOLEAN : CreateBackend(t, ok)
       \/ \E ok, opened \in BOOLEAN : InitializeBackend(t, ok, opened)
  \/ \E a \in Admin :
       \/ PopBackend(a) \/ CloseCached(a)
       \/ \E ok \in BOOLEAN : CloseBackend(a, ok) \/ ClearCache(a, ok)

RouterSpec == RouterInit /\ [][RouterNext]_routerVars

-----------------------------------------------------------------------------
(* Properties. *)

RouterTypeOK ==
  /\ cached \in 0..MaxBackends /\ made \in 0..MaxBackends
  /\ {open, strays, cutShort} \subseteq SUBSET (1..MaxBackends)
  /\ Cardinality(lockedBy) <= 1

\* No backend is left open and unreachable: an open one is in the cache, or is
\* about to be closed by the thread that took it out; but for those that an
\* initialize() or a close() that raised left behind.
NoBackendLeaks ==
  \A b \in open \ strays :
    cached = b \/ \E a \in Admin : caller[a].pc = "close" /\ caller[a].backend = b

\* The cache offers no closed backend, however creations and teardowns race, but
\* while close() is between its loop and its clear(), or after it was cut short.
CachedIsOpen ==
  cached # 0 =>
    cached \in open \union cutShort \/ \E a \in Admin : caller[a].pc = "clear"

\* Without the exceptions.  Each fails, by what initialize() and close() do; no
\* run checks them.
NothingStrays == strays = {}
CacheAlwaysOpen == cached # 0 => cached \in open

\* A thread that has got a backend finds it open.  It fails too: it may have got
\* the backend just before the teardown.
UsesOpen == \A t \in RouterCaller : caller[t].pc = "use" => caller[t].backend \in open

=============================================================================
