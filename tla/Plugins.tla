------------------------------ MODULE Plugins ------------------------------
(***************************************************************************)
(* A plugin of the 1.x framework (integrations/): its lifecycle, its hooks *)
(* on one hook point, its permission to be called there, and the dispatch  *)
(* of that point.  A transition checks the state, writes it, revokes the   *)
(* permissions and archives the hooks in separate statements; dispatch()   *)
(* reads the hooks first and asks the sandbox before each handler.  Calls  *)
(* of several threads come in between, and a process may die.  The callers *)
(* are the plugin's owner, whom the rules allow.                           *)
(***************************************************************************)
EXTENDS Naturals, FiniteSets, FiniteSetsExt

CONSTANTS
  Hook,           \* hooks, named by their priority
  Host,           \* threads
  MaxGrants,      \* bound on grants of the permission
  MaxHostDeaths   \* bound on deaths between two statements

ASSUME PluginsAssumption ==
  /\ Hook \subseteq Nat /\ IsFiniteSet(Hook)
  /\ MaxGrants \in Nat /\ MaxHostDeaths \in Nat

VARIABLES
  plugin,         \* its row's state ("none": not installed)
  hookRow,        \* per hook: "none", "ACTIVE" or "ARCHIVED"
  grants,         \* active rows of plugin_permissions
  granted,        \* grants so far
  enforcing,      \* enforce_hook_permissions
  host,           \* per thread: the call it is in
  hostDeaths,
  removed         \* an uninstall() that nobody was about to undo has returned

pluginVars == <<plugin, hookRow, grants, granted, enforcing, host, hostDeaths, removed>>

\* A call: where it is, the state or hook it is about, the hooks a dispatch
\* has still to call, whether plugin and permission have been in force since
\* the dispatch began, whether it called a handler, and whether a transition
\* was written while nobody else was about to write.
Hosting == [pc |-> "done", to |-> "none", hook |-> 0, left |-> {},
            live |-> FALSE, allowed |-> FALSE, ran |-> FALSE, calm |-> FALSE]

PluginsInit ==
  /\ plugin = "none"
  /\ hookRow = [h \in Hook |-> "none"]
  /\ grants = 0 /\ granted = 0
  /\ enforcing \in BOOLEAN
  /\ host = [t \in Host |-> Hosting]
  /\ hostDeaths = 0
  /\ removed = FALSE

\* What the dispatches under way have seen, after the plugin's row or its
\* permissions have become p and g.
Noting(p, g) ==
  [t \in Host |-> IF host[t].pc \in {"dispatch", "access", "handle"}
                  THEN [host[t] EXCEPT !.live = @ \/ p = "active", !.allowed = @ \/ g > 0]
                  ELSE host[t]]

-----------------------------------------------------------------------------
(* PluginLifecycleManager. *)

\* The name is unique: a second install() of it raises.
InstallPlugin ==
  /\ plugin = "none"
  /\ plugin' = "installed"
  /\ UNCHANGED <<hookRow, grants, granted, enforcing, host, hostDeaths, removed>>

ValidPluginTransition ==
  [none |-> {}, installed |-> {"active", "uninstalled"},
   active |-> {"suspended", "uninstalled"}, suspended |-> {"active", "uninstalled"},
   uninstalled |-> {}]

CheckTransitionOf(t, to) ==
  /\ host[t].pc = "done"
  /\ to \in ValidPluginTransition[plugin]
  /\ host' = [host EXCEPT ![t] = [Hosting EXCEPT !.pc = "write", !.to = to]]
  /\ UNCHANGED <<plugin, hookRow, grants, granted, enforcing, hostDeaths, removed>>

\* What suspend() and uninstall() go on to do.
AfterWrite(to) == [active |-> "done", suspended |-> "hooks", uninstalled |-> "permissions"][to]

WritePluginState(t) ==
  LET to == host[t].to IN
  /\ host[t].pc = "write"
  /\ plugin' = to
  /\ host' = [Noting(to, grants) EXCEPT ![t] =
                IF AfterWrite(to) = "done" THEN Hosting
                ELSE [host[t] EXCEPT !.pc = AfterWrite(to),
                                     !.calm = \A u \in Host \ {t} : host[u].pc \notin {"write", "insert"}]]
  /\ UNCHANGED <<hookRow, grants, granted, enforcing, hostDeaths, removed>>

RevokePermissions(t) ==
  /\ host[t].pc = "permissions"
  /\ grants' = 0
  /\ host' = [host EXCEPT ![t].pc = "hooks"]
  /\ UNCHANGED <<plugin, hookRow, granted, enforcing, hostDeaths, removed>>

ArchiveHooks(t) ==
  /\ host[t].pc = "hooks"
  /\ hookRow' = [h \in Hook |-> IF hookRow[h] = "ACTIVE" THEN "ARCHIVED" ELSE hookRow[h]]
  /\ host' = [host EXCEPT ![t] = Hosting]
  /\ removed' = (removed \/ (host[t].to = "uninstalled" /\ host[t].calm))
  /\ UNCHANGED <<plugin, grants, granted, enforcing, hostDeaths>>

\* Any existing plugin can be granted a permission, whatever its state.
GrantPermission ==
  /\ plugin # "none"
  /\ granted < MaxGrants
  /\ grants' = grants + 1 /\ granted' = granted + 1
  /\ host' = Noting(plugin, grants + 1)
  /\ UNCHANGED <<plugin, hookRow, enforcing, hostDeaths, removed>>

RevokePermission ==
  /\ grants > 0
  /\ grants' = grants - 1
  /\ UNCHANGED <<plugin, hookRow, granted, enforcing, host, hostDeaths, removed>>

-----------------------------------------------------------------------------
(* HookRegistry: hooks. *)

\* Mutant: hooks can be registered for a plugin in any state.
AnyPlugin == plugin # "none"

TakesHooks == plugin \in {"installed", "active"}

RegisterChecks(t, h) ==
  /\ host[t].pc = "done"
  /\ hookRow[h] = "none" /\ \A u \in Host : host[u].hook # h
  /\ TakesHooks
  /\ host' = [host EXCEPT ![t] = [Hosting EXCEPT !.pc = "insert", !.hook = h]]
  /\ UNCHANGED <<plugin, hookRow, grants, granted, enforcing, hostDeaths, removed>>

RegisterHook(t) ==
  /\ host[t].pc = "insert"
  /\ hookRow' = [hookRow EXCEPT ![host[t].hook] = "ACTIVE"]
  /\ host' = [host EXCEPT ![t] = Hosting]
  /\ UNCHANGED <<plugin, grants, granted, enforcing, hostDeaths, removed>>

DeactivateHook(h) ==
  /\ hookRow[h] = "ACTIVE"
  /\ hookRow' = [hookRow EXCEPT ![h] = "ARCHIVED"]
  /\ UNCHANGED <<plugin, grants, granted, enforcing, host, hostDeaths, removed>>

-----------------------------------------------------------------------------
(* HookRegistry.dispatch(), and PluginSandbox. *)

GetHooksForPoint == {h \in Hook : hookRow[h] = "ACTIVE"}

Dispatch(t) ==
  /\ host[t].pc = "done"
  /\ GetHooksForPoint # {}
  /\ host' = [host EXCEPT ![t] = [Hosting EXCEPT !.pc = "dispatch", !.left = GetHooksForPoint,
                                                 !.live = plugin = "active",
                                                 !.allowed = grants > 0]]
  /\ UNCHANGED <<plugin, hookRow, grants, granted, enforcing, hostDeaths, removed>>

\* The call after its first hook has had its turn: the highest priority first.
Onward(call) ==
  LET left == call.left \ {Max(call.left)} IN
  IF left = {} THEN [Hosting EXCEPT !.ran = call.ran, !.live = call.live, !.allowed = call.allowed]
  ELSE [call EXCEPT !.pc = "dispatch", !.left = left]

\* Mutant: that the hook was found active is enough.
TrustsHook(t) ==
  /\ host[t].pc = "dispatch"
  /\ host' = [host EXCEPT ![t].pc = IF enforcing THEN "access" ELSE "handle"]
  /\ UNCHANGED <<plugin, hookRow, grants, granted, enforcing, hostDeaths, removed>>

RequireActive(t) ==
  /\ host[t].pc = "dispatch"
  /\ host' = [host EXCEPT ![t] = IF plugin # "active" THEN Onward(@)
                                 ELSE [@ EXCEPT !.pc = IF enforcing THEN "access" ELSE "handle"]]
  /\ UNCHANGED <<plugin, hookRow, grants, granted, enforcing, hostDeaths, removed>>

CheckHookAccess(t) ==
  /\ host[t].pc = "access"
  /\ host' = [host EXCEPT ![t] = IF grants = 0 THEN Onward(@) ELSE [@ EXCEPT !.pc = "handle"]]
  /\ UNCHANGED <<plugin, hookRow, grants, granted, enforcing, hostDeaths, removed>>

\* The handler returns, or fails or is not to be found: then dispatch() goes
\* on, and dispatch_or_raise() ends.
CallHandler(t) ==
  /\ host[t].pc = "handle"
  /\ \/ host' = [host EXCEPT ![t] = Onward([@ EXCEPT !.ran = TRUE])]
     \/ host' = [host EXCEPT ![t] = [Hosting EXCEPT !.ran = TRUE, !.live = host[t].live,
                                                    !.allowed = host[t].allowed]]
  /\ UNCHANGED <<plugin, hookRow, grants, granted, enforcing, hostDeaths, removed>>

HostDies(t) ==
  /\ host[t].pc # "done"
  /\ hostDeaths < MaxHostDeaths
  /\ hostDeaths' = hostDeaths + 1
  /\ host' = [host EXCEPT ![t] = Hosting]
  /\ UNCHANGED <<plugin, hookRow, grants, granted, enforcing, removed>>

-----------------------------------------------------------------------------
PluginsNext ==
  \/ InstallPlugin \/ GrantPermission \/ RevokePermission
  \/ \E h \in Hook : DeactivateHook(h)
  \/ \E t \in Host :
       \/ \E to \in {"active", "suspended", "uninstalled"} : CheckTransitionOf(t, to)
       \/ WritePluginState(t) \/ RevokePermissions(t) \/ ArchiveHooks(t)
       \/ \E h \in Hook : RegisterChecks(t, h)
       \/ RegisterHook(t)
       \/ Dispatch(t) \/ RequireActive(t) \/ CheckHookAccess(t) \/ CallHandler(t)
       \/ HostDies(t)

PluginsSpec == PluginsInit /\ [][PluginsNext]_pluginVars

-----------------------------------------------------------------------------
(* Properties. *)

PluginsTypeOK ==
  /\ plugin \in DOMAIN ValidPluginTransition
  /\ hookRow \in [Hook -> {"none", "ACTIVE", "ARCHIVED"}]
  /\ grants \in 0..granted /\ granted \in 0..MaxGrants
  /\ \A t \in Host : host[t].left \subseteq Hook
  /\ hostDeaths \in 0..MaxHostDeaths
  /\ {enforcing, removed} \subseteq BOOLEAN

\* dispatch(): "Only active plugins have their hooks called", and with
\* enforce_hook_permissions only permitted ones: a handler is never called by
\* a dispatch that began after the plugin was suspended or uninstalled, or its
\* permission revoked, although hooks that a dead or overtaken call left active
\* are still found.
HandlersOfActive ==
  \A t \in Host : host[t].ran => host[t].live /\ (enforcing => host[t].allowed)

\* uninstall() "revokes permissions, deactivates hooks": once it has returned
\* undisturbed, the plugin stays uninstalled and has no hook again.
RemovedForGood ==
  removed => plugin = "uninstalled" /\ \A h \in Hook : hookRow[h] # "ACTIVE"

=============================================================================
