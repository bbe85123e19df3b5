----------------------------- MODULE Connector -----------------------------
(***************************************************************************)
(* A connector to another organisation in the 1.x framework                *)
(* (connector/bridge.py).  Its state changes by _transition(), which reads *)
(* the row, checks, and writes in a later statement; sync_object() reads   *)
(* the row, then the policies, then pushes to the remote endpoint, then    *)
(* records the traffic.  Calls of several threads interleave between any   *)
(* two of these.  The callers are the connector's creator, whom the rules  *)
(* allow; a call that raises before it writes changes nothing.  The        *)
(* manager has a transport.                                                *)
(***************************************************************************)
EXTENDS Naturals, FiniteSets

CONSTANTS
  ObjectType,       \* object types that are synced
  SecretLike,       \* those of _SECRET_LIKE_TYPES
  Operator,         \* threads
  MaxPolicies,      \* bound on policies
  MaxTraffic        \* bound on traffic records

ASSUME ConnectorAssumption ==
  /\ SecretLike \subseteq ObjectType
  /\ MaxPolicies \in Nat /\ MaxTraffic \in Nat

VARIABLES
  link,         \* the row of connectors: state, direction, approved_at set or not
  linkPolicies,     \* connector_policies: type and configured object types
  traffic,      \* connector_traffic: type, direction, status
  receivedThere,  \* object types the remote endpoint has taken (answered 2xx)
  operator      \* per thread: the call under way

connectorVars == <<link, linkPolicies, traffic, receivedThere, operator>>

Directions == {"inbound", "outbound", "bidirectional"}

Standby == [pc |-> "standby"]

ConnectorInit ==
  /\ link \in [state : {"proposed"}, direction : Directions, approved : {FALSE}]
  /\ linkPolicies = {}
  /\ traffic = {}
  /\ receivedThere = {}
  /\ operator = [p \in Operator |-> Standby]

Calls(p, call) == operator' = [operator EXCEPT ![p] = call]

-----------------------------------------------------------------------------
(* State transitions. *)

ConnectorTransition ==
  {<<"proposed", "pending_approval">>, <<"proposed", "rejected">>, <<"proposed", "revoked">>,
   <<"pending_approval", "active">>, <<"pending_approval", "rejected">>, <<"pending_approval", "revoked">>,
   <<"active", "suspended">>, <<"active", "revoked">>,
   <<"suspended", "active">>, <<"suspended", "revoked">>}

\* submit_for_approval(), approve(), reject(), suspend(), reactivate() and
\* revoke() are _transition() to their state: the row is read and checked ...
CheckState(p, to) ==
  /\ operator[p].pc = "standby"
  /\ <<link.state, to>> \in ConnectorTransition
  /\ Calls(p, [pc |-> "write", to |-> to])
  /\ UNCHANGED <<link, linkPolicies, traffic, receivedThere>>

\* ... and written by id, whatever it holds by then.
WriteConnectorState(p) ==
  LET to == operator[p].to IN
  /\ operator[p].pc = "write"
  /\ link' = [link EXCEPT !.state = to, !.approved = @ \/ to = "active"]
  /\ Calls(p, Standby)
  /\ UNCHANGED <<linkPolicies, traffic, receivedThere>>

-----------------------------------------------------------------------------
(* Policies. *)

AddPolicy(kind, types) ==
  /\ Cardinality(linkPolicies) < MaxPolicies
  /\ linkPolicies' = linkPolicies \union {[kind |-> kind, types |-> types]}
  /\ UNCHANGED <<link, traffic, receivedThere, operator>>

\* Mutant: only the configured policies are asked.
PoliciesOnly(type) ==
  \A policy \in linkPolicies :
    /\ policy.kind = "allow_types" => policy.types = {} \/ type \in policy.types
    /\ policy.kind = "deny_types" => type \notin policy.types

\* check_policy(): an empty allow list allows everything, and the policies of
\* the other kinds are not looked at.
PolicyAllows(type) ==
  /\ type \notin SecretLike
  /\ \A policy \in linkPolicies :
       /\ policy.kind = "allow_types" => policy.types = {} \/ type \in policy.types
       /\ policy.kind = "deny_types" => type \notin policy.types

-----------------------------------------------------------------------------
(* sync_object(). *)

\* Mutant: only a revoked connector is refused.
NotRevoked(state) == state # "revoked"

IsActive(state) == state = "active"

\* The connector is active and carries this direction.
SyncChecksLink(p, type, direction) ==
  /\ operator[p].pc = "standby"
  /\ IsActive(link.state)
  /\ link.direction \in {direction, "bidirectional"}
  /\ Calls(p, [pc |-> "policy", type |-> type, direction |-> direction])
  /\ UNCHANGED <<link, linkPolicies, traffic, receivedThere>>

\* A type the policies block is recorded as blocked; an inbound object is not
\* pushed.
SyncChecksPolicy(p) ==
  LET call == operator[p] IN
  /\ call.pc = "policy"
  /\ Calls(p, IF ~PolicyAllows(call.type)         THEN [call EXCEPT !.pc = "blocked"]
              ELSE IF call.direction = "outbound" THEN [call EXCEPT !.pc = "push"]
              ELSE [call EXCEPT !.pc = "success"])
  /\ UNCHANGED <<link, linkPolicies, traffic, receivedThere>>

\* Mutant: any answer is success.
AnyAnswer(answer) == IF answer = "raises" THEN "failed" ELSE "success"

\* A status outside 200..299, or an exception, is a failure.
PushStatus(answer) == IF answer = "2xx" THEN "success" ELSE "failed"

\* The transport posts the object.  It may fail or raise although the remote
\* has taken it (the answer was lost).
SyncPushes(p, answer, arrives) ==
  LET call == operator[p] IN
  /\ call.pc = "push"
  /\ answer = "2xx" => arrives
  /\ receivedThere' = IF arrives THEN receivedThere \union {call.type} ELSE receivedThere
  /\ Calls(p, [call EXCEPT !.pc = PushStatus(answer)])
  /\ UNCHANGED <<link, linkPolicies, traffic>>

RecordTraffic(p) ==
  LET call == operator[p] IN
  /\ call.pc \in {"success", "failed", "blocked"}
  /\ Cardinality(traffic) < MaxTraffic
  /\ traffic' = traffic \union {[type |-> call.type, direction |-> call.direction, status |-> call.pc]}
  /\ Calls(p, Standby)
  /\ UNCHANGED <<link, linkPolicies, receivedThere>>

-----------------------------------------------------------------------------
ConnectorNext ==
  \/ \E kind \in {"allow_types", "deny_types", "classification"}, types \in SUBSET ObjectType : AddPolicy(kind, types)
  \/ \E p \in Operator :
       \/ \E to \in {"pending_approval", "active", "rejected", "suspended", "revoked"} : CheckState(p, to)
       \/ WriteConnectorState(p)
       \/ \E type \in ObjectType, direction \in {"inbound", "outbound"} : SyncChecksLink(p, type, direction)
       \/ SyncChecksPolicy(p)
       \/ \E answer \in {"2xx", "error", "raises"}, arrives \in BOOLEAN : SyncPushes(p, answer, arrives)
       \/ RecordTraffic(p)

ConnectorSpec == ConnectorInit /\ [][ConnectorNext]_connectorVars

-----------------------------------------------------------------------------
(* Properties. *)

ConnectorTypeOK ==
  /\ link.state \in {"proposed", "pending_approval", "active", "suspended", "revoked", "rejected"}
  /\ link.direction \in Directions /\ link.approved \in BOOLEAN
  /\ traffic \subseteq [type : ObjectType, direction : {"inbound", "outbound"}, status : {"success", "failed", "blocked"}]
  /\ receivedThere \subseteq ObjectType

\* "Invariant #10: Secrets never leak": whatever policies are added, and
\* whenever, no secret-like object reaches the remote or counts as synced.
SecretsStay ==
  /\ receivedThere \cap SecretLike = {}
  /\ \A record \in traffic : record.type \in SecretLike => record.status = "blocked"

\* Nothing flows through a connector that nobody has ever approved, whatever
\* transitions race with the sync.
NeverUnapproved ==
  receivedThere # {} \/ (\E record \in traffic : record.status = "success") => link.approved

\* Traffic recorded as an outbound success has been taken by the remote.
RecordedTruly ==
  \A record \in traffic :
    record.status = "success" /\ record.direction = "outbound" => record.type \in receivedThere

\* revoke(): "Permanently revoke a connector. Immediate and non-negotiable."
RevokedForGood == [][link.state = "revoked" => link'.state = "revoked"]_connectorVars

=============================================================================
