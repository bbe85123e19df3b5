----------------------------- MODULE Federation -----------------------------
(***************************************************************************)
(* Messages between two instances of the 1.x framework                     *)
(* (connector/protocol.py).  The sender numbers its messages per           *)
(* connector; the receiver keeps a ledger of the numbers it has accepted,  *)
(* under a primary key.  The network loses, duplicates, reorders and       *)
(* garbles messages; a sending process may restart.  The threads of one    *)
(* process share its lock; two processes share only the database.  The     *)
(* receiver's one step is one INSERT, so its restarts change nothing.      *)
(***************************************************************************)
EXTENDS Naturals, FiniteSets

CONSTANTS
  SenderThread,   \* threads that create messages
  ProcessOf,      \* the process each of them runs in
  MaxMessages,    \* bound on messages
  MaxRestarts     \* bound on restarts of a sending process

ASSUME FederationAssumption == MaxMessages \in Nat /\ MaxRestarts \in Nat

VARIABLES
  lastSequence,   \* federation_sequences (0: no row)
  seen,           \* sequences in the receiver's ledger
  created,        \* messages created: their sequence numbers, by message id
  network,        \* messages under way: id, and whether still as it was signed
  accepted,       \* per message id: times accept_message() returned
  refused,        \* ids refused as a replay at their first delivery
  sender,         \* per thread: waiting for the lock, or what it read under it
  restarts

federationVars == <<lastSequence, seen, created, network, accepted, refused, sender, restarts>>

NotSending == [pc |-> "quiet", read |-> 0]

FederationInit ==
  /\ lastSequence = 0
  /\ seen = {}
  /\ created = <<>>
  /\ network = {}
  /\ accepted = [m \in 1..MaxMessages |-> 0]
  /\ refused = {}
  /\ sender = [s \in SenderThread |-> NotSending]
  /\ restarts = 0

-----------------------------------------------------------------------------
(* The sender: create_message() with _next_sequence(). *)

\* Mutant: the read-modify-write is not guarded.
NoLock(s) == TRUE

\* No thread of the same process is inside the lock.
LockFree(s) ==
  \A o \in SenderThread : ProcessOf[o] = ProcessOf[s] => sender[o].pc = "quiet"

ReadSequence(s) ==
  /\ sender[s].pc = "quiet"
  /\ LockFree(s)
  /\ sender' = [sender EXCEPT ![s] = [pc |-> "numbers", read |-> lastSequence]]
  /\ UNCHANGED <<lastSequence, seen, created, network, accepted, refused, restarts>>

\* The message, signed over all it says.
Signed(id) == [id |-> id, intact |-> TRUE]

\* The counter is inserted or updated, the message signed and sent.  Of two
\* first messages the second finds the row there, and its insert raises.
CreateMessage(s) ==
  LET seq == sender[s].read + 1
      id  == Cardinality(DOMAIN created) + 1 IN
  /\ sender[s].pc = "numbers"
  /\ id <= MaxMessages
  /\ IF sender[s].read = 0 /\ lastSequence # 0
     THEN UNCHANGED <<lastSequence, created, network>>
     ELSE /\ lastSequence' = seq
          /\ created' = [m \in 1..id |-> IF m = id THEN seq ELSE created[m]]
          /\ network' = network \union {Signed(id)}
  /\ sender' = [sender EXCEPT ![s] = NotSending]
  /\ UNCHANGED <<seen, accepted, refused, restarts>>

-----------------------------------------------------------------------------
(* The receiver: accept_message(). *)

\* verify_message(): the signature is the one its content has.
Verified(m) == m.intact

\* _record_seen(): the ledger's primary key has the number already.
Replayed(seq) == seq \in seen

\* Mutant: the signature is verified, the ledger not written.
ReceiveUnmarked(m) ==
  /\ m \in network
  /\ IF ~Verified(m)
     THEN UNCHANGED <<seen, accepted, refused>>
     ELSE /\ accepted' = [accepted EXCEPT ![m.id] = @ + 1]
          /\ UNCHANGED <<seen, refused>>
  /\ UNCHANGED <<lastSequence, created, network, sender, restarts>>

\* A message that is not as it was signed fails verification; one whose number
\* is in the ledger is refused as a replay.  The network keeps its copy: it
\* may come again.
ReceiveMessage(m) ==
  LET seq == created[m.id] IN
  /\ m \in network
  /\ IF ~Verified(m)
     THEN UNCHANGED <<seen, accepted, refused>>
     ELSE IF Replayed(seq)
     THEN /\ refused' = IF accepted[m.id] = 0 THEN refused \union {m.id} ELSE refused
          /\ UNCHANGED <<seen, accepted>>
     ELSE /\ seen' = seen \union {seq}
          /\ accepted' = [accepted EXCEPT ![m.id] = @ + 1]
          /\ UNCHANGED refused
  /\ UNCHANGED <<lastSequence, created, network, sender, restarts>>

-----------------------------------------------------------------------------
(* The network and the two processes. *)

LoseMessage(m) ==
  /\ m \in network
  /\ network' = network \ {m}
  /\ UNCHANGED <<lastSequence, seen, created, accepted, refused, sender, restarts>>

GarbleMessage(m) ==
  /\ m \in network
  /\ network' = network \union {[m EXCEPT !.intact = FALSE]}
  /\ UNCHANGED <<lastSequence, seen, created, accepted, refused, sender, restarts>>

\* Counter and ledger are in the database and survive.
RestartSender(p) ==
  /\ restarts < MaxRestarts
  /\ restarts' = restarts + 1
  /\ sender' = [s \in SenderThread |-> IF ProcessOf[s] = p THEN NotSending ELSE sender[s]]
  /\ UNCHANGED <<lastSequence, seen, created, network, accepted, refused>>

-----------------------------------------------------------------------------
FederationNext ==
  \/ \E s \in SenderThread : ReadSequence(s) \/ CreateMessage(s)
  \/ \E m \in network : ReceiveMessage(m) \/ LoseMessage(m) \/ GarbleMessage(m)
  \/ \E s \in SenderThread : RestartSender(ProcessOf[s])

FederationSpec == FederationInit /\ [][FederationNext]_federationVars

-----------------------------------------------------------------------------
(* Properties. *)

FederationTypeOK ==
  /\ lastSequence \in Nat
  /\ seen \subseteq 1..MaxMessages
  /\ \A m \in network : m.id \in DOMAIN created
  /\ \A m \in 1..MaxMessages : accepted[m] \in Nat

\* accept_message() "raises FederationError if ... the message has been seen
\* before": whatever the network repeats and whoever restarts, no message is
\* accepted twice.
AcceptedOnce == \A m \in 1..MaxMessages : accepted[m] <= 1

\* The sequence is "atomically advanced per connector_id": a message that has
\* never been accepted is not taken for a replay of another one.
NoFalseReplay == refused = {}

=============================================================================
