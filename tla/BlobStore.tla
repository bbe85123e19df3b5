----------------------------- MODULE BlobStore -----------------------------
(***************************************************************************)
(* A blob of the 1.x framework (objects/blobs.py): its bytes in a blob     *)
(* backend, its row and its version rows in the database.  update() reads  *)
(* the row, stores the new bytes under the path of the next version,       *)
(* updates the row and inserts the version row, each on its own: updates   *)
(* may overlap, and a process may die between any two of these.            *)
(***************************************************************************)
EXTENDS Naturals, FiniteSets

CONSTANTS
  Content,           \* contents; a content stands for its SHA-256 hash too
  NoContent,
  Uploader,          \* threads of the blob's owner
  MaxBlobVersion,    \* bound on versions
  MaxUploaderDeaths

ASSUME BlobAssumption ==
  /\ NoContent \notin Content
  /\ MaxBlobVersion \in Nat /\ MaxUploaderDeaths \in Nat

VARIABLES
  bytes,        \* the blob backend: bytes by path; a path is named by its version
  blob,         \* the row of blobs: current version (0: no row), its hash, lifecycle
  blobVersions, \* the rows of blob_versions: hash by version
  uploader,     \* per thread: the call under way
  overlapped,   \* two updates have been under way at once
  uploaderDeaths

blobVars == <<bytes, blob, blobVersions, uploader, overlapped, uploaderDeaths>>

Unhurried == [pc |-> "done", data |-> NoContent, version |-> 0]

BlobInit ==
  /\ bytes = [v \in 1..MaxBlobVersion |-> NoContent]
  /\ blob = [version |-> 0, hash |-> NoContent, active |-> TRUE]
  /\ blobVersions = [v \in 1..MaxBlobVersion |-> NoContent]
  /\ uploader = [u \in Uploader |-> Unhurried]
  /\ overlapped = FALSE
  /\ uploaderDeaths = 0

Does(u, call) == uploader' = [uploader EXCEPT ![u] = call]

-----------------------------------------------------------------------------
(* BlobManager. *)

\* Mutant: the row is updated before the bytes are stored.
BeginAtRow(u, data) ==
  /\ uploader[u].pc = "done"
  /\ blob.version < MaxBlobVersion
  /\ blob' = [blob EXCEPT !.version = @ + 1, !.hash = data]
  /\ Does(u, [pc |-> "bytes", data |-> data, version |-> blob.version + 1])
  /\ UNCHANGED <<bytes, blobVersions, overlapped, uploaderDeaths>>

\* store() and update() read the row (store() has a fresh id) and compute the
\* path.  The lifecycle is not looked at: an archived blob is updated too.
BeginUpload(u, data) ==
  /\ uploader[u].pc = "done"
  /\ blob.version < MaxBlobVersion
  /\ blob.version = 0 => \A o \in Uploader : uploader[o].pc = "done"
  /\ Does(u, [pc |-> "bytes", data |-> data, version |-> blob.version + 1])
  /\ overlapped' = (overlapped \/ \E o \in Uploader \ {u} : uploader[o].pc # "done")
  /\ UNCHANGED <<bytes, blob, blobVersions, uploaderDeaths>>

\* Mutant: the new bytes go to the path of the version before.
StoreOver(u) ==
  LET call == uploader[u] IN
  /\ call.pc = "bytes"
  /\ bytes' = [bytes EXCEPT ![IF call.version > 1 THEN call.version - 1 ELSE 1] = call.data]
  /\ Does(u, [call EXCEPT !.pc = "row"])
  /\ UNCHANGED <<blob, blobVersions, overlapped, uploaderDeaths>>

StoreBytes(u) ==
  LET call == uploader[u] IN
  /\ call.pc = "bytes"
  /\ bytes' = [bytes EXCEPT ![call.version] = call.data]
  /\ Does(u, [call EXCEPT !.pc = "row"])
  /\ UNCHANGED <<blob, blobVersions, overlapped, uploaderDeaths>>

WriteBlobRow(u) ==
  LET call == uploader[u] IN
  /\ call.pc = "row"
  /\ blob' = [blob EXCEPT !.version = call.version, !.hash = call.data]
  /\ Does(u, [call EXCEPT !.pc = "version"])
  /\ UNCHANGED <<bytes, blobVersions, overlapped, uploaderDeaths>>

\* _create_version(); UNIQUE(blob_id, version) makes a second row of the same
\* version raise, after the row of blobs has been updated.
CreateBlobVersion(u) ==
  LET call == uploader[u] IN
  /\ call.pc = "version"
  /\ blobVersions' = IF blobVersions[call.version] = NoContent
                     THEN [blobVersions EXCEPT ![call.version] = call.data]
                     ELSE blobVersions
  /\ Does(u, Unhurried)
  /\ UNCHANGED <<bytes, blob, overlapped, uploaderDeaths>>

\* delete() archives the row and leaves the bytes.
DeleteBlob ==
  /\ blob.version > 0 /\ blob.active
  /\ blob' = [blob EXCEPT !.active = FALSE]
  /\ UNCHANGED <<bytes, blobVersions, uploader, overlapped, uploaderDeaths>>

UploaderDies(u) ==
  /\ uploader[u].pc # "done"
  /\ uploaderDeaths < MaxUploaderDeaths
  /\ uploaderDeaths' = uploaderDeaths + 1
  /\ Does(u, Unhurried)
  /\ UNCHANGED <<bytes, blob, blobVersions, overlapped>>

-----------------------------------------------------------------------------
BlobNext ==
  \/ DeleteBlob
  \/ \E u \in Uploader :
       \/ \E data \in Content : BeginUpload(u, data)
       \/ StoreBytes(u) \/ WriteBlobRow(u) \/ CreateBlobVersion(u) \/ UploaderDies(u)

BlobSpec == BlobInit /\ [][BlobNext]_blobVars

-----------------------------------------------------------------------------
(* Properties. *)

BlobTypeOK ==
  /\ bytes \in [1..MaxBlobVersion -> Content \union {NoContent}]
  /\ blob \in [version : 0..MaxBlobVersion, hash : Content \union {NoContent}, active : BOOLEAN]
  /\ blobVersions \in [1..MaxBlobVersion -> Content \union {NoContent}]

\* read() of a blob finds its bytes, however updates overlap and wherever one
\* of them died: a path is in the row only when there are bytes under it.
BlobReadable == blob.version > 0 => bytes[blob.version] # NoContent

\* BlobVersion is an "Immutable snapshot of a blob at a specific version": its
\* bytes have its hash, and so have the blob's own, unless updates overlapped,
\* whatever died on the way.
SnapshotsIntact ==
  ~overlapped =>
    /\ blob.version > 0 => bytes[blob.version] = blob.hash
    /\ \A v \in 1..MaxBlobVersion : blobVersions[v] # NoContent => bytes[v] = blobVersions[v]

\* The same with no condition: what the docstring says.
SnapshotsImmutable ==
  \A v \in 1..MaxBlobVersion : blobVersions[v] # NoContent => bytes[v] = blobVersions[v]

=============================================================================
