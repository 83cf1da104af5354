---------------------------- MODULE AvatarStores ----------------------------
(***************************************************************************)
(* What the processes of the avatar service share: the Postgres table      *)
(* avatars, the objects of the MinIO bucket, and the durable RabbitMQ      *)
(* queue avatar.processing.  The server replicas (AvatarServer) and the    *)
(* workers (AvatarWorker) act on nothing else in common.                   *)
(*                                                                         *)
(* An avatar is named by the order in which NewAvatar made its uuid; no    *)
(* uuid is made twice, so neither is an id, and the order of ids is the    *)
(* order of created_at (the replicas' clocks are taken to agree).          *)
(***************************************************************************)
EXTENDS Naturals, FiniteSets

CONSTANTS MaxUploads,  \* bound on the uploads that reach NewAvatar
          Users,       \* the users who upload and delete
          Kinds,       \* the kinds of file a run uses, see KindsAssumption
          Sizes,       \* the thumbnail sizes, "100x100" and "300x300"
          Mishaps,     \* what may go wrong in a run, see Mishap
          MaxMishaps   \* bound on how often something goes wrong

(* "picture": declared as an image type and decodable by the worker.       *)
(* "opaque": declared as an image type, but no decoder reads its bytes     *)
(* (webp; a PDF declared as image/png).  "document": declared otherwise.   *)
ASSUME KindsAssumption == Kinds \subseteq {"picture", "opaque", "document"}

ASSUME BoundsAssumption == MaxUploads \in Nat /\ MaxMishaps \in Nat

Ids == 1..MaxUploads

VARIABLES
  rows,       \* the table: the row of each avatar, or NoRow
  originals,  \* the avatars whose uploaded file is in the bucket
  thumbs,     \* the thumbnails in the bucket
  queue,      \* the messages in avatar.processing no consumer holds
  bound,      \* whether avatar.processing is declared and bound
  mishaps     \* how many things went wrong so far

storeVars == <<rows, originals, thumbs, queue, bound, mishaps>>

-----------------------------------------------------------------------------

(* url is whether original_url holds an URL or the empty string; kind is   *)
(* what content_type says, and what the stored bytes are.                  *)
Row == [owner: Users, status: {"uploading", "ready", "failed"},
        url: BOOLEAN, kind: Kinds, deleted: BOOLEAN]

NoRow == [status |-> "none"]

(* An AvatarUploadedEvent, and a message: the id 0 stands for a body that  *)
(* does not unmarshal, or whose avatar_id is not a uuid.                   *)
Event == [id: Ids, kind: Kinds]

Message == [id: Ids \cup {0}, kind: Kinds]

StoresTypeOK ==
  /\ rows \in [Ids -> Row \cup {NoRow}]
  /\ originals \subseteq Ids
  /\ thumbs \subseteq Ids \X Sizes
  /\ queue \subseteq Message
  /\ bound \in BOOLEAN
  /\ mishaps \in Nat

-----------------------------------------------------------------------------

(* The kinds: "error" and "lost" for a call to Postgres or MinIO that is   *)
(* not applied, or is applied and its reply lost; "restart", "connection", *)
(* "worker", "broker" for the failures of a whole process or connection.   *)
Mishap(kind) == /\ kind \in Mishaps
                /\ mishaps < MaxMishaps
                /\ mishaps' = mishaps + 1

Outcomes == {"ok", "error", "lost"}

Applied(out) == out # "error"

Called(out) == \/ out = "ok" /\ UNCHANGED mishaps
               \/ out # "ok" /\ Mishap(out)

-----------------------------------------------------------------------------
(* The statements of the Postgres repository.  GetByID, the only read of   *)
(* one avatar, does not see the rows Delete has marked.                    *)

(* Mutant: a statement without "deleted_at IS NULL".                       *)
VisibleDeleted(i) == rows[i] # NoRow

Visible(i) == rows[i] # NoRow /\ ~rows[i].deleted

Create(i, row, out) ==
  rows' = IF Applied(out) THEN [rows EXCEPT ![i] = row] ELSE rows

(* Mutant: a hard DELETE.                                                  *)
DeleteHard(i, out) ==
  rows' = IF Applied(out) /\ Visible(i) THEN [rows EXCEPT ![i] = NoRow] ELSE rows

Delete(i, out) ==
  rows' = IF Applied(out) /\ Visible(i)
          THEN [rows EXCEPT ![i].deleted = TRUE] ELSE rows

(* Mutant: the whole row is written back, as it was read.                  *)
UpdateWhole(i, status, url, out) ==
  rows' = IF Applied(out) /\ rows[i] # NoRow
          THEN [rows EXCEPT ![i].status = status, ![i].url = url, ![i].deleted = FALSE]
          ELSE rows

(* Mutant: a status the table does not know.                               *)
UpdateProcessed(i, status, url, out) ==
  rows' = IF Applied(out) /\ rows[i] # NoRow
          THEN [rows EXCEPT ![i].status = "processed", ![i].url = url] ELSE rows

(* No test of deleted_at: a row marked deleted is updated all the same.    *)
Update(i, status, url, out) ==
  rows' = IF Applied(out) /\ rows[i] # NoRow
          THEN [rows EXCEPT ![i].status = status, ![i].url = url] ELSE rows

(* PublishWithContext to avatars.exchange.  The messages are not           *)
(* mandatory: one whose key no queue is bound to is dropped.               *)
Publish(key, m) ==
  queue' = IF bound /\ key = "avatar.uploaded" THEN queue \cup {m} ELSE queue

=============================================================================
