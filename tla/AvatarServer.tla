---------------------------- MODULE AvatarServer ----------------------------
(***************************************************************************)
(* The replicas of the HTTP server: what UploadAvatar and DeleteAvatar do, *)
(* from the handler down to the repository, the storage and the publisher, *)
(* one action per call that leaves the process.                            *)
(*                                                                         *)
(* The rate limiter is global and keeps its mutex locked while the rest of *)
(* the chain runs (rate_limit.go:31-32, :64), so one replica runs at most  *)
(* one handler: a replica is a sequential process, and requests interleave *)
(* only across replicas.  Requests that are refused before NewAvatar and   *)
(* GET requests change nothing that is shared.                             *)
(***************************************************************************)
EXTENDS AvatarStores, Integers

CONSTANTS Replicas,    \* the processes of cmd/server
          StartsWith   \* how a publisher may be at the start of a process

(* A replica that cannot reach RabbitMQ starts all the same, with a nil    *)
(* *Publisher; one that can has an open channel.                           *)
ASSUME StartsAssumption == StartsWith \subseteq {"nil", "open"}

VARIABLES
  req,      \* the request each replica is in the middle of, or Idle
  pub,      \* the publisher of each replica: "nil", "open" or "closed"
  gauge,    \* avatar_storage_objects_total in each replica
  issued,   \* how many avatars NewAvatar has made
  created,  \* history: the avatars whose upload was answered 201
  removed   \* history: how many deletions of each avatar were answered 204

serverVars == <<req, pub, gauge, issued, created, removed>>

Idle == [pc |-> "idle"]

Upload == [pc: {"save", "failed", "create", "publish"},
           id: Ids, user: Users, kind: Kinds]

(* The caller is the subject of the token the deletion came with.          *)
Removal == [pc: {"load", "announce", "remove"}, id: Ids, caller: Users]

ServerTypeOK ==
  /\ req \in [Replicas -> Upload \cup Removal \cup {Idle}]
  /\ pub \in [Replicas -> {"nil", "open", "closed"}]
  /\ gauge \in [Replicas -> Int]
  /\ issued \in 0..MaxUploads
  /\ created \subseteq Ids
  /\ removed \in [Ids -> Nat]

ServerInit ==
  /\ req = [r \in Replicas |-> Idle]
  /\ pub \in [Replicas -> StartsWith]
  /\ gauge = [r \in Replicas |-> 0]
  /\ issued = 0
  /\ created = {}
  /\ removed = [i \in Ids |-> 0]

-----------------------------------------------------------------------------

Goto(r, pc) == req' = [req EXCEPT ![r].pc = pc]

(* The response is written and the limiter's mutex released.  A panic ends *)
(* the request too: gin.Recovery answers 500.                              *)
Answer(r) == req' = [req EXCEPT ![r] = Idle]

(* main hands the service a *Publisher in an interface.  A nil pointer in  *)
(* an interface is not a nil interface, so the service's test for nil lets *)
(* it through, and Publish* reads p.ch of a nil p.                         *)
Panics(r) == pub[r] = "nil"

(* Mutants: MarkAsReady called for MarkAsFailed, and neither called.       *)
AvatarNeverFailed(r, status, url) ==
  [owner |-> req[r].user, status |-> "ready", url |-> url,
   kind |-> req[r].kind, deleted |-> FALSE]

AvatarNotMarked(r, status, url) ==
  [owner |-> req[r].user, status |-> "uploading", url |-> url,
   kind |-> req[r].kind, deleted |-> FALSE]

(* Mutant: a status the table does not know.                               *)
AvatarStored(r, status, url) ==
  [owner |-> req[r].user, status |-> "stored", url |-> url,
   kind |-> req[r].kind, deleted |-> FALSE]

Avatar(r, status, url) ==
  [owner |-> req[r].user, status |-> status, url |-> url,
   kind |-> req[r].kind, deleted |-> FALSE]

-----------------------------------------------------------------------------
(* POST /api/v1/avatars                                                    *)

(* A file that passed the tests of size and magic bytes gets its entity;   *)
(* its owner is the subject of the token.                                  *)
UploadStart(r, u, k) ==
  /\ req[r] = Idle
  /\ issued < MaxUploads
  /\ issued' = issued + 1
  /\ req' = [req EXCEPT ![r] = [pc |-> "save", id |-> issued',
                                user |-> u, kind |-> k]]
  /\ UNCHANGED <<pub, gauge, created, removed, storeVars>>

UploadSave(r, out) ==
  /\ req[r].pc = "save"
  /\ Called(out)
  /\ originals' = IF Applied(out) THEN originals \cup {req[r].id} ELSE originals
  /\ Goto(r, IF out = "ok" THEN "create" ELSE "failed")
  /\ UNCHANGED <<pub, gauge, issued, created, removed, rows, thumbs, queue, bound>>

(* The storage failed: the row says so, if it can be written; 400 either   *)
(* way.                                                                    *)
UploadCreateFailed(r, out) ==
  /\ req[r].pc = "failed"
  /\ Called(out)
  /\ Create(req[r].id, Avatar(r, "failed", FALSE), out)
  /\ Answer(r)
  /\ UNCHANGED <<pub, gauge, issued, created, removed, originals, thumbs, queue, bound>>

(* Mutant: an error of the repository is only logged.                      *)
UploadCreateUnchecked(r, out) ==
  /\ req[r].pc = "create"
  /\ Called(out)
  /\ Create(req[r].id, Avatar(r, "ready", TRUE), out)
  /\ Goto(r, "publish")
  /\ gauge' = [gauge EXCEPT ![r] = @ + 1]
  /\ UNCHANGED <<pub, issued, created, removed, originals, thumbs, queue, bound>>

UploadCreate(r, out) ==
  /\ req[r].pc = "create"
  /\ Called(out)
  /\ Create(req[r].id, Avatar(r, "ready", TRUE), out)
  /\ IF out = "ok"
     THEN Goto(r, "publish") /\ gauge' = [gauge EXCEPT ![r] = @ + 1]
     ELSE Answer(r) /\ UNCHANGED gauge
  /\ UNCHANGED <<pub, issued, created, removed, originals, thumbs, queue, bound>>

(* An error of a closed channel is only logged: 201.  A frame written to a *)
(* connection that is dying is lost without an error, which looks the same.*)
UploadPublish(r) ==
  /\ req[r].pc = "publish"
  /\ IF pub[r] = "open"
     THEN Publish("avatar.uploaded", [id |-> req[r].id, kind |-> req[r].kind])
     ELSE UNCHANGED queue
  /\ created' = IF Panics(r) THEN created ELSE created \cup {req[r].id}
  /\ Answer(r)
  /\ UNCHANGED <<pub, gauge, issued, removed, rows, originals, thumbs, bound, mishaps>>

-----------------------------------------------------------------------------
(* DELETE /api/v1/avatars/{id}                                             *)

(* The handler's own read: 404 if there is no such avatar, 403 if it is    *)
(* not that of the user named in X-User-ID.  JWTAuth puts the subject of   *)
(* the token, the caller, into the context, and nothing here reads it.  A  *)
(* failing read answers 500 and changes nothing.                           *)
DeleteBegin(r, caller, named, i) ==
  /\ req[r] = Idle
  /\ Visible(i)
  /\ rows[i].owner = named
  /\ req' = [req EXCEPT ![r] = [pc |-> "load", id |-> i, caller |-> caller]]
  /\ UNCHANGED <<pub, gauge, issued, created, removed, storeVars>>

(* The service reads the avatar again.                                     *)
DeleteLoad(r, out) ==
  /\ req[r].pc = "load"
  /\ Called(out)
  /\ IF out = "ok" /\ Visible(req[r].id) THEN Goto(r, "announce") ELSE Answer(r)
  /\ UNCHANGED <<pub, gauge, issued, created, removed, rows, originals, thumbs, queue, bound>>

(* The event goes out before the row is marked, and no queue is bound to   *)
(* its key.                                                                *)
DeletePublish(r) ==
  /\ req[r].pc = "announce"
  /\ IF pub[r] = "open"
     THEN Publish("avatar.deleted", [id |-> req[r].id, kind |-> rows[req[r].id].kind])
     ELSE UNCHANGED queue
  /\ IF Panics(r) THEN Answer(r) ELSE Goto(r, "remove")
  /\ UNCHANGED <<pub, gauge, issued, created, removed, rows, originals, thumbs, bound, mishaps>>

DeleteRow(r, out) ==
  LET i    == req[r].id
      done == out = "ok" /\ Visible(i)     \* RowsAffected # 0
  IN
  /\ req[r].pc = "remove"
  /\ Called(out)
  /\ Delete(i, out)
  /\ gauge' = IF done THEN [gauge EXCEPT ![r] = @ - 1] ELSE gauge
  /\ removed' = IF done THEN [removed EXCEPT ![i] = @ + 1] ELSE removed
  /\ Answer(r)
  /\ UNCHANGED <<pub, issued, created, originals, thumbs, queue, bound>>

-----------------------------------------------------------------------------
(* What the GET requests show                                              *)

(* GetByUserID, newest first in the code.                                  *)
AvatarsOf(u) == {i \in Ids : Visible(i) /\ rows[i].owner = u}

Latest(u) == CHOOSE i \in AvatarsOf(u) : \A j \in AvatarsOf(u) : j <= i

(* Where GET /api/v1/users/{user_id}/avatar redirects to: the default      *)
(* picture, the URL of the latest avatar's file, or an empty location.     *)
UserAvatar(u) == IF AvatarsOf(u) = {} THEN "default"
                 ELSE IF rows[Latest(u)].url THEN "file" ELSE "empty"

-----------------------------------------------------------------------------
(* The life of the process                                                 *)

(* Nothing watches the connection or opens another one.                    *)
ConnectionLost(r) ==
  /\ pub[r] = "open"
  /\ Mishap("connection")
  /\ pub' = [pub EXCEPT ![r] = "closed"]
  /\ UNCHANGED <<req, gauge, issued, created, removed, rows, originals, thumbs, queue, bound>>

(* A crash, and the orchestrator's new process: the request in progress is *)
(* never answered, and the gauge starts again from 0.                      *)
Restart(r) ==
  /\ Mishap("restart")
  /\ Answer(r)
  /\ \E p \in StartsWith : pub' = [pub EXCEPT ![r] = p]
  /\ gauge' = [gauge EXCEPT ![r] = 0]
  /\ UNCHANGED <<issued, created, removed, rows, originals, thumbs, queue, bound>>

ServerStep(r) ==
  \/ \E u \in Users, k \in Kinds : UploadStart(r, u, k)
  \/ \E out \in Outcomes : UploadSave(r, out)
  \/ \E out \in Outcomes : UploadCreateFailed(r, out)
  \/ \E out \in Outcomes : UploadCreate(r, out)
  \/ UploadPublish(r)
  \/ \E caller, named \in Users, i \in Ids : DeleteBegin(r, caller, named, i)
  \/ \E out \in Outcomes : DeleteLoad(r, out)
  \/ DeletePublish(r)
  \/ \E out \in Outcomes : DeleteRow(r, out)
  \/ ConnectionLost(r)
  \/ Restart(r)

ServerNext == \E r \in Replicas : ServerStep(r)

=============================================================================
