---------------------------- MODULE AvatarClaims ----------------------------
(***************************************************************************)
(* What comments, documents and tests of the repository say of the service *)
(* and the code does not do.  Each is checked by a run of its own, which   *)
(* ends in a counterexample.                                               *)
(***************************************************************************)
EXTENDS AvatarSystem, FiniteSetsExt

(* Nothing is under way: no request, no message, no file being processed.  *)
Quiet == /\ \A r \in Replicas : req[r] = Idle
         /\ queue = {}
         /\ \A w \in Workers : job[w].pc = "idle" /\ unacked[w] = {} /\ chan[w]

(* The deletion of an avatar deletes its files: "the event of the          *)
(* asynchronous deletion of the files from MinIO" (avatar_service.go:147), *)
(* "deletion from the database and S3" (avatar_service_test.go:345).  No   *)
(* queue is bound to avatar.deleted, and nothing calls Storage.Delete.     *)
DeletedFilesGo ==
  Quiet => \A i \in Ids : (removed[i] > 0 /\ mishaps = 0) => i \notin originals

(* A message is skipped because its "avatar is already processed"          *)
(* (worker.go:123): a picture whose message is settled, with nothing gone  *)
(* wrong, has its thumbnails.  The upload stores the row as ready before   *)
(* the event is published, so every avatar is skipped.                     *)
SettledIsProcessed ==
  [][\A w \in Workers : \A m \in unacked[w] \ unacked'[w] :
       (m.kind = "picture" /\ mishaps' = 0 /\ Visible(m.id))
         => {m.id} \X Sizes \subseteq thumbs']_vars

(* The service "does not fall when RabbitMQ is not connected"              *)
(* (publisher.go:20): an upload that gets as far as its event is answered  *)
(* 201.  The pointer tested there is not the one that is nil.              *)
UploadAnswered ==
  [][\A r \in Replicas :
       (req[r].pc = "publish" /\ req'[r] = Idle) => req[r].id \in created']_vars

(* GET /users/{user_id}/avatar "gives the last avatar of the user          *)
(* (redirect)" (avatar_handlers.go:149): to the default picture or to a    *)
(* file, never to an empty location.  The latest row may be that of a      *)
(* failed upload.                                                          *)
UserAvatarServed == \A u \in Users : UserAvatar(u) # "empty"

(* The gauge is the "total number of avatar objects in storage"            *)
(* (metrics.go:71): with nothing under way, what the replicas show adds up *)
(* to the avatars that are stored and not deleted.  The deletion of a      *)
(* failed upload counts out what was never counted in.                     *)
GaugeCountsObjects ==
  Quiet => MapThenSumSet(LAMBDA r : gauge[r], Replicas)
             = Cardinality({i \in Ids : Ready(i) /\ ~rows[i].deleted})

=============================================================================
