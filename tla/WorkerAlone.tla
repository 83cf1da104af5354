---------------------------- MODULE WorkerAlone ----------------------------
(***************************************************************************)
(* The workers by themselves, against what their own port promises: a      *)
(* table whose rows may still be "uploading" (the status NewAvatar gives   *)
(* and the table's default), and messages about them.  In AvatarSystem no  *)
(* such row is ever stored (see NothingToProcess there), so this is where  *)
(* processImage runs.  The servers are reduced to the one step of theirs   *)
(* that races with a worker: the owner's deletion.                         *)
(***************************************************************************)
EXTENDS AvatarWorker

vars == <<storeVars, workerVars>>

TypeOK == StoresTypeOK /\ WorkerTypeOK

(* Every file is in the bucket, every row has its message in the queue; a  *)
(* row that is ready has been processed before (its message came again),   *)
(* thumbnails included.  One body may be garbled.                          *)
Init ==
  /\ rows \in [Ids -> {row \in Row : row.url /\ ~row.deleted /\ row.status # "failed"}]
  /\ originals = Ids
  /\ thumbs = {i \in Ids : rows[i].status = "ready" /\ rows[i].kind = "picture"} \X Sizes
  /\ \E garbled \in SUBSET {m \in Message : m.id = 0 /\ m.kind = CHOOSE k \in Kinds : TRUE} :
       queue = garbled \cup {[id |-> i, kind |-> rows[i].kind] : i \in Ids}
  /\ bound = TRUE
  /\ mishaps = 0
  /\ WorkerInit

(* A replica of the server applies repo.Delete.                            *)
OwnerDeletes(i) ==
  /\ Visible(i)
  /\ Delete(i, "ok")
  /\ UNCHANGED <<originals, thumbs, queue, bound, mishaps, workerVars>>

Next == WorkerNext \/ \E i \in Ids : OwnerDeletes(i)

Spec == Init /\ [][Next]_vars

(* The broker hands out what is queued to some open channel; a worker that *)
(* runs takes its next step, and in the order of delivery comes back to    *)
(* every message it holds (strong fairness: in between it is busy with     *)
(* others); a process that is down is started again.  Nothing makes an     *)
(* ended worker come back, so no fairness says it does.                    *)
Fairness ==
  /\ \A m \in Message : WF_vars(\E w \in Workers : Deliver(w, m))
  /\ \A w \in Workers :
       /\ WF_vars(WorkerStart(w))
       /\ WF_vars(LoopEnds(w))
       /\ \A m \in Message : SF_vars(\E out \in Outcomes : Lookup(w, m, out))
       /\ WF_vars(\E out \in Outcomes : Fetch(w, out))
       /\ \A s \in Sizes : WF_vars(\E out \in Outcomes : SaveThumb(w, s, out))
       /\ WF_vars(\E out \in Outcomes : Reload(w, out))
       /\ WF_vars(\E out \in Outcomes : WriteStatus(w, out))

FairSpec == Spec /\ Fairness

-----------------------------------------------------------------------------

Held == queue \cup UNION {unacked[w] : w \in Workers}

Done(i) == ~Visible(i) \/ rows[i].status = "ready"

(* The work on an avatar is not forgotten: as long as it is neither ready  *)
(* nor deleted, its message is in the broker or unsettled at a worker, so  *)
(* that a crash or a lost channel at any point brings it back.             *)
SettledMeansDone == \A i \in Ids : Done(i) \/ \E m \in Held : m.id = i

(* With failing calls too, this is so of files that are no images: for     *)
(* them a failing update of the status is a failure of the processing.     *)
DocumentsKept ==
  \A i \in Ids : rows[i].kind = "document" => Done(i) \/ \E m \in Held : m.id = i

(* A picture is only ready once all its thumbnails are in the bucket, even *)
(* if several workers process it at once, or one starts again in the       *)
(* middle.  (Where no call fails: a failing one is skipped.)               *)
ReadyHasThumbs ==
  \A i \in Ids : rows[i].status = "ready" /\ rows[i].kind = "picture"
                   => {i} \X Sizes \subseteq thumbs

(* The worker writes back a row it read before: it never brings back one   *)
(* that was deleted in between, nor undoes a status that was reached.      *)
Forward ==
  \A i \in Ids : /\ rows[i].deleted => rows'[i].deleted
                 /\ rows[i].status = "ready" => rows'[i].status = "ready"
NoResurrection == [][Forward]_vars

(* The workers implement Processing.                                       *)
Port == INSTANCE Processing
          WITH table <- rows, pictures <- thumbs, work <- {m.id : m \in Held} \ {0}

(* Where no call fails: however often workers crash, lose their channels   *)
(* and do the same work twice, a row changes by its status or its deletion *)
(* only, becomes ready after its thumbnails and never without a decodable  *)
(* file, and is asked for until then.                                      *)
ImplementsProcessing == Port!Spec

(* As long as one worker keeps its channel, every message whose file can   *)
(* be decoded, and every garbled one, is settled in the end.               *)
EveryMessageSettled == (<>[]\E w \in Workers : chan[w]) => <>[](Held = {})

=============================================================================
