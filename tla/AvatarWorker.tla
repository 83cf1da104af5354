---------------------------- MODULE AvatarWorker ----------------------------
(***************************************************************************)
(* The workers of cmd/worker: the loop of Start over the deliveries of     *)
(* avatar.processing, and processImage with its calls to MinIO and         *)
(* Postgres, one action per call.  The channel has no prefetch limit, so   *)
(* the broker delivers as many messages as there are; the worker handles   *)
(* them one at a time and settles each when it is done with it.            *)
(***************************************************************************)
EXTENDS AvatarStores

CONSTANT Workers  \* the processes of cmd/worker

VARIABLES
  job,      \* what each worker is doing
  unacked,  \* the messages delivered to each worker and not settled
  chan      \* whether the worker's channel to the broker is open

workerVars == <<job, unacked, chan>>

(* "down": no process.  "idle": waiting in the loop.  "ended": the loop or *)
(* the subscription is over, and the process stays, for main waits for a   *)
(* signal and never for Start.                                             *)
Resting == [pc: {"down", "idle", "ended"}]

(* "fetch": GetObject and Decode are next; "thumbs": the thumbnails in     *)
(* todo are; "reload" and "write": the two halves of updateAvatarStatus.   *)
Job == [pc: {"fetch", "thumbs", "reload", "write"},
        msg: Event, todo: SUBSET Sizes, url: BOOLEAN]

WorkerTypeOK ==
  /\ job \in [Workers -> Resting \cup Job]
  /\ unacked \in [Workers -> SUBSET Message]
  /\ chan \in [Workers -> BOOLEAN]

WorkerInit ==
  /\ job = [w \in Workers |-> [pc |-> "down"]]
  /\ unacked = [w \in Workers |-> {}]
  /\ chan = [w \in Workers |-> FALSE]

Busy(w) == job[w].pc \in {"fetch", "thumbs", "reload", "write"}

(* Mutant: the test of isImage the other way round.                        *)
IsImageInverted(m) == m.kind = "document"

IsImage(m) == m.kind # "document"

-----------------------------------------------------------------------------

(* Mutant: a path of the loop that settles nothing.                        *)
AckForgotten(w, m) == UNCHANGED <<unacked, queue>>

(* Ack, or Nack without requeue.  On a channel that has closed since the   *)
(* delivery it fails, the failure is ignored, and the broker has the       *)
(* message in its queue again.                                             *)
Ack(w, m) ==
  /\ unacked' = [unacked EXCEPT ![w] = @ \ {m}]
  /\ UNCHANGED queue

(* Mutant: Nack(false, false).                                             *)
RequeueDropped(w, m) ==
  /\ unacked' = [unacked EXCEPT ![w] = @ \ {m}]
  /\ UNCHANGED queue

(* Nack with requeue.                                                      *)
Requeue(w, m) ==
  /\ unacked' = [unacked EXCEPT ![w] = @ \ {m}]
  /\ queue' = IF m \in unacked[w] THEN queue \cup {m} ELSE queue

Rest(w) == job' = [job EXCEPT ![w] = [pc |-> "idle"]]

Continue(w, pc) == job' = [job EXCEPT ![w].pc = pc]

(* processImage: an image is fetched, anything else only gets its status.  *)
Begin(w, m) ==
  job' = [job EXCEPT ![w] = [pc |-> IF IsImage(m) THEN "fetch" ELSE "reload",
                             msg |-> m, todo |-> Sizes, url |-> FALSE]]

(* An error of updateAvatarStatus is processImage's own for a file that is *)
(* not an image, and only logged for an image: the message is settled as a *)
(* success, with the row as it was.                                        *)
StatusFailed(w) == IF IsImage(job[w].msg) THEN Ack(w, job[w].msg)
                                          ELSE Requeue(w, job[w].msg)

-----------------------------------------------------------------------------

(* A process connects, and declares and binds the queue.  One that fails   *)
(* before Start exits, and is still down.                                  *)
WorkerStart(w) ==
  /\ job[w].pc = "down"
  /\ Rest(w)
  /\ chan' = [chan EXCEPT ![w] = TRUE]
  /\ bound' = TRUE
  /\ UNCHANGED <<unacked, rows, originals, thumbs, queue, mishaps>>

(* Start returns an error, before or after it has bound the queue: it is   *)
(* logged, and the process stays.                                          *)
StartFails(w) ==
  /\ job[w].pc = "down"
  /\ Mishap("connection")
  /\ bound' \in {bound, TRUE}
  /\ job' = [job EXCEPT ![w] = [pc |-> "ended"]]
  /\ UNCHANGED <<unacked, chan, rows, originals, thumbs, queue>>

Deliver(w, m) ==
  /\ chan[w]
  /\ m \in queue
  /\ queue' = queue \ {m}
  /\ unacked' = [unacked EXCEPT ![w] = @ \cup {m}]
  /\ UNCHANGED <<job, chan, rows, originals, thumbs, bound, mishaps>>

(* The body of the loop, up to processImage.                               *)
Lookup(w, m, out) ==
  /\ job[w].pc = "idle"
  /\ m \in unacked[w]
  /\ Called(out)
  /\ \/ m.id = 0 /\ out = "ok" /\ Ack(w, m) /\ UNCHANGED job
     \/ m.id # 0 /\ out # "ok" /\ Requeue(w, m) /\ UNCHANGED job
     \/ /\ m.id # 0 /\ out = "ok"
        /\ IF Visible(m.id) /\ rows[m.id].status # "ready"
           THEN Begin(w, m) /\ UNCHANGED <<unacked, queue>>
           ELSE Ack(w, m) /\ UNCHANGED job
  /\ UNCHANGED <<chan, rows, originals, thumbs, bound>>

(* GetObject only opens; Decode reads, and fails without the object.       *)
Fetch(w, out) ==
  LET m == job[w].msg IN
  /\ job[w].pc = "fetch"
  /\ Called(out)
  /\ IF out = "ok" /\ m.id \in originals /\ m.kind = "picture"
     THEN Continue(w, "thumbs") /\ UNCHANGED <<unacked, queue>>
     ELSE Rest(w) /\ Requeue(w, m)
  /\ UNCHANGED <<chan, rows, originals, thumbs, bound>>

(* The sizes come in the order of a Go map, any order.  A thumbnail that   *)
(* cannot be encoded or saved is skipped.                                  *)
SaveThumb(w, s, out) ==
  LET left == job[w].todo \ {s} IN
  /\ job[w].pc = "thumbs"
  /\ s \in job[w].todo
  /\ Called(out)
  /\ thumbs' = IF Applied(out) THEN thumbs \cup {<<job[w].msg.id, s>>} ELSE thumbs
  /\ job' = [job EXCEPT ![w].todo = left,
                        ![w].pc = IF left = {} THEN "reload" ELSE "thumbs"]
  /\ UNCHANGED <<unacked, chan, rows, originals, queue, bound>>

(* The read of updateAvatarStatus; all of the row that Update writes back  *)
(* and the worker leaves alone is the URL.                                 *)
Reload(w, out) ==
  LET i == job[w].msg.id IN
  /\ job[w].pc = "reload"
  /\ Called(out)
  /\ IF out = "ok" /\ Visible(i)
     THEN /\ job' = [job EXCEPT ![w].pc = "write", ![w].url = rows[i].url]
          /\ UNCHANGED <<unacked, queue>>
     ELSE Rest(w) /\ StatusFailed(w)
  /\ UNCHANGED <<chan, rows, originals, thumbs, bound>>

WriteStatus(w, out) ==
  /\ job[w].pc = "write"
  /\ Called(out)
  /\ Update(job[w].msg.id, "ready", job[w].url, out)
  /\ Rest(w)
  /\ IF out = "ok" THEN Ack(w, job[w].msg) ELSE StatusFailed(w)
  /\ UNCHANGED <<chan, originals, thumbs, bound>>

-----------------------------------------------------------------------------

(* The broker takes back what is not settled; the worker finishes what it  *)
(* is doing.  The deliveries it had buffered are dropped by the library.   *)
Disconnected(W) ==
  /\ chan' = [w \in Workers |-> chan[w] /\ w \notin W]
  /\ unacked' = [w \in Workers |-> IF w \in W THEN {} ELSE unacked[w]]

ChannelLost(w) ==
  /\ chan[w]
  /\ Mishap("connection")
  /\ Disconnected({w})
  /\ queue' = queue \cup unacked[w]
  /\ UNCHANGED <<job, rows, originals, thumbs, bound>>

(* The range over the closed deliveries ends, and Start returns nil.       *)
LoopEnds(w) ==
  /\ job[w].pc = "idle"
  /\ ~chan[w]
  /\ job' = [job EXCEPT ![w] = [pc |-> "ended"]]
  /\ UNCHANGED <<unacked, chan, storeVars>>

(* Mutant: the queue is consumed with auto-ack, and nothing comes back.    *)
WorkerCrashAutoAck(w) ==
  /\ job[w].pc # "down"
  /\ Mishap("worker")
  /\ job' = [job EXCEPT ![w] = [pc |-> "down"]]
  /\ Disconnected({w})
  /\ UNCHANGED <<queue, rows, originals, thumbs, bound>>

WorkerCrash(w) ==
  /\ job[w].pc # "down"
  /\ Mishap("worker")
  /\ job' = [job EXCEPT ![w] = [pc |-> "down"]]
  /\ Disconnected({w})
  /\ queue' = queue \cup unacked[w]
  /\ UNCHANGED <<rows, originals, thumbs, bound>>

WorkerStep(w) ==
  \/ WorkerStart(w)
  \/ StartFails(w)
  \/ \E m \in Message : Deliver(w, m)
  \/ \E m \in Message, out \in Outcomes : Lookup(w, m, out)
  \/ \E out \in Outcomes : Fetch(w, out)
  \/ \E s \in Sizes, out \in Outcomes : SaveThumb(w, s, out)
  \/ \E out \in Outcomes : Reload(w, out)
  \/ \E out \in Outcomes : WriteStatus(w, out)
  \/ ChannelLost(w)
  \/ LoopEnds(w)
  \/ WorkerCrash(w)

WorkerNext == \E w \in Workers : WorkerStep(w)

=============================================================================
