---------------------------- MODULE AvatarSystem ----------------------------
(***************************************************************************)
(* The deployed service: replicas of the server and workers around one     *)
(* database, one bucket and one broker.                                    *)
(***************************************************************************)
EXTENDS AvatarServer, AvatarWorker

vars == <<storeVars, serverVars, workerVars>>

TypeOK == StoresTypeOK /\ ServerTypeOK /\ WorkerTypeOK

(* An empty table and bucket.  The queue is durable: it may be declared    *)
(* and bound already.                                                      *)
Init ==
  /\ rows = [i \in Ids |-> NoRow]
  /\ originals = {}
  /\ thumbs = {}
  /\ queue = {}
  /\ bound \in BOOLEAN
  /\ mishaps = 0
  /\ ServerInit
  /\ WorkerInit

(* RabbitMQ restarts.  The exchange, the queue and the binding are durable;*)
(* the messages are published without the persistent delivery mode and are *)
(* lost; every connection breaks.                                          *)
BrokerRestart ==
  /\ Mishap("broker")
  /\ queue' = {}
  /\ Disconnected(Workers)
  /\ pub' = [r \in Replicas |-> IF pub[r] = "open" THEN "closed" ELSE pub[r]]
  /\ UNCHANGED <<rows, originals, thumbs, bound, job,
                 req, gauge, issued, created, removed>>

Next ==
  \/ ServerNext /\ UNCHANGED workerVars
  \/ WorkerNext /\ UNCHANGED serverVars
  \/ BrokerRestart

Spec == Init /\ [][Next]_vars

-----------------------------------------------------------------------------

Ready(i) == rows[i] # NoRow /\ rows[i].status = "ready"

(* A row that says ready names a file that is in the bucket, whether or    *)
(* not the storage's reply was lost, a replica crashed between the two     *)
(* stores, or the row was deleted since.                                   *)
StoredBeforeReady == \A i \in Ids : Ready(i) => i \in originals /\ rows[i].url

(* An upload answered 201 is never forgotten: its row stays in the table,  *)
(* ready, and its owner sees it until a deletion was asked for and applied.*)
AckedIsDurable == \A i \in created : Ready(i)

(* However many replicas are asked to delete an avatar at once, and        *)
(* however often, one of them at most answers 204.                         *)
AtMostOneRemoval == \A i \in Ids : removed[i] <= 1

Messages == queue \cup UNION {unacked[w] : w \in Workers}

(* An event in the broker or at a worker is about a row that is committed  *)
(* and ready: no worker ever looks up an avatar the table does not have    *)
(* yet, and none has anything to process.                                  *)
EventAfterCommit ==
  \A m \in Messages : m.id # 0 /\ Ready(m.id) /\ rows[m.id].kind = m.kind

(* No worker gets past the test of the status.                             *)
NothingToProcess == \A w \in Workers : ~Busy(w)

-----------------------------------------------------------------------------
(* What the requests in progress rely on.                                  *)

(* An upload that has not written its row yet.                             *)
Unwritten(r) == req[r].pc \in {"save", "failed", "create"}

(* Between the steps of a request, whatever the other replicas do: an      *)
(* upload's row is not there before it writes it, and there when it        *)
(* publishes; a deletion's row stays in the table.                         *)
Consistent(r) ==
  /\ Unwritten(r) => req[r].id <= issued /\ rows[req[r].id] = NoRow
  /\ req[r].pc = "create" => req[r].id \in originals
  /\ req[r].pc = "publish" => Ready(req[r].id) /\ rows[req[r].id].kind = req[r].kind
  /\ req[r].pc \in {"load", "announce", "remove"} => rows[req[r].id] # NoRow

RequestsConsistent == \A r \in Replicas : Consistent(r)

OwnIds ==
  /\ \A r, s \in Replicas :
       Unwritten(r) /\ Unwritten(s) /\ req[r].id = req[s].id => r = s
  /\ \A i \in Ids : i > issued => rows[i] = NoRow

RemovedIsDeleted ==
  \A i \in Ids : removed[i] > 0 => rows[i] # NoRow /\ rows[i].deleted

(* The inductive invariant: the properties above, and what they rest on.   *)
(* EventAfterCommit follows from what a request relies on when it          *)
(* publishes, AtMostOneRemoval from RemovedIsDeleted.                      *)
SystemInv ==
  /\ RequestsConsistent /\ OwnIds
  /\ StoredBeforeReady /\ AckedIsDurable
  /\ AtMostOneRemoval /\ RemovedIsDeleted
  /\ EventAfterCommit /\ NothingToProcess

-----------------------------------------------------------------------------
(* The system implements AvatarCatalogue: the table and the bucket, seen   *)
(* as a catalogue, only ever do what the catalogue does, whatever the      *)
(* interleaving of the requests and the failures.                          *)

Entry(i) == IF rows[i] = NoRow THEN [state |-> "unlisted"]
            ELSE [state |-> rows[i].status, owner |-> rows[i].owner,
                  removed |-> rows[i].deleted]

Catalogue == INSTANCE AvatarCatalogue
               WITH entry <- [i \in Ids |-> Entry(i)], files <- originals

(* Every behaviour of the system is one of the catalogue: no row changes   *)
(* status or owner, none comes back from deletion, none is ready before    *)
(* its file is stored.                                                     *)
ImplementsCatalogue == Catalogue!Spec

=============================================================================
