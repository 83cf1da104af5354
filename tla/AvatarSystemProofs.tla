------------------------- MODULE AvatarSystemProofs -------------------------
(***************************************************************************)
(* Theorems about AvatarSystem, for any number of replicas, workers, users *)
(* and uploads, any failures and any number of them.                       *)
(***************************************************************************)
EXTENDS AvatarSystem, AvatarWorkerProofs

(* What an upload in progress is made of.                                  *)
LEMMA UploadType ==
  ASSUME ServerTypeOK, NEW r \in Replicas,
         req[r].pc \in {"save", "failed", "create", "publish"}
  PROVE  /\ req[r] \in Upload
         /\ req[r].id \in Ids /\ req[r].user \in Users /\ req[r].kind \in Kinds
         /\ \A pc \in {"failed", "create", "publish"} : [req[r] EXCEPT !.pc = pc] \in Upload
<1>1. req[r] \in Upload \cup Removal \cup {Idle}  BY DEF ServerTypeOK
<1>2. req[r] # Idle  BY DEF Idle
<1>3. req[r] \notin Removal  BY DEF Removal
<1>4. req[r] \in Upload  BY <1>1, <1>2, <1>3
<1> QED  BY <1>4 DEF Upload

(* The same of a deletion in progress.                                     *)
LEMMA RemovalType ==
  ASSUME ServerTypeOK, NEW r \in Replicas, req[r].pc \in {"load", "announce", "remove"}
  PROVE  /\ req[r] \in Removal
         /\ req[r].id \in Ids
         /\ \A pc \in {"announce", "remove"} : [req[r] EXCEPT !.pc = pc] \in Removal
<1>1. req[r] \in Upload \cup Removal \cup {Idle}  BY DEF ServerTypeOK
<1>2. req[r] # Idle  BY DEF Idle
<1>3. req[r] \notin Upload  BY DEF Upload
<1>4. req[r] \in Removal  BY <1>1, <1>2, <1>3
<1> QED  BY <1>4 DEF Removal

-----------------------------------------------------------------------------
(* Every variable keeps its type.                                          *)

(* The types hold after any step of a replica.                             *)
LEMMA ServerStepType ==
  ASSUME TypeOK, NEW r \in Replicas, ServerStep(r), UNCHANGED workerVars
  PROVE  TypeOK'
<1> USE DEF TypeOK
<1>w. WorkerTypeOK'  BY DEF WorkerTypeOK, workerVars
<1>1. CASE \E u \in Users, k \in Kinds : UploadStart(r, u, k)
  <2>1. PICK u \in Users, k \in Kinds : UploadStart(r, u, k)  BY <1>1
  <2>2. issued' \in 0..MaxUploads /\ issued' \in Ids
    BY <2>1, BoundsAssumption DEF UploadStart, ServerTypeOK, Ids
  <2>3. [pc |-> "save", id |-> issued', user |-> u, kind |-> k] \in Upload
    BY <2>2 DEF Upload
  <2>4. req' \in [Replicas -> Upload \cup Removal \cup {Idle}]
    BY <2>1, <2>3 DEF UploadStart, ServerTypeOK
  <2> QED  BY <2>1, <2>2, <2>4, <1>w DEF UploadStart, ServerTypeOK, StoresTypeOK, storeVars
<1>2. CASE \E out \in Outcomes : UploadSave(r, out)
  <2>1. PICK out \in Outcomes : UploadSave(r, out)  BY <1>2
  <2>2. req[r].id \in Ids /\ req' \in [Replicas -> Upload \cup Removal \cup {Idle}]
    BY <2>1, UploadType DEF UploadSave, Goto, ServerTypeOK
  <2> QED  BY <2>1, <2>2, <1>w, CalledType DEF UploadSave, ServerTypeOK, StoresTypeOK
<1>3. CASE \E out \in Outcomes : UploadCreateFailed(r, out)
  <2>1. PICK out \in Outcomes : UploadCreateFailed(r, out)  BY <1>3
  <2>2. req[r].id \in Ids /\ Avatar(r, "failed", FALSE) \in Row
    BY <2>1, UploadType DEF UploadCreateFailed, Avatar, Row
  <2>3. rows' \in [Ids -> Row \cup {NoRow}]
    BY <2>1, <2>2 DEF UploadCreateFailed, Create, StoresTypeOK
  <2> QED
    BY <2>1, <2>3, <1>w, CalledType
    DEF UploadCreateFailed, Answer, ServerTypeOK, StoresTypeOK
<1>4. CASE \E out \in Outcomes : UploadCreate(r, out)
  <2>1. PICK out \in Outcomes : UploadCreate(r, out)  BY <1>4
  <2>2. req[r].id \in Ids /\ Avatar(r, "ready", TRUE) \in Row
    BY <2>1, UploadType DEF UploadCreate, Avatar, Row
  <2>3. rows' \in [Ids -> Row \cup {NoRow}]
    BY <2>1, <2>2 DEF UploadCreate, Create, StoresTypeOK
  <2>4. req' \in [Replicas -> Upload \cup Removal \cup {Idle}]
    BY <2>1, UploadType DEF UploadCreate, Goto, Answer, ServerTypeOK
  <2>5. gauge' \in [Replicas -> Int]
    BY <2>1 DEF UploadCreate, ServerTypeOK
  <2> QED
    BY <2>1, <2>3, <2>4, <2>5, <1>w, CalledType DEF UploadCreate, ServerTypeOK, StoresTypeOK
<1>5. CASE UploadPublish(r)
  <2>1. req[r].id \in Ids /\ [id |-> req[r].id, kind |-> req[r].kind] \in Message
    BY <1>5, UploadType DEF UploadPublish, Message
  <2>2. queue' \subseteq Message
    BY <1>5, <2>1 DEF UploadPublish, Publish, StoresTypeOK
  <2> QED  BY <1>5, <2>1, <2>2, <1>w DEF UploadPublish, Answer, ServerTypeOK, StoresTypeOK
<1>6. CASE \E caller, named \in Users, i \in Ids : DeleteBegin(r, caller, named, i)
  <2>1. PICK caller, named \in Users, i \in Ids : DeleteBegin(r, caller, named, i)  BY <1>6
  <2>2. [pc |-> "load", id |-> i, caller |-> caller] \in Removal  BY DEF Removal
  <2> QED  BY <2>1, <2>2, <1>w DEF DeleteBegin, storeVars, ServerTypeOK, StoresTypeOK
<1>7. CASE \E out \in Outcomes : DeleteLoad(r, out)
  <2>1. PICK out \in Outcomes : DeleteLoad(r, out)  BY <1>7
  <2>2. req' \in [Replicas -> Upload \cup Removal \cup {Idle}]
    BY <2>1, RemovalType DEF DeleteLoad, Goto, Answer, ServerTypeOK
  <2> QED  BY <2>1, <2>2, <1>w, CalledType DEF DeleteLoad, ServerTypeOK, StoresTypeOK
<1>8. CASE DeletePublish(r)
  <2>1. queue' = queue  BY <1>8 DEF DeletePublish, Publish
  <2>2. req' \in [Replicas -> Upload \cup Removal \cup {Idle}]
    BY <1>8, RemovalType DEF DeletePublish, Goto, Answer, ServerTypeOK
  <2> QED  BY <1>8, <2>1, <2>2, <1>w DEF DeletePublish, ServerTypeOK, StoresTypeOK
<1>9. CASE \E out \in Outcomes : DeleteRow(r, out)
  <2>1. PICK out \in Outcomes : DeleteRow(r, out)  BY <1>9
  <2>2. req[r].id \in Ids  BY <2>1, RemovalType DEF DeleteRow
  <2>3. rows' \in [Ids -> Row \cup {NoRow}]
    BY <2>1, <2>2, RowType DEF DeleteRow, Delete, Visible, StoresTypeOK
  <2>4. gauge' \in [Replicas -> Int] /\ removed' \in [Ids -> Nat]
    BY <2>1, <2>2 DEF DeleteRow, ServerTypeOK
  <2> QED
    BY <2>1, <2>3, <2>4, <1>w, CalledType DEF DeleteRow, Answer, ServerTypeOK, StoresTypeOK
<1>10. CASE ConnectionLost(r)
  BY <1>10, <1>w DEF ConnectionLost, Mishap, ServerTypeOK, StoresTypeOK
<1>11. CASE Restart(r)
  BY <1>11, <1>w, StartsAssumption DEF Restart, Answer, Mishap, ServerTypeOK, StoresTypeOK
<1> QED
  BY <1>1, <1>2, <1>3, <1>4, <1>5, <1>6, <1>7, <1>8, <1>9, <1>10, <1>11 DEF ServerStep

(* The types hold after a restart of the broker.                           *)
LEMMA BrokerRestartType ==
  ASSUME TypeOK, BrokerRestart
  PROVE  TypeOK'
BY DisconnectedType
DEF TypeOK, BrokerRestart, Mishap, StoresTypeOK, ServerTypeOK, WorkerTypeOK

(* Every variable of the system has its type in every state.               *)
THEOREM TypeCorrect == Spec => []TypeOK
<1>1. Init => TypeOK
  <2> SUFFICES ASSUME Init  PROVE TypeOK  OBVIOUS
  <2>1. StoresTypeOK  BY DEF Init, StoresTypeOK
  <2>2. ServerTypeOK
    <3>1. pub \in [Replicas -> {"nil", "open", "closed"}]
      BY StartsAssumption DEF Init, ServerInit
    <3>2. 0 \in 0..MaxUploads  BY BoundsAssumption
    <3> QED  BY <3>1, <3>2 DEF Init, ServerInit, ServerTypeOK
  <2>3. WorkerTypeOK  BY DEF Init, WorkerInit, WorkerTypeOK, Resting
  <2> QED  BY <2>1, <2>2, <2>3 DEF TypeOK
<1>2. TypeOK /\ [Next]_vars => TypeOK'
  <2> SUFFICES ASSUME TypeOK, [Next]_vars  PROVE TypeOK'  OBVIOUS
  <2>1. CASE ServerNext /\ UNCHANGED workerVars
    BY <2>1, ServerStepType DEF ServerNext
  <2>2. CASE WorkerNext /\ UNCHANGED serverVars
    BY <2>2, WorkerStepType DEF WorkerNext, TypeOK, ServerTypeOK, serverVars
  <2>3. CASE BrokerRestart
    BY <2>3, BrokerRestartType
  <2>4. CASE UNCHANGED vars
    BY <2>4 DEF vars, storeVars, serverVars, workerVars,
                TypeOK, StoresTypeOK, ServerTypeOK, WorkerTypeOK
  <2> QED  BY <2>1, <2>2, <2>3, <2>4 DEF Next
<1> QED  BY <1>1, <1>2, PTL DEF Spec

-----------------------------------------------------------------------------
(* The inductive invariant.                                                *)

(* A row that is written keeps all but its mark of deletion, which stays.  *)
Kept ==
  \A i \in Ids : rows[i] # NoRow =>
    /\ rows'[i] # NoRow
    /\ rows'[i].owner = rows[i].owner /\ rows'[i].status = rows[i].status
    /\ rows'[i].url = rows[i].url /\ rows'[i].kind = rows[i].kind
    /\ rows[i].deleted => rows'[i].deleted

(* The repository's Create, of an avatar that has no row, changes no other *)
(* row.                                                                    *)
LEMMA CreateKeeps ==
  ASSUME TypeOK, NEW i \in Ids, rows[i] = NoRow, NEW row \in Row, NEW out, Create(i, row, out)
  PROVE  /\ Kept
         /\ \A j \in Ids \ {i} : rows'[j] = rows[j]
         /\ rows'[i] \in {NoRow, row}
         /\ out = "ok" => rows'[i] = row
         /\ row # NoRow
BY DEF Create, Kept, TypeOK, StoresTypeOK, Applied, Row, NoRow

(* The repository's Delete marks its row at most, and changes no other.    *)
LEMMA DeleteKeeps ==
  ASSUME TypeOK, NEW i \in Ids, NEW out, Delete(i, out)
  PROVE  /\ Kept
         /\ \A j \in Ids : rows[j] = NoRow => rows'[j] = NoRow
         /\ \A j \in Ids \ {i} : rows'[j] = rows[j]
         /\ out = "ok" /\ Visible(i) => rows'[i].deleted
<1>1. CASE ~(Applied(out) /\ Visible(i))
  BY <1>1 DEF Kept, Delete, Applied
<1>2. CASE Applied(out) /\ Visible(i)
  <2>1. rows[i] # NoRow /\ rows[i] \in Row  BY <1>2, RowType DEF Visible, TypeOK
  <2>2. /\ rows'[i] \in Row /\ rows'[i].deleted
        /\ rows'[i].owner = rows[i].owner /\ rows'[i].status = rows[i].status
        /\ rows'[i].url = rows[i].url /\ rows'[i].kind = rows[i].kind
    BY <1>2, <2>1 DEF Delete, Row, TypeOK, StoresTypeOK
  <2>3. rows'[i] # NoRow  BY <2>2 DEF Row, NoRow
  <2>4. \A j \in Ids \ {i} : rows'[j] = rows[j]  BY <1>2 DEF Delete, TypeOK, StoresTypeOK
  <2> QED  BY <2>1, <2>2, <2>3, <2>4 DEF Kept
<1> QED  BY <1>1, <1>2

(* The part of the invariant about the stores survives a step that only    *)
(* adds rows whose file is there, and no message.                          *)
LEMMA StoresKept ==
  ASSUME TypeOK, SystemInv, Kept,
         \A i \in Ids : rows[i] = NoRow /\ rows'[i] # NoRow /\ rows'[i].status = "ready"
                          => i \in originals' /\ rows'[i].url,
         originals \subseteq originals', created' = created, Messages' \subseteq Messages
  PROVE  StoredBeforeReady' /\ AckedIsDurable' /\ EventAfterCommit'
<1>1. \A i \in Ids : Ready(i) => Ready(i)' /\ rows'[i].kind = rows[i].kind
  BY DEF Kept, Ready
<1>2. StoredBeforeReady'
  BY DEF Kept, Ready, StoredBeforeReady, SystemInv
<1>3. AckedIsDurable'
  BY <1>1 DEF AckedIsDurable, SystemInv, TypeOK, ServerTypeOK
<1>4. EventAfterCommit'
  <2>1. \A m \in Messages : m.id \in Ids /\ Ready(m.id) /\ rows[m.id].kind = m.kind
    <3>1. Messages \subseteq Message
      BY DEF Messages, TypeOK, StoresTypeOK, WorkerTypeOK
    <3> QED  BY <3>1 DEF Message, SystemInv, EventAfterCommit
  <2>2. \A m \in Messages : m.id # 0  BY DEF SystemInv, EventAfterCommit
  <2> QED  BY <1>1, <2>1, <2>2 DEF EventAfterCommit
<1> QED  BY <1>2, <1>3, <1>4

(* The requests of the other replicas survive it too, if it leaves the     *)
(* rows they are about to write alone.                                     *)
LEMMA RequestsKept ==
  ASSUME TypeOK, SystemInv, Kept, NEW r \in Replicas,
         \A s \in Replicas \ {r} : req'[s] = req[s],
         \A s \in Replicas \ {r} : Unwritten(s) => rows'[req[s].id] = NoRow,
         issued \in Nat, issued' \in Nat, issued <= issued',
         originals \subseteq originals', Consistent(r)'
  PROVE  RequestsConsistent'
<1> SUFFICES ASSUME NEW s \in Replicas \ {r}  PROVE Consistent(s)'
  BY DEF RequestsConsistent
<1>1. Consistent(s) /\ req'[s] = req[s]  BY DEF SystemInv, RequestsConsistent
<1>2. CASE Unwritten(s)
  <2>1. req[s].id \in Ids  BY <1>2, UploadType DEF Unwritten, TypeOK
  <2> QED  BY <1>1, <1>2, <2>1 DEF Consistent, Unwritten, Ids
<1>3. CASE req[s].pc = "publish"
  <2>1. req[s].id \in Ids  BY <1>3, UploadType DEF TypeOK
  <2> QED  BY <1>1, <1>3, <2>1 DEF Consistent, Unwritten, Ready, Kept
<1>4. CASE req[s].pc \in {"load", "announce", "remove"}
  <2>1. req[s].id \in Ids  BY <1>4, RemovalType DEF TypeOK
  <2> QED  BY <1>1, <1>4, <2>1 DEF Consistent, Unwritten, Kept
<1>5. CASE ~Unwritten(s) /\ req[s].pc \notin {"publish", "load", "announce", "remove"}
  BY <1>1, <1>5 DEF Consistent, Unwritten
<1> QED  BY <1>2, <1>3, <1>4, <1>5

(* And so does what is known of deletions, if it counts none.              *)
LEMMA RemovalsKept ==
  ASSUME TypeOK, SystemInv, Kept, removed' = removed
  PROVE  AtMostOneRemoval' /\ RemovedIsDeleted'
BY DEF SystemInv, Kept, AtMostOneRemoval, RemovedIsDeleted

(* The uploads in progress keep their ids to themselves after a step that  *)
(* makes no id.                                                            *)
LEMMA OwnIdsKept ==
  ASSUME TypeOK, SystemInv, NEW r \in Replicas,
         \A s \in Replicas \ {r} : req'[s] = req[s],
         Unwritten(r)' => Unwritten(r) /\ req'[r].id = req[r].id,
         issued' = issued,
         \A i \in Ids : i > issued => rows'[i] = NoRow
  PROVE  OwnIds'
BY DEF SystemInv, OwnIds, Unwritten

(* A step of another process leaves the workers as they are.               *)
LEMMA NoneBusy ==
  ASSUME SystemInv, UNCHANGED workerVars
  PROVE  NothingToProcess'
BY DEF SystemInv, NothingToProcess, Busy, workerVars

(* The invariant holds after any step of a replica: one step of the proof  *)
(* for each action.                                                        *)
LEMMA ServerStepInv ==
  ASSUME TypeOK, SystemInv, NEW r \in Replicas, ServerStep(r), UNCHANGED workerVars
  PROVE  SystemInv'
<1>n. NothingToProcess'  BY NoneBusy
<1>i. issued \in Nat /\ Consistent(r)
  BY DEF TypeOK, ServerTypeOK, SystemInv, RequestsConsistent
<1>o. \A s \in Replicas : Unwritten(s) => rows[req[s].id] = NoRow
  BY DEF SystemInv, RequestsConsistent, Consistent
<1>f. \A i \in Ids : i > issued => rows[i] = NoRow  BY DEF SystemInv, OwnIds
<1>m. queue' \subseteq queue => Messages' \subseteq Messages
  BY DEF Messages, workerVars
<1>k. rows' = rows => Kept  BY DEF Kept
<1> USE DEF Idle
<1>1. CASE \E u \in Users, k \in Kinds : UploadStart(r, u, k)
  <2>1. PICK u \in Users, k \in Kinds : UploadStart(r, u, k)  BY <1>1
  <2>2. /\ req' = [req EXCEPT ![r] = [pc |-> "save", id |-> issued + 1, user |-> u, kind |-> k]]
        /\ rows' = rows /\ originals' = originals /\ queue' = queue
        /\ created' = created /\ removed' = removed /\ issued' = issued + 1
        /\ issued + 1 \in Ids
    BY <2>1, <1>i, BoundsAssumption DEF UploadStart, storeVars, Ids, TypeOK, ServerTypeOK
  <2>3. /\ req'[r].pc = "save" /\ req'[r].id = issued + 1
        /\ \A s \in Replicas \ {r} : req'[s] = req[s]
    BY <2>2 DEF TypeOK, ServerTypeOK
  <2>4. rows[issued + 1] = NoRow  BY <2>2, <1>i, <1>f
  <2>5. RequestsConsistent'
    <3>1. Consistent(r)'  BY <2>2, <2>3, <2>4, <1>i DEF Consistent, Unwritten
    <3> QED  BY <3>1, <2>2, <2>3, <1>i, <1>k, <1>o, RequestsKept
  <2>6. OwnIds'
    <3>1. \A s \in Replicas \ {r} : Unwritten(s) => req[s].id \in Nat /\ req[s].id <= issued
      <4>1. \A s \in Replicas : Unwritten(s) => req[s].id \in Ids
        BY UploadType DEF Unwritten, TypeOK
      <4>2. \A s \in Replicas : Unwritten(s) => req[s].id <= issued
        BY DEF SystemInv, RequestsConsistent, Consistent
      <4> QED  BY <4>1, <4>2, BoundsAssumption DEF Ids
    <3>2. \A s \in Replicas : Unwritten(s)' /\ req'[s].id = issued + 1 => s = r
      BY <3>1, <2>3, <1>i DEF Unwritten
    <3>3. \A s, t \in Replicas :
            Unwritten(s)' /\ Unwritten(t)' /\ req'[s].id = req'[t].id => s = t
      BY <3>2, <2>3 DEF Unwritten, SystemInv, OwnIds
    <3> QED  BY <3>3, <2>2, <1>f, <1>i DEF OwnIds, Ids
  <2>7. StoredBeforeReady' /\ AckedIsDurable' /\ EventAfterCommit'
    BY <2>2, <1>k, <1>m, StoresKept
  <2> QED  BY <2>2, <2>5, <2>6, <2>7, <1>n, <1>k, RemovalsKept DEF SystemInv
<1>2. CASE \E out \in Outcomes : UploadSave(r, out)
  <2>1. PICK out \in Outcomes : UploadSave(r, out)  BY <1>2
  <2>2. /\ rows' = rows /\ originals \subseteq originals' /\ queue' = queue
        /\ created' = created /\ removed' = removed /\ issued' = issued
        /\ \A s \in Replicas \ {r} : req'[s] = req[s]
    BY <2>1 DEF UploadSave, Goto, TypeOK, ServerTypeOK
  <2>3. /\ Unwritten(r) /\ Unwritten(r)' /\ req'[r].id = req[r].id
        /\ req'[r].pc = "create" => out = "ok" /\ req'[r].id \in originals'
    <3>1. req[r] \in Upload  BY <2>1, UploadType DEF UploadSave, TypeOK
    <3>2. req'[r] = [req[r] EXCEPT !.pc = IF out = "ok" THEN "create" ELSE "failed"]
      BY <2>1 DEF UploadSave, Goto, TypeOK, ServerTypeOK
    <3>3. /\ req'[r].pc = IF out = "ok" THEN "create" ELSE "failed"
          /\ req'[r].id = req[r].id
      BY <3>1, <3>2 DEF Upload
    <3> QED  BY <2>1, <3>3 DEF UploadSave, Unwritten, Applied
  <2>4. Consistent(r)'
    BY <2>2, <2>3, <1>i DEF Consistent, Unwritten
  <2>5. RequestsConsistent'  BY <2>2, <2>4, <1>i, <1>k, <1>o, RequestsKept
  <2>6. OwnIds'  BY <2>2, <2>3, <1>f, OwnIdsKept
  <2>7. StoredBeforeReady' /\ AckedIsDurable' /\ EventAfterCommit'
    BY <2>2, <1>k, <1>m, StoresKept
  <2> QED  BY <2>2, <2>5, <2>6, <2>7, <1>n, <1>k, RemovalsKept DEF SystemInv
<1>3. CASE \E out \in Outcomes : UploadCreateFailed(r, out)
  <2>1. PICK out \in Outcomes : UploadCreateFailed(r, out)  BY <1>3
  <2> DEFINE i == req[r].id
             row == Avatar(r, "failed", FALSE)
  <2>2. i \in Ids /\ rows[i] = NoRow /\ row \in Row /\ row.status = "failed" /\ Unwritten(r)
    BY <2>1, <1>o, UploadType DEF UploadCreateFailed, Unwritten, Avatar, Row, TypeOK
  <2>3. /\ Kept /\ \A j \in Ids \ {i} : rows'[j] = rows[j]
        /\ rows'[i] \in {NoRow, row}
    BY <2>1, <2>2, CreateKeeps DEF UploadCreateFailed
  <2>4. /\ originals' = originals /\ queue' = queue
        /\ created' = created /\ removed' = removed /\ issued' = issued
        /\ req'[r] = Idle /\ \A s \in Replicas \ {r} : req'[s] = req[s]
    BY <2>1 DEF UploadCreateFailed, Answer, TypeOK, ServerTypeOK
  <2>5. \A s \in Replicas \ {r} : Unwritten(s) => req[s].id \in Ids \ {i}
    BY <2>2, UploadType DEF SystemInv, OwnIds, Unwritten, TypeOK
  <2>6. RequestsConsistent'
    <3>1. Consistent(r)'  BY <2>4 DEF Consistent, Unwritten
    <3> QED  BY <3>1, <2>3, <2>4, <2>5, <1>i, <1>o, RequestsKept
  <2>7. OwnIds'
    <3>1. i <= issued  BY <2>2, <1>i DEF Consistent
    <3>2. \A j \in Ids : j > issued => rows'[j] = NoRow
      BY <3>1, <2>2, <2>3, <1>f, <1>i DEF Ids
    <3> QED  BY <3>2, <2>4, OwnIdsKept DEF Unwritten
  <2>8. StoredBeforeReady' /\ AckedIsDurable' /\ EventAfterCommit'
    BY <2>2, <2>3, <2>4, <1>m, StoresKept
  <2> QED  BY <2>3, <2>4, <2>6, <2>7, <2>8, <1>n, RemovalsKept DEF SystemInv
<1>4. CASE \E out \in Outcomes : UploadCreate(r, out)
  <2>1. PICK out \in Outcomes : UploadCreate(r, out)  BY <1>4
  <2> DEFINE i == req[r].id
             row == Avatar(r, "ready", TRUE)
  <2>2. /\ i \in Ids /\ rows[i] = NoRow /\ i \in originals /\ Unwritten(r)
        /\ row \in Row /\ row.status = "ready" /\ row.url /\ row.kind = req[r].kind
    BY <2>1, <1>o, <1>i, UploadType
    DEF UploadCreate, Unwritten, Avatar, Row, TypeOK, Consistent
  <2>3. /\ Kept /\ \A j \in Ids \ {i} : rows'[j] = rows[j]
        /\ rows'[i] \in {NoRow, row} /\ row # NoRow
        /\ out = "ok" => rows'[i] = row
    BY <2>1, <2>2, CreateKeeps DEF UploadCreate
  <2>4. /\ originals' = originals /\ queue' = queue
        /\ created' = created /\ removed' = removed /\ issued' = issued
        /\ \A s \in Replicas \ {r} : req'[s] = req[s]
    BY <2>1 DEF UploadCreate, Answer, Goto, TypeOK, ServerTypeOK
  <2>5. \/ out # "ok" /\ req'[r] = Idle
        \/ out = "ok" /\ req'[r].pc = "publish" /\ req'[r].id = i /\ req'[r].kind = req[r].kind
    <3>1. req[r] \in Upload  BY <2>1, UploadType DEF UploadCreate, TypeOK
    <3> QED  BY <2>1, <3>1 DEF UploadCreate, Answer, Goto, TypeOK, ServerTypeOK, Upload
  <2>6. \A s \in Replicas \ {r} : Unwritten(s) => req[s].id \in Ids \ {i}
    BY <2>2, UploadType DEF SystemInv, OwnIds, Unwritten, TypeOK
  <2>7. RequestsConsistent'
    <3>1. Consistent(r)'
      <4>1. CASE req'[r] = Idle  BY <4>1 DEF Consistent, Unwritten
      <4>2. CASE out = "ok" /\ req'[r].pc = "publish" /\ req'[r].id = i /\ req'[r].kind = row.kind
        <5>1. Ready(i)' /\ rows'[i].kind = row.kind  BY <4>2, <2>2, <2>3 DEF Ready
        <5> QED  BY <4>2, <5>1 DEF Consistent, Unwritten, Ready
      <4> QED  BY <2>2, <2>5, <4>1, <4>2
    <3> QED  BY <3>1, <2>3, <2>4, <2>6, <1>i, <1>o, RequestsKept
  <2>8. OwnIds'
    <3>1. i <= issued  BY <2>2, <1>i DEF Consistent
    <3>2. \A j \in Ids : j > issued => rows'[j] = NoRow
      BY <3>1, <2>2, <2>3, <1>f, <1>i DEF Ids
    <3> QED  BY <3>2, <2>4, <2>5, OwnIdsKept DEF Unwritten
  <2>9. StoredBeforeReady' /\ AckedIsDurable' /\ EventAfterCommit'
    BY <2>2, <2>3, <2>4, <1>m, StoresKept
  <2> QED  BY <2>3, <2>4, <2>7, <2>8, <2>9, <1>n, RemovalsKept DEF SystemInv
<1>5. CASE UploadPublish(r)
  <2> DEFINE i == req[r].id
             m == [id |-> i, kind |-> req[r].kind]
  <2>1. /\ i \in Ids /\ Ready(i) /\ rows[i].kind = m.kind /\ m.id = i
    BY <1>5, <1>i, UploadType DEF UploadPublish, Consistent, TypeOK
  <2>2. /\ rows' = rows /\ originals' = originals /\ removed' = removed /\ issued' = issued
        /\ queue' \subseteq queue \cup {m} /\ created' \subseteq created \cup {i}
        /\ req'[r] = Idle /\ \A s \in Replicas \ {r} : req'[s] = req[s]
    BY <1>5 DEF UploadPublish, Publish, Answer, TypeOK, ServerTypeOK
  <2>3. RequestsConsistent'
    <3>1. Consistent(r)'  BY <2>2 DEF Consistent, Unwritten
    <3> QED  BY <3>1, <2>2, <1>i, <1>k, <1>o, RequestsKept
  <2>4. OwnIds'  BY <2>2, <1>f, OwnIdsKept DEF Unwritten
  <2>5. StoredBeforeReady'
    BY <2>2 DEF SystemInv, StoredBeforeReady, Ready
  <2>6. AckedIsDurable'
    BY <2>1, <2>2 DEF SystemInv, AckedIsDurable, Ready
  <2>7. EventAfterCommit'
    <3>1. Messages' \subseteq Messages \cup {m}  BY <2>2 DEF Messages, workerVars
    <3>2. m.id # 0  BY <2>1, BoundsAssumption DEF Ids
    <3> QED  BY <3>1, <3>2, <2>1, <2>2 DEF SystemInv, EventAfterCommit, Ready
  <2> QED  BY <2>2, <2>3, <2>4, <2>5, <2>6, <2>7, <1>n, <1>k, RemovalsKept DEF SystemInv
<1>6. CASE \E caller, named \in Users, i \in Ids : DeleteBegin(r, caller, named, i)
  <2>1. PICK caller, named \in Users, i \in Ids : DeleteBegin(r, caller, named, i)  BY <1>6
  <2>2. /\ rows' = rows /\ originals' = originals /\ queue' = queue
        /\ created' = created /\ removed' = removed /\ issued' = issued
        /\ req'[r] = [pc |-> "load", id |-> i, caller |-> caller]
        /\ \A s \in Replicas \ {r} : req'[s] = req[s]
        /\ rows[i] # NoRow
    BY <2>1 DEF DeleteBegin, storeVars, Visible, TypeOK, ServerTypeOK
  <2>3. RequestsConsistent'
    <3>1. Consistent(r)'  BY <2>2 DEF Consistent, Unwritten
    <3> QED  BY <3>1, <2>2, <1>i, <1>k, <1>o, RequestsKept
  <2>4. OwnIds'  BY <2>2, <1>f, OwnIdsKept DEF Unwritten
  <2>5. StoredBeforeReady' /\ AckedIsDurable' /\ EventAfterCommit'
    BY <2>2, <1>k, <1>m, StoresKept
  <2> QED  BY <2>2, <2>3, <2>4, <2>5, <1>n, <1>k, RemovalsKept DEF SystemInv
<1>7. CASE (\E out \in Outcomes : DeleteLoad(r, out)) \/ DeletePublish(r)
  <2>1. /\ rows' = rows /\ originals' = originals /\ queue' = queue
        /\ created' = created /\ removed' = removed /\ issued' = issued
        /\ \A s \in Replicas \ {r} : req'[s] = req[s]
        /\ req[r].pc \in {"load", "announce"}
        /\ \/ req'[r] = Idle
           \/ \E pc \in {"announce", "remove"} : req'[r] = [req[r] EXCEPT !.pc = pc]
    BY <1>7 DEF DeleteLoad, DeletePublish, Publish, Answer, Goto, TypeOK, ServerTypeOK
  <2>2. \/ req'[r] = Idle
        \/ /\ req'[r].pc \in {"announce", "remove"}
           /\ req'[r].id = req[r].id
    <3>1. req[r] \in Removal  BY <2>1, RemovalType DEF TypeOK
    <3> QED  BY <2>1, <3>1 DEF Removal
  <2>3. RequestsConsistent'
    <3>1. Consistent(r)'
      <4>1. rows[req[r].id] # NoRow
        BY <2>1, <1>i DEF Consistent
      <4> QED  BY <2>1, <2>2, <4>1 DEF Consistent, Unwritten
    <3> QED  BY <3>1, <2>1, <1>i, <1>k, <1>o, RequestsKept
  <2>4. OwnIds'
    <3>1. ~Unwritten(r)'  BY <2>2 DEF Unwritten
    <3> QED  BY <2>1, <3>1, <1>f, OwnIdsKept
  <2>5. StoredBeforeReady' /\ AckedIsDurable' /\ EventAfterCommit'
    BY <2>1, <1>k, <1>m, StoresKept
  <2> QED  BY <2>1, <2>3, <2>4, <2>5, <1>n, <1>k, RemovalsKept DEF SystemInv
<1>8. CASE \E out \in Outcomes : DeleteRow(r, out)
  <2>1. PICK out \in Outcomes : DeleteRow(r, out)  BY <1>8
  <2> DEFINE i == req[r].id
  <2>2. i \in Ids  BY <2>1, RemovalType DEF DeleteRow, TypeOK
  <2>3. /\ Kept /\ \A j \in Ids : rows[j] = NoRow => rows'[j] = NoRow
        /\ out = "ok" /\ Visible(i) => rows'[i].deleted
    BY <2>1, <2>2, DeleteKeeps DEF DeleteRow
  <2>4. /\ originals' = originals /\ queue' = queue
        /\ created' = created /\ issued' = issued
        /\ req'[r] = Idle /\ \A s \in Replicas \ {r} : req'[s] = req[s]
    BY <2>1 DEF DeleteRow, Answer, TypeOK, ServerTypeOK
  <2>5. RequestsConsistent'
    <3>1. Consistent(r)'  BY <2>4 DEF Consistent, Unwritten
    <3>2. \A s \in Replicas : Unwritten(s) => req[s].id \in Ids
      BY UploadType DEF Unwritten, TypeOK
    <3> QED  BY <3>1, <3>2, <2>3, <2>4, <1>i, <1>o, RequestsKept
  <2>6. OwnIds'  BY <2>3, <2>4, <1>f, OwnIdsKept DEF Unwritten
  <2>7. StoredBeforeReady' /\ AckedIsDurable' /\ EventAfterCommit'
    BY <2>3, <2>4, <1>m, StoresKept
  <2>8. AtMostOneRemoval' /\ RemovedIsDeleted'
    <3>1. CASE ~(out = "ok" /\ Visible(i))
      <4>1. removed' = removed  BY <2>1, <3>1 DEF DeleteRow
      <4> QED  BY <4>1, <2>3, RemovalsKept
    <3>2. CASE out = "ok" /\ Visible(i)
      <4>1. removed' = [removed EXCEPT ![i] = @ + 1]  BY <2>1, <3>2 DEF DeleteRow
      <4>2. removed[i] = 0
        BY <2>2, <3>2 DEF Visible, SystemInv, RemovedIsDeleted, TypeOK, ServerTypeOK
      <4>3. rows'[i] # NoRow /\ rows'[i].deleted  BY <2>2, <2>3, <3>2 DEF Kept, Visible
      <4>4. removed'[i] = 1 /\ \A j \in Ids \ {i} : removed'[j] = removed[j]
        BY <4>1, <4>2, <2>2 DEF TypeOK, ServerTypeOK
      <4> QED
        BY <4>3, <4>4, <2>3 DEF Kept, SystemInv, AtMostOneRemoval, RemovedIsDeleted
    <3> QED  BY <3>1, <3>2
  <2> QED  BY <2>5, <2>6, <2>7, <2>8, <1>n DEF SystemInv
<1>9. CASE ConnectionLost(r) \/ Restart(r)
  <2>1. /\ rows' = rows /\ originals' = originals /\ queue' = queue
        /\ created' = created /\ removed' = removed /\ issued' = issued
        /\ \A s \in Replicas \ {r} : req'[s] = req[s]
        /\ req'[r] = req[r] \/ req'[r] = Idle
    BY <1>9 DEF ConnectionLost, Restart, Answer, TypeOK, ServerTypeOK
  <2>2. RequestsConsistent'
    <3>1. Consistent(r)'  BY <2>1, <1>i DEF Consistent, Unwritten, Ready
    <3> QED  BY <3>1, <2>1, <1>i, <1>k, <1>o, RequestsKept
  <2>3. OwnIds'  BY <2>1, <1>f, OwnIdsKept DEF Unwritten
  <2>4. StoredBeforeReady' /\ AckedIsDurable' /\ EventAfterCommit'
    BY <2>1, <1>k, <1>m, StoresKept
  <2> QED  BY <2>1, <2>2, <2>3, <2>4, <1>n, <1>k, RemovalsKept DEF SystemInv
<1> QED
  BY <1>1, <1>2, <1>3, <1>4, <1>5, <1>6, <1>7, <1>8, <1>9 DEF ServerStep

(* A worker touches no row: every message it holds is about an avatar that *)
(* is ready, and one that is at rest has nothing else to do.               *)
LEMMA WorkerStepFrame ==
  ASSUME TypeOK, SystemInv, NEW w \in Workers, WorkerStep(w)
  PROVE  /\ rows' = rows /\ originals' = originals
         /\ Messages' \subseteq Messages /\ NothingToProcess'
<1>b. \A v \in Workers : ~Busy(v)  BY DEF SystemInv, NothingToProcess
<1>t. \A v \in Workers : job[v] \in Resting \cup Job  BY DEF TypeOK, WorkerTypeOK
<1>r. \A pc \in {"down", "idle", "ended"} :
        job' = [job EXCEPT ![w] = [pc |-> pc]] => NothingToProcess'
  BY <1>b DEF NothingToProcess, Busy, TypeOK, WorkerTypeOK
<1>j. job' = job => NothingToProcess'  BY <1>b DEF NothingToProcess, Busy
<1>d. \A W : Disconnected(W) => \A v \in Workers : unacked'[v] \subseteq unacked[v]
  BY DEF Disconnected
<1>1. CASE WorkerStart(w) \/ StartFails(w) \/ LoopEnds(w)
  BY <1>1, <1>r DEF WorkerStart, StartFails, LoopEnds, Rest, storeVars, Messages
<1>2. CASE \E m \in Message : Deliver(w, m)
  BY <1>2, <1>j DEF Deliver, Messages, TypeOK, WorkerTypeOK
<1>3. CASE \E m \in Message, out \in Outcomes : Lookup(w, m, out)
  <2>1. PICK m \in Message, out \in Outcomes : Lookup(w, m, out)  BY <1>3
  <2>2. m.id # 0 /\ rows[m.id] # NoRow /\ rows[m.id].status = "ready"
    <3>1. m \in Messages  BY <2>1 DEF Lookup, Messages
    <3> QED  BY <3>1 DEF SystemInv, EventAfterCommit, Ready
  <2>3. job' = job /\ (Ack(w, m) \/ Requeue(w, m))
    BY <2>1, <2>2 DEF Lookup
  <2>4. Messages' \subseteq Messages
    BY <2>1, <2>3 DEF Ack, Requeue, Lookup, Messages, TypeOK, WorkerTypeOK
  <2> QED  BY <2>1, <2>3, <2>4, <1>j DEF Lookup
<1>4. CASE ChannelLost(w) \/ WorkerCrash(w)
  <2>1. Messages' \subseteq Messages
    BY <1>4, <1>d DEF ChannelLost, WorkerCrash, Messages
  <2> QED  BY <1>4, <2>1, <1>r, <1>j DEF ChannelLost, WorkerCrash
<1>5. ASSUME NEW out \in Outcomes
      PROVE  /\ ~Fetch(w, out) /\ ~Reload(w, out) /\ ~WriteStatus(w, out)
             /\ \A s \in Sizes : ~SaveThumb(w, s, out)
  BY <1>b DEF Busy, Fetch, SaveThumb, Reload, WriteStatus
<1> QED  BY <1>1, <1>2, <1>3, <1>4, <1>5 DEF WorkerStep

(* A step that leaves the table, the bucket and the requests alone, and    *)
(* adds no message.                                                        *)
LEMMA NothingWritten ==
  ASSUME TypeOK, SystemInv,
         UNCHANGED <<rows, originals, req, issued, created, removed>>,
         Messages' \subseteq Messages, NothingToProcess'
  PROVE  SystemInv'
<1>1. RequestsConsistent' /\ OwnIds'
  BY DEF SystemInv, RequestsConsistent, Consistent, Unwritten, Ready, OwnIds
<1>2. StoredBeforeReady' /\ AckedIsDurable' /\ EventAfterCommit'
  BY DEF SystemInv, StoredBeforeReady, AckedIsDurable, EventAfterCommit, Ready
<1>3. AtMostOneRemoval' /\ RemovedIsDeleted'
  BY DEF SystemInv, AtMostOneRemoval, RemovedIsDeleted
<1> QED  BY <1>1, <1>2, <1>3 DEF SystemInv

(* The invariant holds of the empty stores.                                *)
LEMMA InitInv == Init => SystemInv
<1> SUFFICES ASSUME Init  PROVE SystemInv  OBVIOUS
<1>1. RequestsConsistent /\ OwnIds
  BY DEF Init, ServerInit, Idle, RequestsConsistent, Consistent, Unwritten, OwnIds
<1>2. StoredBeforeReady /\ AckedIsDurable /\ AtMostOneRemoval /\ RemovedIsDeleted
  BY DEF Init, ServerInit, StoredBeforeReady, AckedIsDurable, AtMostOneRemoval,
         RemovedIsDeleted, Ready
<1>3. EventAfterCommit /\ NothingToProcess
  BY DEF Init, WorkerInit, EventAfterCommit, Messages, NothingToProcess, Busy
<1> QED  BY <1>1, <1>2, <1>3 DEF SystemInv

(* The invariant is inductive.                                             *)
LEMMA NextInv == TypeOK /\ SystemInv /\ [Next]_vars => SystemInv'
<1> SUFFICES ASSUME TypeOK, SystemInv, [Next]_vars  PROVE SystemInv'  OBVIOUS
<1>1. CASE ServerNext /\ UNCHANGED workerVars
  BY <1>1, ServerStepInv DEF ServerNext
<1>2. CASE WorkerNext /\ UNCHANGED serverVars
  <2>1. PICK w \in Workers : WorkerStep(w)  BY <1>2 DEF WorkerNext
  <2> QED  BY <1>2, <2>1, WorkerStepFrame, NothingWritten DEF serverVars
<1>3. CASE BrokerRestart
  <2>1. Messages' \subseteq Messages /\ NothingToProcess'
    BY <1>3 DEF BrokerRestart, Disconnected, Messages, SystemInv, NothingToProcess, Busy
  <2> QED  BY <1>3, <2>1, NothingWritten DEF BrokerRestart
<1>4. CASE UNCHANGED vars
  <2>1. Messages' \subseteq Messages /\ NothingToProcess'
    BY <1>4 DEF vars, storeVars, workerVars, Messages, SystemInv, NothingToProcess, Busy
  <2> QED  BY <1>4, <2>1, NothingWritten DEF vars, storeVars, serverVars
<1> QED  BY <1>1, <1>2, <1>3, <1>4 DEF Next

(* The inductive invariant holds in every state.                           *)
THEOREM Invariance == Spec => []SystemInv
<1> QED  BY InitInv, NextInv, TypeCorrect, PTL DEF Spec

(* The safety properties of the system that the invariant contains.        *)

(* A ready row's file is in the bucket: UploadAvatar stores the file first.*)
THEOREM FilesAreStored == Spec => []StoredBeforeReady
<1>1. SystemInv => StoredBeforeReady  BY DEF SystemInv
<1> QED  BY <1>1, Invariance, PTL

(* An upload answered 201 keeps its row, whatever crashes or is lost.      *)
THEOREM UploadsAreDurable == Spec => []AckedIsDurable
<1>1. SystemInv => AckedIsDurable  BY DEF SystemInv
<1> QED  BY <1>1, Invariance, PTL

(* Of all deletions of an avatar, by any replicas, one at most succeeds.   *)
THEOREM RemovedOnce == Spec => []AtMostOneRemoval
<1>1. SystemInv => AtMostOneRemoval  BY DEF SystemInv
<1> QED  BY <1>1, Invariance, PTL

(* No event reaches the broker before its row is committed, as ready.      *)
THEOREM EventsFollowCommits == Spec => []EventAfterCommit
<1>1. SystemInv => EventAfterCommit  BY DEF SystemInv
<1> QED  BY <1>1, Invariance, PTL

(* The deployed worker never processes a file: the upload path leaves it   *)
(* none whose status is not ready.                                         *)
THEOREM WorkerHasNothingToDo == Spec => []NothingToProcess
<1>1. SystemInv => NothingToProcess  BY DEF SystemInv
<1> QED  BY <1>1, Invariance, PTL

-----------------------------------------------------------------------------
(* What a step does to the table and the bucket.                           *)

(* A step changes neither, or stores the file of an avatar that has no row *)
(* yet, or writes that row, or marks a row deleted.                        *)
RowWritten(i) ==
  \E row \in Row : /\ rows[i] = NoRow /\ rows'[i] = row /\ ~row.deleted
                   /\ row.status = "failed" \/ (row.status = "ready" /\ i \in originals)

RowDeleted(i) ==
  /\ Visible(i)
  /\ rows'[i] = [rows[i] EXCEPT !.deleted = TRUE]

Wrote(i) == /\ \A j \in Ids \ {i} : rows'[j] = rows[j]
            /\ originals' = originals

Effect ==
  \/ rows' = rows /\ originals' = originals
  \/ \E i \in Ids : rows[i] = NoRow /\ rows' = rows /\ originals' = originals \cup {i}
  \/ \E i \in Ids : (RowWritten(i) \/ RowDeleted(i)) /\ Wrote(i)

(* Those are all the effects a step has.                                   *)
LEMMA Effects ==
  ASSUME TypeOK, SystemInv, [Next]_vars
  PROVE  Effect
<1>1. CASE UNCHANGED vars \/ BrokerRestart
  BY <1>1 DEF vars, storeVars, BrokerRestart, Effect
<1>2. CASE WorkerNext
  BY <1>2, WorkerStepFrame DEF WorkerNext, Effect
<1>3. ASSUME NEW r \in Replicas, ServerStep(r)
      PROVE  Effect
  <2>c. Consistent(r)  BY DEF SystemInv, RequestsConsistent
  <2>1. CASE \E out \in Outcomes : UploadSave(r, out)
    <3>1. req[r].id \in Ids /\ rows[req[r].id] = NoRow
      BY <2>1, <2>c, UploadType DEF UploadSave, Consistent, Unwritten, TypeOK
    <3> QED  BY <2>1, <3>1 DEF UploadSave, Effect
  <2>2. ASSUME NEW status \in {"failed", "ready"}, NEW url \in BOOLEAN, NEW out \in Outcomes,
               Create(req[r].id, Avatar(r, status, url), out), originals' = originals,
               req[r].pc = IF status = "ready" THEN "create" ELSE "failed"
        PROVE  Effect
    <3> DEFINE i == req[r].id
               row == Avatar(r, status, url)
    <3>1. /\ i \in Ids /\ rows[i] = NoRow /\ row \in Row /\ ~row.deleted /\ row.status = status
          /\ status = "ready" => i \in originals
      BY <2>2, <2>c, UploadType DEF Consistent, Unwritten, Avatar, Row, TypeOK
    <3>2. rows' = rows \/ rows' = [rows EXCEPT ![i] = row]  BY <2>2 DEF Create
    <3>3. CASE rows' = [rows EXCEPT ![i] = row]
      <4>1. rows'[i] = row /\ Wrote(i)
        BY <3>1, <3>3, <2>2 DEF Wrote, TypeOK, StoresTypeOK
      <4>2. RowWritten(i)  BY <3>1, <4>1, <2>2 DEF RowWritten
      <4> QED  BY <3>1, <4>1, <4>2 DEF Effect
    <3> QED  BY <3>2, <3>3, <2>2 DEF Effect
  <2>3. CASE \E out \in Outcomes : UploadCreateFailed(r, out)
    <3>1. PICK out \in Outcomes : UploadCreateFailed(r, out)  BY <2>3
    <3> QED  BY <2>2, <3>1 DEF UploadCreateFailed
  <2>4. CASE \E out \in Outcomes : UploadCreate(r, out)
    <3>1. PICK out \in Outcomes : UploadCreate(r, out)  BY <2>4
    <3> QED  BY <2>2, <3>1 DEF UploadCreate
  <2>5. CASE \E out \in Outcomes : DeleteRow(r, out)
    <3> DEFINE i == req[r].id
    <3>1. PICK out \in Outcomes : DeleteRow(r, out)  BY <2>5
    <3>2. i \in Ids /\ originals' = originals /\ Delete(i, out)
      BY <3>1, RemovalType DEF DeleteRow, TypeOK
    <3>3. CASE rows' # rows
      <4>1. Visible(i) /\ rows' = [rows EXCEPT ![i] = [rows[i] EXCEPT !.deleted = TRUE]]
        BY <3>2, <3>3 DEF Delete
      <4>2. Wrote(i)  BY <3>2, <4>1 DEF Wrote, TypeOK, StoresTypeOK
      <4>3. rows'[i] = [rows[i] EXCEPT !.deleted = TRUE]
        BY <3>2, <4>1 DEF TypeOK, StoresTypeOK
      <4>4. RowDeleted(i)  BY <4>1, <4>3 DEF RowDeleted
      <4> QED  BY <3>2, <4>2, <4>4 DEF Effect
    <3> QED  BY <3>2, <3>3 DEF Effect
  <2>6. CASE UploadPublish(r) \/ DeletePublish(r) \/ ConnectionLost(r) \/ Restart(r)
    BY <2>6 DEF UploadPublish, DeletePublish, ConnectionLost, Restart, Effect
  <2>7. CASE \E u \in Users, k \in Kinds : UploadStart(r, u, k)
    BY <2>7 DEF UploadStart, storeVars, Effect
  <2>8. CASE \E caller, named \in Users, i \in Ids : DeleteBegin(r, caller, named, i)
    BY <2>8 DEF DeleteBegin, storeVars, Effect
  <2>9. CASE \E out \in Outcomes : DeleteLoad(r, out)
    BY <2>9 DEF DeleteLoad, Effect
  <2> QED
    BY <1>3, <2>1, <2>3, <2>4, <2>5, <2>6, <2>7, <2>8, <2>9 DEF ServerStep
<1> QED  BY <1>1, <1>2, <1>3 DEF Next, ServerNext

(* What marking an entry as removed makes of it.                           *)
LEMMA EntryRemoved ==
  ASSUME NEW s \in {"uploading", "ready", "failed"}, NEW o \in Users
  PROVE  [[state |-> s, owner |-> o, removed |-> FALSE] EXCEPT !.removed = TRUE]
           = [state |-> s, owner |-> o, removed |-> TRUE]
<1> DEFINE E == [state: {"uploading", "ready", "failed"}, owner: Users, removed: BOOLEAN]
           e == [state |-> s, owner |-> o, removed |-> FALSE]
           f == [e EXCEPT !.removed = TRUE]
           g == [state |-> s, owner |-> o, removed |-> TRUE]
<1>1. f \in E /\ f.state = s /\ f.owner = o /\ f.removed = TRUE
  <2>1. e \in E /\ e.state = s /\ e.owner = o  OBVIOUS
  <2> HIDE DEF e
  <2> QED  BY <2>1
<1>2. g \in E /\ g.state = s /\ g.owner = o /\ g.removed = TRUE  OBVIOUS
<1>3. \A x, y \in E :
        x.state = y.state /\ x.owner = y.owner /\ x.removed = y.removed => x = y
  OBVIOUS
<1>4. f = g
  <2> HIDE DEF f, g, E
  <2> QED  BY <1>1, <1>2, <1>3
<1> QED  BY <1>4

(* The system implements the catalogue.                                    *)
THEOREM CatalogueImplemented == Spec => ImplementsCatalogue
<1> DEFINE entries == [i \in Ids |-> Entry(i)]
<1>1. Init => Catalogue!Init
  BY DEF Init, Catalogue!Init, Catalogue!Unlisted, Entry
<1>2. TypeOK /\ SystemInv /\ [Next]_vars => [Catalogue!Next]_(Catalogue!vars)
  <2> SUFFICES ASSUME TypeOK, SystemInv, [Next]_vars
               PROVE  [Catalogue!Next]_(Catalogue!vars)
    OBVIOUS
  <2>1. CASE rows' = rows /\ originals' = originals
    BY <2>1 DEF Catalogue!vars, Entry
  <2>2. ASSUME NEW i \in Ids, rows[i] = NoRow, rows' = rows, originals' = originals \cup {i}
        PROVE  Catalogue!Store(i)
    BY <2>2 DEF Catalogue!Store, Catalogue!Unlisted, Entry
  <2>3. ASSUME NEW i \in Ids, \A j \in Ids \ {i} : rows'[j] = rows[j]
        PROVE  entries' = [entries EXCEPT ![i] = Entry(i)']
    BY <2>3 DEF Entry
  <2>4. ASSUME NEW i \in Ids, RowWritten(i),
               \A j \in Ids \ {i} : rows'[j] = rows[j], originals' = originals
        PROVE  \E u \in Users, s \in {"ready", "failed"} : Catalogue!List(i, u, s)
    <3>1. PICK row \in Row : /\ rows[i] = NoRow /\ rows'[i] = row /\ ~row.deleted
                             /\ row.status = "failed"
                                \/ (row.status = "ready" /\ i \in originals)
      BY <2>4 DEF RowWritten
    <3>2. row # NoRow /\ row.owner \in Users /\ row.deleted = FALSE
      BY <3>1 DEF Row, NoRow
    <3>3. Entry(i)' = [state |-> row.status, owner |-> row.owner, removed |-> FALSE]
      BY <3>1, <3>2 DEF Entry
    <3>4. entries[i] = [state |-> "unlisted"]  BY <3>1 DEF Entry
    <3>5. Catalogue!List(i, row.owner, row.status)
      BY <3>1, <3>3, <3>4, <2>3, <2>4 DEF Catalogue!List, Catalogue!Unlisted
    <3> QED  BY <3>1, <3>2, <3>5
  <2>5. ASSUME NEW i \in Ids, RowDeleted(i),
               \A j \in Ids \ {i} : rows'[j] = rows[j], originals' = originals
        PROVE  Catalogue!Remove(i)
    <3>1. /\ rows[i] # NoRow /\ rows[i] \in Row /\ rows[i].deleted = FALSE
          /\ rows'[i] = [rows[i] EXCEPT !.deleted = TRUE]
      BY <2>5, RowType DEF RowDeleted, Visible, TypeOK
    <3>2. /\ rows'[i].status = rows[i].status /\ rows'[i].owner = rows[i].owner
          /\ rows'[i].deleted = TRUE /\ rows'[i] \in Row
      BY <3>1 DEF Row
    <3>3. rows'[i] # NoRow  BY <3>2 DEF Row, NoRow
    <3>4. entries[i] = [state |-> rows[i].status, owner |-> rows[i].owner, removed |-> FALSE]
      BY <3>1 DEF Entry
    <3>5. Entry(i)' = [entries[i] EXCEPT !.removed = TRUE]
      <4>1. Entry(i)' = [state |-> rows[i].status, owner |-> rows[i].owner, removed |-> TRUE]
        BY <3>2, <3>3 DEF Entry
      <4>2. rows[i].status \in {"uploading", "ready", "failed"} /\ rows[i].owner \in Users
        BY <3>1 DEF Row
      <4> HIDE DEF entries
      <4> QED  BY <3>4, <4>1, <4>2, EntryRemoved
    <3>6. entries[i] # [state |-> "unlisted"]
      <4>1. rows[i].status # "unlisted"  BY <3>1 DEF Row
      <4> QED  BY <3>4, <4>1
    <3>7. ~entries[i].removed  BY <3>4
    <3> QED
      BY <3>5, <3>6, <3>7, <2>3, <2>5 DEF Catalogue!Remove, Catalogue!Unlisted
  <2> QED  BY <2>1, <2>2, <2>4, <2>5, Effects DEF Effect, Wrote, Catalogue!Next
<1> QED
  BY <1>1, <1>2, TypeCorrect, Invariance, PTL
  DEF Spec, ImplementsCatalogue, Catalogue!Spec
=============================================================================
