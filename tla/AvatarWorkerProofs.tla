------------------------ MODULE AvatarWorkerProofs -------------------------
(***************************************************************************)
(* Lemmas about AvatarWorker, whatever it is composed with: what a step of *)
(* a worker does to the types.  AvatarSystemProofs and WorkerAloneProofs   *)
(* rest on them.                                                           *)
(***************************************************************************)
EXTENDS AvatarWorker, TLAPS

(* What a row that is there is made of.                                    *)
LEMMA RowType ==
  ASSUME StoresTypeOK, NEW i \in Ids, rows[i] # NoRow
  PROVE  /\ rows[i] \in Row
         /\ rows[i].owner \in Users /\ rows[i].kind \in Kinds 
         /\ rows[i].url \in BOOLEAN /\ rows[i].deleted \in BOOLEAN
         /\ rows[i].status \in {"uploading", "ready", "failed"}
         /\ [rows[i] EXCEPT !.deleted = TRUE] \in Row
<1>1. rows[i] \in Row  BY DEF StoresTypeOK
<1> QED  BY <1>1 DEF Row

(* A call counts at most one mishap more.                                  *)
LEMMA CalledType ==
  ASSUME mishaps \in Nat, NEW out, Called(out)
  PROVE  mishaps' \in Nat
BY DEF Called, Mishap

(* What the file a worker is processing is made of.                        *)
LEMMA JobType ==
  ASSUME WorkerTypeOK, NEW w \in Workers, Busy(w)
  PROVE  /\ job[w] \in Job
         /\ job[w].msg \in Message /\ job[w].msg.id \in Ids /\ job[w].todo \subseteq Sizes
         /\ \A pc \in {"thumbs", "reload"}, s \in SUBSET Sizes :
              /\ [job[w] EXCEPT !.pc = pc] \in Job
              /\ [job[w] EXCEPT !.todo = s, !.pc = pc] \in Job
         /\ \A url \in BOOLEAN : [job[w] EXCEPT !.pc = "write", !.url = url] \in Job
<1>1. job[w] \in Resting \cup Job  BY DEF WorkerTypeOK
<1>2. job[w] \notin Resting  BY DEF Busy, Resting
<1>3. job[w] \in Job  BY <1>1, <1>2
<1> QED  BY <1>3 DEF Job, Event, Message

(* Settling a message, either way, leaves only messages behind.            *)
LEMMA SettleType ==
  ASSUME WorkerTypeOK, StoresTypeOK, NEW w \in Workers, NEW m \in Message,
         Ack(w, m) \/ Requeue(w, m)
  PROVE  unacked' \in [Workers -> SUBSET Message] /\ queue' \subseteq Message
BY DEF Ack, Requeue, WorkerTypeOK, StoresTypeOK

(* So does losing any set of channels.                                     *)
LEMMA DisconnectedType ==
  ASSUME WorkerTypeOK, NEW W, Disconnected(W)
  PROVE  chan' \in [Workers -> BOOLEAN] /\ unacked' \in [Workers -> SUBSET Message]
BY DEF Disconnected, WorkerTypeOK

(* The types hold after any step of a worker.                              *)
LEMMA WorkerStepType ==
  ASSUME StoresTypeOK, WorkerTypeOK, NEW w \in Workers, WorkerStep(w)
  PROVE  StoresTypeOK' /\ WorkerTypeOK'
<1>r. \A pc \in {"down", "idle", "ended"} : [pc |-> pc] \in Resting  BY DEF Resting
<1>1. CASE WorkerStart(w)
  BY <1>1, <1>r DEF WorkerStart, Rest, WorkerTypeOK, StoresTypeOK
<1>2. CASE StartFails(w)
  <2>1. bound' \in BOOLEAN  BY <1>2, Zenon DEF StartFails, StoresTypeOK
  <2>2. job' \in [Workers -> Resting \cup Job]
    BY <1>2, <1>r DEF StartFails, WorkerTypeOK
  <2> QED  BY <1>2, <2>1, <2>2 DEF StartFails, Mishap, WorkerTypeOK, StoresTypeOK
<1>3. CASE \E m \in Message : Deliver(w, m)
  BY <1>3 DEF Deliver, WorkerTypeOK, StoresTypeOK
<1>4. CASE \E m \in Message, out \in Outcomes : Lookup(w, m, out)
  <2>1. PICK m \in Message, out \in Outcomes : Lookup(w, m, out)  BY <1>4
  <2>2. job' \in [Workers -> Resting \cup Job]
    <3>1. CASE UNCHANGED job  BY <3>1 DEF WorkerTypeOK
    <3>2. CASE m.id # 0 /\ Begin(w, m)
      <4>1. m \in Event  BY <3>2 DEF Message, Event
      <4>2. [pc |-> IF IsImage(m) THEN "fetch" ELSE "reload",
             msg |-> m, todo |-> Sizes, url |-> FALSE] \in Job
        BY <4>1 DEF Job
      <4> QED  BY <3>2, <4>2 DEF Begin, WorkerTypeOK
    <3> QED  BY <2>1, <3>1, <3>2 DEF Lookup
  <2>3. unacked' \in [Workers -> SUBSET Message] /\ queue' \subseteq Message
    <3>1. CASE Ack(w, m) \/ Requeue(w, m)  BY <3>1, SettleType
    <3>2. CASE UNCHANGED <<unacked, queue>>  BY <3>2 DEF WorkerTypeOK, StoresTypeOK
    <3> QED  BY <2>1, <3>1, <3>2 DEF Lookup
  <2> QED  BY <2>1, <2>2, <2>3, CalledType DEF Lookup, WorkerTypeOK, StoresTypeOK
<1>5. CASE \E out \in Outcomes : Fetch(w, out)
  <2>1. PICK out \in Outcomes : Fetch(w, out)  BY <1>5
  <2>2. Busy(w)  BY <2>1 DEF Fetch, Busy
  <2>3. job' \in [Workers -> Resting \cup Job]
    <3>1. [job[w] EXCEPT !.pc = "thumbs"] \in Job  BY <2>2, JobType
    <3> QED  BY <2>1, <3>1, <1>r DEF Fetch, Continue, Rest, WorkerTypeOK
  <2>4. unacked' \in [Workers -> SUBSET Message] /\ queue' \subseteq Message
    <3>1. CASE Requeue(w, job[w].msg)  BY <3>1, <2>2, JobType, SettleType
    <3>2. CASE UNCHANGED <<unacked, queue>>  BY <3>2 DEF WorkerTypeOK, StoresTypeOK
    <3> QED  BY <2>1, <3>1, <3>2 DEF Fetch
  <2> QED  BY <2>1, <2>3, <2>4, CalledType DEF Fetch, WorkerTypeOK, StoresTypeOK
<1>6. CASE \E s \in Sizes, out \in Outcomes : SaveThumb(w, s, out)
  <2>1. PICK s \in Sizes, out \in Outcomes : SaveThumb(w, s, out)  BY <1>6
  <2>2. Busy(w)  BY <2>1 DEF SaveThumb, Busy
  <2>3. job' \in [Workers -> Resting \cup Job]
    BY <2>1, <2>2, JobType DEF SaveThumb, WorkerTypeOK
  <2>4. thumbs' \subseteq Ids \X Sizes
    <3>1. <<job[w].msg.id, s>> \in Ids \X Sizes  BY <2>2, JobType
    <3> QED  BY <2>1, <3>1 DEF SaveThumb, StoresTypeOK
  <2> QED  BY <2>1, <2>3, <2>4, CalledType DEF SaveThumb, WorkerTypeOK, StoresTypeOK
<1>7. CASE \E out \in Outcomes : Reload(w, out)
  <2>1. PICK out \in Outcomes : Reload(w, out)  BY <1>7
  <2>2. Busy(w)  BY <2>1 DEF Reload, Busy
  <2>3. job' \in [Workers -> Resting \cup Job]
    <3>1. CASE out = "ok" /\ Visible(job[w].msg.id)
      <4>1. rows[job[w].msg.id].url \in BOOLEAN
        BY <2>2, <3>1, JobType, RowType DEF Visible
      <4> QED  BY <2>1, <2>2, <3>1, <4>1, JobType DEF Reload, WorkerTypeOK
    <3>2. CASE ~(out = "ok" /\ Visible(job[w].msg.id))
      BY <2>1, <3>2, <1>r DEF Reload, Rest, WorkerTypeOK
    <3> QED  BY <3>1, <3>2
  <2>4. unacked' \in [Workers -> SUBSET Message] /\ queue' \subseteq Message
    <3>1. CASE StatusFailed(w)  BY <3>1, <2>2, JobType, SettleType DEF StatusFailed
    <3>2. CASE UNCHANGED <<unacked, queue>>  BY <3>2 DEF WorkerTypeOK, StoresTypeOK
    <3> QED  BY <2>1, <3>1, <3>2 DEF Reload
  <2> QED  BY <2>1, <2>3, <2>4, CalledType DEF Reload, WorkerTypeOK, StoresTypeOK
<1>8. CASE \E out \in Outcomes : WriteStatus(w, out)
  <2>1. PICK out \in Outcomes : WriteStatus(w, out)  BY <1>8
  <2>2. Busy(w)  BY <2>1 DEF WriteStatus, Busy
  <2>3. job' \in [Workers -> Resting \cup Job]
    BY <2>1, <1>r DEF WriteStatus, Rest, WorkerTypeOK
  <2>4. unacked' \in [Workers -> SUBSET Message] /\ queue' \subseteq Message
    BY <2>1, <2>2, JobType, SettleType DEF WriteStatus, StatusFailed
  <2>5. rows' \in [Ids -> Row \cup {NoRow}]
    <3> DEFINE i == job[w].msg.id
               new == [rows[i] EXCEPT !.status = "ready", !.url = job[w].url]
    <3>1. i \in Ids /\ job[w].url \in BOOLEAN  BY <2>2, JobType DEF Job
    <3>2. rows[i] # NoRow => new \in Row  BY <3>1, RowType DEF Row
    <3>3. rows' = rows \/ (rows[i] # NoRow /\ rows' = [rows EXCEPT ![i] = new])
      BY <2>1, <3>1 DEF WriteStatus, Update, StoresTypeOK
    <3> QED  BY <3>1, <3>2, <3>3 DEF StoresTypeOK
  <2> QED  BY <2>1, <2>3, <2>4, <2>5, CalledType DEF WriteStatus, WorkerTypeOK, StoresTypeOK
<1>9. CASE ChannelLost(w)
  BY <1>9, DisconnectedType DEF ChannelLost, Mishap, WorkerTypeOK, StoresTypeOK
<1>10. CASE LoopEnds(w)
  BY <1>10, <1>r DEF LoopEnds, storeVars, WorkerTypeOK, StoresTypeOK
<1>11. CASE WorkerCrash(w)
  BY <1>11, <1>r, DisconnectedType DEF WorkerCrash, Mishap, WorkerTypeOK, StoresTypeOK
<1> QED
  BY <1>1, <1>2, <1>3, <1>4, <1>5, <1>6, <1>7, <1>8, <1>9, <1>10, <1>11 DEF WorkerStep

=============================================================================
