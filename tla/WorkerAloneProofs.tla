------------------------- MODULE WorkerAloneProofs -------------------------
(***************************************************************************)
(* Theorems about WorkerAlone, for any number of workers, avatars and      *)
(* sizes, any failures and any number of them.                             *)
(***************************************************************************)
EXTENDS WorkerAlone, AvatarWorkerProofs

(* No call to Postgres or MinIO fails; processes, channels and the         *)
(* connections to the broker may.                                          *)
CallsSucceed == {"error", "lost"} \cap Mishaps = {}

(* A message, in the broker or at a worker, and the file being processed,  *)
(* are about a row that is there, and say of it what the row says.         *)
Truthful(m) == m.id # 0 => rows[m.id] # NoRow /\ rows[m.id].kind = m.kind

MessagesTruthful ==
  /\ \A m \in Held : Truthful(m)
  /\ \A w \in Workers : Busy(w) => Truthful(job[w].msg)

(* What a worker has done of a picture is in the bucket.                   *)
ThumbsSaved ==
  \A w \in Workers : Busy(w) /\ job[w].msg.kind = "picture" =>
    /\ {job[w].msg.id} \X (Sizes \ job[w].todo) \subseteq thumbs
    /\ job[w].pc \in {"reload", "write"} => job[w].todo = {}

-----------------------------------------------------------------------------

(* Rows keep what the processing does not write.                           *)
RowsKept == \A i \in Ids : rows[i] # NoRow => rows'[i] # NoRow /\ rows'[i].kind = rows[i].kind

(* A delete of the owner only marks its row, an update of a worker only    *)
(* makes its row ready.                                                    *)
LEMMA OwnerDeletesEffect ==
  ASSUME TypeOK, NEW i \in Ids, OwnerDeletes(i)
  PROVE  TypeOK' /\ RowsKept /\ Forward /\ \A j \in Ids : rows'[j].status = rows[j].status
<1>1. Visible(i) /\ rows[i] # NoRow  BY DEF OwnerDeletes, Visible
<1>2. rows' = [rows EXCEPT ![i].deleted = TRUE]
  BY <1>1 DEF OwnerDeletes, Delete, Applied
<1>3. rows[i] \in Row /\ rows'[i] = [rows[i] EXCEPT !.deleted = TRUE] /\ rows'[i] \in Row
  BY <1>1, <1>2, RowType DEF TypeOK, StoresTypeOK
<1>4. /\ rows'[i].deleted /\ rows'[i].kind = rows[i].kind /\ rows'[i].status = rows[i].status
      /\ rows'[i] # NoRow
  BY <1>3 DEF Row, NoRow
<1>5. \A j \in Ids \ {i} : rows'[j] = rows[j]  BY <1>2 DEF TypeOK, StoresTypeOK
<1>6. TypeOK'
  BY <1>2, <1>3 DEF OwnerDeletes, TypeOK, StoresTypeOK, WorkerTypeOK, workerVars
<1> QED  BY <1>4, <1>5, <1>6 DEF RowsKept, Forward

LEMMA WriteStatusEffect ==
  ASSUME TypeOK, NEW w \in Workers, NEW out \in Outcomes, WriteStatus(w, out),
         NEW i, i = job[w].msg.id
  PROVE  /\ RowsKept /\ Forward /\ i \in Ids
         /\ \A j \in Ids \ {i} : rows'[j] = rows[j]
         /\ rows[i] = NoRow => rows'[i] = NoRow
         /\ out = "ok" => Done(i)'
<1> DEFINE new == [rows EXCEPT ![i].status = "ready", ![i].url = job[w].url]
<1>1. i \in Ids /\ job[w].url \in BOOLEAN
  <2>1. Busy(w)  BY DEF WriteStatus, Busy
  <2> QED  BY <2>1, JobType DEF TypeOK, Job
<1>2. rows' = IF Applied(out) /\ rows[i] # NoRow THEN new ELSE rows
  BY SMTT(30) DEF WriteStatus, Update
<1>3. CASE ~(Applied(out) /\ rows[i] # NoRow)
  BY <1>1, <1>2, <1>3 DEF RowsKept, Forward, Done, Visible, Applied
<1>4. CASE Applied(out) /\ rows[i] # NoRow
  <2>1. rows[i] \in Row  BY <1>1, <1>4, RowType DEF TypeOK
  <2>2. /\ rows'[i].status = "ready" /\ rows'[i].deleted = rows[i].deleted
        /\ rows'[i].kind = rows[i].kind /\ rows'[i] \in Row
    BY <1>1, <1>2, <1>4, <2>1 DEF TypeOK, StoresTypeOK, Row
  <2>3. rows'[i] # NoRow  BY <2>2 DEF Row, NoRow
  <2>4. \A j \in Ids \ {i} : rows'[j] = rows[j]  BY <1>2, <1>4 DEF TypeOK, StoresTypeOK
  <2> QED  BY <1>1, <1>4, <2>2, <2>3, <2>4 DEF RowsKept, Forward, Done
<1> QED  BY <1>3, <1>4

(* No other step of a worker writes a row.                                 *)
LEMMA WorkerStepEffect ==
  ASSUME TypeOK, NEW w \in Workers, WorkerStep(w)
  PROVE  RowsKept /\ Forward /\ \A i \in Ids : Done(i) => Done(i)'
<1>1. CASE \E out \in Outcomes : WriteStatus(w, out)
  <2>1. RowsKept /\ Forward  BY <1>1, WriteStatusEffect
  <2>2. \A i \in Ids : rows[i] = NoRow => rows'[i] = NoRow
    BY <1>1, WriteStatusEffect
  <2> QED  BY <2>1, <2>2 DEF Forward, Done, Visible
<1>2. CASE rows' = rows
  BY <1>2 DEF RowsKept, Forward, Done, Visible
<1>3. (\E out \in Outcomes : WriteStatus(w, out)) \/ rows' = rows
  BY DEF WorkerStep, WorkerStart, StartFails, Deliver, Lookup, Fetch, SaveThumb, Reload,
         ChannelLost, LoopEnds, WorkerCrash, storeVars
<1> QED  BY <1>1, <1>2, <1>3

LEMMA NextEffect ==
  ASSUME TypeOK, [Next]_vars
  PROVE  TypeOK' /\ RowsKept /\ Forward /\ \A i \in Ids : Done(i) => Done(i)'
<1>1. CASE WorkerNext
  BY <1>1, WorkerStepEffect, WorkerStepType DEF WorkerNext, TypeOK
<1>2. CASE \E i \in Ids : OwnerDeletes(i)
  <2>1. PICK i \in Ids : OwnerDeletes(i)  BY <1>2
  <2>2. TypeOK' /\ RowsKept /\ Forward  BY <2>1, OwnerDeletesEffect
  <2>3. \A j \in Ids : rows[j] = NoRow => rows'[j] = NoRow
    BY <2>1 DEF OwnerDeletes, Visible, Delete, TypeOK, StoresTypeOK
  <2> QED  BY <2>2, <2>3 DEF Forward, Done, Visible
<1>3. CASE UNCHANGED vars
  BY <1>3 DEF vars, storeVars, workerVars, TypeOK, StoresTypeOK, WorkerTypeOK,
              RowsKept, Forward, Done, Visible
<1> QED  BY <1>1, <1>2, <1>3 DEF Next

-----------------------------------------------------------------------------
(* What becomes of the messages.                                           *)

(* Settling gives up the message at most; requeueing gives up nothing.     *)
LEMMA SettlingHeld ==
  ASSUME TypeOK, NEW w \in Workers, NEW m
  PROVE  /\ Ack(w, m) => Held' \subseteq Held /\ Held \ Held' \subseteq {m}
         /\ Requeue(w, m) => Held' = Held
<1>1. unacked \in [Workers -> SUBSET Message]  BY DEF TypeOK, WorkerTypeOK
<1>2. ASSUME unacked' = [unacked EXCEPT ![w] = @ \ {m}]
      PROVE  UNION {unacked'[v] : v \in Workers} \subseteq UNION {unacked[v] : v \in Workers}
             /\ UNION {unacked[v] : v \in Workers} \ UNION {unacked'[v] : v \in Workers}
                  \subseteq {m}
             /\ m \notin unacked[w] =>
                  UNION {unacked[v] : v \in Workers} = UNION {unacked'[v] : v \in Workers}
  <2>1. \A v \in Workers : unacked'[v] = IF v = w THEN unacked[w] \ {m} ELSE unacked[v]
    BY <1>1, <1>2
  <2> QED  BY <2>1
<1>3. Ack(w, m) => Held' \subseteq Held /\ Held \ Held' \subseteq {m}
  BY <1>2 DEF Ack, Held
<1>4. ASSUME Requeue(w, m)  PROVE Held' = Held
  <2>1. CASE m \in unacked[w]
    <3>1. m \in UNION {unacked[v] : v \in Workers}  BY <2>1
    <3> QED  BY <1>2, <1>4, <2>1, <3>1 DEF Requeue, Held
  <2>2. CASE m \notin unacked[w]  BY <1>2, <1>4, <2>2 DEF Requeue, Held
  <2> QED  BY <2>1, <2>2
<1> QED  BY <1>3, <1>4

(* So do a delivery, and the loss of a channel.                            *)
LEMMA MovingHeld ==
  ASSUME TypeOK, NEW w \in Workers,
         \/ \E m \in Message : Deliver(w, m)
         \/ ChannelLost(w) \/ WorkerCrash(w)
  PROVE  Held' = Held
<1>1. unacked \in [Workers -> SUBSET Message]  BY DEF TypeOK, WorkerTypeOK
<1>2. ASSUME NEW m \in Message, Deliver(w, m)  PROVE Held' = Held
  <2>1. \A v \in Workers : unacked'[v] = IF v = w THEN unacked[w] \cup {m} ELSE unacked[v]
    BY <1>1, <1>2 DEF Deliver
  <2>2. m \in queue /\ queue' = queue \ {m}  BY <1>2 DEF Deliver
  <2> QED  BY <2>1, <2>2 DEF Held
<1>3. ASSUME ChannelLost(w) \/ WorkerCrash(w)  PROVE Held' = Held
  <2>1. \A v \in Workers : unacked'[v] = IF v = w THEN {} ELSE unacked[v]
    BY <1>3 DEF ChannelLost, WorkerCrash, Disconnected
  <2>2. queue' = queue \cup unacked[w]  BY <1>3 DEF ChannelLost, WorkerCrash
  <2> QED  BY <2>1, <2>2 DEF Held
<1> QED  BY <1>2, <1>3

(* A message is not given up before what it asks for is done, but for that *)
(* of an image whose status cannot be written.                             *)
LEMMA HeldKept ==
  ASSUME TypeOK, NEW w \in Workers, WorkerStep(w)
  PROVE  /\ Held' \subseteq Held
         /\ \A m \in Held \ Held' :
              m.id = 0 \/ Done(m.id)' \/ (m.kind # "document" /\ ~CallsSucceed)
<1>k. RowsKept /\ Forward /\ \A i \in Ids : Done(i) => Done(i)'  BY WorkerStepEffect
<1>f. ASSUME NEW out \in Outcomes, Called(out), out # "ok"  PROVE ~CallsSucceed
  BY <1>f DEF Called, Mishap, CallsSucceed, Outcomes
<1>s. \A m : StatusFailed(w) /\ m \in Held \ Held' => m = job[w].msg /\ m.kind # "document"
  BY SettlingHeld DEF StatusFailed, IsImage
<1>t. StatusFailed(w) => Held' \subseteq Held
  BY SettlingHeld DEF StatusFailed
<1>1. CASE \/ WorkerStart(w) \/ StartFails(w) \/ LoopEnds(w)
           \/ \E s \in Sizes, out \in Outcomes : SaveThumb(w, s, out)
  <2>1. UNCHANGED <<queue, unacked>>
    BY <1>1 DEF WorkerStart, StartFails, LoopEnds, SaveThumb, storeVars
  <2> QED  BY <2>1 DEF Held
<1>2. CASE \/ \E m \in Message : Deliver(w, m)
           \/ ChannelLost(w) \/ WorkerCrash(w)
  BY <1>2, MovingHeld
<1>3. CASE \E m \in Message, out \in Outcomes : Lookup(w, m, out)
  <2>1. PICK m \in Message, out \in Outcomes : Lookup(w, m, out)  BY <1>3
  <2>2. CASE Requeue(w, m)  BY <2>2, SettlingHeld
  <2>3. CASE UNCHANGED <<unacked, queue>>  BY <2>3 DEF Held
  <2>4. CASE m.id = 0 /\ Ack(w, m)  BY <2>4, SettlingHeld
  <2>5. CASE m.id # 0 /\ Ack(w, m) /\ ~(Visible(m.id) /\ rows[m.id].status # "ready")
    <3>1. m.id \in Ids  BY <2>5 DEF Message
    <3>2. Done(m.id)  BY <2>5 DEF Done
    <3>3. \A n \in Held \ Held' : n = m  BY <2>5, SettlingHeld
    <3> QED  BY <1>k, <2>5, <3>1, <3>2, <3>3, SettlingHeld
  <2> QED  BY <2>1, <2>2, <2>3, <2>4, <2>5 DEF Lookup
<1>4. CASE \E out \in Outcomes : Fetch(w, out)
  BY <1>4, SettlingHeld DEF Fetch, Held
<1>5. CASE \E out \in Outcomes : Reload(w, out)
  <2>1. PICK out \in Outcomes : Reload(w, out)  BY <1>5
  <2>2. CASE UNCHANGED <<unacked, queue>>  BY <2>2 DEF Held
  <2>3. CASE StatusFailed(w) /\ out # "ok"
    BY <1>f, <1>s, <1>t, <2>1, <2>3 DEF Reload
  <2>4. CASE StatusFailed(w) /\ ~Visible(job[w].msg.id)
    <3>1. job[w].msg.id \in Ids
      <4>1. Busy(w)  BY <2>1 DEF Reload, Busy
      <4> QED  BY <4>1, JobType DEF TypeOK
    <3>2. Done(job[w].msg.id)  BY <2>4 DEF Done
    <3>3. \A m \in Held \ Held' : Done(m.id)'
      <4> SUFFICES ASSUME NEW m \in Held \ Held'  PROVE Done(m.id)'  OBVIOUS
      <4>1. m.id \in Ids /\ Done(m.id)  BY <1>s, <2>4, <3>1, <3>2
      <4> QED  BY <1>k, <4>1
    <3> QED  BY <1>t, <2>4, <3>3
  <2> QED  BY <2>1, <2>2, <2>3, <2>4 DEF Reload
<1>6. CASE \E out \in Outcomes : WriteStatus(w, out)
  <2>1. PICK out \in Outcomes : WriteStatus(w, out)  BY <1>6
  <2>2. CASE out # "ok"  BY <1>f, <1>s, <1>t, <2>1, <2>2 DEF WriteStatus
  <2>3. CASE out = "ok"
    <3>1. Ack(w, job[w].msg)  BY <2>1, <2>3 DEF WriteStatus
    <3>2. \A m \in Held \ Held' : m.id = job[w].msg.id  BY <3>1, SettlingHeld
    <3>3. \A m \in Held \ Held' : Done(m.id)'
      <4> SUFFICES ASSUME NEW m \in Held \ Held'  PROVE Done(m.id)'  OBVIOUS
      <4> DEFINE i == m.id
      <4>1. i = job[w].msg.id  BY <3>2
      <4> HIDE DEF i
      <4>2. Done(i)'  BY <2>1, <2>3, <4>1, WriteStatusEffect
      <4> QED  BY <4>2 DEF i
    <3> QED  BY <3>1, <3>3, SettlingHeld
  <2> QED  BY <2>2, <2>3
<1> QED  BY <1>1, <1>2, <1>3, <1>4, <1>5, <1>6 DEF WorkerStep

-----------------------------------------------------------------------------
(* What the messages say, and what has been done of them.                  *)

(* A message stays true of a row that is kept.                             *)
LEMMA TruthStays ==
  ASSUME RowsKept, NEW m \in Message, Truthful(m)
  PROVE  Truthful(m)'
BY DEF RowsKept, Truthful, Message

(* What a worker works on, it has got as a message.                        *)
LEMMA JobsFromHeld ==
  ASSUME TypeOK, NEW w \in Workers, WorkerStep(w), NEW v \in Workers, Busy(v)'
  PROVE  \/ Busy(v) /\ job'[v].msg = job[v].msg
         \/ job'[v].msg \in Held /\ job'[v].msg \in Message
<1> DEFINE Calls == \E out \in Outcomes : \/ Fetch(w, out) \/ Reload(w, out) \/ WriteStatus(w, out)
                                         \/ \E s \in Sizes : SaveThumb(w, s, out)
<1>t. job \in [Workers -> Resting \cup Job]  BY DEF TypeOK, WorkerTypeOK
<1>1. CASE job' = job  BY <1>1 DEF Busy
<1>2. CASE \E pc \in {"down", "idle", "ended"} : job' = [job EXCEPT ![w] = [pc |-> pc]]
  BY <1>t, <1>2 DEF Busy
<1>3. CASE \E m \in Message, out \in Outcomes : Lookup(w, m, out)
  <2>1. PICK m \in Message, out \in Outcomes : Lookup(w, m, out)  BY <1>3
  <2>2. CASE Begin(w, m)
    <3>1. m \in Held  BY <2>1 DEF Lookup, Held
    <3>2. CASE v = w
      <4>1. job'[w].msg = m  BY <1>t, <2>2 DEF Begin
      <4> QED  BY <3>1, <3>2, <4>1
    <3>3. CASE v # w  BY <1>t, <2>2, <3>3 DEF Begin, Busy
    <3> QED  BY <3>2, <3>3
  <2> QED  BY <1>1, <2>1, <2>2 DEF Lookup
<1>4. CASE Calls
  <2>1. Busy(w)  BY <1>4 DEF Fetch, Reload, WriteStatus, SaveThumb, Busy
  <2>2. job[w] \in Job  BY <2>1, JobType DEF TypeOK
  <2>3. \/ Rest(w)
        \/ \E pc : job' = [job EXCEPT ![w].pc = pc]
        \/ \E pc, url : job' = [job EXCEPT ![w].pc = pc, ![w].url = url]
        \/ \E pc, todo : job' = [job EXCEPT ![w].todo = todo, ![w].pc = pc]
    BY <1>4 DEF Fetch, Reload, WriteStatus, SaveThumb, Continue
  <2>4. CASE Rest(w)  BY <1>2, <2>4 DEF Rest
  <2>5. CASE ~Rest(w)
    <3>1. \A u \in Workers \ {w} : job'[u] = job[u]  BY <1>t, <2>3, <2>5
    <3>2. job'[w].msg = job[w].msg  BY <1>t, <2>2, <2>3, <2>5, ZenonT(60) DEF Job
    <3> QED  BY <2>1, <3>1, <3>2 DEF Busy
  <2> QED  BY <2>4, <2>5
<1>5. CASE WorkerStart(w) \/ StartFails(w) \/ LoopEnds(w) \/ WorkerCrash(w)
  BY <1>2, <1>5 DEF WorkerStart, StartFails, LoopEnds, WorkerCrash, Rest
<1>6. CASE ChannelLost(w) \/ \E m \in Message : Deliver(w, m)
  BY <1>1, <1>6 DEF ChannelLost, Deliver
<1> QED  BY <1>3, <1>4, <1>5, <1>6 DEF WorkerStep

(* Messages and jobs stay truthful.                                        *)
LEMMA TruthKept ==
  ASSUME TypeOK, MessagesTruthful, [Next]_vars
  PROVE  MessagesTruthful'
<1>k. RowsKept  BY NextEffect
<1>h. Held \subseteq Message  BY DEF Held, TypeOK, StoresTypeOK, WorkerTypeOK
<1>j. \A v \in Workers : Busy(v) => job[v].msg \in Message  BY JobType DEF TypeOK
<1>1. CASE WorkerNext
  <2>1. PICK w \in Workers : WorkerStep(w)  BY <1>1 DEF WorkerNext
  <2>2. Held' \subseteq Held  BY <2>1, HeldKept
  <2>3. \A m \in Held' : Truthful(m)'  BY <1>k, <1>h, <2>2, TruthStays DEF MessagesTruthful
  <2>4. ASSUME NEW v \in Workers, Busy(v)'  PROVE Truthful(job[v].msg)'
    <3> DEFINE m == job'[v].msg
    <3>1. m \in Message /\ Truthful(m)
      BY <1>h, <1>j, <2>1, <2>4, JobsFromHeld DEF MessagesTruthful
    <3> QED  BY <1>k, <3>1 DEF RowsKept, Truthful, Message
  <2> QED  BY <2>3, <2>4 DEF MessagesTruthful
<1>2. CASE (\E i \in Ids : OwnerDeletes(i)) \/ UNCHANGED vars
  <2>1. UNCHANGED <<queue, unacked, job>>
    BY <1>2 DEF OwnerDeletes, vars, storeVars, workerVars
  <2>2. \A m \in Message : Truthful(m) => Truthful(m)'  BY <1>k, TruthStays
  <2>3. Held' = Held /\ \A v \in Workers : Busy(v)' => Busy(v)  BY <2>1 DEF Held, Busy
  <2>4. \A v \in Workers : Busy(v)' => Truthful(job[v].msg)'
    BY <1>k, <1>j, <2>1, <2>3 DEF MessagesTruthful, RowsKept, Truthful, Message
  <2> QED  BY <1>h, <2>2, <2>3, <2>4 DEF MessagesTruthful
<1> QED  BY <1>1, <1>2 DEF Next

(* Thumbnails stay.                                                        *)
LEMMA ThumbsGrow ==
  ASSUME [Next]_vars
  PROVE  thumbs \subseteq thumbs'
BY
DEF Next, WorkerNext, WorkerStep, OwnerDeletes, vars, WorkerStart, StartFails, Deliver,
    Lookup,
       Fetch, SaveThumb, Reload, WriteStatus, ChannelLost, LoopEnds, WorkerCrash, storeVars

(* A worker that gets on with a picture leaves what it has done behind.    *)
LEMMA ThumbsSavedKept ==
  ASSUME CallsSucceed, TypeOK, ThumbsSaved, [Next]_vars
  PROVE  ThumbsSaved'
<1> DEFINE Saved(v) == Busy(v) /\ job[v].msg.kind = "picture" =>
                         /\ {job[v].msg.id} \X (Sizes \ job[v].todo) \subseteq thumbs
                         /\ job[v].pc \in {"reload", "write"} => job[v].todo = {}
<1>t. job \in [Workers -> Resting \cup Job]  BY DEF TypeOK, WorkerTypeOK
<1>g. thumbs \subseteq thumbs'  BY ThumbsGrow
<1>k. ASSUME NEW v \in Workers, job'[v] = job[v]  PROVE Saved(v)'
  <2>1. Saved(v)  BY DEF ThumbsSaved
  <2> QED  BY <1>g, <1>k, <2>1 DEF Busy
<1>d. ASSUME NEW v \in Workers, NEW pc \in {"down", "idle", "ended"},
             job' = [job EXCEPT ![v] = [pc |-> pc]]
      PROVE  ThumbsSaved'
  <2>1. ~Busy(v)'  BY <1>t, <1>d DEF Busy
  <2>2. \A u \in Workers \ {v} : job'[u] = job[u]  BY <1>t, <1>d
  <2>3. \A u \in Workers : Saved(u)'
    <3> SUFFICES ASSUME NEW u \in Workers  PROVE Saved(u)'  OBVIOUS
    <3>1. CASE u = v  BY <2>1, <3>1
    <3>2. CASE u # v  BY <1>k, <2>2, <3>2
    <3> QED  BY <3>1, <3>2
  <2> QED  BY <2>3 DEF ThumbsSaved
<1>s. ASSUME job' = job  PROVE ThumbsSaved'
  <2>1. \A u \in Workers : Saved(u)'  BY <1>k, <1>s
  <2> QED  BY <2>1 DEF ThumbsSaved
<1>1. CASE WorkerNext
  <2>1. PICK w \in Workers : WorkerStep(w)  BY <1>1 DEF WorkerNext
  <2>o. ASSUME \A u \in Workers \ {w} : job'[u] = job[u], Saved(w)'  PROVE ThumbsSaved'
    <3>1. \A u \in Workers : Saved(u)'
      <4> SUFFICES ASSUME NEW u \in Workers  PROVE Saved(u)'  OBVIOUS
      <4>1. CASE u = w  BY <2>o, <4>1
      <4>2. CASE u # w  BY <1>k, <2>o, <4>2
      <4> QED  BY <4>1, <4>2
    <3> QED  BY <3>1 DEF ThumbsSaved
  <2>2. CASE WorkerStart(w) \/ StartFails(w) \/ LoopEnds(w) \/ WorkerCrash(w)
    BY <1>d, <2>2 DEF WorkerStart, StartFails, LoopEnds, WorkerCrash, Rest
  <2>3. CASE ChannelLost(w) \/ \E m \in Message : Deliver(w, m)
    BY <1>s, <2>3 DEF ChannelLost, Deliver
  <2>4. CASE \E m \in Message, out \in Outcomes : Lookup(w, m, out)
    <3>1. PICK m \in Message, out \in Outcomes : Lookup(w, m, out)  BY <2>4
    <3>2. CASE Begin(w, m)
      <4>1. /\ \A u \in Workers \ {w} : job'[u] = job[u]
            /\ job'[w] = [pc |-> IF IsImage(m) THEN "fetch" ELSE "reload",
                          msg |-> m, todo |-> Sizes, url |-> FALSE]
        BY <1>t, <3>2 DEF Begin
      <4>2. Saved(w)'  BY <4>1 DEF IsImage
      <4> QED  BY <2>o, <4>1, <4>2
    <3> QED  BY <1>s, <3>1, <3>2 DEF Lookup
  <2>5. ASSUME NEW pc, job' = [job EXCEPT ![w].pc = pc], Busy(w),
               pc = "thumbs" \/ (pc = "reload" /\ job[w].todo = {})
        PROVE  ThumbsSaved'
    <3>1. job[w] \in Job  BY <2>5, JobType DEF TypeOK
    <3>2. /\ \A u \in Workers \ {w} : job'[u] = job[u]
          /\ job'[w].pc = pc /\ job'[w].msg = job[w].msg /\ job'[w].todo = job[w].todo
      BY <1>t, <2>5, <3>1 DEF Job
    <3>3. Saved(w)  BY DEF ThumbsSaved
    <3>4. Saved(w)'  BY <1>g, <2>5, <3>2, <3>3
    <3> QED  BY <2>o, <3>2, <3>4
  <2>6. CASE \E out \in Outcomes : Fetch(w, out)
    <3>1. Busy(w)  BY <2>6 DEF Fetch, Busy
    <3>2. CASE Rest(w)  BY <1>d, <3>2 DEF Rest
    <3>3. CASE Continue(w, "thumbs")  BY <2>5, <3>1, <3>3 DEF Continue
    <3> QED  BY <2>6, <3>2, <3>3 DEF Fetch
  <2>7. CASE \E sz \in Sizes, out \in Outcomes : SaveThumb(w, sz, out)
    <3>1. PICK sz \in Sizes, out \in Outcomes : SaveThumb(w, sz, out)  BY <2>7
    <3>2. out = "ok"  BY <3>1 DEF SaveThumb, Called, Mishap, CallsSucceed, Outcomes
    <3>3. Busy(w)  BY <3>1 DEF SaveThumb, Busy
    <3>4. job[w] \in Job  BY <3>3, JobType DEF TypeOK
    <3>5. thumbs' = thumbs \cup {<<job[w].msg.id, sz>>}
      BY <3>1, <3>2 DEF SaveThumb, Applied
    <3>6. /\ \A u \in Workers \ {w} : job'[u] = job[u]
          /\ job'[w].msg = job[w].msg /\ job'[w].todo = job[w].todo \ {sz}
          /\ job'[w].pc = IF job[w].todo \ {sz} = {} THEN "reload" ELSE "thumbs"
      BY <1>t, <3>1, <3>4 DEF SaveThumb, Job
    <3>7. Saved(w)  BY DEF ThumbsSaved
    <3>8. Saved(w)'  BY <3>3, <3>5, <3>6, <3>7
    <3> QED  BY <2>o, <3>6, <3>8
  <2>8. CASE \E out \in Outcomes : Reload(w, out)
    <3>1. PICK out \in Outcomes : Reload(w, out)  BY <2>8
    <3>2. CASE Rest(w)  BY <1>d, <3>2 DEF Rest
    <3>3. CASE job' = [job EXCEPT ![w].pc = "write", ![w].url = rows[job[w].msg.id].url]
      <4>1. Busy(w) /\ job[w].pc = "reload"  BY <3>1 DEF Reload, Busy
      <4>2. job[w] \in Job  BY <4>1, JobType DEF TypeOK
      <4>3. /\ \A u \in Workers \ {w} : job'[u] = job[u]
            /\ job'[w].pc = "write" /\ job'[w].msg = job[w].msg /\ job'[w].todo = job[w].todo
        BY <1>t, <3>3, <4>2 DEF Job
      <4>4. Saved(w)  BY DEF ThumbsSaved
      <4>5. Saved(w)'  BY <1>g, <4>1, <4>3, <4>4
      <4> QED  BY <2>o, <4>3, <4>5
    <3> QED  BY <3>1, <3>2, <3>3 DEF Reload
  <2>9. CASE \E out \in Outcomes : WriteStatus(w, out)
    BY <1>d, <2>9 DEF WriteStatus, Rest
  <2> QED  BY <2>1, <2>2, <2>3, <2>4, <2>6, <2>7, <2>8, <2>9 DEF WorkerStep
<1>2. CASE (\E i \in Ids : OwnerDeletes(i)) \/ UNCHANGED vars
  BY <1>s, <1>2 DEF OwnerDeletes, vars, workerVars
<1> QED  BY <1>1, <1>2 DEF Next

(* A row becomes ready by the last step of the processing only.            *)
LEMMA ReadyThumbsKept ==
  ASSUME TypeOK, MessagesTruthful, ThumbsSaved, ReadyHasThumbs, [Next]_vars
  PROVE  ReadyHasThumbs'
<1>g. thumbs \subseteq thumbs'  BY ThumbsGrow
<1>k. RowsKept  BY NextEffect
<1>n. \A i \in Ids : rows[i].status = "ready" => rows[i] # NoRow  BY DEF NoRow
<1>1. CASE \A i \in Ids : rows'[i].status = rows[i].status
  BY <1>g, <1>k, <1>n, <1>1 DEF ReadyHasThumbs, RowsKept
<1>2. ASSUME NEW w \in Workers, NEW out \in Outcomes, WriteStatus(w, out)
      PROVE  ReadyHasThumbs'
  <2> DEFINE i == job[w].msg.id
  <2>1. /\ i \in Ids /\ \A j \in Ids \ {i} : rows'[j] = rows[j]
        /\ rows[i] = NoRow => rows'[i] = NoRow
    BY <1>2, WriteStatusEffect
  <2>2. Busy(w) /\ job[w].pc = "write"  BY <1>2 DEF WriteStatus, Busy
  <2>3. rows[i] # NoRow /\ rows[i].kind = job[w].msg.kind
    BY <2>1, <2>2 DEF MessagesTruthful, Truthful, Ids
  <2>4. job[w].msg.kind = "picture" => {i} \X Sizes \subseteq thumbs
    BY <2>2 DEF ThumbsSaved
  <2>5. rows'[i].kind = "picture" => {i} \X Sizes \subseteq thumbs'
    BY <1>g, <1>k, <2>1, <2>3, <2>4 DEF RowsKept
  <2> QED  BY <1>g, <2>1, <2>5 DEF ReadyHasThumbs
<1>3. CASE WorkerNext
  <2>1. PICK w \in Workers : WorkerStep(w)  BY <1>3 DEF WorkerNext
  <2>2. (\E out \in Outcomes : WriteStatus(w, out)) \/ rows' = rows
    BY <2>1
    DEF WorkerStep, WorkerStart, StartFails, Deliver, Lookup, Fetch, SaveThumb, Reload,
           ChannelLost, LoopEnds, WorkerCrash, storeVars
  <2> QED  BY <1>1, <1>2, <2>2
<1>4. CASE \E i \in Ids : OwnerDeletes(i)  BY <1>1, <1>4, OwnerDeletesEffect
<1>5. CASE UNCHANGED vars  BY <1>1, <1>5 DEF vars, storeVars
<1> QED  BY <1>3, <1>4, <1>5 DEF Next

-----------------------------------------------------------------------------
(* The theorems.                                                           *)

(* Every message and every row of the initial states is about the other.   *)
LEMMA InitTruthful ==
  ASSUME Init
  PROVE  /\ TypeOK /\ MessagesTruthful /\ ThumbsSaved
         /\ SettledMeansDone /\ DocumentsKept /\ ReadyHasThumbs
<1>1. \A i \in Ids : rows[i] \in Row  BY DEF Init
<1>2. PICK garbled \in SUBSET {m \in Message : m.id = 0 /\ m.kind = CHOOSE k \in Kinds : TRUE} :
        queue = garbled \cup {[id |-> i, kind |-> rows[i].kind] : i \in Ids}
  BY DEF Init
<1>3. Held = queue /\ \A w \in Workers : ~Busy(w)
  BY DEF Init, WorkerInit, Held, Busy
<1>4. \A i \in Ids : rows[i] # NoRow  BY <1>1 DEF Row, NoRow
<1>5. MessagesTruthful  BY <1>2, <1>3, <1>4 DEF MessagesTruthful, Truthful
<1>6. \A i \in Ids : \E m \in Held : m.id = i
  <2> SUFFICES ASSUME NEW i \in Ids  PROVE \E m \in queue : m.id = i  BY <1>3
  <2>1. [id |-> i, kind |-> rows[i].kind] \in queue  BY <1>2
  <2> QED  BY <2>1
<1>7. ReadyHasThumbs
  <2> SUFFICES ASSUME NEW i \in Ids, rows[i].status = "ready" /\ rows[i].kind = "picture"
               PROVE  {i} \X Sizes \subseteq thumbs
    BY DEF ReadyHasThumbs
  <2> DEFINE finished == {j \in Ids : rows[j].status = "ready" /\ rows[j].kind = "picture"}
  <2>1. thumbs = finished \X Sizes  BY DEF Init
  <2>2. i \in finished  OBVIOUS
  <2> HIDE DEF finished
  <2> QED  BY <2>1, <2>2
<1>8. TypeOK
  <2>1. WorkerTypeOK  BY DEF Init, WorkerInit, WorkerTypeOK, Resting
  <2>2. queue \subseteq Message
    <3>1. \A i \in Ids : [id |-> i, kind |-> rows[i].kind] \in Message
      BY <1>1 DEF Row, Message
    <3>2. garbled \subseteq Message
      BY DEF Message
    <3> QED  BY <1>2, <3>1, <3>2
  <2> QED  BY <1>1, <2>1, <2>2 DEF Init, TypeOK, StoresTypeOK
<1> QED  BY <1>3, <1>5, <1>6, <1>7, <1>8 DEF ThumbsSaved, SettledMeansDone, DocumentsKept

(* Every variable keeps its type.                                          *)
THEOREM TypeCorrect == Spec => []TypeOK
BY InitTruthful, NextEffect, PTL DEF Spec

(* Messages say what the rows say, for no processing changes a kind.       *)
THEOREM MessagesAreTruthful == Spec => []MessagesTruthful
BY InitTruthful, TruthKept, TypeCorrect, PTL DEF Spec

(* The worker brings no deleted avatar back, nor undoes a status, whatever *)
(* fails.                                                                  *)
THEOREM NothingComesBack == Spec => NoResurrection
BY NextEffect, TypeCorrect, PTL DEF Spec, NoResurrection

(* The work on a document is never forgotten, whatever fails.              *)
THEOREM DocumentsAreKept == Spec => []DocumentsKept
<1>1. TypeOK /\ MessagesTruthful /\ DocumentsKept /\ [Next]_vars => DocumentsKept'
  <2> SUFFICES ASSUME TypeOK, MessagesTruthful, DocumentsKept, [Next]_vars,
                      NEW i \in Ids, rows'[i].kind = "document", ~Done(i)'
               PROVE  \E m \in Held' : m.id = i
    BY DEF DocumentsKept
  <2>1. RowsKept /\ ~Done(i)  BY NextEffect
  <2>2. rows[i] # NoRow /\ rows[i].kind = "document"  BY <2>1 DEF Done, Visible, RowsKept
  <2>3. PICK m \in Held : m.id = i  BY <2>1, <2>2 DEF DocumentsKept
  <2>4. m.kind = "document"  BY <2>2, <2>3 DEF MessagesTruthful, Truthful, Ids
  <2>5. CASE WorkerNext
    <3>1. m \notin Held' => m.id = 0 \/ Done(m.id)'
      BY <2>3, <2>4, <2>5, HeldKept DEF WorkerNext
    <3> QED  BY <2>3, <3>1 DEF Ids
  <2>6. CASE (\E j \in Ids : OwnerDeletes(j)) \/ UNCHANGED vars
    BY <2>3, <2>6 DEF OwnerDeletes, vars, storeVars, workerVars, Held
  <2> QED  BY <2>5, <2>6 DEF Next
<1> QED  BY <1>1, InitTruthful, TypeCorrect, MessagesAreTruthful, PTL DEF Spec

(* No work is forgotten, of any file, if the calls succeed; workers may    *)
(* crash and lose their channels at any step.                              *)
THEOREM WorkIsKept == CallsSucceed => (Spec => []SettledMeansDone)
<1> SUFFICES ASSUME CallsSucceed  PROVE Spec => []SettledMeansDone  OBVIOUS
<1>1. TypeOK /\ SettledMeansDone /\ [Next]_vars => SettledMeansDone'
  <2> SUFFICES ASSUME TypeOK, SettledMeansDone, [Next]_vars, NEW i \in Ids, ~Done(i)'
               PROVE  \E m \in Held' : m.id = i
    BY DEF SettledMeansDone
  <2>1. ~Done(i)  BY NextEffect
  <2>2. PICK m \in Held : m.id = i  BY <2>1 DEF SettledMeansDone
  <2>3. CASE WorkerNext
    <3>1. m \notin Held' => m.id = 0 \/ Done(m.id)'  BY <2>2, <2>3, HeldKept DEF WorkerNext
    <3> QED  BY <2>2, <3>1 DEF Ids
  <2>4. CASE (\E j \in Ids : OwnerDeletes(j)) \/ UNCHANGED vars
    BY <2>2, <2>4 DEF OwnerDeletes, vars, storeVars, workerVars, Held
  <2> QED  BY <2>3, <2>4 DEF Next
<1> QED  BY <1>1, InitTruthful, TypeCorrect, PTL DEF Spec

(* A picture is ready only with all its thumbnails, if the calls succeed.  *)
THEOREM ThumbsComeFirst == CallsSucceed => (Spec => []ReadyHasThumbs)
<1> SUFFICES ASSUME CallsSucceed  PROVE Spec => []ReadyHasThumbs  OBVIOUS
<1>1. TypeOK /\ ThumbsSaved /\ [Next]_vars => ThumbsSaved'  BY ThumbsSavedKept
<1>2. TypeOK /\ MessagesTruthful /\ ThumbsSaved /\ ReadyHasThumbs /\ [Next]_vars => ReadyHasThumbs'
  BY ReadyThumbsKept
<1> QED  BY <1>1, <1>2, InitTruthful, TypeCorrect, MessagesAreTruthful, PTL DEF Spec

-----------------------------------------------------------------------------
(* Processing is implemented.                                              *)

(* Every avatar has a row.                                                 *)
RowsThere == \A i \in Ids : rows[i] # NoRow

(* What cannot be decoded gets no further than its fetch, and what is to   *)
(* be written back of a row is what the row still says.                    *)
JobsSound ==
  \A w \in Workers : Busy(w) =>
    /\ job[w].pc = "thumbs" => job[w].msg.kind = "picture"
    /\ job[w].pc \in {"reload", "write"} => job[w].msg.kind # "opaque"
    /\ job[w].pc = "write" => job[w].url = rows[job[w].msg.id].url

(* How a job comes about, and goes on.                                     *)
LEMMA JobSteps ==
  ASSUME TypeOK, NEW w \in Workers, WorkerStep(w), NEW v \in Workers, Busy(v)'
  PROVE  \/ job'[v] = job[v]
         \/ job'[v].pc = "fetch"
         \/ job'[v].pc = "reload" /\ job'[v].msg.kind = "document"
         \/ job'[v].pc = "thumbs" /\ job'[v].msg.kind = "picture"
         \/ /\ Busy(v) /\ job'[v].msg = job[v].msg /\ job[v].pc = "thumbs"
            /\ job'[v].pc \in {"thumbs", "reload"}
         \/ /\ Busy(v) /\ job'[v].msg = job[v].msg /\ job[v].pc = "reload"
            /\ job'[v].pc = "write" /\ job'[v].url = rows[job[v].msg.id].url
<1>t. job \in [Workers -> Resting \cup Job]  BY DEF TypeOK, WorkerTypeOK
<1>1. CASE v # w \/ job' = job
  <2>1. \/ job' = job
        \/ \E x : job' = [job EXCEPT ![w] = x]
        \/ \E x : job' = [job EXCEPT ![w].pc = x]
        \/ \E x, y : job' = [job EXCEPT ![w].pc = x, ![w].url = y]
        \/ \E x, y : job' = [job EXCEPT ![w].todo = x, ![w].pc = y]
    BY DEF WorkerStep, WorkerStart, StartFails, Deliver, Lookup, Begin, Fetch, SaveThumb, Reload,
           WriteStatus, Rest, Continue, ChannelLost, LoopEnds, WorkerCrash
  <2> QED  BY <1>t, <1>1, <2>1
<1> SUFFICES ASSUME v = w, job' # job  PROVE
         \/ job'[w].pc = "fetch"
         \/ job'[w].pc = "reload" /\ job'[w].msg.kind = "document"
         \/ job'[w].pc = "thumbs" /\ job'[w].msg.kind = "picture"
         \/ /\ Busy(w) /\ job'[w].msg = job[w].msg /\ job[w].pc = "thumbs"
            /\ job'[w].pc \in {"thumbs", "reload"}
         \/ /\ Busy(w) /\ job'[w].msg = job[w].msg /\ job[w].pc = "reload"
            /\ job'[w].pc = "write" /\ job'[w].url = rows[job[w].msg.id].url
  BY <1>1
<1>2. \A pc \in {"down", "idle", "ended"} : job' # [job EXCEPT ![w] = [pc |-> pc]]
  BY <1>t DEF Busy
<1>3. ~Rest(w)  BY <1>2 DEF Rest
<1>4. CASE \E m \in Message, out \in Outcomes : Lookup(w, m, out)
  <2>1. PICK m \in Message : Begin(w, m)  BY <1>4 DEF Lookup
  <2>2. job'[w] = [pc |-> IF IsImage(m) THEN "fetch" ELSE "reload",
                   msg |-> m, todo |-> Sizes, url |-> FALSE]
    BY <1>t, <2>1 DEF Begin
  <2> QED  BY <2>2 DEF IsImage
<1>5. CASE \E out \in Outcomes : Fetch(w, out)
  <2>1. Busy(w) /\ job[w].msg.kind = "picture" /\ job' = [job EXCEPT ![w].pc = "thumbs"]
    BY <1>3, <1>5 DEF Fetch, Continue, Busy
  <2>2. job[w] \in Job  BY <2>1, JobType DEF TypeOK
  <2>3. job'[w].pc = "thumbs" /\ job'[w].msg = job[w].msg  BY <1>t, <2>1, <2>2 DEF Job
  <2> QED  BY <2>1, <2>3
<1>6. CASE \E sz \in Sizes, out \in Outcomes : SaveThumb(w, sz, out)
  <2>1. PICK sz \in Sizes :
          /\ job[w].pc = "thumbs"
          /\ job' = [job EXCEPT ![w].todo = job[w].todo \ {sz},
                                ![w].pc = IF job[w].todo \ {sz} = {} THEN "reload" ELSE "thumbs"]
    BY <1>6 DEF SaveThumb
  <2>2. Busy(w)  BY <2>1 DEF Busy
  <2>3. job[w] \in Job  BY <2>2, JobType DEF TypeOK
  <2>4. job'[w].pc \in {"thumbs", "reload"} /\ job'[w].msg = job[w].msg
    BY <1>t, <2>1, <2>3 DEF Job
  <2> QED  BY <2>1, <2>2, <2>4
<1>7. CASE \E out \in Outcomes : Reload(w, out)
  <2>1. /\ job[w].pc = "reload"
        /\ job' = [job EXCEPT ![w].pc = "write", ![w].url = rows[job[w].msg.id].url]
    BY <1>3, <1>7 DEF Reload
  <2>2. Busy(w)  BY <2>1 DEF Busy
  <2>3. job[w] \in Job  BY <2>2, JobType DEF TypeOK
  <2>4. /\ job'[w].pc = "write" /\ job'[w].msg = job[w].msg
        /\ job'[w].url = rows[job[w].msg.id].url
    BY <1>t, <2>1, <2>3 DEF Job
  <2> QED  BY <2>1, <2>2, <2>4
<1>8. CASE \E out \in Outcomes : WriteStatus(w, out)
  BY <1>3, <1>8 DEF WriteStatus
<1>9. CASE WorkerStart(w) \/ StartFails(w) \/ LoopEnds(w) \/ WorkerCrash(w)
  BY <1>2, <1>9 DEF WorkerStart, StartFails, LoopEnds, WorkerCrash, Rest
<1>10. CASE ChannelLost(w) \/ \E m \in Message : Deliver(w, m)
  BY <1>10 DEF ChannelLost, Deliver
<1> QED  BY <1>4, <1>5, <1>6, <1>7, <1>8, <1>9, <1>10 DEF WorkerStep

(* What becomes of the table: a row gets its status, or is marked.         *)
LEMMA WriteStatusRow ==
  ASSUME TypeOK, RowsThere, JobsSound, NEW w \in Workers, NEW out \in Outcomes,
         WriteStatus(w, out)
  PROVE  rows' = rows \/ rows' = [rows EXCEPT ![job[w].msg.id].status = "ready"]
<1> DEFINE i == job[w].msg.id
<1>1. Busy(w) /\ job[w].pc = "write"  BY DEF WriteStatus, Busy
<1>2. i \in Ids  BY <1>1, JobType DEF TypeOK
<1>3. rows[i] \in Row /\ rows[i].url = job[w].url
  BY <1>1, <1>2, RowType DEF TypeOK, RowsThere, JobsSound
<1>4. \/ rows' = rows
      \/ rows' = [rows EXCEPT ![i].status = "ready", ![i].url = job[w].url]
  BY DEF WriteStatus, Update
<1> HIDE DEF i
<1>5. rows \in [Ids -> Row \cup {NoRow}]  BY DEF TypeOK, StoresTypeOK
<1>6. [[rows[i] EXCEPT !.status = "ready"] EXCEPT !.url = job[w].url]
        = [rows[i] EXCEPT !.status = "ready"]
  BY <1>3 DEF Row
<1>7. [rows EXCEPT ![i].status = "ready", ![i].url = job[w].url]
        = [rows EXCEPT ![i].status = "ready"]
  BY <1>2, <1>3, <1>5, <1>6 DEF Row
<1> QED  BY <1>4, <1>7 DEF i

LEMMA NextRows ==
  ASSUME TypeOK, RowsThere, JobsSound, [Next]_vars
  PROVE  RowsThere' /\ \A i \in Ids : rows'[i].url = rows[i].url
<1>1. RowsThere'  BY NextEffect DEF RowsThere, RowsKept
<1>2. rows \in [Ids -> Row \cup {NoRow}] /\ \A i \in Ids : rows[i] \in Row
  BY DEF TypeOK, StoresTypeOK, RowsThere
<1>3. CASE rows' = rows  BY <1>1, <1>3
<1>4. ASSUME NEW i \in Ids,
             \/ rows' = [rows EXCEPT ![i].status = "ready"]
             \/ rows' = [rows EXCEPT ![i].deleted = TRUE]
      PROVE  \A j \in Ids : rows'[j].url = rows[j].url
  <2>1. rows'[i].url = rows[i].url
    <3>1. rows'[i] = [rows[i] EXCEPT !.status = "ready"] \/ rows'[i] = [rows[i] EXCEPT !.deleted = TRUE]
      BY <1>2, <1>4
    <3> QED  BY <1>2, <3>1 DEF Row
  <2>2. \A j \in Ids \ {i} : rows'[j] = rows[j]  BY <1>2, <1>4
  <2> QED  BY <2>1, <2>2
<1>5. ASSUME NEW w \in Workers, WorkerStep(w)
      PROVE  rows' = rows \/ \E i \in Ids : rows' = [rows EXCEPT ![i].status = "ready"]
  <2>1. (\E out \in Outcomes : WriteStatus(w, out)) \/ rows' = rows
    BY <1>5
    DEF WorkerStep, WorkerStart, StartFails, Deliver, Lookup, Fetch, SaveThumb, Reload,
        ChannelLost, LoopEnds, WorkerCrash, storeVars
  <2>2. (\E out \in Outcomes : WriteStatus(w, out)) => Busy(w)  BY DEF WriteStatus, Busy
  <2>3. Busy(w) => job[w].msg.id \in Ids  BY JobType DEF TypeOK
  <2> QED  BY <2>1, <2>2, <2>3, WriteStatusRow
<1>6. ASSUME NEW i \in Ids, OwnerDeletes(i)
      PROVE  rows' = [rows EXCEPT ![i].deleted = TRUE]
  BY <1>6 DEF OwnerDeletes, Delete, Applied
<1>7. CASE UNCHANGED vars  BY <1>1, <1>7 DEF vars, storeVars
<1> QED  BY <1>1, <1>3, <1>4, <1>5, <1>6, <1>7 DEF Next, WorkerNext

LEMMA JobsStaySound ==
  ASSUME TypeOK, RowsThere, JobsSound, [Next]_vars
  PROVE  JobsSound'
<1>1. \A i \in Ids : rows'[i].url = rows[i].url  BY NextRows
<1>2. \A v \in Workers : Busy(v) => job[v].msg.id \in Ids  BY JobType DEF TypeOK
<1>3. CASE job' = job  BY <1>1, <1>2, <1>3 DEF JobsSound, Busy
<1>4. ASSUME NEW w \in Workers, WorkerStep(w)  PROVE JobsSound'
  <2> SUFFICES ASSUME NEW v \in Workers, Busy(v)'
               PROVE  /\ job'[v].pc = "thumbs" => job'[v].msg.kind = "picture"
                      /\ job'[v].pc \in {"reload", "write"} => job'[v].msg.kind # "opaque"
                      /\ job'[v].pc = "write" => job'[v].url = rows'[job'[v].msg.id].url
    BY DEF JobsSound
  <2>1. CASE job'[v] = job[v]  BY <1>1, <1>2, <2>1 DEF JobsSound, Busy
  <2>2. CASE job'[v] # job[v]  BY <1>1, <1>2, <1>4, <2>2, JobSteps DEF JobsSound
  <2> QED  BY <2>1, <2>2
<1>5. CASE (\E i \in Ids : OwnerDeletes(i)) \/ UNCHANGED vars
  BY <1>3, <1>5 DEF OwnerDeletes, vars, workerVars
<1> QED  BY <1>4, <1>5 DEF Next, WorkerNext

(* A step settles one message at most.                                     *)
LEMMA OneSettled ==
  ASSUME TypeOK, NEW w \in Workers, WorkerStep(w)
  PROVE  \E m : Held \ Held' \subseteq {m}
<1>1. ASSUME NEW m, Ack(w, m) \/ Requeue(w, m) \/ UNCHANGED <<unacked, queue>>
      PROVE  Held \ Held' \subseteq {m}
  BY <1>1, SettlingHeld DEF Held
<1>2. CASE \/ \E m \in Message : Deliver(w, m)
           \/ ChannelLost(w) \/ WorkerCrash(w)
  BY <1>2, MovingHeld
<1>3. CASE \E m \in Message, out \in Outcomes : Lookup(w, m, out)
  BY <1>1, <1>3 DEF Lookup
<1>4. CASE \E out \in Outcomes : Fetch(w, out) \/ Reload(w, out) \/ WriteStatus(w, out)
  <2>1. Ack(w, job[w].msg) \/ Requeue(w, job[w].msg) \/ UNCHANGED <<unacked, queue>>
    BY <1>4 DEF Fetch, Reload, WriteStatus, StatusFailed
  <2> QED  BY <1>1, <2>1
<1>5. CASE \/ WorkerStart(w) \/ StartFails(w) \/ LoopEnds(w)
           \/ \E s \in Sizes, out \in Outcomes : SaveThumb(w, s, out)
  BY <1>1, <1>5 DEF WorkerStart, StartFails, LoopEnds, SaveThumb, storeVars
<1> QED  BY <1>2, <1>3, <1>4, <1>5 DEF WorkerStep

(* The avatars asked for, as Port sees them.                               *)
Work == {m.id : m \in Held} \ {0}

ProcessingInv ==
  TypeOK /\ MessagesTruthful /\ ThumbsSaved /\ RowsThere /\ JobsSound

LEMMA ProcessingInvariant == CallsSucceed => (Spec => []ProcessingInv)
<1> SUFFICES ASSUME CallsSucceed  PROVE Spec => []ProcessingInv  OBVIOUS
<1>1. Init => ProcessingInv
  <2> SUFFICES ASSUME Init  PROVE ProcessingInv  OBVIOUS
  <2>1. RowsThere  BY DEF Init, RowsThere, Row, NoRow
  <2>2. JobsSound  BY DEF Init, WorkerInit, JobsSound, Busy
  <2> QED  BY <2>1, <2>2, InitTruthful DEF ProcessingInv
<1>2. ProcessingInv /\ [Next]_vars => ProcessingInv'
  BY NextEffect, TruthKept, ThumbsSavedKept, NextRows, JobsStaySound DEF ProcessingInv
<1> QED  BY <1>1, <1>2, PTL DEF Spec

LEMMA WorkSettled ==
  ASSUME TypeOK, NEW w \in Workers, WorkerStep(w)
  PROVE  \/ Work' = Work
         \/ \E m \in Held \ Held' : m.id # 0 /\ Work' = Work \ {m.id}
<1>1. Held' \subseteq Held  BY HeldKept
<1>2. PICK m : Held \ Held' \subseteq {m}  BY OneSettled
<1>3. CASE Held' = Held  BY <1>3 DEF Work
<1>4. CASE Held' # Held
  <2>1. m \in Held \ Held' /\ Held' = Held \ {m}  BY <1>1, <1>2, <1>4
  <2> HIDE DEF Held
  <2>2. CASE m.id = 0 \/ \E n \in Held' : n.id = m.id  BY <2>1, <2>2 DEF Work
  <2>3. CASE m.id # 0 /\ \A n \in Held' : n.id # m.id
    <3>1. Work' = Work \ {m.id}  BY <2>1, <2>3 DEF Work
    <3> QED  BY <2>1, <2>3, <3>1
  <2> QED  BY <2>2, <2>3
<1> QED  BY <1>3, <1>4

(* A worker that writes a status finishes its avatar.                      *)
LEMMA WriteStatusFinishes ==
  ASSUME CallsSucceed, ProcessingInv, NEW w \in Workers, NEW out \in Outcomes,
         WriteStatus(w, out)
  PROVE  \E i \in Ids :
           /\ rows[i].kind # "opaque"
           /\ rows[i].kind = "picture" => {i} \X Sizes \subseteq thumbs
           /\ rows' = [rows EXCEPT ![i].status = "ready"] /\ thumbs' = thumbs
           /\ Work' = Work \/ Work' = Work \ {i}
<1> DEFINE i == job[w].msg.id
<1>0. TypeOK /\ MessagesTruthful /\ ThumbsSaved /\ RowsThere /\ JobsSound  BY DEF ProcessingInv
<1>1. Busy(w) /\ job[w].pc = "write"  BY DEF WriteStatus, Busy
<1>2. i \in Ids /\ i # 0
  <2>1. i \in Ids  BY <1>0, <1>1, JobType DEF TypeOK
  <2> QED  BY <2>1 DEF Ids
<1>3. rows[i].kind = job[w].msg.kind  BY <1>0, <1>1, <1>2 DEF MessagesTruthful, Truthful
<1>4. rows[i].kind # "opaque"  BY <1>0, <1>1, <1>3 DEF JobsSound
<1>5. rows[i].kind = "picture" => {i} \X Sizes \subseteq thumbs
  BY <1>0, <1>1, <1>3 DEF ThumbsSaved
<1>6. out = "ok"  BY DEF WriteStatus, Called, Mishap, CallsSucceed, Outcomes
<1>7. rows' = [rows EXCEPT ![i].status = "ready"]
  <2>1. rows' = [rows EXCEPT ![i].status = "ready", ![i].url = job[w].url]
    BY <1>0, <1>2, <1>6 DEF WriteStatus, Update, Applied, RowsThere
  <2>2. rows' = rows \/ rows' = [rows EXCEPT ![i].status = "ready"]
    BY <1>0, WriteStatusRow
  <2>3. rows \in [Ids -> Row \cup {NoRow}] /\ rows[i] \in Row
    BY <1>0, <1>2 DEF TypeOK, StoresTypeOK, RowsThere
  <2> HIDE DEF i
  <2>4. rows'[i].status = "ready"  BY <1>2, <2>1, <2>3 DEF Row
  <2>5. rows' = rows => [rows EXCEPT ![i].status = "ready"] = rows
    <3> SUFFICES ASSUME rows' = rows  PROVE [rows EXCEPT ![i].status = "ready"] = rows  OBVIOUS
    <3>1. rows[i].status = "ready"  BY <2>4
    <3>2. [rows[i] EXCEPT !.status = "ready"] = rows[i]  BY <2>3, <3>1 DEF Row
    <3> QED  BY <1>2, <2>3, <3>2
  <2> QED  BY <2>2, <2>5
<1>8. thumbs' = thumbs  BY DEF WriteStatus
<1>9. Work' = Work \/ Work' = Work \ {i}
  <2>1. WorkerStep(w)  BY DEF WorkerStep
  <2>2. \A m \in Held \ Held' : m = job[w].msg
    <3>1. Ack(w, job[w].msg)  BY <1>6 DEF WriteStatus
    <3> QED  BY <1>0, <3>1, SettlingHeld
  <2> QED  BY <1>0, <2>1, <2>2, WorkSettled
<1> QED  BY <1>2, <1>4, <1>5, <1>7, <1>8, <1>9

(* Whatever crashes and however often the same message is worked on, the   *)
(* table, the thumbnails and the work left change as Processing says.      *)
THEOREM ProcessingImplemented == CallsSucceed => (Spec => ImplementsProcessing)
<1> SUFFICES ASSUME CallsSucceed  PROVE Spec => ImplementsProcessing  OBVIOUS
<1>1. Init => Port!Init
  <2> SUFFICES ASSUME Init  PROVE Port!Init  OBVIOUS
  <2>1. TypeOK /\ MessagesTruthful /\ SettledMeansDone /\ ReadyHasThumbs  BY InitTruthful
  <2>2. PICK garbled \in SUBSET {m \in Message : m.id = 0 /\ m.kind = CHOOSE k \in Kinds : TRUE} :
          queue = garbled \cup {[id |-> i, kind |-> rows[i].kind] : i \in Ids}
    BY DEF Init
  <2>3. Held = queue  BY DEF Init, WorkerInit, Held
  <2>4. {m.id : m \in Held} \ {0} = Ids
    <3>1. \A i \in Ids : \E m \in Held : m.id = i
      <4> SUFFICES ASSUME NEW i \in Ids  PROVE \E m \in queue : m.id = i  BY <2>3
      <4>1. [id |-> i, kind |-> rows[i].kind] \in queue  BY <2>2
      <4> QED  BY <4>1
    <3>2. \A m \in Held : m.id = 0 \/ m.id \in Ids  BY <2>2, <2>3
    <3>3. 0 \notin Ids  BY DEF Ids
    <3> QED  BY <3>1, <3>2, <3>3
  <2> QED  BY <2>1, <2>4 DEF Port!Init, Port!Complete, ReadyHasThumbs
<1>2. ASSUME ProcessingInv, [Next]_vars  PROVE [Port!Next]_Port!vars
  <2>0. TypeOK /\ RowsThere /\ JobsSound /\ MessagesTruthful  BY <1>2 DEF ProcessingInv
  <2>1. ASSUME rows' = rows, thumbs' = thumbs, Work' = Work  PROVE UNCHANGED Port!vars
    BY <2>1 DEF Port!vars, Work
  <2>2. ASSUME NEW w \in Workers, WorkerStep(w)  PROVE [Port!Next]_Port!vars
    <3>1. ASSUME NEW out \in Outcomes, WriteStatus(w, out)  PROVE Port!Next
      <4>1. PICK i \in Ids :
              /\ rows[i].kind # "opaque"
              /\ rows[i].kind = "picture" => {i} \X Sizes \subseteq thumbs
              /\ rows' = [rows EXCEPT ![i].status = "ready"] /\ thumbs' = thumbs
              /\ Work' = Work \/ Work' = Work \ {i}
        BY <1>2, <3>1, WriteStatusFinishes
      <4>2. Port!Finish(i)  BY <4>1 DEF Port!Finish, Port!Complete, Work
      <4> QED  BY <4>2 DEF Port!Next
    <3>2. ASSUME NEW s \in Sizes, NEW out \in Outcomes, SaveThumb(w, s, out)  PROVE Port!Next
      <4> DEFINE i == job[w].msg.id
      <4>1. Busy(w) /\ job[w].pc = "thumbs"  BY <3>2 DEF SaveThumb, Busy
      <4>2. i \in Ids /\ i # 0
        <5>1. i \in Ids  BY <2>0, <4>1, JobType DEF TypeOK
        <5> QED  BY <5>1 DEF Ids
      <4>3. rows[i].kind = "picture"
        BY <2>0, <4>1, <4>2 DEF MessagesTruthful, Truthful, JobsSound
      <4>4. out = "ok"  BY <3>2 DEF SaveThumb, Called, Mishap, CallsSucceed, Outcomes
      <4>5. thumbs' = thumbs \cup {<<i, s>>} /\ UNCHANGED <<rows, queue, unacked>>
        BY <3>2, <4>4 DEF SaveThumb, Applied
      <4>6. Work' = Work  BY <4>5 DEF Work, Held
      <4> HIDE DEF i
      <4>7. Port!Make(i, s)  BY <4>3, <4>5, <4>6 DEF Port!Make, Work
      <4> QED  BY <4>2, <4>7 DEF Port!Next
    <3>3. CASE rows' = rows /\ thumbs' = thumbs
      <4>1. CASE Work' = Work  BY <2>1, <3>3, <4>1
      <4>2. ASSUME NEW m \in Held \ Held', m.id # 0, Work' = Work \ {m.id}  PROVE Port!Next
        <5>1. m \in Message /\ m.id \in Ids
          BY <2>0, <4>2 DEF Held, TypeOK, StoresTypeOK, WorkerTypeOK, Message
        <5>2. ~CallsSucceed \/ Done(m.id)'  BY <2>0, <2>2, <4>2, HeldKept
        <5>3. Done(m.id)  BY <3>3, <5>2 DEF Done, Visible
        <5>4. rows[m.id].deleted \/ rows[m.id].status = "ready"
          BY <2>0, <5>1, <5>3 DEF Done, Visible, RowsThere
        <5>5. Port!Settle(m.id)  BY <3>3, <4>2, <5>4 DEF Port!Settle, Port!Done, Work
        <5> QED  BY <5>1, <5>5 DEF Port!Next
      <4> QED  BY <2>0, <2>2, <4>1, <4>2, WorkSettled
    <3>4. \/ \E out \in Outcomes : WriteStatus(w, out)
          \/ \E s \in Sizes, out \in Outcomes : SaveThumb(w, s, out)
          \/ rows' = rows /\ thumbs' = thumbs
      BY <2>2
      DEF WorkerStep, WorkerStart, StartFails, Deliver, Lookup, Fetch, Reload, ChannelLost,
          LoopEnds, WorkerCrash, storeVars
    <3> QED  BY <3>1, <3>2, <3>3, <3>4
  <2>3. ASSUME NEW i \in Ids, OwnerDeletes(i)  PROVE Port!Next
    <3>1. /\ ~rows[i].deleted /\ rows' = [rows EXCEPT ![i].deleted = TRUE]
          /\ UNCHANGED <<thumbs, queue, unacked>>
      BY <2>3 DEF OwnerDeletes, Delete, Applied, Visible, workerVars
    <3>2. Work' = Work  BY <3>1 DEF Work, Held
    <3>3. Port!Remove(i)  BY <3>1, <3>2 DEF Port!Remove, Work
    <3> QED  BY <3>3 DEF Port!Next
  <2>4. CASE UNCHANGED vars
    <3>1. UNCHANGED <<rows, thumbs, queue, unacked>>  BY <2>4 DEF vars, storeVars, workerVars
    <3>2. Work' = Work  BY <3>1 DEF Work, Held
    <3> QED  BY <2>1, <3>1, <3>2
  <2> QED  BY <1>2, <2>2, <2>3, <2>4 DEF Next, WorkerNext
<1> QED
  BY <1>1, <1>2, ProcessingInvariant, PTL DEF Spec, ImplementsProcessing, Port!Spec

=============================================================================
