------------------------- MODULE ProcessLifeProofs -------------------------
(***************************************************************************)
(* Theorems about ProcessLife, for any servers, workers and slots, any     *)
(* configurations and any number of failures and signals.                  *)
(***************************************************************************)
EXTENDS ProcessLife, TLAPS

(* Which phases main of each program has.                                  *)
Role(p) ==
  /\ p \in Servers => phase[p] # "running"
  /\ p \notin Servers => phase[p] \notin {"launched", "serving"} \cup Stopping

(* What main has when it is past the call that gets it; MakeBucket leaves  *)
(* a bucket, or an error to look into.                                     *)
Has(p) ==
  /\ phase[p] \in {"make", "check", "broker", "tracer", "drain", "release"} \cup Up
       => pool[p] = "open"
  /\ p \notin Servers /\ phase[p] \in {"make", "check", "running"} => broker[p] = "open"
  /\ phase[p] \in Up \/ (p \in Servers /\ phase[p] = "broker") => bucket
  /\ phase[p] = "check" => bucket \/ hurt[p]

(* Nothing is closed before main gets to its deferred calls.               *)
ClosedLast(p) ==
  /\ broker[p] = "closed" => phase[p] \in {"release", "leave"}
  /\ pool[p] = "closed" => phase[p] = "leave"

(* Requests come when the listener is open, and outlive srv.Shutdown only  *)
(* when the deadline has passed.                                           *)
RequestsInTime(s) ==
  Active(s) => /\ phase[s] \in Listening \cup Stopping
               /\ phase[s] \in {"release", "leave"} => expired[s]

LifeOf(p) == Role(p) /\ Has(p) /\ ClosedLast(p) /\ (p \in Servers => RequestsInTime(p))

LifeInv == \A p \in Procs : LifeOf(p)

(* A step of one process: what the invariant says of the others stays,     *)
(* for they share the bucket only, and nobody removes that.                *)
LEMMA OthersKept ==
  ASSUME LifeInv, NEW p \in Procs, bucket => bucket', LifeOf(p)',
         \A q \in Procs \ {p} :
           /\ phase'[q] = phase[q] /\ pool'[q] = pool[q]
           /\ broker'[q] = broker[q] /\ hurt'[q] = hurt[q]
           /\ q \in Servers => req'[q] = req[q] /\ expired'[q] = expired[q]
  PROVE  LifeInv'
<1> SUFFICES ASSUME NEW q \in Procs \ {p}  PROVE LifeOf(q)'
  BY DEF LifeInv
<1>1. LifeOf(q)  BY DEF LifeInv
<1>2. Role(q)' /\ Has(q)' /\ ClosedLast(q)'
  BY <1>1 DEF LifeOf, Role, Has, ClosedLast
<1>3. q \in Servers => RequestsInTime(q)'
  BY <1>1 DEF LifeOf, RequestsInTime, Active
<1> QED  BY <1>2, <1>3 DEF LifeOf

(* The end of a process, by whatever it comes.                             *)
LEMMA GoneKeeps ==
  ASSUME TypeOK, LifeInv, NEW p \in Procs, Gone(p),
         UNCHANGED <<config, spans, bucket>>,
         signals' \in 0..MaxSignals, faults' \in 0..MaxFaults
  PROVE  TypeOK' /\ LifeInv'
<1> USE DEF Gone, Goto, TypeOK, Procs
<1>1. /\ phase' \in [Procs -> {"down"} \cup Starting \cup Up \cup Stopping]
      /\ pool' \in [Procs -> {"none", "open", "closed"}]
      /\ broker' \in [Procs -> {"none", "open", "closed"}]
      /\ hurt' \in [Procs -> BOOLEAN]
  OBVIOUS
<1>2. req' \in [Servers -> [Slots -> {"free", "waiting"} \cup Inside]]
  OBVIOUS
<1>3. expired' \in [Servers -> BOOLEAN]
  BY ZenonT(30)
<1>4. p \in Servers => ~Active(p)'
  BY DEF Active
<1>5. LifeOf(p)'
  BY <1>4 DEF LifeOf, Role, Has, ClosedLast, RequestsInTime, Up, Stopping
<1>6. LifeInv'
  BY <1>5, OthersKept
<1> QED  BY <1>1, <1>2, <1>3, <1>6

(* os.Exit(1), because of a call that failed now, or not.                  *)
LEMMA ExitKeeps ==
  ASSUME TypeOK, LifeInv, NEW p \in Procs, ExitOne(p),
         UNCHANGED faults \/ CallFails(p)
  PROVE  TypeOK' /\ LifeInv'
<1>1. faults' \in 0..MaxFaults  BY LifeBounds DEF CallFails, TypeOK
<1>2. Gone(p) /\ UNCHANGED <<config, spans, bucket>> /\ signals' \in 0..MaxSignals
  BY DEF ExitOne, TypeOK
<1> QED  BY <1>1, <1>2, GoneKeeps

(* main on its way up.                                                     *)
LEMMA StartKeeps ==
  ASSUME TypeOK, LifeInv, NEW p \in Procs, StartStep(p)
  PROVE  TypeOK' /\ LifeInv'
<1> USE DEF TypeOK, Goto, Procs, Starting, Up, Stopping
<1>1. ASSUME Launch(p)  PROVE TypeOK' /\ LifeInv'
  <2>1. TypeOK'  BY <1>1 DEF Launch
  <2>2. LifeOf(p) /\ p \in Procs  BY DEF LifeInv
  <2>3. LifeOf(p)'
    BY <1>1, <2>2
    DEF Launch, LifeOf, Role, Has, ClosedLast, RequestsInTime, Active, Listening
  <2>4. LifeInv'  BY <1>1, <2>2, <2>3, OthersKept DEF Launch
  <2> QED  BY <2>1, <2>4
<1>2. ASSUME Configure(p)  PROVE TypeOK' /\ LifeInv'
  <2>1. CASE ExitOne(p)
    <3>1. UNCHANGED faults \/ CallFails(p)  BY <1>2, <2>1 DEF Configure, Fatal
    <3> QED  BY <2>1, <3>1, ExitKeeps
  <2>2. CASE ~ExitOne(p)
    <3>1. TypeOK'  BY <1>2, <2>2 DEF Configure
    <3>2. LifeOf(p) /\ p \in Procs  BY DEF LifeInv
    <3>3. LifeOf(p)'
      BY <1>2, <2>2, <3>2
      DEF Configure, LifeOf, Role, Has, ClosedLast, RequestsInTime, Active, Listening
    <3>4. LifeInv'  BY <1>2, <2>2, <3>2, <3>3, OthersKept DEF Configure
    <3> QED  BY <3>1, <3>4
  <2> QED  BY <2>1, <2>2
<1>3. ASSUME OpenPool(p)  PROVE TypeOK' /\ LifeInv'
  <2>1. CASE ExitOne(p)
    <3>1. UNCHANGED faults \/ CallFails(p)  BY <1>3, <2>1 DEF OpenPool, Fatal
    <3> QED  BY <2>1, <3>1, ExitKeeps
  <2>2. CASE ~ExitOne(p)
    <3>1. TypeOK'  BY <1>3, <2>2 DEF OpenPool, Fatal
    <3>2. LifeOf(p) /\ p \in Procs  BY DEF LifeInv
    <3>3. LifeOf(p)'
      BY <1>3, <2>2, <3>2
      DEF OpenPool, LifeOf, Role, Has, ClosedLast, RequestsInTime, Active, Listening, Fatal
    <3>4. LifeInv'  BY <1>3, <2>2, <3>2, <3>3, OthersKept DEF OpenPool, Fatal
    <3> QED  BY <3>1, <3>4
  <2> QED  BY <2>1, <2>2
<1>4. ASSUME MakeBucket(p)  PROVE TypeOK' /\ LifeInv'
  <2>1. TypeOK'
    <3>1. faults' \in 0..MaxFaults
      <4>1. UNCHANGED faults \/ CallFails(p)  BY <1>4 DEF MakeBucket
      <4> QED  BY <4>1, LifeBounds DEF CallFails
    <3>2. /\ phase' \in [Procs -> {"down"} \cup Starting \cup Up \cup Stopping]
         /\ broker' \in [Procs -> {"none", "open", "closed"}]
         /\ hurt' \in [Procs -> BOOLEAN] /\ bucket' \in BOOLEAN
      BY <1>4 DEF MakeBucket, StorageReady, CallFails
    <3> QED  BY <1>4, <3>1, <3>2 DEF MakeBucket, StorageReady, CallFails
  <2>2. LifeOf(p) /\ p \in Procs  BY DEF LifeInv
  <2>3. LifeOf(p)'
    BY <1>4, <2>2
    DEF MakeBucket, LifeOf, Role, Has, ClosedLast, RequestsInTime, Active, Listening,
        StorageReady, CallFails
  <2>4. LifeInv'  BY <1>4, <2>2, <2>3, OthersKept DEF MakeBucket, StorageReady, CallFails
  <2> QED  BY <2>1, <2>4
<1>5. ASSUME CheckBucket(p)  PROVE TypeOK' /\ LifeInv'
  <2>1. CASE ExitOne(p)
    <3>1. UNCHANGED faults \/ CallFails(p)  BY <1>5, <2>1 DEF CheckBucket, Fatal
    <3> QED  BY <2>1, <3>1, ExitKeeps
  <2>2. CASE ~ExitOne(p)
    <3>1. TypeOK'  BY <1>5, <2>2 DEF CheckBucket, StorageReady, Fatal
    <3>2. LifeOf(p) /\ p \in Procs  BY DEF LifeInv
    <3>3. LifeOf(p)'
      BY <1>5, <2>2, <3>2
      DEF CheckBucket, LifeOf, Role, Has, ClosedLast, RequestsInTime, Active, Listening,
          StorageReady, Fatal
    <3>4. LifeInv'
      BY <1>5, <2>2, <3>2, <3>3, OthersKept DEF CheckBucket, StorageReady, Fatal
    <3> QED  BY <3>1, <3>4
  <2> QED  BY <2>1, <2>2
<1>6. ASSUME Connect(p)  PROVE TypeOK' /\ LifeInv'
  <2>1. CASE ExitOne(p)
    <3>1. UNCHANGED faults \/ CallFails(p)  BY <1>6, <2>1 DEF Connect, Fatal, CallFails
    <3> QED  BY <2>1, <3>1, ExitKeeps
  <2>2. CASE ~ExitOne(p)
    <3>1. TypeOK'
      <4>1. faults' \in 0..MaxFaults
        BY <1>6, <2>2, LifeBounds DEF Connect, Fatal, CallFails
      <4>2. /\ phase' \in [Procs -> {"down"} \cup Starting \cup Up \cup Stopping]
           /\ broker' \in [Procs -> {"none", "open", "closed"}]
           /\ hurt' \in [Procs -> BOOLEAN] /\ bucket' \in BOOLEAN
        BY <1>6, <2>2 DEF Connect, Fatal, CallFails
      <4> QED  BY <1>6, <2>2, <4>1, <4>2 DEF Connect, Fatal, CallFails
    <3>2. LifeOf(p) /\ p \in Procs  BY DEF LifeInv
    <3>3. LifeOf(p)'
      BY <1>6, <2>2, <3>2
      DEF Connect, LifeOf, Role, Has, ClosedLast, RequestsInTime, Active, Listening, Fatal,
          CallFails
    <3>4. LifeInv'  BY <1>6, <2>2, <3>2, <3>3, OthersKept DEF Connect, Fatal, CallFails
    <3> QED  BY <3>1, <3>4
  <2> QED  BY <2>1, <2>2
<1> QED  BY <1>1, <1>2, <1>3, <1>4, <1>5, <1>6 DEF StartStep

(* main on its way down.                                                   *)
LEMMA StopKeeps ==
  ASSUME TypeOK, LifeInv, NEW s \in Servers, StopStep(s)
  PROVE  TypeOK' /\ LifeInv'
<1> USE DEF TypeOK, Goto, Procs, Starting, Up, Stopping
<1>1. ASSUME TracerStopped(s)  PROVE TypeOK' /\ LifeInv'
  <2>1. TypeOK'  BY <1>1 DEF TracerStopped
  <2>2. LifeOf(s) /\ s \in Procs  BY DEF LifeInv
  <2>3. LifeOf(s)'
    BY <1>1, <2>2
    DEF TracerStopped, LifeOf, Role, Has, ClosedLast, RequestsInTime, Active, Listening
  <2>4. LifeInv'  BY <1>1, <2>2, <2>3, OthersKept DEF TracerStopped
  <2> QED  BY <2>1, <2>4
<1>2. ASSUME Drained(s)  PROVE TypeOK' /\ LifeInv'
  <2>1. TypeOK'  BY <1>2 DEF Drained
  <2>2. LifeOf(s) /\ s \in Procs  BY DEF LifeInv
  <2>3. LifeOf(s)'
    BY <1>2, <2>2
    DEF Drained, LifeOf, Role, Has, ClosedLast, RequestsInTime, Active, Listening
  <2>4. LifeInv'  BY <1>2, <2>2, <2>3, OthersKept DEF Drained
  <2> QED  BY <2>1, <2>4
<1>3. ASSUME CloseBroker(s)  PROVE TypeOK' /\ LifeInv'
  <2>1. TypeOK'  BY <1>3 DEF CloseBroker
  <2>2. LifeOf(s) /\ s \in Procs  BY DEF LifeInv
  <2>3. LifeOf(s)'
    BY <1>3, <2>2
    DEF CloseBroker, LifeOf, Role, Has, ClosedLast, RequestsInTime, Active, Listening
  <2>4. LifeInv'  BY <1>3, <2>2, <2>3, OthersKept DEF CloseBroker
  <2> QED  BY <2>1, <2>4
<1>4. ASSUME ClosePool(s)  PROVE TypeOK' /\ LifeInv'
  <2>1. TypeOK'  BY <1>4 DEF ClosePool
  <2>2. LifeOf(s) /\ s \in Procs  BY DEF LifeInv
  <2>3. LifeOf(s)'
    BY <1>4, <2>2
    DEF ClosePool, LifeOf, Role, Has, ClosedLast, RequestsInTime, Active, Listening
  <2>4. LifeInv'  BY <1>4, <2>2, <2>3, OthersKept DEF ClosePool
  <2> QED  BY <2>1, <2>4
<1>5. ASSUME Leave(s)  PROVE TypeOK' /\ LifeInv'
  BY <1>5, GoneKeeps DEF Leave, Procs, TypeOK
<1> QED  BY <1>1, <1>2, <1>3, <1>4, <1>5 DEF StopStep

(* The requests.                                                           *)
LEMMA RequestsKeep ==
  ASSUME TypeOK, LifeInv, NEW s \in Servers, NEW k \in Slots, RequestStep(s, k)
  PROVE  TypeOK' /\ LifeInv'
<1>1. /\ OnlyRequests
      /\ \E pc \in {"free", "waiting"} \cup Inside : At(s, k, pc)
      /\ Active(s) \/ phase[s] \in Listening
  BY
  DEF RequestStep, Arrive, Enter, Refuse, Save, Acquire, Inserted, Publish, Inside, Active
<1>2. TypeOK'
  BY <1>1 DEF TypeOK, OnlyRequests, At
<1>3. LifeOf(s) /\ s \in Procs  BY DEF LifeInv, Procs
<1>4. LifeOf(s)'
  <2>1. Role(s)' /\ Has(s)' /\ ClosedLast(s)'
    BY <1>1, <1>3 DEF OnlyRequests, LifeOf, Role, Has, ClosedLast
  <2>2. RequestsInTime(s)'
    BY <1>1, <1>3 DEF OnlyRequests, LifeOf, RequestsInTime, Listening, Stopping
  <2> QED  BY <2>1, <2>2 DEF LifeOf
<1>5. LifeInv'
  BY <1>1, <1>3, <1>4, OthersKept DEF OnlyRequests, At, TypeOK
<1> QED  BY <1>2, <1>5

(* The rest: signals, the deadline, and the goroutine of the listener.     *)
LEMMA OutsideKeeps ==
  ASSUME TypeOK, LifeInv,
         \/ \E p \in Procs : Signal(p)
         \/ \E s \in Servers : ListenFails(s) \/ AskForSignals(s) \/ Expire(s)
  PROVE  TypeOK' /\ LifeInv'
<1> USE DEF TypeOK, Goto, Procs, Starting, Up, Stopping
<1>1. ASSUME NEW p \in Procs, Signal(p)  PROVE TypeOK' /\ LifeInv'
  <2>1. UNCHANGED <<config, spans, bucket, faults>> /\ signals' \in 0..MaxSignals
    BY <1>1, LifeBounds DEF Signal, TypeOK
  <2>2. CASE Gone(p)  BY <2>1, <2>2, GoneKeeps DEF TypeOK
  <2>3. CASE ~Gone(p)
    <3>1. /\ phase[p] = "serving" /\ Goto(p, "tracer")
          /\ UNCHANGED <<pool, broker, req, expired, hurt>>
      BY <1>1, <2>3 DEF Signal
    <3>2. TypeOK'  BY <2>1, <3>1 DEF TypeOK, Goto, Stopping
    <3>3. LifeOf(p)  BY DEF LifeInv
    <3>4. LifeOf(p)'
      BY <2>1, <3>1, <3>3
      DEF LifeOf, Role, Has, ClosedLast, RequestsInTime, Active, Up, Stopping, Listening,
          TypeOK, Goto
    <3>5. LifeInv'  BY <2>1, <3>1, <3>4, OthersKept DEF Goto, TypeOK
    <3> QED  BY <3>2, <3>5
  <2> QED  BY <2>2, <2>3
<1>2. ASSUME NEW s \in Servers, ListenFails(s)  PROVE TypeOK' /\ LifeInv'
  BY <1>2, ExitKeeps DEF ListenFails, Fatal, Procs
<1>3. ASSUME NEW s \in Servers, AskForSignals(s)  PROVE TypeOK' /\ LifeInv'
  <2>1. TypeOK'  BY <1>3 DEF AskForSignals
  <2>2. LifeOf(s) /\ s \in Procs  BY DEF LifeInv
  <2>3. LifeOf(s)'
    BY <1>3, <2>2
    DEF AskForSignals, LifeOf, Role, Has, ClosedLast, RequestsInTime, Active, Listening
  <2>4. LifeInv'  BY <1>3, <2>2, <2>3, OthersKept DEF AskForSignals
  <2> QED  BY <2>1, <2>4
<1>4. ASSUME NEW s \in Servers, Expire(s)  PROVE TypeOK' /\ LifeInv'
  <2>1. TypeOK'  BY <1>4 DEF Expire
  <2>2. LifeOf(s) /\ s \in Procs  BY DEF LifeInv
  <2>3. LifeOf(s)'
    BY <1>4, <2>2
    DEF Expire, LifeOf, Role, Has, ClosedLast, RequestsInTime, Active, Listening
  <2>4. LifeInv'  BY <1>4, <2>2, <2>3, OthersKept DEF Expire
  <2> QED  BY <2>1, <2>4
<1> QED  BY <1>1, <1>2, <1>3, <1>4

LEMMA Inductive ==
  /\ Init => TypeOK /\ LifeInv
  /\ TypeOK /\ LifeInv /\ [Next]_vars => TypeOK' /\ LifeInv'
<1>1. ASSUME Init  PROVE TypeOK /\ LifeInv
  <2>1. TypeOK
    <3>1. signals \in 0..MaxSignals /\ faults \in 0..MaxFaults  BY <1>1, LifeBounds DEF Init
    <3> QED  BY <1>1, <3>1 DEF Init, TypeOK
  <2>2. LifeInv
    BY <1>1
    DEF Init, LifeInv, LifeOf, Role, Has, ClosedLast, RequestsInTime, Active, Up, Stopping,
        Procs
  <2> QED  BY <2>1, <2>2
<1>2. ASSUME TypeOK, LifeInv, [Next]_vars  PROVE TypeOK' /\ LifeInv'
  <2>1. CASE UNCHANGED vars
    BY <1>2, <2>1
    DEF vars, TypeOK, LifeInv, LifeOf, Role, Has, ClosedLast, RequestsInTime, Active
  <2>2. CASE Next  BY <1>2, <2>2, StartKeeps, StopKeeps, RequestsKeep, OutsideKeeps DEF Next
  <2> QED  BY <1>2, <2>1, <2>2
<1> QED  BY <1>1, <1>2

(* Every variable keeps its type.                                          *)
THEOREM TypeCorrect == Spec => []TypeOK
BY Inductive, PTL DEF Spec

(* The inductive invariant: main has what is behind it, closes nothing     *)
(* before its end, and has no request but when it listens or drains.       *)
THEOREM Invariance == Spec => []LifeInv
BY Inductive, PTL DEF Spec

(* What a setting ends up as, whatever the sources say of it.              *)
LEMMA LoadedFrom ==
  ASSUME NEW s \in Sources, NEW f \in Fields
  PROVE  /\ Speaks(f, WithDotEnv(s.dotenv, s.env)) =>
              Loaded(s)[f] = WithDotEnv(s.dotenv, s.env)[f]
         /\ ~Speaks(f, WithDotEnv(s.dotenv, s.env)) =>
              /\ f \in DOMAIN s.json /\ s.json[f] \in Texts =>
                   Loaded(s)[f] = [from |-> "json", text |-> s.json[f]]
              /\ ~(f \in DOMAIN s.json /\ s.json[f] \in Texts) =>
                   Loaded(s)[f] = [from |-> "default", text |-> "good"]
BY DEF Loaded, Overwritten, WithJSON, Defaults

LEMMA HighestIsUsed ==
  ASSUME NEW s \in Sources
  PROVE  HighestWins(s)
<1> SUFFICES ASSUME NEW f \in Fields
             PROVE  LET heard == {v \in Offers(s, f) :
                                    ~(v.from = "dotenv" /\ s.env[f] = "empty")}
                    IN /\ Loaded(s)[f] \in heard
                       /\ \A v \in heard : Rank(v.from) <= Rank(Loaded(s)[f].from)
  BY DEF HighestWins
<1> DEFINE environ == WithDotEnv(s.dotenv, s.env)
           heard   == {v \in Offers(s, f) : ~(v.from = "dotenv" /\ s.env[f] = "empty")}
           l       == Loaded(s)[f]
<1>1. /\ Rank("default") = 0 /\ Rank("json") = 1 /\ Rank("dotenv") = 2 /\ Rank("env") = 3
  BY DEF Rank
<1>2. \A v \in Offers(s, f) :
        \/ v = [from |-> "default", text |-> "good"]
        \/ v.from = "json" /\ v \in Value /\ f \in DOMAIN s.json /\ s.json[f] = v.text
        \/ /\ v \in Value /\ f \in EnvFields /\ v.text # "empty"
           /\ \/ v.from = "dotenv" /\ s.dotenv[f] = v.text
              \/ v.from = "env" /\ s.env[f] = v.text
  BY DEF Offers
<1>3. CASE Speaks(f, environ)
  <2>1. l = environ[f] /\ f \in EnvFields /\ l.text \notin {"unset", "empty"}
    BY <1>3, LoadedFrom DEF Speaks
  <2>2. s.dotenv[f] \in Texts \cup {"unset"} /\ s.env[f] \in Texts \cup {"unset"}
    BY <2>1 DEF Sources, Environment
  <2>3. CASE s.env[f] = "unset"
    <3>1. l = [from |-> "dotenv", text |-> s.dotenv[f]]  BY <2>1, <2>3 DEF WithDotEnv
    <3>2. l \in Value  BY <2>1, <2>2, <3>1 DEF Value
    <3>3. l \in Offers(s, f)  BY <2>1, <3>1, <3>2 DEF Offers
    <3>4. l \in heard  BY <2>3, <3>3
    <3>5. \A v \in heard : v.from \in {"default", "json", "dotenv"}
      BY <1>2, <2>3 DEF Value, Texts
    <3> QED  BY <1>1, <3>1, <3>4, <3>5
  <2>4. CASE s.env[f] # "unset"
    <3>1. l = [from |-> "env", text |-> s.env[f]]  BY <2>1, <2>4 DEF WithDotEnv
    <3>2. l \in Value  BY <2>1, <2>2, <3>1 DEF Value
    <3>3. l \in Offers(s, f)  BY <2>1, <3>1, <3>2 DEF Offers
    <3>4. l \in heard  BY <3>1, <3>3
    <3>5. \A v \in heard : v.from \in {"default", "json", "dotenv", "env"}  BY <1>2
    <3> QED  BY <1>1, <3>1, <3>4, <3>5
  <2> QED  BY <2>3, <2>4
<1>4. CASE ~Speaks(f, environ)
  <2>1. \A v \in heard : v.from \in {"default", "json"}
    <3> SUFFICES ASSUME NEW v \in heard, v.from \in {"dotenv", "env"}  PROVE FALSE
      BY <1>2
    <3>1. f \in EnvFields /\ v.text \in Texts \ {"empty"}  BY <1>2 DEF Value
    <3>2. environ[f].text = v.text
      BY <1>2, <3>1, <1>4 DEF WithDotEnv, Speaks, Texts, Sources, Environment
    <3> QED  BY <1>4, <3>1, <3>2 DEF Speaks, Texts
  <2>2. CASE f \in DOMAIN s.json /\ s.json[f] \in Texts
    <3>1. l = [from |-> "json", text |-> s.json[f]]  BY <1>4, <2>2, LoadedFrom
    <3>2. l \in Value  BY <2>2, <3>1 DEF Value
    <3>3. l \in Offers(s, f)  BY <2>2, <3>1, <3>2 DEF Offers
    <3>4. l \in heard  BY <3>1, <3>3
    <3> QED  BY <1>1, <2>1, <3>1, <3>4
  <2>3. CASE ~(f \in DOMAIN s.json /\ s.json[f] \in Texts)
    <3>1. l = [from |-> "default", text |-> "good"]  BY <1>4, <2>3, LoadedFrom
    <3>2. l \in Offers(s, f)  BY <3>1 DEF Offers
    <3>3. l \in heard  BY <3>1, <3>2
    <3>4. \A v \in heard : v.from = "default"
      BY <1>2, <2>1, <2>3 DEF Value
    <3> QED  BY <1>1, <3>1, <3>3, <3>4
  <2> QED  BY <2>2, <2>3
<1> QED  BY <1>3, <1>4

(* A process uses, of every setting, what the highest source says of it    *)
(* that says anything, for any settings and any sources.                   *)
THEOREM SettingsAreHeard == Spec => []HighestSourceWins
<1>1. TypeOK => HighestSourceWins
  BY DeployedAssumption, HighestIsUsed DEF TypeOK, HighestSourceWins
<1> QED  BY <1>1, TypeCorrect, PTL

(* A process that is up has the bucket, its pool and, if a worker, its     *)
(* channel, whoever made the bucket and whatever failed meanwhile.         *)
THEOREM UpIsComplete == Spec => []UpHasAll
<1>1. LifeInv => UpHasAll
  BY RolesAssumption DEF LifeInv, LifeOf, Role, Has, UpHasAll, Up, Procs
<1> QED  BY <1>1, Invariance, PTL

(* Nothing a request works with is closed before the deadline.             *)
THEOREM ResourcesAreKept == Spec => []ResourcesOutliveRequests
<1>1. LifeInv => ResourcesOutliveRequests
  BY DEF LifeInv, LifeOf, ClosedLast, RequestsInTime, ResourcesOutliveRequests, Procs
<1> QED  BY <1>1, Invariance, PTL

(* Which step ends a process, and where its main is then.                  *)
LEMMA Exits ==
  ASSUME TypeOK, Next, NEW p \in Procs, phase[p] # "down", phase'[p] = "down"
  PROVE  \/ StartStep(p) /\ phase[p] \in Starting
         \/ Signal(p) /\ phase[p] \in Starting \cup {"launched", "running"}
         \/ p \in Servers /\ ListenFails(p)
         \/ p \in Servers /\ Leave(p)
<1> USE DEF Goto, TypeOK, Gone, ExitOne, Fatal
<1>1. ASSUME NEW q \in Procs, StartStep(q)  PROVE q = p /\ phase[q] \in Starting
  <2>1. phase[q] \in Starting \cup {"down"}
    BY <1>1
    DEF StartStep, Launch, Configure, OpenPool, MakeBucket, CheckBucket, Connect, Starting
  <2>2. \E ph : phase' = [phase EXCEPT ![q] = ph]
    BY <1>1
    DEF StartStep, Launch, Configure, OpenPool, MakeBucket, CheckBucket, Connect,
        StorageReady
  <2>3. q = p  BY <2>2
  <2> QED  BY <2>1, <2>3
<1>2. ASSUME NEW q \in Procs, Signal(q)
      PROVE  q = p /\ phase[q] \in Starting \cup {"launched", "running"}
  <2>1. q = p  BY <1>2 DEF Signal
  <2> QED  BY <1>2, <2>1 DEF Signal
<1>3. ASSUME NEW q \in Servers, ListenFails(q)  PROVE q = p
  BY <1>3 DEF ListenFails, Procs
<1>4. ASSUME NEW q \in Servers, StopStep(q)  PROVE q = p /\ Leave(q)
  <2>1. q = p
    BY <1>4 DEF StopStep, TracerStopped, Drained, CloseBroker, ClosePool, Leave, Procs
  <2> QED  BY <1>4, <2>1 DEF StopStep, TracerStopped, Drained, CloseBroker, ClosePool
<1>5. ASSUME NEW q \in Servers, AskForSignals(q) \/ Expire(q)  PROVE FALSE
  BY <1>5 DEF AskForSignals, Expire, Procs
<1>6. ASSUME NEW q \in Servers, NEW k \in Slots, RequestStep(q, k)  PROVE FALSE
  <2>1. OnlyRequests
    BY <1>6 DEF RequestStep, Arrive, Enter, Refuse, Save, Acquire, Inserted, Publish
  <2> QED  BY <2>1 DEF OnlyRequests
<1> QED  BY <1>1, <1>2, <1>3, <1>4, <1>5, <1>6 DEF Next

(* A request the server has accepted is answered before the process        *)
(* exits, but for the deadline, the moment before signal.Notify and an     *)
(* error of the listener.                                                  *)
THEOREM NoRequestIsCut == Spec => NoRequestCut
<1>1. TypeOK /\ LifeInv /\ [Next]_vars =>
        \A s \in Servers : Active(s) /\ phase[s] # "down" /\ phase'[s] = "down"
                            => expired[s] \/ phase[s] = "launched" \/ ListenFails(s)
  <2> SUFFICES ASSUME TypeOK, LifeInv, [Next]_vars, NEW s \in Servers,
                      Active(s), phase[s] # "down", phase'[s] = "down"
               PROVE  expired[s] \/ phase[s] = "launched" \/ ListenFails(s)
    OBVIOUS
  <2>1. Next  BY DEF vars
  <2>2. s \in Procs  BY DEF Procs
  <2>3. LifeOf(s)  BY <2>2 DEF LifeInv
  <2>4. phase[s] \notin Starting \cup {"running"}
    BY <2>3 DEF LifeOf, RequestsInTime, Role, Starting, Listening, Stopping
  <2>5. \/ Signal(s) /\ phase[s] \in Starting \cup {"launched", "running"}
        \/ ListenFails(s) \/ Leave(s)
    BY <2>1, <2>2, <2>4, Exits
  <2>6. CASE Leave(s)  BY <2>3, <2>6 DEF Leave, LifeOf, RequestsInTime
  <2> QED  BY <2>4, <2>5, <2>6
<1>2. Spec => []TypeOK /\ []LifeInv  BY TypeCorrect, Invariance
<1> QED  BY <1>1, <1>2, PTL DEF Spec, NoRequestCut

(* A process does not exit on its way up because of what others do: one    *)
(* that does had a failure of its own, was told to stop, or is configured  *)
(* wrongly.                                                                *)
THEOREM ExitsExplained == Spec => ExitHasCause
<1>1. TypeOK /\ LifeInv /\ [Next]_vars =>
        \A p \in Procs : (phase[p] \in Starting /\ phase'[p] = "down") =>
          hurt[p] \/ faults' # faults \/ signals' # signals \/ ~Accepted(config)
  <2> SUFFICES ASSUME TypeOK, LifeInv, [Next]_vars, NEW p \in Procs,
                      phase[p] \in Starting, phase'[p] = "down"
               PROVE  hurt[p] \/ faults' # faults \/ signals' # signals \/ ~Accepted(config)
    OBVIOUS
  <2>1. Next /\ phase[p] # "down"  BY DEF vars, Starting
  <2>2. StartStep(p) \/ Signal(p)
    BY <2>1, Exits DEF ListenFails, Listening, Leave, Starting
  <2>3. CASE Signal(p)
    <3>1. signals' = signals + 1 /\ signals \in Nat  BY <2>3, LifeBounds DEF Signal, TypeOK
    <3> QED  BY <3>1
  <2>4. CASE StartStep(p)
    <3>1. CallFails(p) => faults' # faults  BY LifeBounds DEF CallFails, TypeOK
    <3>2. CASE Configure(p)  BY <3>2, <2>1 DEF Configure, Goto, TypeOK
    <3>3. CASE CheckBucket(p)
      <4>1. bucket \/ hurt[p]  BY <3>3 DEF CheckBucket, LifeInv, LifeOf, Has
      <4> QED  BY <3>1, <3>3, <4>1 DEF CheckBucket, StorageReady, Goto, Fatal, TypeOK
    <3>4. CASE OpenPool(p)  BY <3>1, <3>4 DEF OpenPool, Goto, Fatal, TypeOK
    <3>5. CASE Connect(p)  BY <3>1, <3>5 DEF Connect, Goto, Fatal, TypeOK
    <3>6. CASE MakeBucket(p)  BY <3>1, <3>6 DEF MakeBucket, StorageReady, Goto, TypeOK
    <3>7. CASE Launch(p)  BY <2>1, <3>7 DEF Launch
    <3> QED  BY <2>4, <3>2, <3>3, <3>4, <3>5, <3>6, <3>7 DEF StartStep
  <2> QED  BY <2>2, <2>3, <2>4
<1>2. Spec => []TypeOK /\ []LifeInv  BY TypeCorrect, Invariance
<1> QED  BY <1>1, <1>2, PTL DEF Spec, ExitHasCause

=============================================================================
