---------------------------- MODULE ProcessLife ----------------------------
(***************************************************************************)
(* The life of the processes: main of cmd/server and of cmd/worker from    *)
(* the configuration to the exit, with the pool of connections to          *)
(* Postgres, the bucket they all make, the connection to RabbitMQ, the     *)
(* signal, and the server's shutdown around the requests in progress.  An  *)
(* orchestrator starts a process again that has exited.                    *)
(*                                                                         *)
(* Requests are uploads, which need everything, and go one at a time       *)
(* through the limiter (see RateLimiter).                                  *)
(***************************************************************************)
EXTENDS Configuration

CONSTANTS Servers, Workers,  \* the processes of cmd/server and cmd/worker
          Slots,             \* the requests a server has in progress
          Deployed,          \* the configurations a run starts with
          MaxFaults,         \* bound on the calls that fail
          MaxSignals         \* bound on the signals sent

ASSUME DeployedAssumption == Deployed \subseteq Sources
ASSUME LifeBounds == MaxFaults \in Nat /\ MaxSignals \in Nat
ASSUME RolesAssumption == Servers \cap Workers = {}

Procs == Servers \cup Workers

VARIABLES
  config,   \* what the deployment sets, for every process
  spans,    \* "taken" if a collector takes the spans, "stuck" if none does
  phase,    \* where main of each process is
  bucket,   \* whether the bucket exists
  pool,     \* dbPool of each process
  broker,   \* its connection to RabbitMQ
  req,      \* the requests of each server
  expired,  \* whether the deadline of its shutdown has passed
  signals,  \* how many signals were sent
  faults,   \* how many calls failed
  hurt      \* history: a call of this run of the process failed

vars == <<config, spans, phase, bucket, pool, broker, req, expired, signals, faults, hurt>>

(* "launched": the goroutine that listens is started, and main has not     *)
(* asked for the signals yet.  "tracer", "drain", "release", "leave": main *)
(* in tracerProvider.Shutdown, in srv.Shutdown, at its deferred calls, and *)
(* in dbPool.Close.                                                        *)
Starting == {"config", "pool", "make", "check", "broker"}
Up       == {"launched", "serving", "running"}
Stopping == {"tracer", "drain", "release", "leave"}
Listening == {"launched", "serving", "tracer"}

(* "waiting": for the limiter's mutex; then the calls of UploadAvatar.     *)
(* "inserting" holds a connection of the pool.                             *)
Inside == {"save", "insert", "inserting", "publish"}

TypeOK ==
  /\ config \in Deployed
  /\ spans \in {"taken", "stuck"}
  /\ phase \in [Procs -> {"down"} \cup Starting \cup Up \cup Stopping]
  /\ bucket \in BOOLEAN
  /\ pool \in [Procs -> {"none", "open", "closed"}]
  /\ broker \in [Procs -> {"none", "open", "closed"}]
  /\ req \in [Servers -> [Slots -> {"free", "waiting"} \cup Inside]]
  /\ expired \in [Servers -> BOOLEAN]
  /\ signals \in 0..MaxSignals
  /\ faults \in 0..MaxFaults
  /\ hurt \in [Procs -> BOOLEAN]

Init ==
  /\ config \in Deployed
  /\ spans \in {"taken", "stuck"}
  /\ phase = [p \in Procs |-> "down"]
  /\ bucket = FALSE
  /\ pool = [p \in Procs |-> "none"]
  /\ broker = [p \in Procs |-> "none"]
  /\ req = [s \in Servers |-> [k \in Slots |-> "free"]]
  /\ expired = [s \in Servers |-> FALSE]
  /\ signals = 0
  /\ faults = 0
  /\ hurt = [p \in Procs |-> FALSE]

-----------------------------------------------------------------------------

Goto(p, ph) == phase' = [phase EXCEPT ![p] = ph]

Active(s) == \E k \in Slots : req[s][k] # "free"

(* The process is gone, and with it its connections and its requests.      *)
Gone(p) ==
  /\ Goto(p, "down")
  /\ pool' = [pool EXCEPT ![p] = "none"]
  /\ broker' = [broker EXCEPT ![p] = "none"]
  /\ req' = [s \in Servers |-> IF s = p THEN [k \in Slots |-> "free"] ELSE req[s]]
  /\ expired' = [s \in Servers |-> s # p /\ expired[s]]
  /\ hurt' = [hurt EXCEPT ![p] = FALSE]

CallFails(p) == faults < MaxFaults /\ faults' = faults + 1

(* os.Exit(1), which runs no deferred call.                                *)
ExitOne(p) == Gone(p) /\ UNCHANGED <<config, spans, bucket, signals>>

(* The call before an os.Exit(1) fails.                                    *)
Fatal(p) == CallFails(p) /\ ExitOne(p)

-----------------------------------------------------------------------------
(* The start                                                               *)

Launch(p) ==
  /\ phase[p] = "down"
  /\ Goto(p, "config")
  /\ UNCHANGED <<config, spans, bucket, pool, broker, req, expired, signals, faults, hurt>>

Configure(p) ==
  /\ phase[p] = "config"
  /\ IF Accepted(config)
     THEN /\ Goto(p, "pool")
          /\ UNCHANGED <<config, spans, bucket, pool, broker, req, expired, signals, hurt>>
     ELSE ExitOne(p)
  /\ UNCHANGED faults

(* postgres.New: the pool is there once a Ping was answered in time.  The  *)
(* worker turns to RabbitMQ next, the server to the bucket.                *)
OpenPool(p) ==
  /\ phase[p] = "pool"
  /\ \/ /\ pool' = [pool EXCEPT ![p] = "open"]
        /\ Goto(p, IF p \in Servers THEN "make" ELSE "broker")
        /\ UNCHANGED <<config, spans, bucket, broker, req, expired, signals, faults, hurt>>
     \/ Fatal(p)

StorageReady(p) == Goto(p, IF p \in Servers THEN "broker" ELSE "running")

(* Mutants: any error of MakeBucket is fatal, or taken for a bucket that   *)
(* exists.                                                                 *)
MakeBucketOrExit(p) ==
  /\ phase[p] = "make"
  /\ IF bucket
     THEN ExitOne(p) /\ UNCHANGED faults
     ELSE /\ bucket' = TRUE
          /\ StorageReady(p)
          /\ UNCHANGED <<config, spans, pool, broker, req, expired, signals, faults, hurt>>

MakeBucketOrGoOn(p) ==
  /\ phase[p] = "make"
  /\ \/ bucket' = TRUE /\ UNCHANGED <<faults, hurt>>
     \/ UNCHANGED bucket /\ CallFails(p) /\ hurt' = [hurt EXCEPT ![p] = TRUE]
  /\ StorageReady(p)
  /\ UNCHANGED <<config, spans, pool, broker, req, expired, signals>>

(* NewMinIOStorage makes the bucket.  An error, the one of a bucket that   *)
(* exists already included, is not the last word; a call may also fail     *)
(* after it was applied.                                                   *)
MakeBucket(p) ==
  /\ phase[p] = "make"
  /\ \/ ~bucket /\ bucket' = TRUE /\ StorageReady(p) /\ UNCHANGED <<faults, hurt>>
     \/ bucket /\ Goto(p, "check") /\ UNCHANGED <<bucket, faults, hurt>>
     \/ /\ CallFails(p)
        /\ bucket' \in {bucket, TRUE}
        /\ Goto(p, "check")
        /\ hurt' = [hurt EXCEPT ![p] = TRUE]
  /\ UNCHANGED <<config, spans, pool, broker, req, expired, signals>>

CheckBucket(p) ==
  /\ phase[p] = "check"
  /\ \/ /\ bucket
        /\ StorageReady(p)
        /\ UNCHANGED <<config, spans, bucket, pool, broker, req, expired, signals, faults, hurt>>
     \/ ~bucket /\ ExitOne(p) /\ UNCHANGED faults
     \/ Fatal(p)

(* Mutant: a connection that was not made is kept.                         *)
ConnectKept(p) ==
  /\ phase[p] = "broker"
  /\ CallFails(p)
  /\ broker' = [broker EXCEPT ![p] = "broken"]
  /\ Goto(p, IF p \in Servers THEN "launched" ELSE "make")
  /\ UNCHANGED <<config, spans, bucket, pool, req, expired, signals, hurt>>

(* NewRabbitMQ: a server that cannot connect starts all the same, with a   *)
(* nil publisher; a worker does not.                                       *)
Connect(p) ==
  LET next == IF p \in Servers THEN "launched" ELSE "make"
  IN
  /\ phase[p] = "broker"
  /\ \/ /\ broker' = [broker EXCEPT ![p] = "open"]
        /\ Goto(p, next)
        /\ UNCHANGED <<config, spans, bucket, pool, req, expired, signals, faults, hurt>>
     \/ /\ p \in Servers
        /\ CallFails(p)
        /\ Goto(p, next)
        /\ hurt' = [hurt EXCEPT ![p] = TRUE]
        /\ UNCHANGED <<config, spans, bucket, pool, broker, req, expired, signals>>
     \/ p \notin Servers /\ Fatal(p)

(* ListenAndServe fails, in its goroutine, for the address is taken or an  *)
(* Accept returns an error: os.Exit(1), whatever is in progress, and while *)
(* main waits for the tracer too.  Once srv.Shutdown has begun its error   *)
(* is ErrServerClosed, which is ignored.                                   *)
ListenFails(s) ==
  /\ phase[s] \in Listening
  /\ Fatal(s)

(* signal.Notify, after the goroutine was started.                         *)
AskForSignals(s) ==
  /\ phase[s] = "launched"
  /\ Goto(s, "serving")
  /\ UNCHANGED <<config, spans, bucket, pool, broker, req, expired, signals, faults, hurt>>

-----------------------------------------------------------------------------
(* Requests                                                                *)

At(s, k, pc) == req' = [req EXCEPT ![s][k] = pc]

OnlyRequests ==
  UNCHANGED <<config, spans, phase, bucket, pool, broker, expired, signals, faults, hurt>>

Arrive(s, k) ==
  /\ phase[s] \in Listening
  /\ req[s][k] = "free"
  /\ At(s, k, "waiting")
  /\ OnlyRequests

(* It gets the limiter's mutex, and is let through.                        *)
Enter(s, k) ==
  /\ req[s][k] = "waiting"
  /\ \A j \in Slots : req[s][j] \notin Inside
  /\ At(s, k, "save")
  /\ OnlyRequests

(* It is refused: by the limiter, by JWTAuth, or for its file.             *)
Refuse(s, k) ==
  /\ req[s][k] = "waiting"
  /\ \A j \in Slots : req[s][j] \notin Inside
  /\ At(s, k, "free")
  /\ OnlyRequests

Save(s, k) ==
  /\ req[s][k] = "save"
  /\ At(s, k, "insert")
  /\ OnlyRequests

(* Create acquires a connection; of a closed pool it gets an error.        *)
Acquire(s, k) ==
  /\ req[s][k] = "insert"
  /\ At(s, k, IF pool[s] = "open" THEN "inserting" ELSE "free")
  /\ OnlyRequests

Inserted(s, k) ==
  /\ req[s][k] = "inserting"
  /\ At(s, k, "publish")
  /\ OnlyRequests

Publish(s, k) ==
  /\ req[s][k] = "publish"
  /\ At(s, k, "free")
  /\ OnlyRequests

RequestStep(s, k) ==
  Arrive(s, k) \/ Enter(s, k) \/ Refuse(s, k) \/ Save(s, k)
    \/ Acquire(s, k) \/ Inserted(s, k) \/ Publish(s, k)

-----------------------------------------------------------------------------
(* The end                                                                 *)

(* Mutant: no signal.Notify.                                               *)
SignalKills(p) ==
  /\ signals < MaxSignals
  /\ signals' = signals + 1
  /\ phase[p] \in Starting \cup Up
  /\ Gone(p)
  /\ UNCHANGED <<config, spans, bucket, faults>>

(* SIGINT or SIGTERM.  Before signal.Notify it ends the process at once;   *)
(* the worker, whose Stop waits for nothing, ends at once as well.         *)
Signal(p) ==
  /\ signals < MaxSignals
  /\ signals' = signals + 1
  /\ \/ /\ phase[p] = "serving"
        /\ Goto(p, "tracer")
        /\ UNCHANGED <<pool, broker, req, expired, hurt>>
     \/ phase[p] \in Starting \cup {"launched", "running"} /\ Gone(p)
  /\ UNCHANGED <<config, spans, bucket, faults>>

Expire(s) ==
  /\ phase[s] \in {"tracer", "drain"}
  /\ ~expired[s]
  /\ expired' = [expired EXCEPT ![s] = TRUE]
  /\ UNCHANGED <<config, spans, phase, bucket, pool, broker, req, signals, faults, hurt>>

(* Mutant: a context of its own, without a deadline.                       *)
TracerStoppedUnbounded(s) ==
  /\ phase[s] = "tracer"
  /\ spans = "taken"
  /\ Goto(s, "drain")
  /\ UNCHANGED <<config, spans, bucket, pool, broker, req, expired, signals, faults, hurt>>

(* tracerProvider.Shutdown exports what it has, or gives up when the same  *)
(* deadline passes that srv.Shutdown gets; the listener is still open.     *)
TracerStopped(s) ==
  /\ phase[s] = "tracer"
  /\ spans = "taken" \/ expired[s]
  /\ Goto(s, "drain")
  /\ UNCHANGED <<config, spans, bucket, pool, broker, req, expired, signals, faults, hurt>>

(* Mutant: a Shutdown that main does not wait for.                         *)
DrainedAtOnce(s) ==
  /\ phase[s] = "drain"
  /\ Goto(s, "release")
  /\ UNCHANGED <<config, spans, bucket, pool, broker, req, expired, signals, faults, hurt>>

(* srv.Shutdown: no request is in progress any more, or it is too late to  *)
(* wait.  The log says "exited gracefully" either way.                     *)
Drained(s) ==
  /\ phase[s] = "drain"
  /\ ~Active(s) \/ expired[s]
  /\ Goto(s, "release")
  /\ UNCHANGED <<config, spans, bucket, pool, broker, req, expired, signals, faults, hurt>>

(* The deferred calls: rabbitMQ.Close, then dbPool.Close, which turns away *)
(* new callers and waits for the connections that are in use.              *)
CloseBroker(s) ==
  /\ phase[s] = "release"
  /\ broker[s] = "open"
  /\ broker' = [broker EXCEPT ![s] = "closed"]
  /\ UNCHANGED <<config, spans, phase, bucket, pool, req, expired, signals, faults, hurt>>

ClosePool(s) ==
  /\ phase[s] = "release"
  /\ broker[s] # "open"
  /\ pool' = [pool EXCEPT ![s] = "closed"]
  /\ Goto(s, "leave")
  /\ UNCHANGED <<config, spans, bucket, broker, req, expired, signals, faults, hurt>>

Leave(s) ==
  /\ phase[s] = "leave"
  /\ \A k \in Slots : req[s][k] # "inserting"
  /\ Gone(s)
  /\ UNCHANGED <<config, spans, bucket, signals, faults>>

-----------------------------------------------------------------------------

StartStep(p) == \/ Launch(p) \/ Configure(p) \/ OpenPool(p)
                \/ MakeBucket(p) \/ CheckBucket(p) \/ Connect(p)

StopStep(s) == TracerStopped(s) \/ Drained(s) \/ CloseBroker(s) \/ ClosePool(s) \/ Leave(s)

Next ==
  \/ \E p \in Procs : StartStep(p) \/ Signal(p)
  \/ \E s \in Servers : ListenFails(s) \/ AskForSignals(s) \/ Expire(s) \/ StopStep(s)
  \/ \E s \in Servers, k \in Slots : RequestStep(s, k)

Spec == Init /\ [][Next]_vars

(* main goes on, the deadline passes, the calls of a handler end, and what *)
(* has exited is started again (restart: unless-stopped; a Deployment).    *)
Fairness ==
  /\ \A p \in Procs : WF_vars(StartStep(p))
  /\ \A s \in Servers : WF_vars(AskForSignals(s)) /\ WF_vars(Expire(s)) /\ WF_vars(StopStep(s))
  /\ \A s \in Servers, k \in Slots :
       WF_vars(Save(s, k) \/ Acquire(s, k) \/ Inserted(s, k) \/ Publish(s, k))

FairSpec == Spec /\ Fairness

-----------------------------------------------------------------------------

(* What a deployment sets is what its processes use: of the sources of a   *)
(* setting the highest that says something wins (see HighestWins).         *)
HighestSourceWins == HighestWins(config)

(* A process that is up has all it was started for, whoever made the       *)
(* bucket and however the calls of the others went meanwhile.              *)
UpHasAll ==
  \A p \in Procs : phase[p] \in Up =>
    bucket /\ pool[p] = "open" /\ (p \in Workers => broker[p] = "open")

(* A process whose calls all succeed comes up: it is not one of the losers *)
(* of the race for the bucket that exits, unless a call of its own failed  *)
(* (or does now), it was told to stop, or its configuration is refused.    *)
ExitHasCause ==
  [][\A p \in Procs :
       (phase[p] \in Starting /\ phase'[p] = "down") =>
         hurt[p] \/ faults' # faults \/ signals' # signals \/ ~Accepted(config)]_vars

(* What a request in progress works with is not closed under it before     *)
(* the deadline of the shutdown.                                           *)
ResourcesOutliveRequests ==
  \A s \in Servers :
    (Active(s) /\ (pool[s] = "closed" \/ broker[s] = "closed")) => expired[s]

(* A request the server has accepted is answered before the process exits, *)
(* with three exceptions: the deadline has passed, the signal came between *)
(* the start of the listener and signal.Notify, or the listener itself     *)
(* failed, whose goroutine exits without a Shutdown.                       *)
NoRequestCut ==
  [][\A s \in Servers :
       (Active(s) /\ phase[s] # "down" /\ phase'[s] = "down") =>
         expired[s] \/ phase[s] = "launched" \/ ListenFails(s)]_vars

(* A server that was told to stop exits, if the INSERTs of its requests    *)
(* end, and whether or not anybody collects its spans.                     *)
StopsInTheEnd == \A s \in Servers : phase[s] = "tracer" ~> phase[s] = "down"

(* When the failures and the signals are over, every process comes up, and *)
(* stays up.                                                               *)
AllUpInTheEnd == Accepted(config) => <>[](\A p \in Procs : phase[p] \in Up)

=============================================================================
