---------------------------- MODULE ServerProcess ----------------------------
(***************************************************************************)
(* The life of the server process (cmd/api/main.go run): it reads its      *)
(* environment, connects, starts BuildWorker and serves; HTTP handlers     *)
(* accept builds and send them to the queue, BuildWorker goroutines take   *)
(* them from it, and SIGTERM drains the handlers for 10 s, cancels the     *)
(* workers' context and waits for them.                                    *)
(*                                                                         *)
(* What processing a build does is KnowledgeBase's subject; here it only   *)
(* begins and ends.                                                        *)
(***************************************************************************)
EXTENDS Integers, Sequences, FiniteSets

CONSTANTS
  Builds,       \* bound: the builds that are ever requested
  Workers,      \* bound: the goroutines that may ever be started
  Numbers,      \* bound: the integers that settings are set to
  Names,        \* bound: user names and passwords, besides the empty text
  Unset,        \* a variable that is missing or empty; also the empty text
  Malformed,    \* a text that strconv cannot parse
  Idle, Gone    \* a goroutine in its select, and one that does not run

ASSUME WorkersAssumption == Idle \notin Builds /\ Gone \notin Builds /\ Idle # Gone
ASSUME NumbersAssumption ==
  Numbers \subseteq Int /\ Unset \notin Int \cup BOOLEAN /\ Malformed \notin Int \cup BOOLEAN
ASSUME NamesAssumption == Unset \notin Names

VARIABLES
  environ,  \* the environment variables, which nobody changes
  main,     \* where run is
  drained,  \* Shutdown returned nil, so run does
  build,    \* what has become of each build
  queue,    \* the channel
  worker    \* what each goroutine does: Idle, Gone or the build it processes

procVars == <<build, queue, worker>>
vars == <<environ, main, drained, procVars>>

StartPCs == {"loading", "connecting", "migrating", "storage", "bucket", "starting"}
MainPCs == StartPCs \cup {"serving", "draining", "stopping", "waiting", "exited", "crashed"}
BuildStates == {"none", "handling", "abandoned", "queued", "processing", "settled"}

Environments ==
  [AUTH_ENABLED : BOOLEAN \cup {Unset, Malformed},
   AUTH_USERNAME : Names \cup {Unset}, AUTH_PASSWORD : Names \cup {Unset},
   WORKER_CONCURRENCY : Numbers \cup {Unset, Malformed},
   WORKER_QUEUE_SIZE : Numbers \cup {Unset, Malformed}]

TypeOK ==
  /\ environ \in Environments
  /\ main \in MainPCs
  /\ drained \in BOOLEAN
  /\ build \in [Builds -> BuildStates]
  /\ queue \in Seq(Builds)
  /\ worker \in [Workers -> Builds \cup {Idle, Gone}]

Init ==
  /\ environ \in Environments
  /\ main = "loading"
  /\ drained = FALSE
  /\ build = [b \in Builds |-> "none"]
  /\ queue = <<>>
  /\ worker = [w \in Workers |-> Gone]

-----------------------------------------------------------------------------
(* Configuration. *)

(* What does not parse counts as not set. *)
envBool(v, def) == IF v \in BOOLEAN THEN v ELSE def
envInt(v, def) == IF v \in Int THEN v ELSE def

AuthEnabled == envBool(environ.AUTH_ENABLED, TRUE)

(* A mutant: any number of workers is taken as it is. *)
AnyConcurrency == envInt(environ.WORKER_CONCURRENCY, 2)

(* NewBuildWorker *)
Concurrency ==
  LET n == envInt(environ.WORKER_CONCURRENCY, 2) IN IF n < 1 THEN 1 ELSE n

(* NewChannelBuildQueue *)
QueueSize ==
  LET n == envInt(environ.WORKER_QUEUE_SIZE, 64) IN IF n <= 0 THEN 64 ELSE n

(* A mutant: one of the two credentials will do. *)
ConfigAcceptedWithEither ==
  AuthEnabled => environ.AUTH_USERNAME # Unset \/ environ.AUTH_PASSWORD # Unset

ConfigAccepted ==
  AuthEnabled => environ.AUTH_USERNAME # Unset /\ environ.AUTH_PASSWORD # Unset

(* The Authorization header of a request, if it has one. *)
Headers ==
  [ok : {FALSE}] \cup [ok : {TRUE}, user : Names \cup {Unset}, pass : Names \cup {Unset}]

(* BasicAuth *)
Admits(h) ==
  AuthEnabled => /\ h.ok
                 /\ h.user = environ.AUTH_USERNAME
                 /\ h.pass = environ.AUTH_PASSWORD

-----------------------------------------------------------------------------
(* Start-up, one action per call that may fail; run returns the error.     *)

Goto(from, to) ==
  main = from /\ main' = to /\ UNCHANGED <<environ, drained, procVars>>

Load == Goto("loading", IF ConfigAccepted THEN "connecting" ELSE "crashed")
NewPool == Goto("connecting", "migrating") \/ Goto("connecting", "crashed")
Migrate == Goto("migrating", "storage") \/ Goto("migrating", "crashed")
NewStorage == Goto("storage", "bucket") \/ Goto("storage", "crashed")

(* A bucket that cannot be created is logged and nothing more. *)
EnsureBucket == Goto("bucket", "starting")

(* worker.Start, then ListenAndServe. *)
Start ==
  /\ main = "starting" /\ main' = "serving"
  /\ \E started \in SUBSET Workers :
       /\ Cardinality(started) = Concurrency
       /\ worker' = [w \in Workers |-> IF w \in started THEN Idle ELSE Gone]
  /\ UNCHANGED <<environ, drained, build, queue>>

-----------------------------------------------------------------------------
(* Service and shutdown. *)

Running == main \notin StartPCs \cup {"exited", "crashed"}
Stopped == main \in {"waiting", "exited"}  \* workerCtx is cancelled

(* Shutdown closes the listener first: no request is accepted after that.  *)
(* The middleware has admitted the request.                                *)
Accept(b) ==
  /\ main = "serving"
  /\ \E h \in Headers : Admits(h)
  /\ build[b] = "none"
  /\ build' = [build EXCEPT ![b] = "handling"]
  /\ UNCHANGED <<environ, main, drained, queue, worker>>

(* Neither Shutdown's 10 s nor stopWorker ends a handler: it may send to   *)
(* the channel for as long as the process runs.                            *)
Enqueue(b) ==
  /\ Running
  /\ build[b] = "handling"
  /\ Len(queue) < QueueSize
  /\ build' = [build EXCEPT ![b] = "queued"]
  /\ queue' = Append(queue, b)
  /\ UNCHANGED <<environ, main, drained, worker>>

(* The handler's context is done while the buffer is full, or an earlier   *)
(* step of it failed.                                                      *)
Abandon(b) ==
  /\ Running
  /\ build[b] = "handling"
  /\ build' = [build EXCEPT ![b] = "abandoned"]
  /\ UNCHANGED <<environ, main, drained, queue, worker>>

(* A select with two ready cases takes either: a cancelled context does    *)
(* not keep a worker from receiving.                                       *)
Receive(w) ==
  /\ Running
  /\ worker[w] = Idle
  /\ queue # <<>>
  /\ worker' = [worker EXCEPT ![w] = Head(queue)]
  /\ build' = [build EXCEPT ![Head(queue)] = "processing"]
  /\ queue' = Tail(queue)
  /\ UNCHANGED <<environ, main, drained>>

(* ProcessBuild returns; context.WithoutCancel keeps it going until then. *)
Process(w) ==
  /\ Running
  /\ worker[w] \in Builds
  /\ build' = [build EXCEPT ![worker[w]] = "settled"]
  /\ worker' = [worker EXCEPT ![w] = Idle]
  /\ UNCHANGED <<environ, main, drained, queue>>

(* A mutant: cancelling the context also aborts a build in flight. *)
WorkerReturnsAtOnce(w) ==
  /\ Stopped /\ Running
  /\ worker[w] # Gone
  /\ worker' = [worker EXCEPT ![w] = Gone]
  /\ UNCHANGED <<environ, main, drained, build, queue>>

WorkerReturns(w) ==
  /\ Stopped /\ Running
  /\ worker[w] = Idle
  /\ worker' = [worker EXCEPT ![w] = Gone]
  /\ UNCHANGED <<environ, main, drained, build, queue>>

Signal == Goto("serving", "draining")

(* ListenAndServe fails: run returns, and the process exits as it is. *)
ListenFails == Goto("serving", "crashed")

(* A mutant: the error of Shutdown is dropped. *)
ShutdownReturnsNil ==
  /\ main = "draining" /\ main' = "stopping"
  /\ drained' = TRUE
  /\ UNCHANGED <<environ, procVars>>

(* srv.Shutdown: the handlers have returned, or 10 s have passed. *)
ShutdownReturns ==
  /\ main = "draining" /\ main' = "stopping"
  /\ drained' \in {FALSE, \A b \in Builds : build[b] # "handling"}
  /\ UNCHANGED <<environ, procVars>>

(* A mutant: Wait before stopWorker. *)
WaitThenStop ==
  /\ \A w \in Workers : worker[w] = Gone
  /\ Goto("stopping", "waiting")

StopWorker == Goto("stopping", "waiting")

Wait ==
  /\ \A w \in Workers : worker[w] = Gone
  /\ Goto("waiting", "exited")

StartStep == Load \/ NewPool \/ Migrate \/ NewStorage \/ EnsureBucket \/ Start
WorkerStep(w) == Receive(w) \/ Process(w) \/ WorkerReturns(w)
MainStep == ShutdownReturns \/ StopWorker \/ Wait

Next ==
  \/ \E b \in Builds : Accept(b) \/ Enqueue(b) \/ Abandon(b)
  \/ \E w \in Workers : WorkerStep(w)
  \/ StartStep \/ Signal \/ ListenFails \/ MainStep

Spec == Init /\ [][Next]_vars

(* Goroutines run; a build that is processed returns some time, and a      *)
(* channel serves its senders in turn.  Nothing else is assumed of         *)
(* handlers: a client may upload or read as slowly as it likes.            *)
Fairness ==
  /\ WF_vars(MainStep)
  /\ \A w \in Workers : WF_vars(WorkerStep(w))
  /\ \A b \in Builds : SF_vars(Enqueue(b))

FairSpec == Spec /\ Fairness

-----------------------------------------------------------------------------
(* Properties. *)

(***************************************************************************)
(* "All /api/v1 routes require HTTP basic auth" (README): whatever the     *)
(* environment holds, misspelt values included, a process that serves lets *)
(* nobody in without a name and a password, unless AUTH_ENABLED says false.*)
(* BasicAuth alone would admit empty credentials; Load must refuse them.   *)
(***************************************************************************)
ServesOnlyGuarded ==
  main = "serving" /\ environ.AUTH_ENABLED # FALSE =>
    \A h \in Headers : Admits(h) => h.ok /\ h.user # Unset /\ h.pass # Unset

(***************************************************************************)
(* No setting of WORKER_CONCURRENCY and WORKER_QUEUE_SIZE leaves a build   *)
(* waiting for ever: while the process serves, a build that a handler      *)
(* holds or has queued is processed, or its request gives up.              *)
(***************************************************************************)
BuildsGetTheirTurn ==
  \A b \in Builds :
    build[b] \in {"handling", "queued"} ~>
      build[b] \in {"settled", "abandoned"} \/ main # "serving"

(***************************************************************************)
(* Exit status 0 is only for a shutdown that cut no request: when run      *)
(* returns nil, every handler had returned before the process ended.       *)
(***************************************************************************)
CleanExitCutsNobody ==
  main = "exited" /\ drained => \A b \in Builds : build[b] # "handling"

(***************************************************************************)
(* A build in flight is held by exactly one live worker, so that waiting   *)
(* for the workers is waiting for the builds: after a signal the process   *)
(* exits with no build half done, however late the handlers enqueued and   *)
(* however the workers' selects chose.                                     *)
(***************************************************************************)
NoHalfBuildAtExit == main = "exited" => \A b \in Builds : build[b] # "processing"

(***************************************************************************)
(* After SIGTERM the process exits: neither a slow handler, a full queue   *)
(* nor builds that are still queued keep it, if each build that was begun  *)
(* returns.                                                                *)
(***************************************************************************)
SignalLeadsToExit == main = "draining" ~> main = "exited"

(***************************************************************************)
(* The inductive invariant behind NoHalfBuildAtExit: a build is either in  *)
(* one place of the queue or in the hands of one worker.                   *)
(***************************************************************************)
HeldByOneWorker ==
  /\ \A b \in Builds : build[b] = "processing" => \E w \in Workers : worker[w] = b
  /\ \A w \in Workers : worker[w] \in Builds => build[worker[w]] = "processing"
  /\ \A v, w \in Workers : worker[v] \in Builds /\ worker[v] = worker[w] => v = w

QueuedOnce ==
  /\ \A i \in 1..Len(queue) : build[queue[i]] = "queued"
  /\ \A i, j \in 1..Len(queue) : queue[i] = queue[j] => i = j

ExitWaited == main = "exited" => \A w \in Workers : worker[w] = Gone

(* Nothing runs before the server starts, nothing is handled after it has  *)
(* drained, and it listens only if the configuration was accepted.         *)
ListensInTime ==
  /\ main \in StartPCs => \A w \in Workers : worker[w] = Gone
  /\ main \in StartPCs \/ drained => \A b \in Builds : build[b] # "handling"
  /\ main \in StartPCs \cup {"serving", "draining"} => ~drained
  /\ main \notin {"loading", "crashed"} => ConfigAccepted

IInv == TypeOK /\ HeldByOneWorker /\ QueuedOnce /\ ExitWaited /\ ListensInTime
=============================================================================
