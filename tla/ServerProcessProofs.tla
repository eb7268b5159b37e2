------------------------ MODULE ServerProcessProofs -------------------------
(***************************************************************************)
(* Proofs about ServerProcess, for any number of builds and workers and    *)
(* every environment.                                                      *)
(***************************************************************************)
EXTENDS ServerProcess, SequenceTheorems, FiniteSetTheorems, TLAPS

LEMMA InitIInv == Init => IInv
<1> SUFFICES ASSUME Init PROVE IInv
  OBVIOUS
<1>1. queue \in Seq(Builds) /\ Len(queue) = 0
  BY EmptySeq DEF Init
<1>2. TypeOK
  BY <1>1 DEF Init, TypeOK, MainPCs, StartPCs, BuildStates
<1>3. ListensInTime
  BY DEF Init, ListensInTime, StartPCs
<1> QED
  BY <1>1, <1>2, <1>3, WorkersAssumption
  DEF Init, IInv, HeldByOneWorker, QueuedOnce, ExitWaited

(* What a step leaves alone of the configuration.                          *)
LEMMA ConfigurationStays == UNCHANGED environ => ConfigAccepted' = ConfigAccepted
BY DEF ConfigAccepted, AuthEnabled

LEMMA EnqueueIInv ==
  ASSUME IInv, NEW b \in Builds, Enqueue(b)
  PROVE  IInv'
<1> USE DEF IInv, TypeOK, HeldByOneWorker, QueuedOnce, ExitWaited, BuildStates, Running,
        Enqueue
<1>1. /\ queue' \in Seq(Builds) /\ Len(queue') = Len(queue) + 1
      /\ \A i \in 1..Len(queue) : queue'[i] = queue[i]
      /\ queue'[Len(queue) + 1] = b
  BY AppendProperties
<1>2. \A i \in 1..Len(queue) : queue[i] # b /\ queue[i] \in Builds
  OBVIOUS
<1>3. TypeOK' /\ HeldByOneWorker' /\ ExitWaited'
  BY <1>1
<1>4. \A i \in 1..Len(queue') : build'[queue'[i]] = "queued"
  BY <1>1, <1>2
<1>5. \A i, j \in 1..Len(queue') : queue'[i] = queue'[j] => i = j
  BY <1>1, <1>2
<1>6. ListensInTime'
  BY ConfigurationStays DEF ListensInTime
<1> QED
  BY <1>3, <1>4, <1>5, <1>6

LEMMA ReceiveIInv ==
  ASSUME IInv, NEW w \in Workers, Receive(w)
  PROVE  IInv'
<1> USE DEF IInv, TypeOK, HeldByOneWorker, QueuedOnce, ExitWaited, BuildStates, Running, Receive
<1> DEFINE b == Head(queue)
<1>1. /\ b \in Builds /\ b = queue[1] /\ Len(queue) \in Nat \ {0}
      /\ queue' \in Seq(Builds) /\ Len(queue') = Len(queue) - 1
      /\ \A i \in 1..Len(queue') : queue'[i] = queue[i + 1]
  BY HeadTailProperties
<1>2. build[b] = "queued"
  BY <1>1
<1>3. /\ worker' = [worker EXCEPT ![w] = b]
      /\ build' = [build EXCEPT ![b] = "processing"]
      /\ UNCHANGED <<environ, main, drained>> /\ worker[w] = Idle /\ main # "exited"
  OBVIOUS
<1>4. \A i \in 1..Len(queue') : i + 1 \in 1..Len(queue) /\ i + 1 # 1
  BY <1>1
<1>5. QueuedOnce'
  BY <1>1, <1>3, <1>4
<1> HIDE DEF b
<1>6. HeldByOneWorker'
  BY <1>1, <1>2, <1>3, WorkersAssumption
<1>7. ListensInTime'
  BY <1>1, <1>3, ConfigurationStays DEF ListensInTime
<1> QED
  BY <1>1, <1>3, <1>5, <1>6, <1>7

(* A step of run that is not Start: the builds and workers are not touched.*)
LEMMA MainIInv ==
  ASSUME IInv, UNCHANGED <<environ, procVars>>, main' \in MainPCs, drained' \in BOOLEAN,
         ExitWaited', ListensInTime'
  PROVE  IInv'
BY DEF IInv, TypeOK, HeldByOneWorker, QueuedOnce, procVars

LEMMA StartIInv ==
  ASSUME IInv, Start
  PROVE  IInv'
<1> USE DEF Start, IInv
<1>1. PICK started \in SUBSET Workers :
        worker' = [w \in Workers |-> IF w \in started THEN Idle ELSE Gone]
  OBVIOUS
<1>2. \A b \in Builds : build[b] # "processing"
  BY WorkersAssumption DEF HeldByOneWorker, ListensInTime, StartPCs
<1>3. TypeOK'
  BY <1>1 DEF TypeOK, MainPCs
<1>4. HeldByOneWorker'
  BY <1>1, <1>2, WorkersAssumption
  DEF HeldByOneWorker
<1>5. QueuedOnce' /\ ExitWaited'
  BY DEF QueuedOnce, ExitWaited
<1>6. ListensInTime'
  BY ConfigurationStays DEF ListensInTime, StartPCs
<1> QED
  BY <1>3, <1>4, <1>5, <1>6

LEMMA StartUpIInv ==
  ASSUME IInv, Load \/ NewPool \/ Migrate \/ NewStorage \/ EnsureBucket
  PROVE  IInv'
<1> USE DEF Load, NewPool, Migrate, NewStorage, EnsureBucket, Goto
<1>1. main \in StartPCs /\ UNCHANGED <<environ, drained, procVars>>
  BY DEF StartPCs
<1>2. main' \in MainPCs /\ drained' \in BOOLEAN
  BY DEF IInv, TypeOK, MainPCs, StartPCs
<1>3. main' \notin {"loading", "exited"}
  OBVIOUS
<1>4. main' # "crashed" => ConfigAccepted
  BY DEF IInv, ListensInTime
<1>5. ListensInTime'
  BY <1>1, <1>2, <1>3, <1>4, ConfigurationStays DEF IInv, ListensInTime, procVars, StartPCs
<1> QED
  BY <1>1, <1>2, <1>3, <1>5, MainIInv DEF ExitWaited

LEMMA ShutdownIInv ==
  ASSUME IInv, Signal \/ ListenFails \/ MainStep
  PROVE  IInv'
<1> USE DEF Signal, ListenFails, MainStep, StopWorker, Wait, Goto
<1>1. UNCHANGED <<environ, procVars>>
  BY DEF ShutdownReturns
<1>2. /\ main \notin StartPCs \cup {"crashed"} /\ main' \notin StartPCs \cup {"serving"}
      /\ main' \in MainPCs
  BY DEF ShutdownReturns, MainPCs, StartPCs
<1>3. drained' \in BOOLEAN
  BY DEF ShutdownReturns, IInv, TypeOK
<1>4. ExitWaited'
  BY <1>1 DEF ExitWaited, procVars, ShutdownReturns
<1>5. drained' => \A b \in Builds : build[b] # "handling"
  BY DEF ShutdownReturns, IInv, ListensInTime
<1>6. main' = "draining" => ~drained'
  BY DEF ShutdownReturns, IInv, ListensInTime
<1>7. ListensInTime'
  BY <1>1, <1>2, <1>5, <1>6, ConfigurationStays DEF IInv, ListensInTime, procVars, StartPCs
<1> QED
  BY <1>1, <1>2, <1>3, <1>4, <1>7, MainIInv

LEMMA NextIInv == IInv /\ [Next]_vars => IInv'
<1> SUFFICES ASSUME IInv, [Next]_vars PROVE IInv'
  OBVIOUS
<1> USE WorkersAssumption, ConfigurationStays
        DEF IInv, TypeOK, HeldByOneWorker, QueuedOnce, ExitWaited, ListensInTime, BuildStates,
            Running, Stopped, StartPCs
<1>1. ASSUME NEW b \in Builds, Accept(b) PROVE IInv'
  BY <1>1 DEF Accept
<1>2. ASSUME NEW b \in Builds, Abandon(b) PROVE IInv'
  BY <1>2 DEF Abandon
<1>3. ASSUME NEW b \in Builds, Enqueue(b) PROVE IInv'
  BY <1>3, EnqueueIInv
<1>4. ASSUME NEW w \in Workers, Receive(w) PROVE IInv'
  BY <1>4, ReceiveIInv
<1>5. ASSUME NEW w \in Workers, Process(w) PROVE IInv'
  BY <1>5 DEF Process
<1>6. ASSUME NEW w \in Workers, WorkerReturns(w) PROVE IInv'
  BY <1>6 DEF WorkerReturns
<1>7. CASE StartStep
  BY <1>7, StartIInv, StartUpIInv DEF StartStep
<1>8. CASE Signal \/ ListenFails \/ MainStep
  BY <1>8, ShutdownIInv
<1>9. CASE UNCHANGED vars
  BY <1>9 DEF vars, procVars
<1> QED
  BY <1>1, <1>2, <1>3, <1>4, <1>5, <1>6, <1>7, <1>8, <1>9 DEF Next, WorkerStep

(* The invariant of the process's life holds in every reachable state.     *)
THEOREM ShutdownInvariance == Spec => []IInv
BY InitIInv, NextIInv, PTL DEF Spec

(* After SIGTERM the process exits with no build half done.                *)
THEOREM ExitWaitsForBuilds == Spec => []NoHalfBuildAtExit
<1>1. IInv => NoHalfBuildAtExit
  BY WorkersAssumption DEF IInv, HeldByOneWorker, ExitWaited, NoHalfBuildAtExit
<1> QED BY <1>1, ShutdownInvariance, PTL

(* No environment makes a serving process admit a request without a name   *)
(* and a password, unless AUTH_ENABLED is false.                           *)
THEOREM NoUnguardedService == Spec => []ServesOnlyGuarded
<1>1. ASSUME IInv, main = "serving", environ.AUTH_ENABLED # FALSE,
             NEW h \in Headers, Admits(h)
      PROVE  h.ok /\ h.user # Unset /\ h.pass # Unset
  <2>1. AuthEnabled
    BY <1>1 DEF AuthEnabled, envBool, IInv, TypeOK, Environments
  <2>2. environ.AUTH_USERNAME # Unset /\ environ.AUTH_PASSWORD # Unset
    BY <1>1, <2>1 DEF IInv, ListensInTime, ConfigAccepted
  <2> QED
    BY <1>1, <2>1, <2>2 DEF Admits
<1>2. IInv => ServesOnlyGuarded
  BY <1>1 DEF ServesOnlyGuarded
<1> QED BY <1>2, ShutdownInvariance, PTL

(* The process reports success only if every handler had returned.         *)
THEOREM CleanExitIsClean == Spec => []CleanExitCutsNobody
<1>1. IInv => CleanExitCutsNobody
  BY DEF IInv, ListensInTime, CleanExitCutsNobody
<1> QED BY <1>1, ShutdownInvariance, PTL

-----------------------------------------------------------------------------
(* The workers of a process that serves. *)

LiveWorkers == {w \in Workers : worker[w] # Gone}

(***************************************************************************)
(* Whatever WORKER_CONCURRENCY and WORKER_QUEUE_SIZE say, zero, negative   *)
(* and misspelt values included, the server has at least one worker and a  *)
(* queue with room for a build, and no worker leaves before stopWorker,    *)
(* whatever builds come and go: BuildsGetTheirTurn does not fail for want  *)
(* of somebody to take them.                                               *)
(***************************************************************************)
ServesWithItsWorkers ==
  main \in {"serving", "draining", "stopping"} =>
    /\ Cardinality(LiveWorkers) = Concurrency
    /\ LiveWorkers # {} /\ QueueSize >= 1

LEMMA SizesArePositive ==
  Concurrency \in Nat \ {0} /\ QueueSize \in Nat \ {0}
BY DEF Concurrency, QueueSize, envInt

LEMMA SizesStay ==
  ASSUME UNCHANGED environ
  PROVE  Concurrency' = Concurrency /\ QueueSize' = QueueSize
BY DEF Concurrency, QueueSize, envInt

LEMMA WorkersStayWhileServing ==
  ASSUME IInv, ServesWithItsWorkers, [Next]_vars
  PROVE  ServesWithItsWorkers'
<1> USE DEF ServesWithItsWorkers
<1>0. UNCHANGED environ
  BY DEF Next, vars, Accept, Enqueue, Abandon, WorkerStep, Receive, Process, WorkerReturns,
     StartStep, Load, NewPool, Migrate, NewStorage, EnsureBucket, Start, Signal, ListenFails,
     MainStep, ShutdownReturns, StopWorker, Wait, Goto
<1>1. Concurrency' = Concurrency /\ QueueSize' = QueueSize
  BY <1>0, SizesStay
<1>2. CASE /\ LiveWorkers' = LiveWorkers
           /\ main' = main \/ main \in {"serving", "draining"}
                \/ main' \notin {"serving", "draining", "stopping"}
  BY <1>1, <1>2
<1>3. CASE Start
  <2>1. PICK started \in SUBSET Workers :
          /\ Cardinality(started) = Concurrency
          /\ worker' = [w \in Workers |-> IF w \in started THEN Idle ELSE Gone]
    BY <1>3 DEF Start
  <2>2. LiveWorkers' = started
    BY <2>1, WorkersAssumption DEF LiveWorkers
  <2>3. started # {}
    BY <2>1, SizesArePositive, FS_EmptySet
  <2> QED BY <1>1, <2>1, <2>2, <2>3, SizesArePositive
<1>4. ASSUME NEW b \in Builds, Accept(b) \/ Enqueue(b) \/ Abandon(b)
      PROVE  LiveWorkers' = LiveWorkers /\ main' = main
  BY <1>4 DEF Accept, Enqueue, Abandon, LiveWorkers
<1>5. ASSUME NEW w \in Workers, Receive(w)
      PROVE  LiveWorkers' = LiveWorkers /\ main' = main
  <2>1. Head(queue) \in Builds /\ worker \in [Workers -> Builds \cup {Idle, Gone}]
    BY <1>5, HeadTailProperties DEF Receive, IInv, TypeOK
  <2> QED BY <1>5, <2>1, WorkersAssumption DEF Receive, LiveWorkers
<1>6. ASSUME NEW w \in Workers, Process(w)
      PROVE  LiveWorkers' = LiveWorkers /\ main' = main
  BY <1>6, WorkersAssumption DEF Process, LiveWorkers, IInv, TypeOK
<1>7. ASSUME NEW w \in Workers, WorkerReturns(w)
      PROVE  main' = main /\ main \notin {"serving", "draining", "stopping"}
  BY <1>7 DEF WorkerReturns, Stopped
<1>8. CASE Load \/ NewPool \/ Migrate \/ NewStorage \/ EnsureBucket
  BY <1>8 DEF Load, NewPool, Migrate, NewStorage, EnsureBucket, Goto
<1>9. CASE Signal \/ ListenFails \/ MainStep
  <2>1. LiveWorkers' = LiveWorkers
    BY <1>9 DEF Signal, ListenFails, MainStep, ShutdownReturns, StopWorker, Wait, Goto,
       procVars, LiveWorkers
  <2>2. main \in {"serving", "draining"} \/ main' \notin {"serving", "draining", "stopping"}
    BY <1>9 DEF Signal, ListenFails, MainStep, ShutdownReturns, StopWorker, Wait, Goto
  <2> QED BY <1>2, <2>1, <2>2
<1>10. CASE UNCHANGED vars
  BY <1>1, <1>10 DEF vars, procVars, LiveWorkers
<1> QED
  BY <1>2, <1>3, <1>4, <1>5, <1>6, <1>7, <1>8, <1>9, <1>10 DEF Next, WorkerStep, StartStep

(* No setting and no course of events leaves the server without a worker,  *)
(* or with a queue that takes nothing, before it is told to stop.          *)
THEOREM ServiceKeepsItsWorkers == Spec => []ServesWithItsWorkers
<1>1. Init => ServesWithItsWorkers
  BY DEF Init, ServesWithItsWorkers
<1>2. IInv /\ ServesWithItsWorkers /\ [Next]_vars => ServesWithItsWorkers'
  BY WorkersStayWhileServing
<1> QED BY <1>1, <1>2, ShutdownInvariance, PTL DEF Spec

-----------------------------------------------------------------------------
(***************************************************************************)
(* What a shutdown costs.  That the process exits is a matter of fairness  *)
(* and left to TLC; that it has only so much to do until then is not.      *)
(***************************************************************************)

StepsOf(state) ==
  CASE state = "handling"   -> {"enqueue", "receive", "process"}
    [] state = "queued"     -> {"receive", "process"}
    [] state = "processing" -> {"process"}
    [] OTHER                -> {}

StepsOfMain ==
  CASE main = "draining" -> {"shutdown", "stop", "wait"}
    [] main = "stopping" -> {"stop", "wait"}
    [] main = "waiting"  -> {"wait"}
    [] OTHER             -> {}

(* The steps that may still be taken before the process has exited. *)
ToDo ==
  ({"main"} \X StepsOfMain) \cup ({"return"} \X LiveWorkers)
    \cup {p \in {"enqueue", "receive", "process"} \X Builds : p[1] \in StepsOf(build[p[2]])}

ShuttingDown == main \in {"draining", "stopping", "waiting"}
StrikesAStep == Cardinality(ToDo) \in Nat /\ Cardinality(ToDo') < Cardinality(ToDo)

(***************************************************************************)
(* From SIGTERM on, every step of anybody is one fewer to take before the  *)
(* exit: late handlers that still enqueue, workers whose select prefers    *)
(* the queue to the cancelled context, and builds in flight use up what    *)
(* there was at the signal, and nothing adds to it.                        *)
(***************************************************************************)
ShutdownTakesBoundedSteps ==
  [][ShuttingDown => StrikesAStep]_vars

LEMMA OneFewer ==
  ASSUME NEW S, NEW T, IsFiniteSet(S), T \subseteq S, NEW x \in S, x \notin T
  PROVE  Cardinality(S) \in Nat /\ Cardinality(T) < Cardinality(S)
<1>1. IsFiniteSet(T) /\ Cardinality(T) <= Cardinality(S) /\ (Cardinality(T) = Cardinality(S) => T = S)
  BY FS_Subset
<1>2. Cardinality(S) \in Nat /\ Cardinality(T) \in Nat
  BY <1>1, FS_CardinalityType
<1>3. Cardinality(T) # Cardinality(S)
  BY <1>1
<1> QED BY <1>1, <1>2, <1>3

LEMMA ToDoIsFinite ==
  ASSUME IsFiniteSet(Builds), IsFiniteSet(Workers)
  PROVE  IsFiniteSet(ToDo)
<1> DEFINE mains == {"main"} \X {"shutdown", "stop", "wait"}
           returns == {"return"} \X Workers
           calls == {"enqueue", "receive", "process"} \X Builds
<1>1. IsFiniteSet(mains)
  <2>1. /\ IsFiniteSet({"main"}) /\ IsFiniteSet({"shutdown"}) /\ IsFiniteSet({"stop"})
        /\ IsFiniteSet({"wait"})
    BY FS_Singleton
  <2>2. IsFiniteSet({"shutdown"} \cup {"stop"})
    BY <2>1, FS_Union
  <2>3. IsFiniteSet({"shutdown"} \cup {"stop"} \cup {"wait"})
    BY <2>1, <2>2, FS_Union
  <2>4. {"shutdown"} \cup {"stop"} \cup {"wait"} = {"shutdown", "stop", "wait"}
    OBVIOUS
  <2> QED BY <2>1, <2>3, <2>4, FS_Product
<1>2. IsFiniteSet(returns)
  BY FS_Singleton, FS_Product
<1>3. IsFiniteSet(calls)
  <2>1. /\ IsFiniteSet({"enqueue"}) /\ IsFiniteSet({"receive"}) /\ IsFiniteSet({"process"})
    BY FS_Singleton
  <2>2. IsFiniteSet({"enqueue"} \cup {"receive"})
    BY <2>1, FS_Union
  <2>3. IsFiniteSet({"enqueue"} \cup {"receive"} \cup {"process"})
    BY <2>1, <2>2, FS_Union
  <2>4. {"enqueue"} \cup {"receive"} \cup {"process"} = {"enqueue", "receive", "process"}
    OBVIOUS
  <2> QED BY <2>3, <2>4, FS_Product
<1>4. IsFiniteSet(mains \cup returns)
  BY <1>1, <1>2, FS_Union
<1>5. IsFiniteSet((mains \cup returns) \cup calls)
  BY <1>3, <1>4, FS_Union
<1>6. ToDo \subseteq (mains \cup returns) \cup calls
  BY DEF ToDo, StepsOfMain, LiveWorkers
<1> QED BY <1>5, <1>6, FS_Subset

LEMMA BuildGetsOn ==
  ASSUME build \in [Builds -> BuildStates], NEW b \in Builds, NEW t,
         build' = [build EXCEPT ![b] = t], StepsOf(t) \subseteq StepsOf(build[b]),
         NEW x \in StepsOf(build[b]), x \notin StepsOf(t),
         LiveWorkers' = LiveWorkers, main' = main
  PROVE  ToDo' \subseteq ToDo /\ <<x, b>> \in ToDo /\ <<x, b>> \notin ToDo'
<1>1. \A c \in Builds : StepsOf(build'[c]) \subseteq StepsOf(build[c])
  OBVIOUS
<1>2. x \in {"enqueue", "receive", "process"} /\ x \notin StepsOf(build'[b])
  BY DEF StepsOf
<1>3. StepsOfMain' = StepsOfMain
  BY DEF StepsOfMain
<1>4. ToDo' \subseteq ToDo
  BY <1>1, <1>3 DEF ToDo
<1>5. <<x, b>> \in ToDo
  BY <1>2 DEF ToDo
<1>6. <<x, b>> \notin ToDo'
  BY <1>2 DEF ToDo
<1> QED BY <1>4, <1>5, <1>6

LEMMA OneFewerToDo ==
  ASSUME IInv, [Next]_vars, ~UNCHANGED vars, ShuttingDown
  PROVE  ToDo' \subseteq ToDo /\ \E p \in ToDo : p \notin ToDo'
<1> USE DEF ShuttingDown
<1>0. /\ build \in [Builds -> BuildStates] /\ queue \in Seq(Builds)
      /\ worker \in [Workers -> Builds \cup {Idle, Gone}]
  BY DEF IInv, TypeOK
<1>1. ASSUME NEW b \in Builds, Enqueue(b)
      PROVE  ToDo' \subseteq ToDo /\ <<"enqueue", b>> \in ToDo /\ <<"enqueue", b>> \notin ToDo'
  <2>1. LiveWorkers' = LiveWorkers /\ main' = main
    BY <1>1 DEF Enqueue, LiveWorkers
  <2>2. build[b] = "handling" /\ build' = [build EXCEPT ![b] = "queued"]
    BY <1>1 DEF Enqueue
  <2>3. /\ StepsOf("queued") \subseteq StepsOf("handling")
        /\ "enqueue" \in StepsOf("handling") /\ "enqueue" \notin StepsOf("queued")
    BY DEF StepsOf
  <2> QED BY <1>0, <2>1, <2>2, <2>3, BuildGetsOn
<1>2. ASSUME NEW b \in Builds, Abandon(b)
      PROVE  ToDo' \subseteq ToDo /\ <<"enqueue", b>> \in ToDo /\ <<"enqueue", b>> \notin ToDo'
  <2>1. LiveWorkers' = LiveWorkers /\ main' = main
    BY <1>2 DEF Abandon, LiveWorkers
  <2>2. build[b] = "handling" /\ build' = [build EXCEPT ![b] = "abandoned"]
    BY <1>2 DEF Abandon
  <2>3. /\ StepsOf("abandoned") \subseteq StepsOf("handling")
        /\ "enqueue" \in StepsOf("handling") /\ "enqueue" \notin StepsOf("abandoned")
    BY DEF StepsOf
  <2> QED BY <1>0, <2>1, <2>2, <2>3, BuildGetsOn
<1>3. ASSUME NEW w \in Workers, Receive(w)
      PROVE  \E b \in Builds :
               ToDo' \subseteq ToDo /\ <<"receive", b>> \in ToDo /\ <<"receive", b>> \notin ToDo'
  <2> DEFINE b == Head(queue)
  <2>1. b \in Builds /\ b = queue[1] /\ 1 \in 1..Len(queue)
    BY <1>0, <1>3, HeadTailProperties, LenProperties DEF Receive
  <2>2. build[b] = "queued"
    BY <2>1 DEF IInv, QueuedOnce
  <2>3. build' = [build EXCEPT ![b] = "processing"] /\ main' = main
    BY <1>3 DEF Receive
  <2>4. LiveWorkers' = LiveWorkers
    BY <1>0, <1>3, <2>1, WorkersAssumption DEF Receive, LiveWorkers
  <2>5. /\ StepsOf("processing") \subseteq StepsOf("queued")
        /\ "receive" \in StepsOf("queued") /\ "receive" \notin StepsOf("processing")
    BY DEF StepsOf
  <2> HIDE DEF b
  <2> QED BY <1>0, <2>1, <2>2, <2>3, <2>4, <2>5, BuildGetsOn
<1>4. ASSUME NEW w \in Workers, Process(w)
      PROVE  \E b \in Builds :
               ToDo' \subseteq ToDo /\ <<"process", b>> \in ToDo /\ <<"process", b>> \notin ToDo'
  <2> DEFINE b == worker[w]
  <2>1. b \in Builds /\ build[b] = "processing"
    BY <1>4 DEF Process, IInv, HeldByOneWorker
  <2>2. build' = [build EXCEPT ![b] = "settled"] /\ main' = main
    BY <1>4 DEF Process
  <2>3. LiveWorkers' = LiveWorkers
    BY <1>0, <1>4, WorkersAssumption DEF Process, LiveWorkers
  <2>4. /\ StepsOf("settled") \subseteq StepsOf("processing")
        /\ "process" \in StepsOf("processing") /\ "process" \notin StepsOf("settled")
    BY DEF StepsOf
  <2> HIDE DEF b
  <2> QED BY <1>0, <2>1, <2>2, <2>3, <2>4, BuildGetsOn
<1>5. ASSUME NEW w \in Workers, WorkerReturns(w)
      PROVE  ToDo' \subseteq ToDo /\ <<"return", w>> \in ToDo /\ <<"return", w>> \notin ToDo'
  <2>1. /\ LiveWorkers' \subseteq LiveWorkers /\ w \in LiveWorkers /\ w \notin LiveWorkers'
        /\ UNCHANGED <<main, build>>
    BY <1>0, <1>5, WorkersAssumption DEF WorkerReturns, LiveWorkers
  <2>2. StepsOfMain' = StepsOfMain
    BY <2>1 DEF StepsOfMain
  <2>3. ToDo' \subseteq ToDo
    BY <2>1, <2>2 DEF ToDo
  <2>4. <<"return", w>> \in ToDo
    BY <2>1 DEF ToDo
  <2>5. <<"return", w>> \notin ToDo'
    BY <2>1 DEF ToDo
  <2> QED BY <2>3, <2>4, <2>5
<1>6. CASE MainStep
  <2>1. LiveWorkers' = LiveWorkers /\ build' = build
    BY <1>6 DEF MainStep, ShutdownReturns, StopWorker, Wait, Goto, procVars, LiveWorkers
  <2>2. \/ main = "draining" /\ main' = "stopping"
        \/ main = "stopping" /\ main' = "waiting"
        \/ main = "waiting" /\ main' = "exited"
    BY <1>6 DEF MainStep, ShutdownReturns, StopWorker, Wait, Goto
  <2>3. StepsOfMain' \subseteq StepsOfMain /\ \E x \in StepsOfMain : x \notin StepsOfMain'
    BY <2>2 DEF StepsOfMain
  <2>4. PICK x \in StepsOfMain : x \notin StepsOfMain'
    BY <2>3
  <2>5. ToDo' \subseteq ToDo
    BY <2>1, <2>3 DEF ToDo
  <2>6. <<"main", x>> \in ToDo
    BY <2>4 DEF ToDo
  <2>7. <<"main", x>> \notin ToDo'
    BY <2>4 DEF ToDo
  <2> QED BY <2>5, <2>6, <2>7
<1>7. ~(\E b \in Builds : Accept(b)) /\ ~StartStep /\ ~Signal /\ ~ListenFails
  BY DEF Accept, StartStep, Load, NewPool, Migrate, NewStorage, EnsureBucket, Start, Signal,
     ListenFails, Goto
<1> QED
  BY <1>1, <1>2, <1>3, <1>4, <1>5, <1>6, <1>7 DEF Next, WorkerStep

(* After the signal the process has only so many steps to take, of as many *)
(* builds as had been requested and as many workers as there are.          *)
THEOREM ShutdownIsBounded ==
  ASSUME IsFiniteSet(Builds), IsFiniteSet(Workers)
  PROVE  Spec => ShutdownTakesBoundedSteps
<1>1. ASSUME IInv, [Next]_vars
      PROVE  [ShuttingDown => StrikesAStep]_vars
  <2> SUFFICES ASSUME ~UNCHANGED vars, ShuttingDown
               PROVE  StrikesAStep
    OBVIOUS
  <2>1. ToDo' \subseteq ToDo /\ \E p \in ToDo : p \notin ToDo'
    BY <1>1, OneFewerToDo
  <2> QED BY <2>1, ToDoIsFinite, OneFewer DEF StrikesAStep
<1> QED BY <1>1, ShutdownInvariance, PTL DEF Spec, ShutdownTakesBoundedSteps
=============================================================================
