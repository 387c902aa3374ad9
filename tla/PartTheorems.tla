---------------------------- MODULE PartTheorems ----------------------------
(***************************************************************************)
(* What holds of the parts that are checked on their own, for every value  *)
(* of the constants: the health of a connection, the life of the process,  *)
(* the fee cache and the fees of a blob transaction, the choice of a       *)
(* bundle's size, the costs charged to bundles, and the rows of the        *)
(* tables.  The codec is in CodecTheorems.                                 *)
(***************************************************************************)
EXTENDS ConnectionHealth, Process, FeeAlgorithm, BlobTxFees, BundleOptimizer,
        BundleCosts, StorageRows, FoldTheorems, SequenceTheorems

-----------------------------------------------------------------------------
(* The health of a connection.                                             *)

\* A request has at most one outcome left to note, and the counter stops at the number
\* of failures from which on the connection is unhealthy.
THEOREM HealthTypes == HealthSpec => []HealthTypeOK
<1>1. ASSUME HealthInit PROVE HealthTypeOK
  <2>1. outages \in 0..MaxOutages /\ failures \in 0..MaxFailures
    BY <1>1, HealthAssumption DEF HealthInit
  <2>2. adapter \in {"eth", "fuel"} /\ link \in {"up", "down", "gone"} /\ permanent \in BOOLEAN
    BY <1>1 DEF HealthInit
  <2>3. noting \in [Requesters -> {"nothing", "ok", "error", "gone", "reset", "add"}]
    BY <1>1 DEF HealthInit
  <2> QED BY <2>1, <2>2, <2>3 DEF HealthTypeOK
<1>2. ASSUME HealthTypeOK, [HealthNext]_healthVars PROVE HealthTypeOK'
  <2>1. ASSUME LinkChanges PROVE HealthTypeOK'
    BY <1>2, <2>1, HealthAssumption DEF LinkChanges, Lost, HealthTypeOK
  <2>2. ASSUME NEW r \in Requesters, Answered(r) PROVE HealthTypeOK'
    BY <1>2, <2>2 DEF Answered, EthAnswers, FuelAnswers, ErrorOf, HealthTypeOK
  <2>3. ASSUME NEW r \in Requesters, Note(r) PROVE HealthTypeOK'
    <3>1. CASE NotePermanentFailure(r)
      BY <1>2, <3>1 DEF NotePermanentFailure, HealthTypeOK
    <3>2. CASE LoadFlag(r)
      BY <1>2, <3>2 DEF LoadFlag, HealthTypeOK
    <3>3. CASE ChangeCounter(r)
      BY <1>2, <3>3, HealthAssumption DEF ChangeCounter, AfterSuccess, AfterFailure, HealthTypeOK
    <3> QED BY <2>3, <3>1, <3>2, <3>3 DEF Note
  <2>4. CASE UNCHANGED healthVars
    BY <1>2, <2>4 DEF healthVars, HealthTypeOK
  <2> QED BY <1>2, <2>1, <2>2, <2>3, <2>4 DEF HealthNext
<1> QED BY <1>1, <1>2, PTL DEF HealthSpec

-----------------------------------------------------------------------------
(* The process.  Before the stop no service is on its last run, and main   *)
(* waits only once it holds a handle of every service it started.          *)

\* The services are spawned before the stop; a service that runs or sleeps has begun
\* no run after the stop, or it is in that run.
RunsAfterStop ==
  /\ cancelled => mainPhase \in {"joining", "exited"}
  /\ \A s \in Services :
       /\ lateRuns[s] \in {0, 1}
       /\ ~cancelled \/ service[s] = "sleeping" => lateRuns[s] = 0

\* What main has started when it waits, it waits for; what it has waited for has ended.
HandlesAreComplete ==
  /\ mainPhase \in {"eigen key", "disperser", "eigen services"} =>
       \A s \in Services : service[s] # "absent" => s \in Range(BaseServices) \/ s \in Range(EigenServices)
  /\ mainPhase \in {"bind", "serving", "joining"} =>
       \A s \in Services : service[s] # "absent" => s \in Range(handles)
  /\ mainPhase \notin {"eigen key", "disperser", "eigen services", "bind", "serving", "joining", "exited"} =>
       \A s \in Services : service[s] = "absent"
  /\ mainPhase = "joining" =>
       \A i \in 1..joined : handles[i] \in Services => service[handles[i]] = "ended"

ProcessInv ==
  /\ ProcessTypeOK
  /\ RunsAfterStop
  /\ HandlesAreComplete
  /\ ShutdownIsClean
  /\ mainPhase # "exited" => result = "none"
  /\ mainPhase \notin {"joining", "exited"} => joined = 0

\* The lists of services.
LEMMA ServiceLists ==
  /\ BaseServices \in Seq(AllServices) /\ EthereumServices \in Seq(AllServices) /\ EigenServices \in Seq(AllServices)
  /\ Range(BaseServices \o EthereumServices) = Range(BaseServices) \union Range(EthereumServices)
  /\ Range(BaseServices \o EigenServices) = Range(BaseServices) \union Range(EigenServices)
  /\ "eigen_block_bundler" \in Range(EigenServices)
<1>1. BaseServices \in Seq(AllServices)
  <2>1. DOMAIN BaseServices = 1..2 /\ \A i \in 1..2 : BaseServices[i] \in Range(BaseServices)
    BY DEF BaseServices, Range
  <2>2. BaseServices = [i \in 1..2 |-> BaseServices[i]]
    BY DEF BaseServices
  <2> HIDE DEF BaseServices
  <2> QED BY <2>1, <2>2, IsASeq DEF AllServices
<1>2. EthereumServices \in Seq(AllServices)
  <2>1. DOMAIN EthereumServices = 1..6 /\ \A i \in 1..6 : EthereumServices[i] \in Range(EthereumServices)
    BY DEF EthereumServices, Range
  <2>2. EthereumServices = [i \in 1..6 |-> EthereumServices[i]]
    BY DEF EthereumServices
  <2> HIDE DEF EthereumServices
  <2> QED BY <2>1, <2>2, IsASeq DEF AllServices
<1>3. EigenServices \in Seq(AllServices)
  <2>1. DOMAIN EigenServices = 1..6 /\ \A i \in 1..6 : EigenServices[i] \in Range(EigenServices)
    BY DEF EigenServices, Range
  <2>2. EigenServices = [i \in 1..6 |-> EigenServices[i]]
    BY DEF EigenServices
  <2> HIDE DEF EigenServices
  <2> QED BY <2>1, <2>2, IsASeq DEF AllServices
<1>4. "eigen_block_bundler" \in Range(EigenServices)
  <2>1. EigenServices[3] = "eigen_block_bundler" /\ 3 \in DOMAIN EigenServices
    BY DEF EigenServices
  <2> QED BY <2>1 DEF Range
<1> QED BY <1>1, <1>2, <1>3, <1>4, RangeConcatenation

\* The steps of a service.
LEMMA ServiceStep ==
  ASSUME ProcessInv, NEW s \in Services, RunEnds(s) \/ SleepEnds(s) \/ Panic(s)
  PROVE  ProcessInv'
<1>1. /\ UNCHANGED <<config, mainPhase, handles, joined, cancelled, closed, result>>
      /\ service[s] \in {"running", "sleeping"}
      /\ \E to \in {"ended", "sleeping", "running", "panicked"} : service' = [service EXCEPT ![s] = to]
  BY DEF RunEnds, SleepEnds, Panic
<1>2. service \in [Services -> {"absent", "running", "sleeping", "ended", "panicked", "aborted"}]
      /\ lateRuns \in [Services -> Nat] /\ panics \in 0..MaxPanics /\ MaxPanics \in Nat
  BY ProcessAssumption DEF ProcessInv, ProcessTypeOK
<1>3. result # "ok"
  BY <1>1 DEF ProcessInv, ShutdownIsClean
<1>4. RunsAfterStop' /\ (lateRuns' \in [Services -> Nat])
  <2>1. CASE RunEnds(s)
    BY <1>2, <2>1 DEF RunEnds, ProcessInv, RunsAfterStop
  <2>2. CASE SleepEnds(s)
    BY <1>2, <2>2 DEF SleepEnds, ProcessInv, RunsAfterStop
  <2>3. CASE Panic(s)
    BY <1>2, <2>3 DEF Panic, ProcessInv, RunsAfterStop
  <2> QED BY <2>1, <2>2, <2>3
<1>5. panics' \in 0..MaxPanics
  BY <1>2 DEF RunEnds, SleepEnds, Panic
<1>6. service' \in [Services -> {"absent", "running", "sleeping", "ended", "panicked", "aborted"}]
  BY <1>1, <1>2
<1>7. ProcessTypeOK'
  BY <1>1, <1>4, <1>5, <1>6 DEF ProcessInv, ProcessTypeOK
<1>8. \A t \in Services : service'[t] # "absent" => service[t] # "absent"
  BY <1>1, <1>2
<1>9. \A t \in Services : service[t] = "ended" => service'[t] = "ended"
  BY <1>1, <1>2
<1>10. HandlesAreComplete'
  BY <1>1, <1>8, <1>9, <1>6, <1>2 DEF ProcessInv, HandlesAreComplete
<1>11. ShutdownIsClean'
  BY <1>1, <1>3, <1>4 DEF ShutdownIsClean, RunsAfterStop
<1> QED BY <1>1, <1>4, <1>7, <1>10, <1>11 DEF ProcessInv

\* main gives up.
LEMMA ErrorStep ==
  ASSUME ProcessInv, mainPhase # "exited", Return("error"), UNCHANGED closed
  PROVE  ProcessInv'
<1>1. /\ UNCHANGED <<config, handles, joined, cancelled, lateRuns, closed, panics>>
      /\ mainPhase' = "exited" /\ result' = "error"
      /\ service' = [s \in Services |-> IF service[s] \in {"running", "sleeping"} THEN "aborted" ELSE service[s]]
  BY DEF Return
<1>2. service \in [Services -> {"absent", "running", "sleeping", "ended", "panicked", "aborted"}]
  BY DEF ProcessInv, ProcessTypeOK
<1>3. /\ service' \in [Services -> {"absent", "running", "sleeping", "ended", "panicked", "aborted"}]
      /\ \A s \in Services : service'[s] # "sleeping"
  BY <1>1, <1>2
<1>4. ProcessTypeOK'
  BY <1>1, <1>3 DEF ProcessInv, ProcessTypeOK
<1>5. RunsAfterStop' /\ HandlesAreComplete' /\ ShutdownIsClean'
  BY <1>1, <1>3 DEF ProcessInv, RunsAfterStop, HandlesAreComplete, ShutdownIsClean
<1> QED BY <1>1, <1>4, <1>5 DEF ProcessInv

\* The phases before any service is started.
Preparing == {"validate", "storage", "migrate", "last finalization", "l1", "contract", "services"}

\* The phases in which only the bundler for EigenDA and the base services run.
StartingEigen == {"eigen key", "disperser", "eigen services"}

\* main goes on with the next phase, and has started no more.
LEMMA GoOnStep ==
  ASSUME ProcessInv, NEW next, GoOn(next), UNCHANGED <<service, handles, joined>>,
         \/ mainPhase \in Preparing /\ next \in Preparing
         \/ mainPhase \in StartingEigen /\ next \in StartingEigen
         \/ mainPhase = "bind" /\ next = "serving"
  PROVE  ProcessInv'
<1>1. mainPhase' = next /\ UNCHANGED <<config, service, handles, joined, cancelled, lateRuns, closed, result, panics>>
  BY DEF GoOn
<1>2. ProcessTypeOK'
  BY <1>1 DEF ProcessInv, ProcessTypeOK, Preparing, StartingEigen
<1>3. RunsAfterStop' /\ ShutdownIsClean'
  BY <1>1 DEF ProcessInv, RunsAfterStop, ShutdownIsClean, Preparing, StartingEigen
<1>4. HandlesAreComplete'
  BY <1>1 DEF ProcessInv, HandlesAreComplete, Preparing, StartingEigen
<1> QED BY <1>1, <1>2, <1>3, <1>4 DEF ProcessInv, Preparing, StartingEigen

\* The steps that start no service, up to the HTTP server.
LEMMA TryStep ==
  ASSUME ProcessInv,
         \/ Validate \/ ConnectDatabase \/ Migrate \/ LastEigenSubmissionFinalized \/ LastFragmentFinalized
         \/ MakeSigners \/ ConnectL1 \/ MakeEigenSigner \/ ConnectDisperser \/ LaunchApiServer
  PROVE  ProcessInv'
<1>1. CASE Return("error") /\ UNCHANGED closed /\ mainPhase # "exited"
  BY <1>1, ErrorStep
<1>2. CASE \E next : /\ GoOn(next) /\ UNCHANGED <<service, handles, joined>>
                     /\ \/ mainPhase \in Preparing /\ next \in Preparing
                        \/ mainPhase \in StartingEigen /\ next \in StartingEigen
                        \/ mainPhase = "bind" /\ next = "serving"
  BY <1>2, GoOnStep
<1> QED BY <1>1, <1>2 DEF Validate, ConnectDatabase, Migrate, LastEigenSubmissionFinalized, LastFragmentFinalized,
           MakeSigners, ConnectL1, MakeEigenSigner, ConnectDisperser, LaunchApiServer, Try, Preparing, StartingEigen

\* main spawns services and takes their handles.
LEMMA StartStep ==
  ASSUME ProcessInv, StartEthereum \/ StartEigen \/ StartEigenRest \/ StartBase
  PROVE  ProcessInv'
<1> DEFINE base == Range(BaseServices)
           eth == Range(EthereumServices)
           eigen == Range(EigenServices)
           states == {"absent", "running", "sleeping", "ended", "panicked", "aborted"}
<1>1. service \in [Services -> states] /\ lateRuns \in [Services -> Nat] /\ joined = 0 /\ result = "none"
  BY DEF ProcessInv, ProcessTypeOK, StartEthereum, StartEigen, StartEigenRest, StartBase
<1>2. /\ UNCHANGED <<config, joined, cancelled, lateRuns, closed, result, panics>>
      /\ mainPhase \in {"services", "eigen services"} /\ mainPhase' \in {"eigen key", "bind"}
  BY DEF StartEthereum, StartEigen, StartEigenRest, StartBase, GoOn
<1>3. PICK started : service' = Spawned(started)
  BY DEF StartEthereum, StartEigen, StartEigenRest, StartBase
<1>4. service' \in [Services -> states]
  BY <1>1, <1>3 DEF Spawned
<1>5. handles' \in Seq(AllServices)
  <2>1. /\ BaseServices \o EthereumServices \in Seq(AllServices)
        /\ BaseServices \o EigenServices \in Seq(AllServices)
        /\ BaseServices \in Seq(AllServices)
    BY ServiceLists, ConcatProperties
  <2>2. handles' \in {BaseServices, BaseServices \o EthereumServices, BaseServices \o EigenServices}
    BY DEF StartEthereum, StartEigen, StartEigenRest, StartBase
  <2> QED BY <2>1, <2>2
<1>6. ProcessTypeOK'
  <2>1. joined' \in 0..Len(handles')
    <3>1. \A h \in Seq(AllServices) : Len(h) \in Nat
      BY LenProperties
    <3>2. Len(handles') \in Nat
      BY <1>5, <3>1
    <3>3. joined' = 0
      BY <1>1, <1>2
    <3> QED BY <3>2, <3>3
  <2> QED BY <1>2, <1>4, <1>5, <2>1 DEF ProcessInv, ProcessTypeOK
<1>7. RunsAfterStop'
  <2>1. ~cancelled
    BY <1>2 DEF ProcessInv, RunsAfterStop
  <2> QED BY <1>2, <2>1 DEF ProcessInv, RunsAfterStop
<1>8. ShutdownIsClean'
  BY <1>1, <1>2 DEF ProcessInv, ShutdownIsClean
<1>9. \A s \in Services : service'[s] # "absent" => s \in started \/ service[s] # "absent"
  BY <1>1, <1>3 DEF Spawned
<1>10. HandlesAreComplete'
  <2>1. CASE StartEthereum
    <3>1. \A s \in Services : service'[s] # "absent" => s \in base \union eth
      BY <1>1, <2>1 DEF StartEthereum, Spawned, ProcessInv, HandlesAreComplete
    <3>2. Range(handles') = base \union eth /\ mainPhase' = "bind"
      BY <2>1, ServiceLists DEF StartEthereum, GoOn
    <3> HIDE DEF base, eth
    <3> QED BY <3>1, <3>2 DEF HandlesAreComplete
  <2>2. CASE StartEigen
    <3>1. \A s \in Services : service'[s] # "absent" => s \in base \union {"eigen_block_bundler"}
      BY <1>1, <2>2 DEF StartEigen, Spawned, ProcessInv, HandlesAreComplete
    <3>2. mainPhase' = "eigen key"
      BY <2>2 DEF StartEigen, GoOn
    <3> QED BY <3>1, <3>2, ServiceLists DEF HandlesAreComplete
  <2>3. CASE StartEigenRest
    <3>1. \A s \in Services : service'[s] # "absent" => s \in base \union eigen
      BY <1>1, <2>3 DEF StartEigenRest, Spawned, ProcessInv, HandlesAreComplete
    <3>2. Range(handles') = base \union eigen /\ mainPhase' = "bind"
      BY <2>3, ServiceLists DEF StartEigenRest, GoOn
    <3> HIDE DEF base, eigen
    <3> QED BY <3>1, <3>2 DEF HandlesAreComplete
  <2>4. CASE StartBase
    <3>1. \A s \in Services : service'[s] # "absent" => s \in base
      BY <1>1, <2>4 DEF StartBase, Spawned, ProcessInv, HandlesAreComplete
    <3>2. Range(handles') = base /\ mainPhase' = "bind"
      BY <2>4 DEF StartBase, GoOn
    <3> HIDE DEF base
    <3> QED BY <3>1, <3>2 DEF HandlesAreComplete
  <2> QED BY <2>1, <2>2, <2>3, <2>4
<1> QED BY <1>1, <1>2, <1>6, <1>7, <1>8, <1>10 DEF ProcessInv

\* The signal: no run has begun after it.
LEMMA StopStep ==
  ASSUME ProcessInv, Stop
  PROVE  ProcessInv'
<1>1. /\ UNCHANGED <<config, service, handles, joined, lateRuns, closed, result, panics>>
      /\ mainPhase = "serving" /\ mainPhase' = "joining" /\ cancelled' = TRUE
  BY DEF Stop
<1>2. joined = 0 /\ ~cancelled
  BY <1>1 DEF ProcessInv, RunsAfterStop
<1>3. ProcessTypeOK' /\ RunsAfterStop' /\ ShutdownIsClean'
  BY <1>1, <1>2 DEF ProcessInv, ProcessTypeOK, RunsAfterStop, ShutdownIsClean
<1>4. HandlesAreComplete'
  BY <1>1, <1>2 DEF ProcessInv, HandlesAreComplete
<1> QED BY <1>1, <1>3, <1>4 DEF ProcessInv

\* main waits for one more service.
LEMMA JoinStep ==
  ASSUME ProcessInv, Join
  PROVE  ProcessInv'
<1> DEFINE s == handles[joined + 1]
<1>1. mainPhase = "joining" /\ joined < Len(handles) /\ CanJoin(s)
  BY DEF Join
<1>2. CASE s \in Services /\ service[s] = "panicked"
  BY <1>1, <1>2, ErrorStep DEF Join
<1>3. CASE ~(s \in Services /\ service[s] = "panicked")
  <2>1. /\ UNCHANGED <<config, mainPhase, service, handles, cancelled, lateRuns, closed, result, panics>>
        /\ joined' = joined + 1
    BY <1>1, <1>3 DEF Join, GoOn
  <2>2. s \in Services => service[s] = "ended"
    BY <1>1, <1>3 DEF CanJoin
  <2>3. joined \in 0..Len(handles) /\ Len(handles) \in Nat
    BY LenProperties DEF ProcessInv, ProcessTypeOK
  <2>4. joined' \in 0..Len(handles)
    BY <1>1, <2>1, <2>3
  <2>5. ProcessTypeOK' /\ RunsAfterStop' /\ ShutdownIsClean'
    BY <2>1, <2>4 DEF ProcessInv, ProcessTypeOK, RunsAfterStop, ShutdownIsClean
  <2>6. \A i \in 1..joined' : i \in 1..joined \/ i = joined + 1
    BY <2>1, <2>3
  <2>7. HandlesAreComplete'
    BY <1>1, <2>1, <2>2, <2>6 DEF ProcessInv, HandlesAreComplete
  <2> QED BY <1>1, <2>1, <2>5, <2>7 DEF ProcessInv
<1> QED BY <1>2, <1>3

\* main has waited for all it started, so all of it has ended.
LEMMA CloseStep ==
  ASSUME ProcessInv, Close
  PROVE  ProcessInv'
<1>1. /\ UNCHANGED <<config, handles, joined, cancelled, lateRuns, panics>>
      /\ mainPhase = "joining" /\ mainPhase' = "exited" /\ result' = "ok" /\ closed' = TRUE /\ joined = Len(handles)
      /\ service' = [s \in Services |-> IF service[s] \in {"running", "sleeping"} THEN "aborted" ELSE service[s]]
  BY DEF Close, Return
<1>2. service \in [Services -> {"absent", "running", "sleeping", "ended", "panicked", "aborted"}]
      /\ handles \in Seq(AllServices)
  BY DEF ProcessInv, ProcessTypeOK
<1>3. ASSUME NEW s \in Services PROVE service[s] \in {"absent", "ended"}
  <2>1. SUFFICES ASSUME service[s] # "absent" PROVE service[s] = "ended"
    OBVIOUS
  <2>2. s \in Range(handles)
    BY <1>1, <2>1 DEF ProcessInv, HandlesAreComplete
  <2>3. PICK i \in 1..Len(handles) : handles[i] = s
    BY <1>2, <2>2, RangeEquality
  <2> QED BY <1>1, <2>3 DEF ProcessInv, HandlesAreComplete
<1>4. service' = service
  BY <1>1, <1>2, <1>3
<1>5. ProcessTypeOK' /\ RunsAfterStop' /\ HandlesAreComplete'
  BY <1>1, <1>4 DEF ProcessInv, ProcessTypeOK, RunsAfterStop, HandlesAreComplete
<1>6. ShutdownIsClean'
  BY <1>1, <1>3, <1>4 DEF ProcessInv, ShutdownIsClean
<1> QED BY <1>1, <1>5, <1>6 DEF ProcessInv

\* The start of the process.
LEMMA InitProcess == ProcessInit => ProcessInv
<1>1. SUFFICES ASSUME ProcessInit PROVE ProcessInv
  OBVIOUS
<1>2. handles \in Seq(AllServices) /\ joined \in 0..Len(handles) /\ 0 \in 0..MaxPanics
  BY <1>1, EmptySeq, ProcessAssumption DEF ProcessInit
<1>3. ProcessTypeOK
  BY <1>1, <1>2 DEF ProcessInit, ProcessTypeOK, Keys
<1>4. RunsAfterStop /\ HandlesAreComplete /\ ShutdownIsClean
  BY <1>1 DEF ProcessInit, RunsAfterStop, HandlesAreComplete, ShutdownIsClean
<1> QED BY <1>1, <1>3, <1>4 DEF ProcessInit, ProcessInv

\* Every step keeps the invariant.
LEMMA NextProcess == ProcessInv /\ [ProcessNext]_processVars => ProcessInv'
<1>1. SUFFICES ASSUME ProcessInv, [ProcessNext]_processVars PROVE ProcessInv'
  OBVIOUS
<1>2. CASE \E s \in Services : RunEnds(s) \/ SleepEnds(s) \/ Panic(s)
  BY <1>1, <1>2, ServiceStep
<1>3. CASE Main
  BY <1>1, <1>3, TryStep, StartStep, JoinStep, CloseStep DEF Main
<1>4. CASE Stop
  BY <1>1, <1>4, StopStep
<1>6. CASE ServerFails
  BY <1>1, <1>6, ErrorStep DEF ServerFails
<1>5. CASE UNCHANGED processVars
  <2>1. UNCHANGED <<config, mainPhase, service, handles, joined, cancelled, lateRuns, closed, result, panics>>
    BY <1>5 DEF processVars
  <2>2. ProcessTypeOK' /\ RunsAfterStop' /\ ShutdownIsClean'
    BY <1>1, <2>1 DEF ProcessInv, ProcessTypeOK, RunsAfterStop, ShutdownIsClean
  <2>3. HandlesAreComplete'
    BY <1>1, <2>1 DEF ProcessInv, HandlesAreComplete
  <2> QED BY <1>1, <2>1, <2>2, <2>3 DEF ProcessInv
<1> QED BY <1>1, <1>2, <1>3, <1>4, <1>5, <1>6 DEF ProcessNext

\* The types of the process, what it has started and what it waits for.
THEOREM ProcessInvariance == ProcessSpec => []ProcessInv
<1>1. ProcessInit => ProcessInv
  BY InitProcess
<1>2. ProcessInv /\ [ProcessNext]_processVars => ProcessInv'
  BY NextProcess
<1> QED BY <1>1, <1>2, PTL DEF ProcessSpec

\* shut_down: a stop without an error leaves no service cut off in the middle of a run, and
\* each service begins at most one run after the signal.
THEOREM OrderlyShutdown == ProcessSpec => []ShutdownIsClean
<1>1. ProcessInv => ShutdownIsClean
  BY DEF ProcessInv
<1> QED BY <1>1, ProcessInvariance, PTL

-----------------------------------------------------------------------------
(* The fee cache, with the committer and the metrics tracker as its        *)
(* callers and a chain that grows and reorganizes between the downloads of *)
(* a request.                                                              *)

\* The chain and the requests as far as the cache depends on them.
ChainShape ==
  /\ l1Height \in Nat
  /\ DOMAIN feeAt = 0..l1Height

RequestShape ==
  /\ phase \in {"idle", "short", "long"}
  /\ task.at \in 0..l1Height
  /\ request.lo \in Nat /\ request.hi \in 0..l1Height
  /\ DOMAIN cache \subseteq 0..l1Height
  /\ request = Unlocked => todo = {} /\ fetched = <<>>

\* Whatever a request has, found or has yet to get, each height once.
RangeIsSplit ==
  request # Unlocked =>
    /\ DOMAIN fetched \cup todo = (request.lo..request.hi) \ DOMAIN cache
    /\ todo \cap DOMAIN fetched = {}

\* Fees in the cache and on their way to it are the chain's, but for replaced blocks.
FetchedIsTrue == \A h \in DOMAIN fetched : h \in replaced \/ fetched[h] = feeAt[h]

FeeInv ==
  /\ ChainShape
  /\ RequestShape
  /\ RangeIsSplit
  /\ FetchedIsTrue
  /\ StaleOnlyIfReorged

-----------------------------------------------------------------------------
(* Sets of heights.                                                        *)

\* The missing ranges hold just the heights that are not available.
LEMMA MissingIsTheRest ==
  ASSUME NEW lo \in Nat, NEW hi \in Nat, NEW available, available \subseteq lo..hi
  PROVE  DetectMissingRanges(available, lo, hi) = (lo..hi) \ available
<1>1. CASE available = {}
  BY <1>1 DEF DetectMissingRanges
<1>2. CASE available # {}
  <2> DEFINE first == Min(available)
             last == Max(available)
             next == [prev \in available |-> Min({c \in available : c > prev})]
             between == UNION {(prev + 1)..(next[prev] - 1) : prev \in available \ {last}}
  <2>1. /\ first \in available /\ \A m \in available : first <= m
        /\ last \in available /\ \A m \in available : m <= last
    <3>1. available \subseteq Nat /\ available \subseteq 0..hi
      OBVIOUS
    <3> QED BY <1>2, <3>1, MinIsLeast, MaxIsGreatest
  <2>2. DetectMissingRanges(available, lo, hi) = lo..(first - 1) \cup (last + 1)..hi \cup between
    BY <1>2 DEF DetectMissingRanges
  <2>7. \A a \in available : a \in Nat /\ lo <= a /\ a <= hi
    OBVIOUS
  <2>3. ASSUME NEW prev \in available \ {last}
        PROVE  /\ next[prev] \in available /\ next[prev] > prev
               /\ \A c \in available : c > prev => next[prev] <= c
    <3>1. last \in {c \in available : c > prev} /\ {c \in available : c > prev} \subseteq Nat
      <4>1. last \in available /\ prev <= last /\ prev # last /\ prev \in Nat /\ last \in Nat
        BY <2>1, <2>7
      <4>2. last > prev
        BY <4>1
      <4> HIDE DEF last
      <4> QED BY <4>1, <4>2, <2>7
    <3>2. /\ next[prev] \in {c \in available : c > prev}
          /\ \A c \in {d \in available : d > prev} : next[prev] <= c
      BY <3>1, MinIsLeast
    <3> QED BY <3>2
  <2> HIDE DEF first, last, next
  <2>4. ASSUME NEW h \in (lo..hi) \ available
        PROVE  h \in lo..(first - 1) \cup (last + 1)..hi \cup between
    <3>3. h \in Nat /\ h \notin available /\ h <= hi
      <4>1. h \in lo..hi /\ h \notin available
        OBVIOUS
      <4> HIDE DEF between
      <4> QED BY <4>1
    <3>1. CASE h < first \/ h > last
      BY <2>1, <3>1
    <3>2. CASE first < h /\ h < last
      <4> DEFINE below == {a \in available : a < h}
      <4>1. below \subseteq 0..hi /\ below # {}
        <5>1. first \in below
          BY <2>1, <3>2
        <5>2. \A a \in available : a \in 0..hi
          BY <2>7
        <5> QED BY <5>1, <5>2
      <4>2. Max(below) \in below /\ \A m \in below : m <= Max(below)
        <5> HIDE DEF below
        <5> QED BY <4>1, MaxIsGreatest
      <4>3. PICK prev \in below : \A m \in below : m <= prev
        BY <4>2
      <4>4. prev \in available \ {last} /\ prev < h
        BY <2>1, <3>2
      <4>5. next[prev] \in available /\ next[prev] > prev
        BY <2>3, <4>4
      <4>6. ~(next[prev] < h)
        <5>1. SUFFICES ASSUME next[prev] < h PROVE FALSE
          OBVIOUS
        <5>2. next[prev] \in below
          BY <4>5, <5>1
        <5>3. next[prev] <= prev /\ next[prev] \in Nat /\ prev \in Nat
          BY <2>7, <4>3, <4>4, <5>2
        <5> QED BY <4>5, <5>3
      <4>7. h < next[prev]
        <5>1. next[prev] # h /\ next[prev] \in Nat /\ h \in Nat
          BY <2>7, <3>3, <4>5
        <5> QED BY <4>6, <5>1
      <4>8. h \in (prev + 1)..(next[prev] - 1)
        <5>1. next[prev] \in Nat /\ h \in Nat /\ prev \in Nat
          BY <2>7, <3>3, <4>4, <4>5
        <5> QED BY <4>4, <4>7, <5>1
      <4> QED BY <4>4, <4>8
    <3> QED BY <2>1, <3>1, <3>2
  <2>5. ASSUME NEW h \in between PROVE h \in (lo..hi) \ available
    <3>1. PICK prev \in available \ {last} : h \in (prev + 1)..(next[prev] - 1)
      BY <2>5
    <3>2. /\ next[prev] \in available /\ next[prev] > prev
          /\ \A c \in available : c > prev => next[prev] <= c
      BY <2>3, <3>1
    <3>3. h > prev /\ h < next[prev] /\ h \in lo..hi
      <4>1. /\ prev \in Nat /\ lo <= prev /\ next[prev] \in Nat /\ next[prev] <= hi
            /\ h \in (prev + 1)..(next[prev] - 1)
        BY <2>7, <3>1, <3>2
      <4> QED BY <4>1
    <3>4. h \notin available
      <4>1. SUFFICES ASSUME h \in available PROVE FALSE
        OBVIOUS
      <4>2. next[prev] <= h /\ next[prev] \in Nat /\ h \in Nat
        BY <2>7, <3>2, <3>3, <4>1
      <4> QED BY <3>3, <4>2
    <3> QED BY <3>3, <3>4
  <2>6. lo..(first - 1) \cup (last + 1)..hi \subseteq (lo..hi) \ available
    BY <2>1
  <2> HIDE DEF between
  <2> QED BY <2>2, <2>4, <2>5, <2>6
<1> QED BY <1>1, <1>2

\* A chunk is an interval of the heights to download.
LEMMA ChunkIsInterval ==
  ASSUME NEW n \in Nat, todo \subseteq 0..n, todo # {}
  PROVE  /\ FirstChunk \subseteq todo /\ FirstChunk # {}
         /\ Min(FirstChunk) \in Nat /\ Max(FirstChunk) \in 0..n /\ Min(FirstChunk) <= Max(FirstChunk)
         /\ FirstChunk = Min(FirstChunk)..Max(FirstChunk)
<1> DEFINE m == Min(todo)
           f == Min(FirstChunk)
           g == Max(FirstChunk)
<1>1. m \in todo /\ \A h \in todo : m <= h
  <2>1. todo \subseteq Nat
    OBVIOUS
  <2> QED BY <2>1, MinIsLeast
<1>2. FirstChunk = {h \in todo : h < m + RpcLimit /\ m..h \subseteq todo}
  BY DEF FirstChunk
<1> HIDE DEF m
<1>3. RpcLimit \in Nat /\ RpcLimit >= 1
  BY FeeCacheAssumption
<1>4. m \in FirstChunk
  <2>1. m < m + RpcLimit /\ m..m = {m}
    BY <1>1, <1>3
  <2> QED BY <1>1, <1>2, <2>1
<1>5. FirstChunk \subseteq todo /\ FirstChunk \subseteq 0..n /\ FirstChunk \subseteq Nat
  <2>1. FirstChunk \subseteq todo
    BY <1>2
  <2>2. 0..n \subseteq Nat
    OBVIOUS
  <2> QED BY <2>1, <2>2
<1>6. f \in FirstChunk /\ g \in FirstChunk /\ \A h \in FirstChunk : f <= h /\ h <= g
  BY <1>4, <1>5, MinIsLeast, MaxIsGreatest
<1> HIDE DEF f, g
<1>7. f = m
  BY <1>1, <1>4, <1>5, <1>6
<1>8. ASSUME NEW x \in f..g PROVE x \in FirstChunk
  <2>1. g < m + RpcLimit /\ m..g \subseteq todo /\ g \in Nat /\ m \in Nat
    BY <1>1, <1>2, <1>5, <1>6
  <2>2. x \in m..g /\ x < m + RpcLimit /\ m..x \subseteq m..g
    BY <1>3, <1>7, <2>1
  <2> QED BY <1>2, <2>1, <2>2
<1>9. FirstChunk \subseteq f..g /\ f \in Nat /\ g \in 0..n /\ f <= g
  BY <1>5, <1>6
<1> QED BY <1>4, <1>5, <1>8, <1>9 DEF f, g

\* What the provider makes of a fee history is the chain's fees of the range.
LEMMA HistoryIsTheChains ==
  ASSUME ChainShape, NEW lo \in Nat, NEW hi \in 0..l1Height, lo <= hi
  PROVE  /\ DOMAIN UnpackFeeHistory(FeeHistory(lo, hi)) = lo..hi
         /\ \A h \in lo..hi : UnpackFeeHistory(FeeHistory(lo, hi))[h] = feeAt[h]
<1> DEFINE history == FeeHistory(lo, hi)
<1>1. DOMAIN history = lo..(hi + 1) /\ \A h \in lo..hi : history[h] = feeAt[h]
  BY DEF FeeHistory, ChainShape
<1>2. Max(lo..(hi + 1)) = hi + 1
  <2>1. hi + 1 \in Nat /\ lo..(hi + 1) \subseteq 0..(hi + 1) /\ hi + 1 \in lo..(hi + 1)
    BY DEF ChainShape
  <2>2. Max(lo..(hi + 1)) \in lo..(hi + 1) /\ hi + 1 <= Max(lo..(hi + 1))
    BY <2>1, MaxIsGreatest
  <2> QED BY <2>1, <2>2
<1> HIDE DEF history
<1>3. DOMAIN history \cap (DOMAIN history \ {Max(DOMAIN history)}) = lo..hi
  <2>1. lo..(hi + 1) \ {hi + 1} = lo..hi
    BY DEF ChainShape
  <2> QED BY <1>1, <1>2, <2>1
<1>4. UnpackFeeHistory(history) = [h \in lo..hi |-> history[h]]
  BY <1>3 DEF UnpackFeeHistory, Part
<1> QED BY <1>1, <1>4 DEF history

-----------------------------------------------------------------------------
(* The steps.                                                              *)

\* A new chain and an empty cache.
LEMMA InitFees == FeeInit /\ AlgoInit => FeeInv
<1>1. SUFFICES ASSUME FeeInit, AlgoInit PROVE FeeInv
  OBVIOUS
<1>2. /\ l1Height = 0 /\ DOMAIN feeAt = 0..0 /\ cache = <<>> /\ fetched = <<>> /\ todo = {}
      /\ request = Unlocked /\ phase = "idle" /\ task.at = 0
  BY <1>1 DEF FeeInit, AlgoInit
<1>3. DOMAIN cache = {} /\ DOMAIN fetched = {} /\ 0 \in 0..0
  BY <1>2
<1> QED BY <1>2, <1>3 DEF FeeInv, ChainShape, RequestShape, RangeIsSplit, FetchedIsTrue,
                          StaleOnlyIfReorged, Unlocked

\* The chain grows, or its newest block is replaced: what is known of that block is
\* noted as replaced.
LEMMA ChainFees ==
  ASSUME FeeInv, ChainNext, UNCHANGED algoVars
  PROVE  FeeInv'
<1>1. UNCHANGED <<cache, request, todo, fetched, phase, task>>
  BY DEF ChainNext, NewL1Block, Reorg, cacheVars, algoVars
<1>2. l1Height' \in Nat /\ l1Height <= l1Height' /\ DOMAIN feeAt' = 0..l1Height'
  <2>1. CASE NewL1Block
    <3>1. l1Height' = l1Height + 1 /\ l1Height \in Nat /\ DOMAIN feeAt = 0..l1Height
      BY <2>1 DEF NewL1Block, FeeInv, ChainShape
    <3>2. PICK f \in Fee : feeAt' = Merged(feeAt, [h \in {l1Height + 1} |-> f])
      BY <2>1 DEF NewL1Block
    <3>3. DOMAIN feeAt' = DOMAIN feeAt \cup {l1Height + 1}
      BY <3>2 DEF Merged
    <3>4. 0..l1Height \cup {l1Height + 1} = 0..(l1Height + 1)
      BY <3>1
    <3> QED BY <3>1, <3>3, <3>4
  <2>2. CASE Reorg
    BY <2>2 DEF Reorg, FeeInv, ChainShape
  <2> QED BY <2>1, <2>2 DEF ChainNext
<1>3. \A h \in DOMAIN cache \cup DOMAIN fetched :
        \/ h \in replaced'
        \/ h \notin replaced /\ feeAt'[h] = feeAt[h]
  <2>1. \A h \in DOMAIN cache \cup DOMAIN fetched : h \in 0..l1Height /\ h \in DOMAIN feeAt
    <3>1. DOMAIN fetched \subseteq 0..l1Height
      <4>1. CASE request = Unlocked
        <5>1. DOMAIN fetched = {}
          BY <4>1 DEF FeeInv, RequestShape
        <5> QED BY <5>1
      <4>2. CASE request # Unlocked
        <5>1. DOMAIN fetched \subseteq request.lo..request.hi
          BY <4>2 DEF FeeInv, RangeIsSplit
        <5>2. request.lo..request.hi \subseteq 0..l1Height
          BY DEF FeeInv, RequestShape, ChainShape
        <5> QED BY <5>1, <5>2
      <4> QED BY <4>1, <4>2
    <3> QED BY <3>1 DEF FeeInv, RequestShape, ChainShape
  <2>2. CASE NewL1Block
    <3>1. PICK f \in Fee : feeAt' = Merged(feeAt, [h \in {l1Height + 1} |-> f])
      BY <2>2 DEF NewL1Block
    <3>2. replaced' = replaced /\ l1Height \in Nat
      BY <2>2 DEF NewL1Block, cacheVars, FeeInv, ChainShape
    <3>3. \A h \in 0..l1Height : h # l1Height + 1
      BY <3>2
    <3>4. \A h \in DOMAIN cache \cup DOMAIN fetched : feeAt'[h] = feeAt[h]
      BY <2>1, <3>1, <3>3 DEF Merged
    <3> QED BY <3>2, <3>4
  <2>3. CASE Reorg
    BY <2>1, <2>3 DEF Reorg
  <2> QED BY <2>2, <2>3 DEF ChainNext
<1>4. RequestShape'
  BY <1>1, <1>2 DEF FeeInv, RequestShape, ChainShape, Unlocked
<1>5. FetchedIsTrue' /\ StaleOnlyIfReorged'
  BY <1>1, <1>3 DEF FeeInv, FetchedIsTrue, StaleOnlyIfReorged
<1> QED BY <1>1, <1>2, <1>4, <1>5 DEF FeeInv, ChainShape, RangeIsSplit, Unlocked

\* A decision begins.
LEMMA DecideFees ==
  ASSUME FeeInv, BeginDecision
  PROVE  FeeInv'
<1>1. /\ UNCHANGED <<l1Height, feeAt, cache, request, todo, fetched, replaced>>
      /\ task'.at = l1Height /\ phase' \in {phase, "short"}
  BY DEF BeginDecision, chainVars, cacheVars
<1> QED BY <1>1 DEF FeeInv, ChainShape, RequestShape, RangeIsSplit, FetchedIsTrue, StaleOnlyIfReorged, Unlocked

\* The start of a period is a height no later than its end.
LEMMA PeriodStart ==
  ASSUME NEW at \in Nat, NEW n \in Nat \ {0}
  PROVE  FirstOfLastN(at, n) \in 0..at
BY DEF FirstOfLastN, SaturatingSub

\* A request that takes the lock sees what is missing in its range.
LEMMA RequestFees ==
  ASSUME FeeInv, NEW who \in Callers, NEW lo \in Nat, NEW hi \in 0..l1Height,
         StartRequest(who, lo, hi), UNCHANGED algoVars
  PROVE  FeeInv'
<1>1. /\ request = Unlocked /\ request' = [who |-> who, lo |-> lo, hi |-> hi]
      /\ todo' = DetectMissingRanges(DOMAIN cache \cap lo..hi, lo, hi)
      /\ UNCHANGED <<cache, fetched, replaced, l1Height, feeAt, phase, task>>
  BY DEF StartRequest, chainVars, algoVars
<1>2. todo' = (lo..hi) \ DOMAIN cache
  <2>1. hi \in Nat /\ DOMAIN cache \cap lo..hi \subseteq lo..hi
    BY DEF FeeInv, ChainShape
  <2> QED BY <1>1, <2>1, MissingIsTheRest
<1>3. request' # Unlocked /\ request'.lo = lo /\ request'.hi = hi
  <2>1. request'.who # Unlocked.who
    BY <1>1 DEF Unlocked, Callers, Nobody
  <2> QED BY <1>1, <2>1
<1>4. fetched' = <<>> /\ DOMAIN fetched' = {}
  <2>1. fetched' = <<>>
    BY <1>1 DEF FeeInv, RequestShape
  <2> QED BY <2>1
<1>5. RequestShape' /\ RangeIsSplit'
  <2>1. Unlocked' = Unlocked
    BY DEF Unlocked
  <2> QED BY <1>1, <1>2, <1>3, <1>4, <2>1 DEF FeeInv, RequestShape, RangeIsSplit
<1> QED BY <1>1, <1>4, <1>5 DEF FeeInv, ChainShape, FetchedIsTrue, StaleOnlyIfReorged

\* A chunk moves from what is to be downloaded to what is.
LEMMA DownloadFees ==
  ASSUME FeeInv, Download, UNCHANGED algoVars
  PROVE  FeeInv'
<1> DEFINE lo == Min(FirstChunk)
           hi == Max(FirstChunk)
           chunk == UnpackFeeHistory(FeeHistory(lo, hi))
<1>1. /\ todo # {} /\ todo' = todo \ FirstChunk /\ fetched' = Merged(fetched, chunk)
      /\ UNCHANGED <<cache, request, replaced, l1Height, feeAt, phase, task>>
  BY DEF Download, chainVars, algoVars
<1>2. request # Unlocked
  BY <1>1 DEF FeeInv, RequestShape
<1>3. todo \subseteq 0..l1Height /\ l1Height \in Nat
  <2>1. todo \subseteq request.lo..request.hi
    BY <1>2 DEF FeeInv, RangeIsSplit
  <2>2. request.lo..request.hi \subseteq 0..l1Height /\ l1Height \in Nat
    BY DEF FeeInv, RequestShape, ChainShape
  <2> QED BY <2>1, <2>2
<1>4. FirstChunk \subseteq todo /\ lo \in Nat /\ hi \in 0..l1Height /\ lo <= hi /\ FirstChunk = lo..hi
  BY <1>1, <1>3, ChunkIsInterval
<1> HIDE DEF lo, hi
<1>5. DOMAIN chunk = FirstChunk /\ \A h \in FirstChunk : chunk[h] = feeAt[h]
  BY <1>4, HistoryIsTheChains DEF FeeInv
<1> HIDE DEF chunk
<1>6. DOMAIN fetched' = DOMAIN fetched \cup FirstChunk
  BY <1>1, <1>5 DEF Merged
<1>7. FetchedIsTrue'
  BY <1>1, <1>5 DEF FeeInv, FetchedIsTrue, Merged
<1>8. RequestShape' /\ RangeIsSplit'
  <2>1. Unlocked' = Unlocked
    BY DEF Unlocked
  <2> QED BY <1>1, <1>2, <1>4, <1>6, <2>1 DEF FeeInv, RequestShape, RangeIsSplit
<1> QED BY <1>1, <1>7, <1>8 DEF FeeInv, ChainShape, StaleOnlyIfReorged

\* The lock is released, with or without what was downloaded in the cache.
LEMMA ReleaseFees ==
  ASSUME FeeInv, UNCHANGED <<l1Height, feeAt>>, request' = Unlocked, todo' = {}, fetched' = <<>>,
         cache' = cache \/ cache' = Evicted(Merged(cache, fetched)),
         replaced' = replaced \cap DOMAIN cache',
         request # Unlocked, task'.at = task.at, phase' \in {"idle", "short", "long"}
  PROVE  FeeInv'
<1>1. DOMAIN fetched' = {} /\ Unlocked' = Unlocked
  <2>1. DOMAIN <<>> = {}
    OBVIOUS
  <2> QED BY <2>1 DEF Unlocked
<1>2. request.lo..request.hi \subseteq 0..l1Height
  BY DEF FeeInv, RequestShape, ChainShape
<1>3. DOMAIN cache' \subseteq DOMAIN cache \cup DOMAIN fetched
  BY DEF Evicted, Part, Merged
<1>4. DOMAIN cache' \subseteq 0..l1Height
  BY <1>2, <1>3 DEF FeeInv, RequestShape, RangeIsSplit
<1>5. \A h \in DOMAIN cache' :
        \/ h \in DOMAIN cache /\ cache'[h] = cache[h]
        \/ h \in DOMAIN fetched /\ cache'[h] = fetched[h]
  BY DEF Evicted, Part, Merged
<1>6. StaleOnlyIfReorged'
  BY <1>5 DEF FeeInv, StaleOnlyIfReorged, FetchedIsTrue
<1>7. RequestShape'
  <2>1. request'.lo = 0 /\ request'.hi = 0 /\ 0 \in 0..l1Height
    BY DEF Unlocked, FeeInv, ChainShape
  <2> QED BY <1>1, <1>4, <2>1 DEF FeeInv, RequestShape
<1> QED BY <1>1, <1>6, <1>7 DEF FeeInv, ChainShape, RangeIsSplit, FetchedIsTrue

\* Every step keeps the invariant.
LEMMA NextFees == FeeInv /\ [FeeNext]_feeVars => FeeInv'
<1>1. SUFFICES ASSUME FeeInv, [FeeNext]_feeVars PROVE FeeInv'
  OBVIOUS
<1>2. CASE ChainNext /\ UNCHANGED algoVars
  BY <1>1, <1>2, ChainFees
<1>3. CASE BeginDecision
  BY <1>1, <1>3, DecideFees
<1>4. CASE AskFees
  <2>1. task.at \in 0..l1Height /\ task.at \in Nat /\ phase \in Callers /\ UNCHANGED algoVars
    BY <1>1, <1>4 DEF AskFees, FeeInv, RequestShape, ChainShape, Callers
  <2>2. Period(phase) \in Nat \ {0}
    BY FeeAlgorithmAssumption DEF Period
  <2> QED BY <1>1, <1>4, <2>1, <2>2, PeriodStart, RequestFees DEF AskFees
<1>5. CASE TrackFees
  <2>1. l1Height \in 0..l1Height /\ l1Height \in Nat /\ "tracker" \in Callers
    BY <1>1 DEF FeeInv, ChainShape, Callers
  <2> QED BY <1>1, <1>5, <2>1, RequestFees DEF TrackFees
<1>6. CASE FetchFees
  BY <1>1, <1>6, DownloadFees DEF FetchFees
<1>7. CASE FetchFailed
  <2>1. request # Unlocked /\ phase' \in {"idle", "short", "long"}
    BY <1>1, <1>7 DEF FetchFailed, DownloadFailed, FeeInv, RequestShape
  <2> QED BY <1>1, <1>7, <2>1, ReleaseFees DEF FetchFailed, DownloadFailed, chainVars
<1>8. CASE EndTracking \/ TakeShort \/ TakeLong
  <2>1. EndRequest /\ task' = task /\ phase' \in {"idle", "short", "long"}
    BY <1>1, <1>8 DEF EndTracking, TakeShort, TakeLong, algoVars, FeeInv, RequestShape
  <2> QED BY <1>1, <2>1, ReleaseFees DEF EndRequest, chainVars
<1>9. CASE UNCHANGED feeVars
  BY <1>1, <1>9 DEF feeVars, chainVars, cacheVars, algoVars, FeeInv, ChainShape, RequestShape, RangeIsSplit,
                    FetchedIsTrue, StaleOnlyIfReorged, Unlocked
<1> QED BY <1>1, <1>2, <1>3, <1>4, <1>5, <1>6, <1>7, <1>8, <1>9 DEF FeeNext

-----------------------------------------------------------------------------
(* Eviction.                                                               *)

\* The heights at and above one of a finite set.
LEMMA HeightsAbove ==
  ASSUME NEW M, M \subseteq Nat, IsFiniteSet(M), NEW g \in M, NEW h \in M, g <= h
  PROVE  Cardinality({k \in M : k >= h}) <= Cardinality({k \in M : k >= g})
<1> DEFINE aboveH == {k \in M : k >= h}
           aboveG == {k \in M : k >= g}
<1>1. aboveH \subseteq aboveG /\ aboveG \subseteq M
  <2>1. ASSUME NEW k \in M, k >= h PROVE k >= g
    <3>1. k \in Nat /\ g \in Nat /\ h \in Nat
      OBVIOUS
    <3> QED BY <2>1, <3>1
  <2> QED BY <2>1
<1> HIDE DEF aboveH, aboveG
<1>2. IsFiniteSet(aboveG)
  BY <1>1, FS_Subset
<1>3. Cardinality(aboveH) <= Cardinality(aboveG)
  BY <1>1, <1>2, FS_Subset
<1> QED BY <1>3 DEF aboveH, aboveG

\* What is evicted is lower than what stays, and no more than the limit stays.
LEMMA EvictionKeepsNewest ==
  ASSUME NEW f, DOMAIN f \subseteq Nat, IsFiniteSet(DOMAIN f)
  PROVE  /\ DOMAIN Evicted(f) \subseteq DOMAIN f
         /\ \A h \in DOMAIN f \ DOMAIN Evicted(f) : \A g \in DOMAIN Evicted(f) : h < g
         /\ Cardinality(DOMAIN Evicted(f)) <= CacheLimit
<1> DEFINE M == DOMAIN f
           above(g) == Cardinality({k \in M : k >= g})
           kept == DOMAIN Evicted(f)
<1>1. kept = {g \in M : above(g) <= CacheLimit}
  BY DEF Evicted, Part
<1>2. \A g \in M : above(g) \in Nat
  <2>1. \A g \in M : {k \in M : k >= g} \subseteq M
    OBVIOUS
  <2> QED BY <2>1, FS_Subset, FS_CardinalityType
<1>3. \A g, h \in M : g <= h => above(h) <= above(g)
  BY HeightsAbove
<1>4. CacheLimit \in Nat
  BY FeeCacheAssumption
<1>5. IsFiniteSet(kept) /\ kept \subseteq Nat
  BY <1>1, FS_Subset
<1>6. Cardinality(kept) <= CacheLimit
  <2>1. CASE kept = {}
    BY <1>4, <2>1, FS_EmptySet
  <2>2. CASE kept # {}
    <3>1. Min(kept) \in kept /\ \A m \in kept : Min(kept) <= m
      <4> HIDE DEF kept
      <4> QED BY <1>5, <2>2, MinIsLeast
    <3> DEFINE all == {k \in M : k >= Min(kept)}
    <3>2. kept \subseteq all /\ all \subseteq M
      <4> HIDE DEF above
      <4> QED BY <1>1, <1>5, <3>1
    <3>3. IsFiniteSet(all)
      BY <3>2, FS_Subset
    <3>4. Cardinality(kept) <= Cardinality(all) /\ Cardinality(kept) \in Nat
      <4> HIDE DEF kept, all
      <4> QED BY <1>5, <3>2, <3>3, FS_Subset, FS_CardinalityType
    <3>5. Cardinality(all) <= CacheLimit /\ Cardinality(all) \in Nat
      <4> HIDE DEF kept
      <4> QED BY <1>1, <1>2, <3>1
    <3> HIDE DEF kept, all
    <3> QED BY <1>4, <3>4, <3>5
  <2> QED BY <2>1, <2>2
<1>7. ASSUME NEW h \in M \ kept, NEW g \in kept PROVE h < g
  <2>1. above(g) <= CacheLimit /\ ~(above(h) <= CacheLimit) /\ above(g) \in Nat /\ above(h) \in Nat
        /\ g \in Nat /\ h \in Nat /\ g \in M /\ h \in M
    <3> HIDE DEF above, kept
    <3> QED BY <1>1, <1>2, <1>5, <1>7
  <2>2. ~(g <= h)
    <3> HIDE DEF above
    <3> QED BY <1>3, <1>4, <2>1
  <2> QED BY <2>1, <2>2
<1> QED BY <1>1, <1>6, <1>7

\* A step changes the cache only when a request ends.
LEMMA OnlyRequestsFill ==
  ASSUME [FeeNext]_feeVars, cache' # cache
  PROVE  EndRequest
BY DEF FeeNext, feeVars, chainVars, cacheVars, ChainNext, NewL1Block, Reorg, BeginDecision, AskFees, TrackFees,
       StartRequest, FetchFees, Download, FetchFailed, DownloadFailed, EndTracking, TakeShort, TakeLong

\* All heights the cache and a request hold are of the chain: there are finitely many.
LEMMA HeldHeights ==
  ASSUME FeeInv
  PROVE  /\ DOMAIN Merged(cache, fetched) = DOMAIN cache \cup DOMAIN fetched
         /\ DOMAIN Merged(cache, fetched) \subseteq 0..l1Height
         /\ IsFiniteSet(DOMAIN Merged(cache, fetched)) /\ l1Height \in Nat
<1>1. DOMAIN Merged(cache, fetched) = DOMAIN cache \cup DOMAIN fetched
  BY DEF Merged
<1>2. DOMAIN fetched \subseteq 0..l1Height
  <2>1. CASE request = Unlocked
    <3>1. DOMAIN fetched = {}
      BY <2>1 DEF FeeInv, RequestShape
    <3> QED BY <3>1
  <2>2. CASE request # Unlocked
    <3>1. DOMAIN fetched \subseteq request.lo..request.hi
      BY <2>2 DEF FeeInv, RangeIsSplit
    <3>2. request.lo..request.hi \subseteq 0..l1Height
      BY DEF FeeInv, RequestShape, ChainShape
    <3> QED BY <3>1, <3>2
  <2> QED BY <2>1, <2>2
<1>3. DOMAIN cache \subseteq 0..l1Height /\ l1Height \in Nat
  BY DEF FeeInv, RequestShape, ChainShape
<1>4. IsFiniteSet(0..l1Height)
  BY <1>3, FS_Interval
<1>5. DOMAIN cache \cup DOMAIN fetched \subseteq 0..l1Height
  BY <1>2, <1>3
<1> QED BY <1>1, <1>3, <1>4, <1>5, FS_Subset

-----------------------------------------------------------------------------
(* The theorems.                                                           *)

\* The inductive invariant of the fee cache.
THEOREM FeeInvariance == FeeSpec => []FeeInv
<1>1. FeeInit /\ AlgoInit => FeeInv
  BY InitFees
<1>2. FeeInv /\ [FeeNext]_feeVars => FeeInv'
  BY NextFees
<1> QED BY <1>1, <1>2, PTL DEF FeeSpec

\* detect_missing_ranges, the chunks of the provider and the merge of both with the
\* cached fees leave no height out and ask for none twice.
THEOREM RequestsAreCovered == FeeSpec => []RequestIsCovered
<1>1. FeeInv => RequestIsCovered
  <2>1. SUFFICES ASSUME FeeInv, request # Unlocked
                 PROVE  /\ DOMAIN Answer \cup todo = request.lo..request.hi
                        /\ todo \cap DOMAIN Answer = {}
                        /\ DOMAIN fetched \cap DOMAIN cache = {}
    BY DEF RequestIsCovered
  <2>2. DOMAIN Answer = (DOMAIN cache \cap request.lo..request.hi) \cup DOMAIN fetched
    BY DEF Answer, Merged, Part
  <2>3. /\ DOMAIN fetched \cup todo = (request.lo..request.hi) \ DOMAIN cache
        /\ todo \cap DOMAIN fetched = {}
    BY <2>1 DEF FeeInv, RangeIsSplit
  <2> HIDE DEF Answer
  <2> QED BY <2>2, <2>3
<1> QED BY <1>1, FeeInvariance, PTL

\* CachingApi never shows fees that the chain did not have, however it moved between
\* the download and the insert, unless the block was replaced.
THEOREM CacheIsTrue == FeeSpec => []StaleOnlyIfReorged
<1>1. FeeInv => StaleOnlyIfReorged
  BY DEF FeeInv
<1> QED BY <1>1, FeeInvariance, PTL

\* BTreeMap::pop_first until the limit holds: the cache never gives up a newer height
\* for an older one, in whichever order requests for old and new heights come.
THEOREM CacheKeepsNewest == FeeSpec => NewestAreKept
<1>1. FeeInv /\ [FeeNext]_feeVars =>
        [\A h \in DOMAIN cache \cup DOMAIN fetched :
           h \notin DOMAIN cache' /\ cache' # cache => \A g \in DOMAIN cache' : h < g]_cache
  <2>1. SUFFICES ASSUME FeeInv, [FeeNext]_feeVars, NEW h \in DOMAIN cache \cup DOMAIN fetched,
                        h \notin DOMAIN cache', cache' # cache, NEW g \in DOMAIN cache'
                 PROVE  h < g
    OBVIOUS
  <2>2. cache' = Evicted(Merged(cache, fetched))
    BY <2>1, OnlyRequestsFill DEF EndRequest
  <2>3. 0..l1Height \subseteq Nat
    OBVIOUS
  <2>4. /\ DOMAIN Merged(cache, fetched) \subseteq Nat /\ IsFiniteSet(DOMAIN Merged(cache, fetched))
        /\ h \in DOMAIN Merged(cache, fetched)
    BY <2>1, <2>3, HeldHeights
  <2> QED BY <2>1, <2>2, <2>4, EvictionKeepsNewest
<1> QED BY <1>1, FeeInvariance, PTL DEF FeeSpec, NewestAreKept

-----------------------------------------------------------------------------
(* The values, and the averages.                                           *)

\* A request of the committer is for the average it asks for next.
AsksForPeriod ==
  request.who \in {"short", "long"} =>
    /\ phase = request.who
    /\ request.lo = FirstOfLastN(task.at, Period(request.who))
    /\ request.hi = task.at

FetchedAreFees == \A h \in DOMAIN fetched : fetched[h] \in Fee

RangeIsNotEmpty == request.lo <= request.hi

ValuesInv == FeeTypeOK /\ AsksForPeriod /\ FetchedAreFees /\ RangeIsNotEmpty

\* The values a sum is made of are numbers.
LEMMA FeeFieldsAreSummable ==
  ASSUME NEW fees, IsFiniteSet(DOMAIN fees), \A h \in DOMAIN fees : fees[h] \in Fee
  PROVE  /\ Summable([h \in DOMAIN fees |-> fees[h].base], DOMAIN fees)
         /\ Summable([h \in DOMAIN fees |-> fees[h].reward], DOMAIN fees)
         /\ Summable([h \in DOMAIN fees |-> fees[h].blob], DOMAIN fees)
<1>1. \A h \in DOMAIN fees : fees[h].base \in Nat /\ fees[h].reward \in Nat /\ fees[h].blob \in Nat
  BY FeeCacheAssumption
<1> QED BY <1>1 DEF Summable

\* A mean of numbers is the number it is taken for, and one over at most.
LEMMA MeanIsClose ==
  ASSUME NEW T, IsFiniteSet(T), T # {}, NEW values, DOMAIN values = T, Summable(values, T)
  PROVE  /\ Total(values) \div Cardinality(T) \in Nat
         /\ IsMeanOf(Total(values) \div Cardinality(T), values)
<1> DEFINE s == SumFunction(values)
           c == Cardinality(T)
           q == (1 + s) \div c
<1>1. s \in Nat
  BY SumType DEF SumFunction
<1>2. c \in Nat \ {0}
  BY FS_CardinalityType, FS_EmptySet
<1>3. Total(values) = 1 + s
  BY DEF Total
<1> HIDE DEF s, c
<1>4. q \in Nat /\ q * c <= 1 + s /\ 1 + s < (q + 1) * c
  <2>1. 1 + s \in Nat
    BY <1>1
  <2> QED BY <1>2, <2>1, Quotient
<1> HIDE DEF q
<1>5. q * c <= s + 1 /\ s < (q + 1) * c
  BY <1>1, <1>2, <1>4
<1> QED BY <1>3, <1>4, <1>5 DEF IsMeanOf, q, s, c

\* What a complete answer is: one fee for each height of the range.
LEMMA AnswerIsComplete ==
  ASSUME FeeInv, ValuesInv, EndRequest
  PROVE  /\ DOMAIN Answer = request.lo..request.hi
         /\ IsFiniteSet(DOMAIN Answer) /\ DOMAIN Answer # {}
         /\ \A h \in DOMAIN Answer : Answer[h] \in Fee
         /\ \A h \in DOMAIN Answer : h \in replaced \/ Answer[h] = feeAt[h]
<1>1. request # Unlocked /\ todo = {}
  BY DEF EndRequest
<1>2. DOMAIN fetched = (request.lo..request.hi) \ DOMAIN cache
  BY <1>1 DEF FeeInv, RangeIsSplit
<1>3. DOMAIN Answer = (DOMAIN cache \cap request.lo..request.hi) \cup DOMAIN fetched
  BY DEF Answer, Merged, Part
<1>4. \A h \in DOMAIN Answer :
        \/ h \in DOMAIN cache /\ Answer[h] = cache[h]
        \/ h \in DOMAIN fetched /\ Answer[h] = fetched[h]
  BY DEF Answer, Merged, Part
<1>5. \A h \in DOMAIN Answer : Answer[h] \in Fee /\ (h \in replaced \/ Answer[h] = feeAt[h])
  <2> HIDE DEF Answer
  <2> QED BY <1>4 DEF FeeInv, ValuesInv, FeeTypeOK, FeeCacheTypeOK, FetchedAreFees, FetchedIsTrue, StaleOnlyIfReorged
<1>6. DOMAIN Answer = request.lo..request.hi
  <2> HIDE DEF Answer
  <2> QED BY <1>2, <1>3
<1>7. request.lo \in Nat /\ request.hi \in Nat /\ request.lo <= request.hi
  BY DEF FeeInv, RequestShape, ChainShape, ValuesInv, RangeIsNotEmpty
<1>8. IsFiniteSet(request.lo..request.hi) /\ request.lo \in request.lo..request.hi
  <2>1. request.lo \in Int /\ request.hi \in Int /\ request.lo \in request.lo..request.hi
    BY <1>7
  <2> QED BY <2>1, FS_Interval, ZenonT(30)
<1> HIDE DEF Answer
<1>9. IsFiniteSet(DOMAIN Answer) /\ DOMAIN Answer # {}
  BY <1>6, <1>8
<1> QED BY <1>5, <1>6, <1>9

\* The average of an answer is a fee.
LEMMA MeanOfAnswer ==
  ASSUME FeeInv, ValuesInv, EndRequest
  PROVE  /\ Mean(Answer) \in [base : Nat, reward : Nat, blob : Nat]
         /\ IsMeanOf(Mean(Answer).base, [h \in DOMAIN Answer |-> Answer[h].base])
         /\ IsMeanOf(Mean(Answer).reward, [h \in DOMAIN Answer |-> Answer[h].reward])
         /\ IsMeanOf(Mean(Answer).blob, [h \in DOMAIN Answer |-> Answer[h].blob])
<1> DEFINE T == DOMAIN Answer
           base == [h \in T |-> Answer[h].base]
           reward == [h \in T |-> Answer[h].reward]
           blob == [h \in T |-> Answer[h].blob]
<1>1. IsFiniteSet(T) /\ T # {} /\ \A h \in T : Answer[h] \in Fee
  BY AnswerIsComplete
<1>2. Summable(base, T) /\ Summable(reward, T) /\ Summable(blob, T)
  <2> HIDE DEF Answer
  <2> QED BY <1>1, FeeFieldsAreSummable
<1>3. Mean(Answer) = [base   |-> Total(base) \div Cardinality(T),
                     reward |-> Total(reward) \div Cardinality(T),
                     blob   |-> Total(blob) \div Cardinality(T)]
  BY DEF Mean
<1>4. DOMAIN base = T /\ DOMAIN reward = T /\ DOMAIN blob = T
  OBVIOUS
<1> HIDE DEF T, base, reward, blob
<1>5. /\ Total(base) \div Cardinality(T) \in Nat /\ IsMeanOf(Total(base) \div Cardinality(T), base)
      /\ Total(reward) \div Cardinality(T) \in Nat /\ IsMeanOf(Total(reward) \div Cardinality(T), reward)
      /\ Total(blob) \div Cardinality(T) \in Nat /\ IsMeanOf(Total(blob) \div Cardinality(T), blob)
  BY <1>1, <1>2, <1>4, MeanIsClose
<1>6. /\ Mean(Answer) \in [base : Nat, reward : Nat, blob : Nat]
      /\ IsMeanOf(Mean(Answer).base, base) /\ IsMeanOf(Mean(Answer).reward, reward)
      /\ IsMeanOf(Mean(Answer).blob, blob)
  BY <1>3, <1>5
<1> QED BY <1>6 DEF T, base, reward, blob

\* A new chain and an empty cache have their types.
LEMMA InitValues == FeeInit /\ AlgoInit => ValuesInv
<1>1. SUFFICES ASSUME FeeInit, AlgoInit PROVE ValuesInv
  OBVIOUS
<1>2. /\ l1Height = 0 /\ feeAt \in [{0} -> Fee] /\ cache = <<>> /\ fetched = <<>> /\ todo = {} /\ reorgs = 0
      /\ request = [who |-> "nobody", lo |-> 0, hi |-> 0]
      /\ phase = "idle" /\ task = [blobs |-> 0, behind |-> 0, at |-> 0] /\ verdict = "none"
      /\ mean = [short |-> NoMean, long |-> NoMean]
  BY <1>1 DEF FeeInit, AlgoInit, Unlocked, Nobody
<1>3. DOMAIN cache = {} /\ DOMAIN fetched = {} /\ 0..0 = {0} /\ Cardinality(DOMAIN cache) = 0
  <2>1. DOMAIN <<>> = {} /\ 0..0 = {0} /\ Cardinality({}) = 0
    BY FS_EmptySet
  <2> QED BY <1>2, <2>1
<1>4. FeeCacheTypeOK
  BY <1>2, <1>3, FeeCacheAssumption DEF FeeCacheTypeOK, L1Heights, Callers, Nobody
<1>5. mean \in [{"short", "long"} -> [base : Nat, reward : Nat, blob : Nat]]
  BY <1>2 DEF NoMean
<1>6. task \in [blobs : {0} \cup NumBlobs, behind : 0..(MaxBlocksBehind + 1), at : 0..l1Height]
  BY <1>2, FeeAlgorithmAssumption
<1> QED BY <1>2, <1>3, <1>4, <1>5, <1>6 DEF ValuesInv, FeeTypeOK, AsksForPeriod, FetchedAreFees, RangeIsNotEmpty

\* What a step of the chain keeps.
LEMMA ChainValues ==
  ASSUME FeeInv, ValuesInv, ChainNext, UNCHANGED algoVars
  PROVE  ValuesInv'
<1>1. /\ UNCHANGED <<cache, request, todo, fetched, phase, task, mean, verdict>>
      /\ l1Height \in Nat /\ feeAt \in [0..l1Height -> Fee] /\ DOMAIN cache \subseteq 0..l1Height
  BY DEF ChainNext, NewL1Block, Reorg, cacheVars, algoVars, FeeInv, ChainShape, RequestShape,
         ValuesInv, FeeTypeOK, FeeCacheTypeOK
<1>2. /\ l1Height' \in L1Heights /\ l1Height <= l1Height' /\ feeAt' \in [0..l1Height' -> Fee]
      /\ reorgs' \in 0..MaxReorgs
  <2>1. CASE NewL1Block
    <3>1. l1Height' = l1Height + 1 /\ l1Height' \in 0..MaxL1Height /\ reorgs' = reorgs
      BY <1>1, <2>1, FeeCacheAssumption DEF NewL1Block
    <3>2. PICK f \in Fee : feeAt' = Merged(feeAt, [h \in {l1Height + 1} |-> f])
      BY <2>1 DEF NewL1Block
    <3>3. 0..l1Height \cup {l1Height + 1} = 0..(l1Height + 1)
      BY <1>1
    <3>4. feeAt' \in [0..l1Height \cup {l1Height + 1} -> Fee]
      BY <1>1, <3>2 DEF Merged
    <3> QED BY <1>1, <3>1, <3>3, <3>4 DEF L1Heights, ValuesInv, FeeTypeOK, FeeCacheTypeOK
  <2>2. CASE Reorg
    <3>1. l1Height' = l1Height /\ reorgs' = reorgs + 1 /\ reorgs < MaxReorgs /\ reorgs \in 0..MaxReorgs
          /\ l1Height \in L1Heights
      BY <2>2 DEF Reorg, ValuesInv, FeeTypeOK, FeeCacheTypeOK
    <3>2. PICK f \in Fee : feeAt' = [feeAt EXCEPT ![l1Height] = f]
      BY <2>2 DEF Reorg
    <3>3. feeAt' \in [0..l1Height -> Fee]
      BY <1>1, <3>2
    <3> QED BY <1>1, <3>1, <3>3, FeeCacheAssumption
  <2> QED BY <2>1, <2>2 DEF ChainNext
<1>3. l1Height' \in Nat /\ 0..l1Height \subseteq 0..l1Height'
  BY <1>1, <1>2 DEF L1Heights
<1>4. FeeCacheTypeOK'
  BY <1>1, <1>2, <1>3 DEF ValuesInv, FeeTypeOK, FeeCacheTypeOK, L1Heights
<1>5. FeeTypeOK'
  BY <1>1, <1>3, <1>4 DEF ValuesInv, FeeTypeOK
<1> QED BY <1>1, <1>5 DEF ValuesInv, AsksForPeriod, FetchedAreFees, RangeIsNotEmpty

\* What the start of a decision keeps: no average is being asked for.
LEMMA DecideValues ==
  ASSUME FeeInv, ValuesInv, BeginDecision
  PROVE  ValuesInv'
<1>1. /\ UNCHANGED <<l1Height, feeAt, reorgs, cache, request, todo, fetched, mean>>
      /\ phase = "idle" /\ phase' \in {"idle", "short"} /\ verdict' \in {verdict, "send"}
  BY DEF BeginDecision, chainVars, cacheVars
<1>2. PICK blobs \in NumBlobs, behind \in 0..(MaxBlocksBehind + 1) :
        task' = [blobs |-> blobs, behind |-> behind, at |-> l1Height]
  BY DEF BeginDecision
<1>3. l1Height \in 0..l1Height
  BY DEF FeeInv, ChainShape
<1>4. FeeCacheTypeOK'
  BY <1>1 DEF ValuesInv, FeeTypeOK, FeeCacheTypeOK
<1>5. FeeTypeOK'
  BY <1>1, <1>2, <1>3, <1>4 DEF ValuesInv, FeeTypeOK
<1> QED BY <1>1, <1>5 DEF ValuesInv, AsksForPeriod, FetchedAreFees, RangeIsNotEmpty

\* What the start of a request keeps.
LEMMA RequestValues ==
  ASSUME FeeInv, ValuesInv, FeeInv', NEW who \in Callers, NEW hi \in 0..l1Height, NEW lo \in 0..hi,
         StartRequest(who, lo, hi), UNCHANGED algoVars,
         who \in {"short", "long"} => phase = who /\ lo = FirstOfLastN(task.at, Period(who)) /\ hi = task.at
  PROVE  ValuesInv'
<1>1. /\ request' = [who |-> who, lo |-> lo, hi |-> hi] /\ request = Unlocked
      /\ UNCHANGED <<l1Height, feeAt, reorgs, cache, fetched, phase, task, mean, verdict>>
  BY DEF StartRequest, chainVars, algoVars
<1>2. request' # Unlocked' /\ todo' \subseteq request'.lo..request'.hi
  <2>1. request'.who # Unlocked'.who
    BY <1>1 DEF Unlocked, Callers, Nobody
  <2> QED BY <2>1 DEF FeeInv, RangeIsSplit
<1>3. l1Height \in L1Heights /\ hi \in L1Heights /\ lo \in L1Heights /\ lo <= hi
  <2>1. l1Height \in 0..MaxL1Height /\ MaxL1Height \in Nat
    BY FeeCacheAssumption DEF ValuesInv, FeeTypeOK, FeeCacheTypeOK, L1Heights
  <2> QED BY <2>1 DEF L1Heights
<1>4. FeeCacheTypeOK'
  BY <1>1, <1>2, <1>3 DEF ValuesInv, FeeTypeOK, FeeCacheTypeOK
<1>5. FeeTypeOK'
  BY <1>1, <1>4 DEF ValuesInv, FeeTypeOK
<1>6. AsksForPeriod'
  BY <1>1 DEF AsksForPeriod, Callers
<1> QED BY <1>1, <1>3, <1>5, <1>6 DEF ValuesInv, FetchedAreFees, RangeIsNotEmpty

\* What is downloaded are fees of the chain.
LEMMA DownloadValues ==
  ASSUME FeeInv, ValuesInv, FeeInv', Download, UNCHANGED algoVars
  PROVE  ValuesInv'
<1> DEFINE lo == Min(FirstChunk)
           hi == Max(FirstChunk)
           chunk == UnpackFeeHistory(FeeHistory(lo, hi))
<1>1. /\ UNCHANGED <<l1Height, feeAt, reorgs, cache, request, phase, task, mean, verdict>>
      /\ todo # {} /\ todo' \subseteq todo /\ fetched' = Merged(fetched, chunk)
  BY DEF Download, chainVars, algoVars
<1>2. todo \subseteq 0..l1Height /\ l1Height \in Nat
  <2>1. request # Unlocked
    BY <1>1 DEF FeeInv, RequestShape
  <2>2. todo \subseteq request.lo..request.hi
    BY <2>1 DEF FeeInv, RangeIsSplit
  <2>3. request.lo..request.hi \subseteq 0..l1Height /\ l1Height \in Nat
    BY DEF FeeInv, RequestShape, ChainShape
  <2> QED BY <2>2, <2>3
<1>3. lo \in Nat /\ hi \in 0..l1Height /\ lo <= hi
  BY <1>1, <1>2, ChunkIsInterval
<1> HIDE DEF lo, hi
<1>4. DOMAIN chunk = lo..hi /\ \A h \in lo..hi : chunk[h] = feeAt[h]
  BY <1>3, HistoryIsTheChains DEF FeeInv
<1> HIDE DEF chunk
<1>5. \A h \in lo..hi : feeAt[h] \in Fee
  BY <1>2, <1>3 DEF ValuesInv, FeeTypeOK, FeeCacheTypeOK
<1>6. FetchedAreFees'
  BY <1>1, <1>4, <1>5 DEF ValuesInv, FetchedAreFees, Merged
<1>7. FeeCacheTypeOK'
  BY <1>1 DEF ValuesInv, FeeTypeOK, FeeCacheTypeOK
<1>8. FeeTypeOK'
  BY <1>1, <1>7 DEF ValuesInv, FeeTypeOK
<1> QED BY <1>1, <1>6, <1>8 DEF ValuesInv, AsksForPeriod, RangeIsNotEmpty

\* What the end of a request keeps, and how much the cache has then.
LEMMA ReleaseValues ==
  ASSUME FeeInv, ValuesInv, FeeInv', UNCHANGED <<chainVars, task>>,
         request' = Unlocked, todo' = {}, fetched' = <<>>,
         cache' = cache \/ cache' = Evicted(Merged(cache, fetched)),
         phase' \in {"idle", "short", "long"}, verdict' \in {"none", "send", "wait"},
         mean' \in [{"short", "long"} -> [base : Nat, reward : Nat, blob : Nat]]
  PROVE  ValuesInv'
<1>1. UNCHANGED <<l1Height, feeAt, reorgs, task>> /\ DOMAIN fetched' = {}
  <2>1. DOMAIN <<>> = {}
    OBVIOUS
  <2> QED BY <2>1 DEF chainVars
<1>2. Cardinality(DOMAIN cache') <= CacheLimit
  <2>1. CASE cache' = cache
    BY <2>1 DEF ValuesInv, FeeTypeOK, FeeCacheTypeOK
  <2>2. CASE cache' = Evicted(Merged(cache, fetched))
    <3>1. 0..l1Height \subseteq Nat
      OBVIOUS
    <3>2. DOMAIN Merged(cache, fetched) \subseteq Nat /\ IsFiniteSet(DOMAIN Merged(cache, fetched))
      BY <3>1, HeldHeights
    <3> QED BY <2>2, <3>2, EvictionKeepsNewest
  <2> QED BY <2>1, <2>2
<1>3. \A h \in DOMAIN cache' :
        \/ h \in DOMAIN cache /\ cache'[h] = cache[h]
        \/ h \in DOMAIN fetched /\ cache'[h] = fetched[h]
  BY DEF Evicted, Part, Merged
<1>4. \A h \in DOMAIN cache' : cache'[h] \in Fee
  BY <1>3 DEF ValuesInv, FeeTypeOK, FeeCacheTypeOK, FetchedAreFees
<1>5. DOMAIN cache' \subseteq 0..l1Height
  BY <1>1 DEF FeeInv, RequestShape
<1>6. request' = [who |-> "nobody", lo |-> 0, hi |-> 0] /\ 0 \in L1Heights /\ 0 \in 0..l1Height
  BY FeeCacheAssumption DEF Unlocked, Nobody, L1Heights, FeeInv, ChainShape
<1>7. FeeCacheTypeOK'
  <2>1. l1Height' \in L1Heights /\ feeAt' \in [0..l1Height' -> Fee] /\ reorgs' \in 0..MaxReorgs
    BY <1>1 DEF ValuesInv, FeeTypeOK, FeeCacheTypeOK
  <2>2. request' \in [who : Callers \cup {Nobody}, lo : L1Heights, hi : 0..l1Height']
    BY <1>1, <1>6 DEF Nobody
  <2> QED BY <1>1, <1>2, <1>4, <1>5, <2>1, <2>2 DEF FeeCacheTypeOK
<1>8. FeeTypeOK'
  BY <1>1, <1>7 DEF ValuesInv, FeeTypeOK
<1> QED BY <1>1, <1>6, <1>8 DEF ValuesInv, AsksForPeriod, FetchedAreFees, RangeIsNotEmpty

\* Every step keeps the types.
LEMMA NextValues == FeeInv /\ ValuesInv /\ FeeInv' /\ [FeeNext]_feeVars => ValuesInv'
<1>1. SUFFICES ASSUME FeeInv, ValuesInv, FeeInv', [FeeNext]_feeVars PROVE ValuesInv'
  OBVIOUS
<1>2. CASE ChainNext /\ UNCHANGED algoVars
  BY <1>1, <1>2, ChainValues
<1>3. CASE BeginDecision
  BY <1>1, <1>3, DecideValues
<1>4. CASE AskFees
  <2>1. /\ task.at \in 0..l1Height /\ task.at \in Nat /\ phase \in {"short", "long"} /\ UNCHANGED algoVars
    BY <1>1, <1>4 DEF AskFees, FeeInv, RequestShape, ChainShape
  <2>2. FirstOfLastN(task.at, Period(phase)) \in 0..task.at
    <3>1. Period(phase) \in Nat \ {0}
      BY FeeAlgorithmAssumption DEF Period
    <3> QED BY <2>1, <3>1, PeriodStart
  <2> QED BY <1>1, <1>4, <2>1, <2>2, RequestValues DEF AskFees, Callers
<1>5. CASE TrackFees
  <2>1. l1Height \in 0..l1Height /\ "tracker" \in Callers
    BY <1>1 DEF FeeInv, ChainShape, Callers
  <2> QED BY <1>1, <1>5, <2>1, RequestValues DEF TrackFees
<1>6. CASE FetchFees
  BY <1>1, <1>6, DownloadValues DEF FetchFees
<1>7. CASE FetchFailed
  <2>1. phase' \in {"idle", "short", "long"} /\ UNCHANGED <<task, mean, verdict>>
    BY <1>1, <1>7 DEF FetchFailed, FeeInv, RequestShape
  <2> QED BY <1>1, <1>7, <2>1, ReleaseValues DEF FetchFailed, DownloadFailed, ValuesInv, FeeTypeOK
<1>8. CASE EndTracking \/ TakeShort \/ TakeLong
  <2>1. EndRequest /\ task' = task /\ phase' \in {"idle", "short", "long"} /\ verdict' \in {"none", "send", "wait"}
    BY <1>1, <1>8 DEF EndTracking, TakeShort, TakeLong, algoVars, ValuesInv, FeeTypeOK
  <2>2. \E p \in {"short", "long"} : mean' \in {mean, [mean EXCEPT ![p] = Mean(Answer)]}
    BY <1>8 DEF EndTracking, TakeShort, TakeLong, algoVars
  <2>3. Mean(Answer) \in [base : Nat, reward : Nat, blob : Nat]
    BY <1>1, <2>1, MeanOfAnswer
  <2>4. mean' \in [{"short", "long"} -> [base : Nat, reward : Nat, blob : Nat]]
    <3>1. mean \in [{"short", "long"} -> [base : Nat, reward : Nat, blob : Nat]]
      BY <1>1 DEF ValuesInv, FeeTypeOK
    <3> HIDE DEF Mean, Answer
    <3> QED BY <2>2, <2>3, <3>1
  <2>5. request' = Unlocked /\ todo' = {} /\ fetched' = <<>> /\ cache' = Evicted(Merged(cache, fetched))
        /\ UNCHANGED chainVars
    BY <2>1 DEF EndRequest
  <2> QED BY <1>1, <2>1, <2>4, <2>5, ReleaseValues
<1>9. CASE UNCHANGED feeVars
  BY <1>1, <1>9 DEF feeVars, chainVars, cacheVars, algoVars, ValuesInv, FeeTypeOK, FeeCacheTypeOK, AsksForPeriod,
                    FetchedAreFees, RangeIsNotEmpty
<1> QED BY <1>1, <1>2, <1>3, <1>4, <1>5, <1>6, <1>7, <1>8, <1>9 DEF FeeNext

\* The types of the fee cache and the fee algorithm: among them, that the cache never has
\* more entries than its limit and that averages are of fees.
THEOREM FeeTypes == FeeSpec => []ValuesInv
<1>1. FeeInit /\ AlgoInit => ValuesInv
  BY InitValues
<1>2. FeeInv /\ ValuesInv /\ FeeInv' /\ [FeeNext]_feeVars => ValuesInv'
  BY NextValues
<1> QED BY <1>1, <1>2, FeeInvariance, PTL DEF FeeSpec

\* An average the fee algorithm takes is the chain's, however the answer was put together
\* from the cache and several downloads.
LEMMA MeanStep ==
  ASSUME FeeInv, ValuesInv, [FeeNext]_feeVars, NEW p \in {"short", "long"},
         mean'[p] # mean[p],
         FirstOfLastN(task.at, Period(p))..task.at \cap replaced = {}
  PROVE  LET blocks == FirstOfLastN(task.at, Period(p))..task.at
         IN  /\ IsMeanOf(mean'[p].base, [h \in blocks |-> feeAt[h].base])
             /\ IsMeanOf(mean'[p].reward, [h \in blocks |-> feeAt[h].reward])
             /\ IsMeanOf(mean'[p].blob, [h \in blocks |-> feeAt[h].blob])
<1> DEFINE blocks == FirstOfLastN(task.at, Period(p))..task.at
<1>1. mean' # mean
  OBVIOUS
<1>2. TakeShort \/ TakeLong
  BY <1>1 DEF FeeNext, feeVars, algoVars, BeginDecision, AskFees, TrackFees, FetchFees, FetchFailed, EndTracking
<1>3. mean \in [{"short", "long"} -> [base : Nat, reward : Nat, blob : Nat]]
  BY DEF ValuesInv, FeeTypeOK
<1>4. EndRequest /\ request.who = p /\ mean'[p] = Mean(Answer)
  <2> HIDE DEF Mean, Answer
  <2> QED BY <1>2, <1>3 DEF TakeShort, TakeLong
<1>5. request.lo..request.hi = blocks
  BY <1>4 DEF ValuesInv, AsksForPeriod
<1>6. DOMAIN Answer = blocks /\ \A h \in blocks : h \in replaced \/ Answer[h] = feeAt[h]
  BY <1>4, <1>5, AnswerIsComplete
<1>7. \A h \in blocks : Answer[h] = feeAt[h]
  <2> HIDE DEF Answer
  <2> QED BY <1>6
<1>8. /\ [h \in DOMAIN Answer |-> Answer[h].base] = [h \in blocks |-> feeAt[h].base]
      /\ [h \in DOMAIN Answer |-> Answer[h].reward] = [h \in blocks |-> feeAt[h].reward]
      /\ [h \in DOMAIN Answer |-> Answer[h].blob] = [h \in blocks |-> feeAt[h].blob]
  <2> HIDE DEF Answer, blocks
  <2> QED BY <1>6, <1>7
<1> QED BY <1>4, <1>8, MeanOfAnswer

\* calculate_fees_over_last_n_blocks: the averages the algorithm decides by are those of
\* the chain's blocks in the period, unless one of them was replaced since.
THEOREM AveragesAreTrue == FeeSpec => MeansAreTrue
<1>1. FeeInv /\ ValuesInv /\ [FeeNext]_feeVars =>
        [\A p \in {"short", "long"} :
           LET blocks == FirstOfLastN(task.at, Period(p))..task.at
           IN  mean'[p] # mean[p] /\ blocks \cap replaced = {} =>
                 /\ IsMeanOf(mean'[p].base, [h \in blocks |-> feeAt[h].base])
                 /\ IsMeanOf(mean'[p].reward, [h \in blocks |-> feeAt[h].reward])
                 /\ IsMeanOf(mean'[p].blob, [h \in blocks |-> feeAt[h].blob])]_mean
  BY MeanStep
<1> QED BY <1>1, FeeInvariance, FeeTypes, PTL DEF FeeSpec, MeansAreTrue

-----------------------------------------------------------------------------
(* The fees of a blob transaction.                                         *)

\* Saturation never raises a number, and shows only at the greatest of all.
LEMMA SaturatedValue ==
  ASSUME NEW n \in Nat
  PROVE  /\ Saturated(n) \in 0..U128Max /\ Saturated(n) <= n
         /\ Saturated(n) < U128Max => Saturated(n) = n
BY BlobTxFeesAssumption DEF Saturated

\* A projected fee is a fee, and is below the fee it projects only where an eighth more
\* than it would saturate.
LEMMA FeeAtHorizon ==
  ASSUME NEW fee \in 0..U128Max, NEW horizon \in Nat
  PROVE  /\ AtHorizon(fee, horizon) \in 0..U128Max
         /\ AtHorizon(fee, horizon) >= fee \/ AtHorizon(fee, horizon) >= U128Max \div 8
<1> DEFINE V == 0..U128Max
           Step(p) == Saturated(9 * p[2]) \div 8
           step == [p \in (1..horizon) \X V |-> Step(p)]
           Value(f) == [block \in 0..horizon |-> IF block = 0 THEN fee ELSE Saturated(9 * f[block - 1]) \div 8]
           after == CHOOSE f : f = Value(f)
<1>0. U128Max \in Nat
  BY BlobTxFeesAssumption
<1>1. ASSUME NEW v \in V
      PROVE  /\ Saturated(9 * v) \div 8 \in V
             /\ Saturated(9 * v) \div 8 >= v \/ Saturated(9 * v) \div 8 >= U128Max \div 8
  BY <1>0 DEF Saturated
<1>2. step \in [(1..horizon) \X V -> V]
  <2>1. ASSUME NEW p \in (1..horizon) \X V PROVE Step(p) \in V
    <3>1. p[2] \in V
      OBVIOUS
    <3> HIDE DEF V
    <3> QED BY <1>1, <3>1
  <2> HIDE DEF V, Step
  <2> QED BY <2>1
<1>3. PICK f \in [0..horizon -> V] : ObeysUpTo(f, horizon, fee, step)
  <2>1. fee \in V
    OBVIOUS
  <2> HIDE DEF step, V
  <2> QED BY <1>2, <2>1, RecursionUpTo
<1>4. f = Value(f)
  <2>1. ASSUME NEW i \in 1..horizon PROVE f[i] = Saturated(9 * f[i - 1]) \div 8
    <3>1. f[i - 1] \in V
      OBVIOUS
    <3> HIDE DEF V
    <3> QED BY <1>3, <3>1 DEF ObeysUpTo
  <2>2. \A i \in 0..horizon : f[i] = IF i = 0 THEN fee ELSE Saturated(9 * f[i - 1]) \div 8
    BY <1>3, <2>1 DEF ObeysUpTo
  <2> HIDE DEF step, V
  <2> QED BY <2>2
<1>5. after = Value(after)
  BY <1>4
<1>6. AtHorizon(fee, horizon) = after[horizon]
  BY DEF AtHorizon
<1>9. \A block \in 0..horizon : after[block] = IF block = 0 THEN fee ELSE Saturated(9 * after[block - 1]) \div 8
  <2> DEFINE value == Value(after)
  <2>1. \A block \in 0..horizon : value[block] = IF block = 0 THEN fee ELSE Saturated(9 * after[block - 1]) \div 8
    <3> HIDE DEF after
    <3> QED OBVIOUS
  <2>2. after = value
    BY <1>5
  <2> HIDE DEF after, value
  <2> QED BY <2>1, <2>2
<1> DEFINE Kept == {block \in Nat : block <= horizon =>
                     /\ after[block] \in V
                     /\ after[block] >= fee \/ after[block] >= U128Max \div 8}
<1> HIDE DEF after
<1>7. 0 \in Kept
  <2>1. after[0] = fee
    BY <1>9
  <2> QED BY <2>1
<1>8. ASSUME NEW block \in Nat, block \in Kept PROVE block + 1 \in Kept
  <2>1. SUFFICES ASSUME block + 1 <= horizon
                 PROVE  /\ after[block + 1] \in V
                        /\ after[block + 1] >= fee \/ after[block + 1] >= U128Max \div 8
    OBVIOUS
  <2>2. after[block + 1] = Saturated(9 * after[block]) \div 8
    <3>1. block + 1 \in 0..horizon /\ block + 1 # 0 /\ (block + 1) - 1 = block
      BY <2>1
    <3> QED BY <1>9, <3>1
  <2>3. /\ after[block] \in V
        /\ after[block] >= fee \/ after[block] >= U128Max \div 8
    BY <1>8, <2>1
  <2>4. /\ after[block + 1] \in V
        /\ after[block + 1] >= after[block] \/ after[block + 1] >= U128Max \div 8
    BY <1>1, <2>2, <2>3
  <2>5. U128Max \div 8 \in Nat
    BY <1>0
  <2> QED BY <2>3, <2>4, <2>5
<1>10. horizon \in Kept
  <2> HIDE DEF Kept
  <2> QED BY <1>7, <1>8, InductiveSet
<1> QED BY <1>6, <1>10

\* The suggested tip is at least the least one.
LEMMA TipIsEnough ==
  ASSUME NEW n \in Nat, NEW rewards \in [1..n -> Rewards]
  PROVE  EstimatePriorityFee(rewards) \in Nat /\ EstimatePriorityFee(rewards) >= MinPriorityFee
<1> DEFINE paid == {b \in DOMAIN rewards : rewards[b] > 0}
           count == Cardinality(paid)
           below(c) == {d \in paid : rewards[d] <= rewards[c]}
           rank(k) == {rewards[b] : b \in {c \in paid : Cardinality(below(c)) >= k}}
           nth(k) == Min(rank(k))
<1>1. U128Max \in Nat /\ MinPriorityFee \in Nat /\ \A b \in 1..n : rewards[b] \in 0..U128Max
  BY BlobTxFeesAssumption
<1>2. IsFiniteSet(paid) /\ count \in Nat
  <2>1. paid \subseteq 1..n /\ IsFiniteSet(1..n)
    BY FS_Interval
  <2>2. IsFiniteSet(paid)
    <3> HIDE DEF paid
    <3> QED BY <2>1, FS_Subset
  <2> HIDE DEF paid
  <2> QED BY <2>2, FS_CardinalityType
<1>3. ASSUME paid # {}, NEW k \in Nat, k <= count PROVE nth(k) \in Nat
  <2> DEFINE values == {rewards[b] : b \in paid}
  <2>1. values \subseteq 0..U128Max /\ values # {}
    BY <1>1, <1>3
  <2>2. Max(values) \in values /\ \A v \in values : v <= Max(values)
    <3> HIDE DEF values
    <3> QED BY <1>1, <2>1, MaxIsGreatest
  <2>3. PICK c \in paid : rewards[c] = Max(values)
    <3> HIDE DEF paid
    <3> QED BY <2>2
  <2>4. below(c) = paid
    <3>1. \A d \in paid : rewards[d] <= rewards[c]
      <4> HIDE DEF paid
      <4> QED BY <2>2, <2>3
    <3> HIDE DEF paid
    <3> QED BY <3>1
  <2>5. rewards[c] \in rank(k)
    <3> HIDE DEF paid
    <3> QED BY <1>2, <1>3, <2>3, <2>4
  <2>6. rank(k) \subseteq Nat /\ rank(k) # {}
    <3>1. \A b \in paid : rewards[b] \in Nat
      BY <1>1
    <3> HIDE DEF paid, below
    <3> QED BY <2>5, <3>1
  <2> HIDE DEF rank
  <2> QED BY <2>6, MinIsLeast
<1>4. CASE count = 0
  BY <1>1, <1>4 DEF EstimatePriorityFee
<1>5. CASE count # 0
  <2>1. paid # {}
    BY <1>5, FS_EmptySet
  <2> DEFINE reward == IF count % 2 = 0 THEN (nth(count \div 2) + nth(count \div 2 + 1)) \div 2
                                        ELSE nth(count \div 2 + 1)
  <2>2. EstimatePriorityFee(rewards) = Larger(MinPriorityFee, reward)
    BY <1>5 DEF EstimatePriorityFee
  <2>3. /\ count \div 2 \in Nat /\ count \div 2 <= count
        /\ count \div 2 + 1 \in Nat /\ count \div 2 + 1 <= count
    <3> HIDE DEF count
    <3> QED BY <1>2, <1>5
  <2>4. nth(count \div 2) \in Nat /\ nth(count \div 2 + 1) \in Nat
    <3> HIDE DEF nth, count, paid
    <3> QED BY <1>3, <2>1, <2>3
  <2>5. reward \in Nat
    <3> HIDE DEF nth, count
    <3> QED BY <2>4
  <2> HIDE DEF reward
  <2> QED BY <1>1, <2>2, <2>5 DEF Larger
<1> QED BY <1>4, <1>5

\* What the projection covers, unless the limit of fees is reached.
LEMMA ProjectionPays ==
  ASSUME NEW history \in FeeHistories
  PROVE  LET fees == Projected(CurrentFees(history))
         IN  /\ fees.normal \in 0..U128Max /\ fees.blob \in 0..U128Max
             /\ fees.priority \in Nat /\ fees.priority >= MinPriorityFee
             /\ fees.normal <= TxMaxFee => fees.normal >= history.base + fees.priority
             /\ fees.blob < TxMaxFee => fees.blob >= history.blob
<1> DEFINE priority == EstimatePriorityFee(history.rewards)
           normal == AtHorizon(history.base, PriceHorizons[1])
           blob == AtHorizon(history.blob, PriceHorizons[2])
<1>1. /\ U128Max \in Nat /\ TxMaxFee \in Nat /\ 8 * TxMaxFee < U128Max /\ MinPriorityFee \in Nat \ {0}
      /\ PriceHorizons[1] \in Nat /\ PriceHorizons[2] \in Nat
      /\ history.base \in 0..U128Max /\ history.blob \in 0..U128Max
  BY BlobTxFeesAssumption DEF FeeHistories
<1>2. priority \in Nat /\ priority >= MinPriorityFee
  <2>1. PICK n \in HistoryLengths : history.rewards \in [1..n -> Rewards]
    BY DEF FeeHistories
  <2>2. n \in Nat
    BY BlobTxFeesAssumption
  <2> QED BY <2>1, <2>2, TipIsEnough
<1>3. normal \in 0..U128Max /\ (normal >= history.base \/ normal >= U128Max \div 8)
  BY <1>1, FeeAtHorizon
<1>4. blob \in 0..U128Max /\ (blob >= history.blob \/ blob >= U128Max \div 8)
  BY <1>1, FeeAtHorizon
<1>5. LET fees == Projected(CurrentFees(history))
      IN  fees.normal = Saturated(normal + priority) /\ fees.priority = priority /\ fees.blob = blob
  BY DEF Projected, CurrentFees
<1> HIDE DEF normal, blob, priority
<1>6. /\ Saturated(normal + priority) \in 0..U128Max
      /\ Saturated(normal + priority) < U128Max => Saturated(normal + priority) = normal + priority
  BY <1>2, <1>3, SaturatedValue
<1>7. TxMaxFee <= U128Max \div 8 /\ U128Max \div 8 \in Nat
  BY <1>1
<1>8. Saturated(normal + priority) <= TxMaxFee => Saturated(normal + priority) >= history.base + priority
  BY <1>1, <1>2, <1>3, <1>6, <1>7
<1>9. blob < TxMaxFee => blob >= history.blob
  BY <1>1, <1>4, <1>7
<1> QED BY <1>2, <1>4, <1>5, <1>6, <1>8, <1>9

\* What passes the check of the limit costs no more, in exact arithmetic.
LEMMA LimitIsExact ==
  ASSUME NEW fees, fees.normal \in Nat \ {0}, fees.blob \in Nat, NEW blobs \in 1..MaxBlobs,
         MaxFee(fees, blobs) <= TxMaxFee
  PROVE  /\ fees.normal * GasLimit + fees.blob * blobs * BlobGas <= TxMaxFee
         /\ fees.normal <= TxMaxFee /\ fees.blob < TxMaxFee
<1> DEFINE gas == fees.normal * GasLimit
           data == fees.blob * blobs
           all == data * BlobGas
<1>1. /\ U128Max \in Nat /\ TxMaxFee \in Nat /\ TxMaxFee < U128Max
      /\ GasLimit \in Nat \ {0} /\ BlobGas \in Nat \ {0} /\ blobs \in Nat \ {0}
  BY BlobTxFeesAssumption
<1>2. gas \in Nat /\ data \in Nat /\ fees.normal <= gas /\ fees.blob <= data
  <2>1. fees.normal * 1 <= gas /\ fees.blob * 1 <= data
    BY <1>1, ProductGrows
  <2>2. gas \in Nat /\ data \in Nat
    BY <1>1
  <2> HIDE DEF gas, data
  <2> QED BY <2>1, <2>2
<1> HIDE DEF gas, data
<1>3. Saturated(gas) \in Nat /\ Saturated(data) \in Nat
      /\ (Saturated(gas) < U128Max => Saturated(gas) = gas)
      /\ (Saturated(data) < U128Max => Saturated(data) = data)
  BY <1>1, <1>2, SaturatedValue
<1> DEFINE dear == Saturated(data) * BlobGas
<1>4. dear \in Nat /\ Saturated(data) <= dear
  <2>1. Saturated(data) * 1 <= dear /\ dear \in Nat
    BY <1>1, <1>3, ProductGrows
  <2> HIDE DEF dear
  <2> QED BY <1>3, <2>1
<1>5. MaxFee(fees, blobs) = Saturated(Saturated(gas) + Saturated(dear))
  BY DEF MaxFee, gas, data
<1>6. dear = IF Saturated(data) = data THEN all ELSE dear
  OBVIOUS
<1> HIDE DEF dear, all
<1>7. Saturated(dear) \in Nat /\ (Saturated(dear) < U128Max => Saturated(dear) = dear)
  BY <1>4, SaturatedValue
<1>8. LET s == Saturated(gas) + Saturated(dear)
      IN  Saturated(s) \in Nat /\ (Saturated(s) < U128Max => Saturated(s) = s)
  BY <1>3, <1>7, SaturatedValue
<1>9. Saturated(gas) + Saturated(dear) <= TxMaxFee
  BY <1>1, <1>3, <1>5, <1>7, <1>8
<1>10. Saturated(gas) = gas /\ Saturated(dear) = dear
  BY <1>1, <1>3, <1>7, <1>9
<1>11. Saturated(data) = data
  BY <1>1, <1>2, <1>3, <1>4, <1>9, <1>10
<1>12. gas + all <= TxMaxFee /\ all = dear
  BY <1>6, <1>9, <1>10, <1>11
<1>13. fees.normal <= TxMaxFee /\ fees.blob < TxMaxFee
  BY <1>1, <1>2, <1>4, <1>11, <1>12
<1> QED BY <1>12, <1>13 DEF gas, all, data

\* The percentile is one the configuration allows, and grows with the Fuel chain.
LEMMA PercentileAllowed ==
  /\ \A height \in Nat : Apply(DeterminePriority(height)) \in MinPercentile..MaxPercentile
  /\ \A low, high \in Nat :
       low <= high => Apply(DeterminePriority(low)) <= Apply(DeterminePriority(high))
<1> DEFINE percentage(h) == (L2BlocksBehind(h) * 100) \div MaxL2Behind
           part(p) == ((MaxPercentile - MinPercentile) * p) \div 100
<1>1. /\ MaxL2Behind \in Nat \ {0} /\ MinPercentile \in Nat /\ MaxPercentile \in Nat
      /\ MaxPercentile - MinPercentile \in Nat /\ OldestL2Block \in Nat
  <2>1. OldestL2Block \in Nat
    BY BlobTxFeesAssumption, MinIsLeast DEF OldestL2Block
  <2> QED BY <2>1, BlobTxFeesAssumption
<1>2. ASSUME NEW h \in Nat
      PROVE  L2BlocksBehind(h) \in Nat /\ percentage(h) \in Nat /\ DeterminePriority(h) \in 0..100
  <2>1. L2BlocksBehind(h) \in Nat
    BY <1>1 DEF L2BlocksBehind
  <2>2. percentage(h) \in Nat
    <3>1. L2BlocksBehind(h) * 100 \in Nat
      BY <2>1
    <3> QED BY <1>1, <3>1, Quotient
  <2>3. DeterminePriority(h) = IF percentage(h) > 100 THEN 100 ELSE percentage(h)
    BY DEF DeterminePriority
  <2> HIDE DEF percentage
  <2> QED BY <2>1, <2>2, <2>3
<1>3. ASSUME NEW low \in Nat, NEW high \in Nat, low <= high
      PROVE  DeterminePriority(low) <= DeterminePriority(high)
  <2>1. L2BlocksBehind(low) * 100 <= L2BlocksBehind(high) * 100
        /\ L2BlocksBehind(low) * 100 \in Nat /\ L2BlocksBehind(high) * 100 \in Nat
    BY <1>1, <1>3 DEF L2BlocksBehind
  <2>2. percentage(low) <= percentage(high)
    BY <1>1, <2>1, QuotientGrows
  <2>3. \A h \in {low, high} :
          DeterminePriority(h) = IF percentage(h) > 100 THEN 100 ELSE percentage(h)
    BY DEF DeterminePriority
  <2>4. percentage(low) \in Nat /\ percentage(high) \in Nat
    BY <1>2
  <2> HIDE DEF percentage
  <2> QED BY <2>2, <2>3, <2>4
<1>4. ASSUME NEW p \in 0..100 PROVE part(p) \in Nat /\ Apply(p) \in MinPercentile..MaxPercentile
  <2>1. (MaxPercentile - MinPercentile) * p \in Nat
    BY <1>1
  <2>2. part(p) \in Nat
    BY <2>1, Quotient
  <2>3. Apply(p) = IF MinPercentile + part(p) > MaxPercentile THEN MaxPercentile ELSE MinPercentile + part(p)
    BY DEF Apply
  <2> HIDE DEF part
  <2> QED BY <1>1, <2>2, <2>3
<1>5. ASSUME NEW p \in 0..100, NEW q \in 0..100, p <= q PROVE Apply(p) <= Apply(q)
  <2>1. (MaxPercentile - MinPercentile) * p <= (MaxPercentile - MinPercentile) * q
        /\ (MaxPercentile - MinPercentile) * p \in Nat /\ (MaxPercentile - MinPercentile) * q \in Nat
    <3> DEFINE gap == MaxPercentile - MinPercentile
    <3>1. gap \in Nat /\ gap <= gap
      BY <1>1
    <3> HIDE DEF gap
    <3>2. gap * p <= gap * q /\ gap * p \in Nat /\ gap * q \in Nat
      BY <1>5, <3>1, ProductGrows
    <3> QED BY <3>2 DEF gap
  <2>2. part(p) <= part(q)
    BY <2>1, QuotientGrows
  <2>3. \A r \in {p, q} : Apply(r) = IF MinPercentile + part(r) > MaxPercentile THEN MaxPercentile
                                                                              ELSE MinPercentile + part(r)
    BY DEF Apply
  <2>4. part(p) \in Nat /\ part(q) \in Nat
    <3> HIDE DEF part
    <3> QED BY <1>4
  <2> HIDE DEF part
  <2> QED BY <1>1, <2>2, <2>3, <2>4
<1> QED BY <1>2, <1>3, <1>4, <1>5

\* The fees sent are those of the market of that moment, at the priority of the height.
TxFeesInv ==
  /\ TxFeesTypeOK
  /\ SentFeesAreAccepted
  /\ sent # NoTx => sent.blobs # 0 /\ sent.percentile = Apply(DeterminePriority(market.l2_height))

\* A transaction that the limit lets through.
LEMMA SubmitStep ==
  ASSUME TxFeesTypeOK, NEW fees, NEW history \in FeeHistories, NEW blobs \in 1..MaxBlobs, NEW l2_height \in L2Heights,
         NEW previous \in {NoTx, sent},
         fees.normal \in Nat \ {0}, fees.priority \in Nat, fees.blob \in Nat, fees.normal >= fees.priority,
         fees.normal <= TxMaxFee => fees.normal >= history.base + MinPriorityFee,
         fees.blob < TxMaxFee => fees.blob >= history.blob,
         fees.normal <= TxMaxFee /\ fees.blob <= TxMaxFee =>
           \A kind \in {"normal", "priority", "blob"} : fees[kind] >= 2 * previous[kind],
         Apply(DeterminePriority(l2_height)) >= previous.percentile,
         SubmitWith(fees, history, blobs, l2_height, previous)
  PROVE  TxFeesInv'
<1>1. /\ fees.normal * GasLimit + fees.blob * blobs * BlobGas <= TxMaxFee
      /\ fees.normal <= TxMaxFee /\ fees.blob < TxMaxFee
  BY LimitIsExact DEF SubmitWith
<1>2. U128Max \in Nat /\ TxMaxFee \in Nat /\ TxMaxFee < U128Max /\ L2Heights \subseteq Nat
  BY BlobTxFeesAssumption
<1>3. /\ sent' = [normal |-> fees.normal, priority |-> fees.priority, blob |-> fees.blob,
                  blobs |-> blobs, percentile |-> Apply(DeterminePriority(l2_height))]
      /\ replacedTx' = previous
      /\ market' = [normal |-> history.base, blob |-> history.blob, l2_height |-> l2_height]
      /\ charged' = 0
  BY DEF SubmitWith
<1>4. Apply(DeterminePriority(l2_height)) \in MinPercentile..MaxPercentile
  BY <1>2, PercentileAllowed
<1>5. MinPercentile \in Nat /\ MaxPercentile \in Nat /\ MaxBlobs \in Nat
  BY BlobTxFeesAssumption
<1>6. TxFeesTypeOK'
  <2>1. sent' \in [normal : 0..U128Max, priority : 0..U128Max, blob : 0..U128Max,
                   blobs : 0..MaxBlobs, percentile : 0..MaxPercentile]
    BY <1>1, <1>2, <1>3, <1>4, <1>5
  <2>2. replacedTx' \in [normal : 0..U128Max, priority : 0..U128Max, blob : 0..U128Max,
                         blobs : 0..MaxBlobs, percentile : 0..MaxPercentile]
    BY <1>2, <1>3, <1>5 DEF TxFeesTypeOK, NoTx
  <2>3. market' \in [normal : BaseFees \union {0}, blob : BlobBaseFees \union {0}, l2_height : L2Heights \union {0}]
    BY <1>3 DEF FeeHistories
  <2> QED BY <1>3, <2>1, <2>2, <2>3 DEF TxFeesTypeOK
<1>7. SentFeesAreAccepted'
  <2>1. fees.normal >= history.base + MinPriorityFee /\ fees.blob >= history.blob
    BY <1>1
  <2>2. \A kind \in {"normal", "priority", "blob"} : sent'[kind] >= 2 * replacedTx'[kind]
    BY <1>1, <1>2, <1>3
  <2> QED BY <1>1, <1>2, <1>3, <1>4, <2>1, <2>2 DEF SentFeesAreAccepted
<1>8. sent'.blobs # 0 /\ sent'.percentile = Apply(DeterminePriority(market'.l2_height))
  BY <1>3
<1> QED BY <1>6, <1>7, <1>8 DEF TxFeesInv

\* The first transaction of a nonce.
LEMMA FreshStep == ASSUME TxFeesInv, SubmitFresh PROVE TxFeesInv'
<1>1. PICK history \in FeeHistories, blobs \in 1..MaxBlobs, l2_height \in L2Heights :
        SubmitWith(Normalized(Projected(CurrentFees(history))), history, blobs, l2_height, NoTx)
  BY DEF SubmitFresh
<1> DEFINE projected == Projected(CurrentFees(history))
           fees == Normalized(projected)
<1>2. /\ projected.normal \in Nat /\ projected.blob \in Nat
      /\ projected.priority \in Nat /\ projected.priority >= MinPriorityFee
      /\ projected.normal <= TxMaxFee => projected.normal >= history.base + projected.priority
      /\ projected.blob < TxMaxFee => projected.blob >= history.blob
  BY ProjectionPays, BlobTxFeesAssumption
<1>3. fees.normal = Larger(projected.normal, projected.priority)
      /\ fees.priority = projected.priority /\ fees.blob = projected.blob
  BY DEF Normalized, Projected
<1> HIDE DEF projected, fees
<1>4. history.base \in Nat /\ MinPriorityFee \in Nat \ {0} /\ TxMaxFee \in Nat
  BY BlobTxFeesAssumption DEF FeeHistories
<1>5. /\ fees.normal \in Nat \ {0} /\ fees.priority \in Nat /\ fees.blob \in Nat /\ fees.normal >= fees.priority
      /\ fees.normal <= TxMaxFee => fees.normal >= history.base + MinPriorityFee
      /\ fees.blob < TxMaxFee => fees.blob >= history.blob
  BY <1>2, <1>3, <1>4 DEF Larger
<1>6. \A kind \in {"normal", "priority", "blob"} : fees[kind] >= 2 * NoTx[kind]
  BY <1>5 DEF NoTx
<1>7. Apply(DeterminePriority(l2_height)) >= NoTx.percentile
  <2>1. Apply(DeterminePriority(l2_height)) \in MinPercentile..MaxPercentile /\ MinPercentile \in Nat
    BY PercentileAllowed, BlobTxFeesAssumption
  <2> QED BY <2>1 DEF NoTx
<1>8. SubmitWith(fees, history, blobs, l2_height, NoTx)
  BY <1>1 DEF fees, projected
<1> QED BY <1>5, <1>6, <1>7, <1>8, SubmitStep DEF TxFeesInv

\* A replacement.
LEMMA ReplaceStep == ASSUME TxFeesInv, Replace PROVE TxFeesInv'
<1>1. PICK history \in FeeHistories, l2_height \in {h \in L2Heights : h >= market.l2_height} :
        SubmitWith(Normalized(RetainMax(Projected(CurrentFees(history)), DoubleFees(sent))),
                   history, sent.blobs, l2_height, sent)
  BY DEF Replace
<1> DEFINE projected == Projected(CurrentFees(history))
           fees == Normalized(RetainMax(projected, DoubleFees(sent)))
<1>2. /\ projected.normal \in Nat /\ projected.blob \in Nat
      /\ projected.priority \in Nat /\ projected.priority >= MinPriorityFee
      /\ projected.normal <= TxMaxFee => projected.normal >= history.base + projected.priority
      /\ projected.blob < TxMaxFee => projected.blob >= history.blob
  BY ProjectionPays, BlobTxFeesAssumption
<1>3. /\ fees.priority = Larger(projected.priority, Saturated(2 * sent.priority))
      /\ fees.normal = Larger(Larger(projected.normal, Saturated(2 * sent.normal)), fees.priority)
      /\ fees.blob = Larger(projected.blob, Saturated(2 * sent.blob))
  BY DEF Normalized, RetainMax, DoubleFees
<1> HIDE DEF projected, fees
<1>4. /\ sent.normal \in Nat /\ sent.priority \in Nat /\ sent.blob \in Nat
      /\ history.base \in Nat /\ history.blob \in Nat /\ MinPriorityFee \in Nat \ {0}
      /\ U128Max \in Nat /\ TxMaxFee \in Nat /\ TxMaxFee < U128Max
  <2>1. /\ U128Max \in Nat /\ TxMaxFee \in Nat /\ TxMaxFee < U128Max /\ MinPriorityFee \in Nat \ {0}
        /\ \A fee \in BaseFees \union BlobBaseFees : fee \in Nat
    BY BlobTxFeesAssumption
  <2>2. history.base \in BaseFees /\ history.blob \in BlobBaseFees
    BY <1>1 DEF FeeHistories
  <2>3. sent.normal \in 0..U128Max /\ sent.priority \in 0..U128Max /\ sent.blob \in 0..U128Max
    BY DEF TxFeesInv, TxFeesTypeOK
  <2> QED BY <2>1, <2>2, <2>3
<1>5. \A n \in {sent.normal, sent.priority, sent.blob} :
        Saturated(2 * n) \in Nat /\ (Saturated(2 * n) < U128Max => Saturated(2 * n) = 2 * n)
  <2>1. \A n \in {sent.normal, sent.priority, sent.blob} : 2 * n \in Nat
    BY <1>4
  <2> QED BY <2>1, <1>4, SaturatedValue
<1>6. fees.priority \in Nat /\ fees.priority >= projected.priority /\ fees.priority >= Saturated(2 * sent.priority)
  BY <1>2, <1>3, <1>5 DEF Larger
<1>7. /\ fees.normal \in Nat /\ fees.normal >= fees.priority
      /\ fees.normal >= projected.normal /\ fees.normal >= Saturated(2 * sent.normal)
  BY <1>2, <1>3, <1>5, <1>6 DEF Larger
<1>8. fees.blob \in Nat /\ fees.blob >= projected.blob /\ fees.blob >= Saturated(2 * sent.blob)
  BY <1>2, <1>3, <1>5 DEF Larger
<1>9. /\ fees.normal # 0
      /\ fees.normal <= TxMaxFee => fees.normal >= history.base + MinPriorityFee
      /\ fees.blob < TxMaxFee => fees.blob >= history.blob
  BY <1>2, <1>4, <1>6, <1>7, <1>8
<1>10. fees.normal <= TxMaxFee /\ fees.blob <= TxMaxFee =>
         \A kind \in {"normal", "priority", "blob"} : fees[kind] >= 2 * sent[kind]
  <2>1. SUFFICES ASSUME fees.normal <= TxMaxFee, fees.blob <= TxMaxFee
                 PROVE  fees.normal >= 2 * sent.normal /\ fees.priority >= 2 * sent.priority /\ fees.blob >= 2 * sent.blob
    OBVIOUS
  <2>2. /\ Saturated(2 * sent.normal) = 2 * sent.normal
        /\ Saturated(2 * sent.priority) = 2 * sent.priority
        /\ Saturated(2 * sent.blob) = 2 * sent.blob
    BY <1>4, <1>5, <1>6, <1>7, <1>8, <2>1
  <2> QED BY <1>6, <1>7, <1>8, <2>2
<1>11. sent.blobs \in 1..MaxBlobs
  <2>1. sent # NoTx /\ sent.blobs # 0 /\ sent.blobs \in 0..MaxBlobs /\ MaxBlobs \in Nat
    BY BlobTxFeesAssumption DEF Replace, TxFeesInv, TxFeesTypeOK
  <2> QED BY <2>1
<1>12. Apply(DeterminePriority(l2_height)) >= sent.percentile
  <2>1. sent.percentile = Apply(DeterminePriority(market.l2_height))
    BY DEF Replace, TxFeesInv
  <2>2. market.l2_height \in Nat /\ l2_height \in Nat /\ market.l2_height <= l2_height
    <3>1. market.l2_height \in L2Heights \union {0}
      BY DEF TxFeesInv, TxFeesTypeOK
    <3>2. L2Heights \subseteq Nat
      BY BlobTxFeesAssumption
    <3>3. l2_height \in L2Heights /\ l2_height >= market.l2_height
      BY <1>1, Zenon
    <3>4. market.l2_height \in Nat
      <4>1. 0 \in Nat
        OBVIOUS
      <4> QED BY <3>1, <3>2, <4>1, Zenon
    <3>5. l2_height \in Nat
      BY <3>2, <3>3, Zenon
    <3>6. \A h, m \in Nat : h >= m => m <= h
      OBVIOUS
    <3> QED BY <3>3, <3>4, <3>5, <3>6, Zenon
  <2>3. /\ Apply(DeterminePriority(market.l2_height)) \in MinPercentile..MaxPercentile
        /\ Apply(DeterminePriority(l2_height)) \in MinPercentile..MaxPercentile
        /\ Apply(DeterminePriority(market.l2_height)) <= Apply(DeterminePriority(l2_height))
    BY <2>2, PercentileAllowed
  <2>4. MinPercentile \in Nat /\ MaxPercentile \in Nat
    BY BlobTxFeesAssumption
  <2> QED BY <2>1, <2>3, <2>4
<1>13. SubmitWith(fees, history, sent.blobs, l2_height, sent) /\ l2_height \in L2Heights
  BY <1>1 DEF fees, projected
<1>14. TxFeesTypeOK /\ fees.normal \in Nat \ {0} /\ sent \in {NoTx, sent}
  BY <1>7, <1>9 DEF TxFeesInv
<1> QED BY <1>6, <1>7, <1>8, <1>9, <1>10, <1>11, <1>12, <1>13, <1>14, SubmitStep

\* A block takes the transaction.
LEMMA MineStep == ASSUME TxFeesInv, Mine PROVE TxFeesInv'
<1>1. PICK gas_used \in {1, GasLimit}, gas_price \in {0, 1, sent.normal}, blob_price \in {0, 1, sent.blob} :
        /\ gas_price <= sent.normal /\ blob_price <= sent.blob
        /\ charged' = Saturated(Saturated(gas_used * gas_price) + Saturated(sent.blobs * BlobGas * blob_price))
  BY DEF Mine
<1>2. UNCHANGED <<sent, replacedTx, market>> /\ sent # NoTx
  BY DEF Mine
<1>3. /\ sent.normal \in Nat /\ sent.blob \in Nat /\ sent.blobs \in Nat
      /\ GasLimit \in Nat \ {0} /\ BlobGas \in Nat \ {0} /\ TxMaxFee \in Nat /\ U128Max \in Nat
  BY BlobTxFeesAssumption DEF TxFeesInv, TxFeesTypeOK
<1> DEFINE gas == gas_used * gas_price
           data == sent.blobs * BlobGas * blob_price
           offered == sent.normal * GasLimit
           forData == sent.blob * sent.blobs * BlobGas
<1>4. gas \in Nat /\ gas <= offered /\ offered \in Nat
  <2>1. gas_used \in Nat /\ gas_used <= GasLimit /\ gas_price \in Nat
    BY <1>1, <1>3
  <2>2. gas_used * gas_price <= GasLimit * sent.normal /\ gas_used * gas_price \in Nat
    BY <1>1, <1>3, <2>1, ProductGrows
  <2> QED BY <1>3, <2>2
<1>5. data \in Nat /\ data <= forData /\ forData \in Nat
  <2> DEFINE perPrice == sent.blobs * BlobGas
  <2>1. perPrice \in Nat /\ blob_price \in Nat /\ perPrice <= perPrice
    BY <1>1, <1>3
  <2>2. perPrice * sent.blob = forData
    BY <1>3
  <2> HIDE DEF perPrice
  <2>3. perPrice * blob_price <= perPrice * sent.blob /\ perPrice * blob_price \in Nat /\ perPrice * sent.blob \in Nat
    BY <1>1, <1>3, <2>1, ProductGrows
  <2> QED BY <2>2, <2>3 DEF perPrice
<1>6. offered + forData <= TxMaxFee
  BY <1>2 DEF TxFeesInv, SentFeesAreAccepted
<1>7. charged' = Saturated(Saturated(gas) + Saturated(data))
  BY <1>1
<1> HIDE DEF gas, data, offered, forData
<1>8. Saturated(gas) \in Nat /\ Saturated(gas) <= gas /\ Saturated(data) \in Nat /\ Saturated(data) <= data
  BY <1>3, <1>4, <1>5, SaturatedValue
<1>9. charged' \in Nat /\ charged' <= Saturated(gas) + Saturated(data)
  <2>1. Saturated(gas) + Saturated(data) \in Nat
    BY <1>8
  <2> QED BY <1>3, <1>7, <2>1, SaturatedValue
<1>10. charged' <= TxMaxFee
  BY <1>3, <1>4, <1>5, <1>6, <1>8, <1>9
<1> QED BY <1>2, <1>9, <1>10 DEF TxFeesInv, TxFeesTypeOK, SentFeesAreAccepted

\* The Ethereum adapter sends what the node and the chain take, and a transaction is never
\* charged more than tx_fees.max, after any series of replacements.
THEOREM BlobFeesAreAccepted == TxFeesSpec => []SentFeesAreAccepted
<1>1. TxFeesInit => TxFeesInv
  BY BlobTxFeesAssumption DEF TxFeesInit, TxFeesInv, TxFeesTypeOK, SentFeesAreAccepted, NoTx
<1>2. TxFeesInv /\ [TxFeesNext]_txFeeVars => TxFeesInv'
  <2>1. SUFFICES ASSUME TxFeesInv, [TxFeesNext]_txFeeVars PROVE TxFeesInv'
    OBVIOUS
  <2>2. CASE UNCHANGED txFeeVars
    BY <2>1, <2>2 DEF txFeeVars, TxFeesInv, TxFeesTypeOK, SentFeesAreAccepted
  <2> QED BY <2>1, <2>2, FreshStep, ReplaceStep, MineStep DEF TxFeesNext
<1>3. TxFeesInv => SentFeesAreAccepted
  BY DEF TxFeesInv
<1> QED BY <1>1, <1>2, <1>3, PTL DEF TxFeesSpec

-----------------------------------------------------------------------------
(* The choice of a bundle's size.                                          *)

\* What a proposal, the last one saved that fits or the last one that does not, says of
\* k blocks: they are no cheaper, or no smaller.
CoveredBy(found, k) ==
  IF Fits(k) THEN found.best # None /\ ~Cheaper(k, found.best)
             ELSE found.invalid # None /\ size[found.invalid] <= size[k]

Found == [best |-> best, invalid |-> invalid, limit |-> limit]

Proposals(found) ==
  /\ found.best # None => Fits(found.best)
  /\ found.invalid # None => ~Fits(found.invalid)
  /\ \A k \in (found.limit + 1)..Blocks : CoveredBy(found, k)

\* Some size was tried.
Informed(found) == found.best # None \/ found.invalid # None

\* The blocks the optimizer works on: some, and more of them are not smaller.
Workload ==
  /\ size \in Seq(Nat \ {0}) /\ Blocks \in Nat \ {0}
  /\ \A k, l \in 1..Blocks : k <= l => size[k] <= size[l]

OptInv ==
  /\ OptTypeOK /\ concurrency \in Nat \ {0}
  /\ stage = "idle" =>
       /\ attempts = 0 /\ best = None /\ invalid = None
       /\ sizesToTry = <<>> /\ bundle = NoBundle
  /\ stage # "idle" => Workload /\ limit \in 1..Blocks
  /\ stage \in {"optimizing", "finishing"} =>
       /\ Proposals(Found)
       /\ \A k \in 1..Blocks : k \in Range(sizesToTry) \/ CoveredBy(Found, k)
       /\ attempts > 0 \/ (stage = "optimizing" /\ limit = Blocks /\ sizesToTry # <<>>)
       /\ attempts > 0 => Informed(Found)
  /\ stage = "trimming" => attempts = 0 /\ \A k \in (limit + 1)..Blocks : ~Fits(k)
  /\ BestTriedIsChosen
  /\ TrimsNoMoreThanNeeded

FoundType == [best : 0..Blocks, invalid : 0..Blocks, limit : 1..Blocks]

\* The fragments of a prefix.
LEMMA FragmentsType ==
  ASSUME Workload, NEW k \in 1..Blocks PROVE size[k] \in Nat /\ NumFragments(k) \in Nat
<1>1. size[k] \in Nat \ {0}
  BY ElementOfSeq DEF Workload, Blocks
<1>2. BytesPerFragment \in Nat \ {0}
  BY OptimizerAssumption
<1>3. size[k] + BytesPerFragment - 1 \in Nat
  BY <1>1, <1>2
<1>4. (size[k] + BytesPerFragment - 1) \div BytesPerFragment \in Nat
  BY <1>2, <1>3, Quotient
<1> QED BY <1>1, <1>4 DEF NumFragments

\* What is cheaper than a cheaper proposal is cheaper.
LEMMA CheaperIsTransitive ==
  ASSUME Workload, NEW k \in 1..Blocks, NEW l \in 1..Blocks, NEW m \in 1..Blocks, Cheaper(k, l), Cheaper(l, m)
  PROVE  Cheaper(k, m)
<1> DEFINE a == NumFragments(k)
           b == NumFragments(l)
           c == NumFragments(m)
<1>1. a \in Nat /\ b \in Nat /\ c \in Nat
  BY FragmentsType
<1>2. k \in Nat \ {0} /\ l \in Nat \ {0} /\ m \in Nat \ {0}
  BY DEF Workload
<1>3. a * l < b * k /\ b * m < c * l
  BY DEF Cheaper, CreateProposal
<1> HIDE DEF a, b, c
<1>4. SUFFICES ASSUME c * k <= a * m PROVE FALSE
  <2>1. a * m < c * k => Cheaper(k, m)
    BY DEF Cheaper, CreateProposal, a, c
  <2>2. a * m \in Nat /\ c * k \in Nat
    BY <1>1, <1>2
  <2> QED BY <2>1, <2>2, <1>4
<1> DEFINE al == a * l
           bk == b * k
           bm == b * m
           cl == c * l
           ck == c * k
           am == a * m
<1>5. al \in Nat /\ bk \in Nat /\ bm \in Nat /\ cl \in Nat /\ ck \in Nat /\ am \in Nat
  BY <1>1, <1>2
<1>6. /\ al * m = am * l /\ bk * m = bm * k /\ cl * k = ck * l
  BY <1>1, <1>2
<1> HIDE DEF al, bk, bm, cl, ck, am
<1>7. (al + 1) * m <= bk * m
  BY <1>2, <1>3, <1>5, ProductGrows DEF al, bk
<1>8. (bm + 1) * k <= cl * k
  BY <1>2, <1>3, <1>5, ProductGrows DEF bm, cl
<1>9. ck * l <= am * l
  BY <1>2, <1>4, <1>5, ProductGrows DEF ck, am
<1>10. (al + 1) * m = al * m + m /\ (bm + 1) * k = bm * k + k
  BY <1>2, <1>5
<1> DEFINE alm == al * m
           bmk == bm * k
           ckl == ck * l
<1>11. alm \in Nat /\ bmk \in Nat /\ ckl \in Nat
  BY <1>2, <1>5
<1>12. alm + m <= bmk /\ bmk + k <= ckl /\ ckl <= alm
  BY <1>6, <1>7, <1>8, <1>9, <1>10
<1> HIDE DEF alm, bmk, ckl
<1> QED BY <1>2, <1>11, <1>12

\* The proposals saved are prefixes.
LEMMA SaveTyped ==
  ASSUME Workload, NEW found \in FoundType, NEW k \in 1..Blocks PROVE Save(found, k) \in FoundType
<1>1. Blocks \in Nat \ {0}
  BY DEF Workload
<1>2. CASE Fits(k)
  <2>1. (IF found.best = None \/ Cheaper(k, found.best) THEN k ELSE found.best) \in 0..Blocks
    BY DEF FoundType
  <2> QED BY <1>2, <2>1 DEF Save, FoundType
<1>3. CASE ~Fits(k)
  <2> DEFINE chosen == IF found.invalid = None \/ size[k] < size[found.invalid] THEN k ELSE found.invalid
             lower == IF k - 1 < found.limit THEN (IF k > 1 THEN k - 1 ELSE 1) ELSE found.limit
  <2>1. Save(found, k) = [best |-> found.best, invalid |-> chosen, limit |-> lower]
    BY <1>3 DEF Save, FoundType
  <2>2. chosen \in 0..Blocks /\ lower \in 1..Blocks
    BY <1>1 DEF FoundType
  <2> HIDE DEF chosen, lower
  <2> QED BY <2>1, <2>2 DEF FoundType
<1> QED BY <1>2, <1>3

\* save_if_best_so_far keeps what the proposals say, and adds the size tried.
LEMMA SaveCovers ==
  ASSUME Workload, NEW found \in FoundType, Proposals(found), NEW k \in 1..Blocks
  PROVE  /\ Save(found, k) \in FoundType /\ Proposals(Save(found, k))
         /\ CoveredBy(Save(found, k), k)
         /\ \A j \in 1..Blocks : CoveredBy(found, j) => CoveredBy(Save(found, k), j)
<1>1. Blocks \in Nat \ {0} /\ k \in Nat /\ k # None
  BY DEF Workload, None
<1>2. \A j \in 1..Blocks : size[j] \in Nat
  BY FragmentsType
<1>3. CASE Fits(k)
  <2> DEFINE chosen == IF found.best = None \/ Cheaper(k, found.best) THEN k ELSE found.best
             after == [best |-> chosen, invalid |-> found.invalid, limit |-> found.limit]
  <2>1. Save(found, k) = after
    BY <1>3 DEF Save, FoundType
  <2>2. chosen \in 1..Blocks /\ Fits(chosen) /\ chosen # None
    BY <1>1, <1>3 DEF FoundType, Proposals, None
  <2>3. ~Cheaper(k, chosen)
    <3>1. NumFragments(k) * k \in Nat
      BY <1>1, FragmentsType
    <3>2. ~Cheaper(k, k)
      BY <3>1 DEF Cheaper, CreateProposal
    <3> QED BY <3>2
  <2>4. ASSUME NEW j \in 1..Blocks, found.best # None, ~Cheaper(j, found.best) PROVE ~Cheaper(j, chosen)
    <3>1. CASE chosen = found.best
      BY <2>4, <3>1
    <3>2. CASE chosen # found.best
      <4>1. chosen = k /\ Cheaper(k, found.best) /\ found.best \in 1..Blocks
        BY <2>4, <3>2 DEF FoundType, None
      <4> HIDE DEF chosen
      <4> QED BY <2>4, <4>1, CheaperIsTransitive
    <3> QED BY <3>1, <3>2
  <2> HIDE DEF chosen
  <2>5. \A j \in 1..Blocks : CoveredBy(found, j) => CoveredBy(after, j)
    BY <2>2, <2>4 DEF CoveredBy
  <2>6. CoveredBy(after, k)
    BY <1>3, <2>2, <2>3 DEF CoveredBy
  <2>7. after \in FoundType
    BY <1>1, <2>2 DEF FoundType
  <2>8. Proposals(after)
    <3>1. \A j \in (after.limit + 1)..Blocks : j \in 1..Blocks /\ j \in (found.limit + 1)..Blocks
      BY <1>1 DEF FoundType
    <3> QED BY <2>2, <2>5, <3>1 DEF Proposals
  <2> QED BY <2>1, <2>5, <2>6, <2>7, <2>8
<1>4. CASE ~Fits(k)
  <2> DEFINE chosen == IF found.invalid = None \/ size[k] < size[found.invalid] THEN k ELSE found.invalid
             lower == IF k - 1 < found.limit THEN (IF k > 1 THEN k - 1 ELSE 1) ELSE found.limit
             after == [best |-> found.best, invalid |-> chosen, limit |-> lower]
  <2>1. Save(found, k) = after
    BY <1>4 DEF Save, FoundType
  <2>2. chosen \in 1..Blocks /\ ~Fits(chosen) /\ chosen # None
    BY <1>1, <1>4 DEF FoundType, Proposals, None
  <2>3. size[chosen] <= size[k] /\ (found.invalid # None => size[chosen] <= size[found.invalid])
    <3>1. found.invalid # None => found.invalid \in 1..Blocks
      BY DEF FoundType, None
    <3> QED BY <1>2, <3>1
  <2>4. lower \in 1..Blocks /\ \A j \in (lower + 1)..Blocks : j \in (found.limit + 1)..Blocks \/ k <= j
    <3>1. found.limit \in 1..Blocks
      BY DEF FoundType
    <3> QED BY <1>1, <3>1
  <2> HIDE DEF chosen, lower
  <2>5. ASSUME NEW j \in 1..Blocks, CoveredBy(found, j) PROVE CoveredBy(after, j)
    <3>1. CASE Fits(j)
      BY <2>5, <3>1 DEF CoveredBy
    <3>2. CASE ~Fits(j)
      <4>1. found.invalid \in 1..Blocks /\ size[found.invalid] <= size[j] /\ size[chosen] <= size[found.invalid]
        BY <2>3, <2>5, <3>2 DEF CoveredBy, FoundType, None
      <4>2. size[chosen] <= size[j]
        BY <1>2, <2>2, <4>1
      <4> QED BY <2>2, <3>2, <4>2 DEF CoveredBy
    <3> QED BY <3>1, <3>2
  <2>6. CoveredBy(after, k)
    BY <1>4, <2>2, <2>3 DEF CoveredBy
  <2>7. after \in FoundType
    BY <2>2, <2>4 DEF FoundType
  <2>8. ASSUME NEW j \in 1..Blocks, k <= j PROVE CoveredBy(after, j)
    <3>1. size[k] <= size[j]
      BY <2>8 DEF Workload
    <3>2. ~Fits(j)
      <4>1. NumFragments(k) <= NumFragments(j)
        <5>1. /\ BytesPerFragment \in Nat \ {0} /\ size[k] \in Nat /\ size[j] \in Nat
          BY <1>2, OptimizerAssumption
        <5>2. /\ size[k] + BytesPerFragment - 1 \in Nat /\ size[j] + BytesPerFragment - 1 \in Nat
              /\ size[k] + BytesPerFragment - 1 <= size[j] + BytesPerFragment - 1
          BY <3>1, <5>1
        <5> QED BY <5>1, <5>2, QuotientGrows DEF NumFragments
      <4>2. NumFragments(k) \in Nat /\ NumFragments(j) \in Nat /\ MaxFragments \in Nat
        BY FragmentsType, OptimizerAssumption
      <4> QED BY <1>4, <4>1, <4>2 DEF Fits, CreateProposal
    <3>3. size[chosen] <= size[j]
      BY <1>2, <2>2, <2>3, <3>1
    <3> QED BY <2>2, <3>2, <3>3 DEF CoveredBy
  <2>9. Proposals(after)
    <3>1. \A j \in (lower + 1)..Blocks : j \in 1..Blocks
      BY <1>1, <2>4
    <3>2. \A j \in (lower + 1)..Blocks : CoveredBy(after, j)
      BY <2>4, <2>5, <2>8, <3>1 DEF Proposals
    <3> QED BY <2>2, <3>2 DEF Proposals
  <2> QED BY <2>1, <2>5, <2>6, <2>7, <2>9
<1> QED BY <1>3, <1>4

\* What appending adds to a sequence.
LEMMA AppendAdds ==
  ASSUME NEW S, NEW seq \in Seq(S), NEW e \in S
  PROVE  Append(seq, e) \in Seq(S) /\ Range(Append(seq, e)) = Range(seq) \union {e}
<1>1. <<e>> \in Seq(S) /\ Range(<<e>>) = {e}
  BY DEF Range
<1>2. Range(seq \o <<e>>) = Range(seq) \union Range(<<e>>)
  BY <1>1, RangeConcatenation, ZenonT(30)
<1>3. Append(seq, e) = seq \o <<e>>
  BY AppendIsConcat
<1> QED BY <1>1, <1>2, <1>3, AppendProperties

\* The sizes retained are those to try that are not above the limit.
LEMMA AtMostKeeps ==
  ASSUME Blocks \in Nat, sizesToTry \in Seq(1..Blocks), NEW n \in Nat
  PROVE  /\ AtMost(n) \in Seq(1..Blocks)
         /\ Range(AtMost(n)) = {k \in Range(sizesToTry) : k <= n}
<1> DEFINE V == Seq(1..Blocks)
           last == Len(sizesToTry)
           Next(before, k) == IF k <= n THEN Append(before, k) ELSE before
           Step(p) == Next(p[2], sizesToTry[p[1]])
           step == [p \in (1..last) \X V |-> Step(p)]
           Value(f) == [i \in 0..last |-> IF i = 0 THEN <<>>
                                          ELSE IF sizesToTry[i] <= n THEN Append(f[i - 1], sizesToTry[i]) ELSE f[i - 1]]
           kept == CHOOSE f : f = Value(f)
<1>1. last \in Nat /\ <<>> \in V /\ DOMAIN sizesToTry = 1..last /\ \A i \in 1..last : sizesToTry[i] \in 1..Blocks
  BY LenProperties, EmptySeq
<1>2. ASSUME NEW before \in V, NEW k \in 1..Blocks
      PROVE  Next(before, k) \in V /\ Range(Next(before, k)) = Range(before) \union {j \in {k} : j <= n}
  <2>1. CASE k <= n
    <3> DEFINE S == 1..Blocks
    <3>1. before \in Seq(S) /\ k \in S
      OBVIOUS
    <3> HIDE DEF V, Next, S
    <3>2. Append(before, k) \in Seq(S) /\ Range(Append(before, k)) = Range(before) \union {k}
      BY <3>1, AppendAdds
    <3> USE DEF V, Next, S
    <3> QED BY <2>1, <3>2
  <2>2. CASE ~(k <= n)
    BY <2>2
  <2> QED BY <2>1, <2>2
<1>3. step \in [(1..last) \X V -> V]
  <2>1. ASSUME NEW p \in (1..last) \X V PROVE Step(p) \in V
    <3>1. p[2] \in V /\ sizesToTry[p[1]] \in 1..Blocks
      BY <1>1
    <3> HIDE DEF V, Next
    <3> QED BY <1>2, <3>1
  <2> HIDE DEF V, Step
  <2> QED BY <2>1
<1>4. PICK f \in [0..last -> V] : ObeysUpTo(f, last, <<>>, step)
  <2> HIDE DEF step, V, last
  <2> QED BY <1>1, <1>3, RecursionUpTo
<1>5. f = Value(f)
  <2>1. ASSUME NEW i \in 1..last PROVE f[i] = Next(f[i - 1], sizesToTry[i])
    <3>1. i - 1 \in 0..last
      BY <1>1
    <3>2. f[i - 1] \in V
      <4> HIDE DEF V, last
      <4> QED BY <3>1
    <3> HIDE DEF V, Next
    <3> QED BY <1>4, <3>2 DEF ObeysUpTo
  <2>2. \A i \in 0..last : f[i] = IF i = 0 THEN <<>>
                                  ELSE IF sizesToTry[i] <= n THEN Append(f[i - 1], sizesToTry[i]) ELSE f[i - 1]
    <3>1. f[0] = <<>>
      BY <1>4 DEF ObeysUpTo
    <3>2. \A i \in 0..last : i = 0 \/ i \in 1..last
      BY <1>1
    <3> HIDE DEF V, last, step
    <3> QED BY <2>1, <3>1, <3>2
  <2> HIDE DEF step, V, last
  <2> QED BY <2>2
<1>6. kept = Value(kept)
  BY <1>5
<1>7. AtMost(n) = kept[last]
  BY DEF AtMost
<1>8. \A i \in 0..last : kept[i] = IF i = 0 THEN <<>> ELSE Next(kept[i - 1], sizesToTry[i])
  <2> DEFINE value == Value(kept)
  <2>1. \A i \in 0..last : value[i] = IF i = 0 THEN <<>>
                                      ELSE IF sizesToTry[i] <= n THEN Append(kept[i - 1], sizesToTry[i]) ELSE kept[i - 1]
    <3> HIDE DEF kept
    <3> QED OBVIOUS
  <2>2. kept = value
    BY <1>6
  <2> HIDE DEF kept, value
  <2> QED BY <2>1, <2>2
<1> HIDE DEF kept
<1> DEFINE Tried(i) == {k \in {sizesToTry[j] : j \in 1..i} : k <= n}
           Good == {i \in Nat : i <= last => kept[i] \in V /\ Range(kept[i]) = Tried(i)}
<1>9. 0 \in Good
  <2>1. kept[0] = <<>>
    BY <1>1, <1>8
  <2>2. Range(<<>>) = {} /\ Tried(0) = {}
    BY DEF Range
  <2> QED BY <1>1, <2>1, <2>2
<1>10. ASSUME NEW i \in Nat, i \in Good PROVE i + 1 \in Good
  <2>1. SUFFICES ASSUME i + 1 <= last
                 PROVE  kept[i + 1] \in V /\ Range(kept[i + 1]) = Tried(i + 1)
    <3> HIDE DEF V, last, Tried
    <3> QED OBVIOUS
  <2>2. i + 1 \in 1..last /\ i + 1 \in 0..last /\ i + 1 # 0 /\ (i + 1) - 1 = i /\ i <= last
    BY <1>1, <2>1
  <2>3. kept[i] \in V /\ Range(kept[i]) = Tried(i)
    BY <1>10, <2>2
  <2>4. kept[i + 1] = Next(kept[i], sizesToTry[i + 1])
    <3> HIDE DEF Next, last
    <3> QED BY <1>8, <2>2
  <2>5. /\ kept[i + 1] \in V
        /\ Range(kept[i + 1]) = Tried(i) \union {j \in {sizesToTry[i + 1]} : j <= n}
    <3>1. sizesToTry[i + 1] \in 1..Blocks
      BY <1>1, <2>2
    <3> HIDE DEF V, Next, Tried
    <3> QED BY <1>2, <2>3, <2>4, <3>1
  <2>6. 1..(i + 1) = (1..i) \union {i + 1}
    OBVIOUS
  <2>7. Tried(i + 1) = Tried(i) \union {j \in {sizesToTry[i + 1]} : j <= n}
    BY <2>6
  <2> QED BY <2>5, <2>7
<1>11. last \in Good
  <2> HIDE DEF Good
  <2> QED BY <1>1, <1>9, <1>10, InductiveSet
<1>12. {sizesToTry[j] : j \in 1..last} = Range(sizesToTry)
  BY <1>1 DEF Range
<1> QED BY <1>1, <1>7, <1>11, <1>12

\* A countdown stays between 1 and n; in steps of 1 it leaves nothing out.
LEMMA CountdownCounts ==
  ASSUME NEW n \in Nat, NEW step \in Nat \ {0}
  PROVE  /\ Countdown(n, step) \in Seq(1..n)
         /\ step = 1 => Range(Countdown(n, step)) = 1..n
<1> DEFINE last == (n + step - 1) \div step
           e(i) == n - (i - 1) * step
<1>1. last \in Nat /\ last * step <= n + step - 1
  <2>1. n + step - 1 \in Nat
    OBVIOUS
  <2> QED BY <2>1, Quotient
<1> HIDE DEF last
<1>2. ASSUME NEW i \in 1..last PROVE e(i) \in 1..n
  <2>1. i \in Nat /\ i - 1 \in Nat /\ i <= last
    BY <1>1
  <2>2. i * step <= last * step /\ i * step \in Nat /\ last * step \in Nat
    BY <1>1, <2>1, ProductGrows
  <2>3. (i - 1) * step = i * step - step /\ (i - 1) * step \in Nat
    BY <2>1
  <2> QED BY <1>1, <2>2, <2>3
<1>3. [i \in 1..last |-> e(i)] \in Seq(1..n)
  <2> HIDE DEF e
  <2> QED BY <1>1, <1>2, IsASeq
<1>4. Countdown(n, step) = [i \in 1..last |-> e(i)]
  BY DEF Countdown, last
<1>5. ASSUME step = 1 PROVE 1..n \subseteq Range([i \in 1..last |-> e(i)])
  <2>1. last = n
    BY <1>5 DEF last
  <2>2. ASSUME NEW k \in 1..n PROVE \E i \in 1..last : k = e(i)
    <3>1. n - k + 1 \in 1..last /\ k = e(n - k + 1)
      BY <1>5, <2>1
    <3> QED BY <3>1
  <2> HIDE DEF e
  <2> QED BY <2>2 DEF Range
<1>6. Range([i \in 1..last |-> e(i)]) \subseteq 1..n
  <2> HIDE DEF e
  <2> QED BY <1>2 DEF Range
<1> QED BY <1>3, <1>4, <1>5, <1>6

\* Every size is in some countdown.
LEMMA SizesCover ==
  ASSUME NEW n \in Nat \ {0}, NEW step \in Nat \ {0}
  PROVE  AllSizes(n, step) \in Seq(1..n) /\ Range(AllSizes(n, step)) = 1..n
<1> DEFINE D == 0..n
           V == Seq(1..n)
           start == [s \in D |-> <<>>]
           rank == [s \in D |-> s]
           prev == [s \in D |-> s \div 2]
           More(s, v) == IF s = 0 THEN v ELSE Countdown(n, s) \o v
           More2(p) == More(p[1], p[2])
           more == [p \in D \X V |-> More2(p)]
           Value(f) == [s \in D |-> IF s = 0 THEN <<>> ELSE Countdown(n, s) \o f[s \div 2]]
           from == CHOOSE f : f = Value(f)
           first == IF step < n THEN step ELSE n
<1>1. <<>> \in V
  BY EmptySeq
<1>2. start \in [D -> V] /\ rank \in [D -> Nat]
  <2>1. start \in [D -> V]
    <3> HIDE DEF V, D
    <3> QED BY <1>1
  <2> QED BY <2>1
<1>3. prev \in [D -> D] /\ \A s \in D \ {0} : rank[prev[s]] < rank[s]
  <2>1. ASSUME NEW s \in D PROVE s \div 2 \in D /\ (s # 0 => s \div 2 < s)
    OBVIOUS
  <2>2. prev \in [D -> D]
    <3> HIDE DEF D
    <3> QED BY <2>1
  <2>3. \A s \in D : prev[s] = s \div 2 /\ rank[s] = s
    OBVIOUS
  <2> HIDE DEF D, prev, rank
  <2> QED BY <2>1, <2>2, <2>3
<1>4. ASSUME NEW s \in D, NEW v \in V PROVE More(s, v) \in V
  <2>1. CASE s = 0
    BY <2>1
  <2>2. CASE s # 0
    <3>1. Countdown(n, s) \in Seq(1..n)
      BY <2>2, CountdownCounts
    <3>2. v \in Seq(1..n)
      OBVIOUS
    <3>3. Countdown(n, s) \o v \in Seq(1..n)
      BY <3>1, <3>2, ConcatProperties, Zenon
    <3> QED BY <2>2, <3>3
  <2> QED BY <2>1, <2>2
<1>5. more \in [D \X V -> V]
  <2>1. ASSUME NEW p \in D \X V PROVE More2(p) \in V
    <3> HIDE DEF D, V, More
    <3> QED BY <1>4
  <2> HIDE DEF D, V, More2
  <2> QED BY <2>1
<1>6. PICK f \in [D -> V] : Obeys(f, D, {0}, start, prev, more)
  <2> HIDE DEF D, V, start, rank, prev, more
  <2> QED BY <1>2, <1>3, <1>5, Recursion
<1>7. \A s \in D : f[s] = IF s = 0 THEN <<>> ELSE Countdown(n, s) \o f[s \div 2]
  <2>1. SUFFICES ASSUME NEW s \in D PROVE f[s] = IF s = 0 THEN <<>> ELSE Countdown(n, s) \o f[s \div 2]
    OBVIOUS
  <2>2. f[s] = IF s \in {0} THEN start[s] ELSE more[<<s, f[prev[s]]>>]
    <3> HIDE DEF D, V, start, prev, more
    <3> QED BY <1>6 DEF Obeys
  <2>3. prev[s] = s \div 2 /\ s \div 2 \in D /\ start[s] = <<>>
    BY <1>3
  <2>4. f[s \div 2] \in V
    <3> HIDE DEF D, V
    <3> QED BY <2>3
  <2>5. more[<<s, f[s \div 2]>>] = More(s, f[s \div 2])
    <3>1. <<s, f[s \div 2]>> \in D \X V
      <4> HIDE DEF D, V
      <4> QED BY <2>4
    <3> HIDE DEF D, V, More
    <3> QED BY <3>1
  <2> HIDE DEF D, V, start, prev, more
  <2> QED BY <2>2, <2>3, <2>5
<1>8. f = Value(f)
  <2> HIDE DEF V
  <2> QED BY <1>7
<1>9. from = Value(from)
  BY <1>8
<1>10. AllSizes(n, step) = from[first]
  BY DEF AllSizes
<1>11. \A s \in D : from[s] = IF s = 0 THEN <<>> ELSE Countdown(n, s) \o from[s \div 2]
  <2> DEFINE value == Value(from)
  <2>1. \A s \in D : value[s] = IF s = 0 THEN <<>> ELSE Countdown(n, s) \o from[s \div 2]
    <3> HIDE DEF from
    <3> QED OBVIOUS
  <2>2. from = value
    BY <1>9
  <2> HIDE DEF from, value, D
  <2> QED BY <2>1, <2>2
<1> HIDE DEF from
<1> DEFINE Good == {m \in Nat : \A s \in D : s < m => from[s] \in V /\ (s # 0 => Range(from[s]) = 1..n)}
<1>12. 0 \in Good
  <2>1. \A s \in D : ~(s < 0)
    OBVIOUS
  <2> HIDE DEF D, V
  <2> QED BY <2>1
<1>13. ASSUME NEW m \in Nat, m \in Good PROVE m + 1 \in Good
  <2>1. SUFFICES ASSUME NEW s \in D, s < m + 1 PROVE from[s] \in V /\ (s # 0 => Range(from[s]) = 1..n)
    <3> HIDE DEF D, V
    <3> QED OBVIOUS
  <2>2. CASE s = 0
    <3>1. from[s] = <<>>
      BY <1>11, <2>2
    <3> QED BY <1>1, <2>2, <3>1
  <2>3. CASE s # 0
    <3>1. s \div 2 \in D /\ s \div 2 < m /\ s \in Nat \ {0} /\ (s \div 2 = 0 <=> s = 1)
      BY <2>1, <2>3
    <3>2. from[s] = Countdown(n, s) \o from[s \div 2]
      <4> HIDE DEF D
      <4> QED BY <1>11, <2>3
    <3>3. from[s \div 2] \in Seq(1..n) /\ (s \div 2 # 0 => Range(from[s \div 2]) = 1..n)
      <4> HIDE DEF D
      <4> QED BY <1>13, <3>1
    <3>4. Countdown(n, s) \in Seq(1..n) /\ (s = 1 => Range(Countdown(n, s)) = 1..n)
      BY <3>1, CountdownCounts
    <3>5. from[s] \in Seq(1..n) /\ Range(from[s]) = Range(Countdown(n, s)) \union Range(from[s \div 2])
      <4> DEFINE count == Countdown(n, s)
                 rest == from[s \div 2]
      <4>1. count \in Seq(1..n) /\ rest \in Seq(1..n)
        BY <3>3, <3>4
      <4> HIDE DEF count, rest
      <4>2. count \o rest \in Seq(1..n)
        BY <4>1, ConcatProperties, Zenon
      <4>3. Range(count \o rest) = Range(count) \union Range(rest)
        BY <4>1, RangeConcatenation
      <4> QED BY <3>2, <4>2, <4>3 DEF count, rest
    <3>6. Range(Countdown(n, s)) \subseteq 1..n /\ Range(from[s \div 2]) \subseteq 1..n
      <4>1. \A q \in Seq(1..n) : Range(q) \subseteq 1..n
        BY RangeOfSeq
      <4> QED BY <3>3, <3>4, <4>1
    <3>7. Range(Countdown(n, s)) = 1..n \/ Range(from[s \div 2]) = 1..n
      BY <3>1, <3>3, <3>4
    <3>8. Range(from[s]) = 1..n
      BY <3>5, <3>6, <3>7
    <3> QED BY <3>5, <3>8
  <2> QED BY <2>2, <2>3
<1>14. first + 1 \in Good
  <2>1. \A m \in Nat : m \in Good
    <3> HIDE DEF Good
    <3> QED BY <1>12, <1>13, InductiveSet
  <2>2. first + 1 \in Nat
    OBVIOUS
  <2> HIDE DEF Good, first
  <2> QED BY <2>1, <2>2
<1>15. first \in D /\ first # 0 /\ first < first + 1
  OBVIOUS
<1> HIDE DEF first, D
<1> QED BY <1>10, <1>14, <1>15

\* The attempts are all numbers of blocks.
LEMMA AttemptsAreComplete ==
  ASSUME NEW n \in Nat \ {0}, NEW step \in Nat \ {0}
  PROVE  GenerateAttempts(n, step) \in Seq(1..n) /\ Range(GenerateAttempts(n, step)) = 1..n
<1> DEFINE V == Seq(1..n)
           all == AllSizes(n, step)
           last == Len(all)
           Next(before, k) == IF k \in ToSet(before) THEN before ELSE Append(before, k)
           Step(p) == Next(p[2], all[p[1]])
           more == [p \in (1..last) \X V |-> Step(p)]
           Value(f) == [i \in 0..last |->
                          LET before == IF i = 0 THEN <<>> ELSE f[i - 1]
                          IN  IF i = 0 \/ all[i] \in ToSet(before) THEN before ELSE Append(before, all[i])]
           unique == CHOOSE f : f = Value(f)
<1>1. all \in Seq(1..n) /\ Range(all) = 1..n
  BY SizesCover
<1> HIDE DEF all
<1>2. last \in Nat /\ <<>> \in V /\ DOMAIN all = 1..last /\ \A i \in 1..last : all[i] \in 1..n
  BY <1>1, LenProperties, EmptySeq
<1>3. ASSUME NEW before \in V, NEW k \in 1..n
      PROVE  Next(before, k) \in V /\ Range(Next(before, k)) = Range(before) \union {k}
  <2>1. CASE k \in ToSet(before)
    BY <2>1 DEF ToSet, Range
  <2>2. CASE k \notin ToSet(before)
    <3>1. before \in Seq(1..n)
      OBVIOUS
    <3>2. Append(before, k) \in Seq(1..n) /\ Range(Append(before, k)) = Range(before) \union {k}
      BY <3>1, AppendAdds, ZenonT(30)
    <3> QED BY <2>2, <3>2
  <2> QED BY <2>1, <2>2
<1>4. more \in [(1..last) \X V -> V]
  <2>1. ASSUME NEW p \in (1..last) \X V PROVE Step(p) \in V
    <3>1. p[2] \in V /\ all[p[1]] \in 1..n
      BY <1>2
    <3> HIDE DEF V, Next
    <3> QED BY <1>3, <3>1
  <2> HIDE DEF V, Step
  <2> QED BY <2>1
<1>5. PICK f \in [0..last -> V] : ObeysUpTo(f, last, <<>>, more)
  <2> HIDE DEF more, V, last
  <2> QED BY <1>2, <1>4, RecursionUpTo
<1>6. f = Value(f)
  <2>1. ASSUME NEW i \in 1..last PROVE f[i] = Next(f[i - 1], all[i])
    <3>1. i - 1 \in 0..last
      BY <1>2
    <3>2. f[i - 1] \in V
      <4> HIDE DEF V, last
      <4> QED BY <3>1
    <3> HIDE DEF V, Next
    <3> QED BY <1>5, <3>2 DEF ObeysUpTo
  <2>2. f[0] = <<>>
    BY <1>5 DEF ObeysUpTo
  <2>3. \A i \in 0..last : i = 0 \/ (i \in 1..last /\ i # 0)
    BY <1>2
  <2>4. \A i \in 0..last :
          f[i] = LET before == IF i = 0 THEN <<>> ELSE f[i - 1]
                 IN  IF i = 0 \/ all[i] \in ToSet(before) THEN before ELSE Append(before, all[i])
    <3> HIDE DEF V, last, more
    <3> QED BY <2>1, <2>2, <2>3
  <2> HIDE DEF more, V, last
  <2> QED BY <2>4
<1>7. unique = Value(unique)
  BY <1>6
<1>8. GenerateAttempts(n, step) = unique[last]
  BY DEF GenerateAttempts, all
<1>9. \A i \in 0..last : unique[i] = IF i = 0 THEN <<>> ELSE Next(unique[i - 1], all[i])
  <2> DEFINE value == Value(unique)
  <2>1. \A i \in 0..last : value[i] = IF i = 0 THEN <<>> ELSE Next(unique[i - 1], all[i])
    <3> HIDE DEF unique
    <3> QED OBVIOUS
  <2>2. unique = value
    BY <1>7
  <2> HIDE DEF unique, value
  <2> QED BY <2>1, <2>2
<1> HIDE DEF unique
<1> DEFINE Seen(i) == {all[j] : j \in 1..i}
           Good == {i \in Nat : i <= last => unique[i] \in V /\ Range(unique[i]) = Seen(i)}
<1>10. 0 \in Good
  <2>1. unique[0] = <<>>
    BY <1>2, <1>9
  <2>2. Range(<<>>) = {} /\ Seen(0) = {}
    BY DEF Range
  <2> QED BY <1>2, <2>1, <2>2
<1>11. ASSUME NEW i \in Nat, i \in Good PROVE i + 1 \in Good
  <2>1. SUFFICES ASSUME i + 1 <= last
                 PROVE  unique[i + 1] \in V /\ Range(unique[i + 1]) = Seen(i + 1)
    <3> HIDE DEF V, last, Seen
    <3> QED OBVIOUS
  <2>2. i + 1 \in 1..last /\ i + 1 \in 0..last /\ i + 1 # 0 /\ (i + 1) - 1 = i /\ i <= last
    BY <1>2, <2>1
  <2>3. unique[i] \in V /\ Range(unique[i]) = Seen(i)
    BY <1>11, <2>2
  <2>4. unique[i + 1] = Next(unique[i], all[i + 1])
    <3> HIDE DEF Next, last
    <3> QED BY <1>9, <2>2
  <2>5. unique[i + 1] \in V /\ Range(unique[i + 1]) = Seen(i) \union {all[i + 1]}
    <3>1. all[i + 1] \in 1..n
      BY <1>2, <2>2
    <3> HIDE DEF V, Next, Seen
    <3> QED BY <1>3, <2>3, <2>4, <3>1
  <2>6. 1..(i + 1) = (1..i) \union {i + 1}
    OBVIOUS
  <2>7. Seen(i + 1) = Seen(i) \union {all[i + 1]}
    BY <2>6
  <2> QED BY <2>5, <2>7
<1>12. last \in Good
  <2> HIDE DEF Good
  <2> QED BY <1>2, <1>10, <1>11, InductiveSet
<1>13. Seen(last) = Range(all)
  BY <1>2 DEF Range
<1>14. unique[last] \in V /\ Range(unique[last]) = Seen(last)
  BY <1>2, <1>12
<1> HIDE DEF Seen
<1> QED BY <1>1, <1>8, <1>13, <1>14

\* What the search knows between two advances: each size is to be tried or is covered.
Searching ==
  /\ sizesToTry \in Seq(1..Blocks) /\ attempts \in Nat
  /\ Found \in FoundType /\ Proposals(Found)
  /\ \A k \in 1..Blocks : k \in Range(sizesToTry) \/ CoveredBy(Found, k)

\* The sizes retained hold every size that is not covered.
LEMMA RetainedIsOpen ==
  ASSUME Workload, Searching
  PROVE  /\ Retained \in Seq(1..Blocks)
         /\ \A k \in 1..Blocks : k \in Range(Retained) \/ CoveredBy(Found, k)
         /\ limit = Blocks /\ sizesToTry # <<>> => Retained # <<>>
<1>1. Blocks \in Nat /\ limit \in Nat /\ limit \in 1..Blocks
  BY DEF Workload, Searching, FoundType, Found
<1>2. Retained \in Seq(1..Blocks) /\ Range(Retained) = {k \in Range(sizesToTry) : k <= limit}
  BY <1>1, AtMostKeeps DEF Searching, Retained
<1>3. ASSUME NEW k \in 1..Blocks, k \in Range(sizesToTry) PROVE k \in Range(Retained) \/ CoveredBy(Found, k)
  <2>1. CASE k <= limit
    BY <1>2, <1>3, <2>1
  <2>2. CASE ~(k <= limit)
    <3>1. k \in (limit + 1)..Blocks /\ Found.limit = limit
      BY <1>1, <2>2 DEF Found
    <3> QED BY <3>1 DEF Searching, Proposals
  <2> QED BY <2>1, <2>2
<1>4. ASSUME limit = Blocks, sizesToTry # <<>> PROVE Retained # <<>>
  <2>1. Len(sizesToTry) \in Nat \ {0} /\ sizesToTry \in Seq(1..Blocks)
    BY <1>4, EmptySeq DEF Searching
  <2>2. 1 \in 1..Len(sizesToTry) /\ 1 \in DOMAIN sizesToTry
    BY <2>1, LenProperties
  <2>3. sizesToTry[1] \in 1..Blocks /\ sizesToTry[1] \in Range(sizesToTry)
    BY <2>1, <2>2, ElementOfSeq DEF Range
  <2>4. sizesToTry[1] \in Range(Retained)
    BY <1>1, <1>2, <1>4, <2>3
  <2>5. Range(<<>>) = {}
    BY DEF Range
  <2> QED BY <2>4, <2>5
<1> QED BY <1>2, <1>3, <1>4 DEF Searching

\* An advance tries some of the sizes retained, and covers them.
LEMMA AdvanceCovers ==
  ASSUME Workload, Searching, NEW num \in Nat \ {0}, Advance(num)
  PROVE  \E found \in FoundType :
           /\ best' = found.best /\ invalid' = found.invalid /\ limit' = found.limit
           /\ Proposals(found)
           /\ sizesToTry' \in Seq(1..Blocks)
           /\ \A k \in 1..Blocks : k \in Range(sizesToTry') \/ CoveredBy(found, k)
           /\ attempts' \in Nat /\ attempts' >= attempts /\ (Retained # <<>> => attempts' > attempts)
           /\ Retained # <<>> \/ Informed(Found) => Informed(found)
<1> DEFINE V == FoundType
           rest == Retained
           length == Len(Retained)
           count == IF num < length THEN num ELSE length
           Step(p) == Save(p[2], rest[p[1]])
           step == [p \in (1..count) \X V |-> Step(p)]
           Value(f) == [i \in 0..count |-> IF i = 0 THEN Found ELSE Save(f[i - 1], rest[i])]
           saved == CHOOSE f : f = Value(f)
           found == saved[count]
<1>1. rest \in Seq(1..Blocks) /\ \A k \in 1..Blocks : k \in Range(rest) \/ CoveredBy(Found, k)
  BY RetainedIsOpen
<1>2. length \in Nat /\ DOMAIN rest = 1..length /\ \A i \in 1..length : rest[i] \in 1..Blocks
  BY <1>1, LenProperties
<1>3. length > 0 <=> rest # <<>>
  BY <1>1, EmptySeq, <1>2
<1>4. /\ sizesToTry' = SubSeq(rest, count + 1, length)
      /\ attempts' = attempts + count
      /\ best' = found.best /\ invalid' = found.invalid /\ limit' = found.limit
  BY DEF Advance, Found
<1> HIDE DEF rest, length
<1>5. count \in 0..length /\ (length > 0 => count > 0)
  BY <1>2
<1>6. \A i \in 1..count : i \in 1..length /\ rest[i] \in 1..Blocks
  BY <1>2, <1>5
<1> HIDE DEF count
<1>7. step \in [(1..count) \X V -> V]
  <2>1. ASSUME NEW p \in (1..count) \X V PROVE Step(p) \in V
    <3>1. p[2] \in FoundType /\ rest[p[1]] \in 1..Blocks
      BY <1>6
    <3>2. Save(p[2], rest[p[1]]) \in FoundType
      BY <3>1, SaveTyped
    <3> QED BY <3>2
  <2> HIDE DEF V, Step
  <2> QED BY <2>1
<1>8. Found \in V /\ count \in Nat
  BY <1>2, <1>5 DEF Searching
<1>9. PICK f \in [0..count -> V] : ObeysUpTo(f, count, Found, step)
  <2> HIDE DEF step, V
  <2> QED BY <1>7, <1>8, RecursionUpTo
<1>10. f = Value(f)
  <2>1. ASSUME NEW i \in 1..count PROVE f[i] = Save(f[i - 1], rest[i])
    <3>1. i - 1 \in 0..count
      BY <1>8
    <3>2. f[i - 1] \in V
      <4> HIDE DEF V
      <4> QED BY <3>1
    <3> HIDE DEF V
    <3> QED BY <1>9, <3>2 DEF ObeysUpTo
  <2>2. f[0] = Found
    BY <1>9 DEF ObeysUpTo
  <2>3. \A i \in 0..count : i = 0 \/ (i \in 1..count /\ i # 0)
    BY <1>8
  <2>4. \A i \in 0..count : f[i] = IF i = 0 THEN Found ELSE Save(f[i - 1], rest[i])
    <3> HIDE DEF V, step
    <3> QED BY <2>1, <2>2, <2>3
  <2> HIDE DEF step, V
  <2> QED BY <2>4
<1>11. saved = Value(saved)
  BY <1>10
<1>12. \A i \in 0..count : saved[i] = IF i = 0 THEN Found ELSE Save(saved[i - 1], rest[i])
  <2> DEFINE value == Value(saved)
  <2>1. \A i \in 0..count : value[i] = IF i = 0 THEN Found ELSE Save(saved[i - 1], rest[i])
    <3> HIDE DEF saved
    <3> QED OBVIOUS
  <2>2. saved = value
    BY <1>11
  <2> HIDE DEF saved, value
  <2> QED BY <2>1, <2>2
<1> HIDE DEF saved
<1> DEFINE Covered(i) == /\ saved[i] \in FoundType /\ Proposals(saved[i])
                         /\ \A k \in 1..Blocks : CoveredBy(Found, k) => CoveredBy(saved[i], k)
                         /\ \A j \in 1..i : CoveredBy(saved[i], rest[j])
                         /\ Informed(Found) => Informed(saved[i])
           Good == {i \in Nat : i <= count => Covered(i)}
<1>13. 0 \in Good
  <2>1. saved[0] = Found
    BY <1>8, <1>12
  <2>2. \A j \in 1..0 : FALSE
    OBVIOUS
  <2> QED BY <2>1, <2>2 DEF Searching
<1>14. ASSUME NEW i \in Nat, i \in Good PROVE i + 1 \in Good
  <2>1. SUFFICES ASSUME i + 1 <= count PROVE Covered(i + 1)
    <3> HIDE DEF Covered
    <3> QED OBVIOUS
  <2>2. i + 1 \in 1..count /\ i + 1 \in 0..count /\ i + 1 # 0 /\ (i + 1) - 1 = i /\ i <= count
    BY <1>8, <2>1
  <2>3. Covered(i)
    <3> HIDE DEF Covered
    <3> QED BY <1>14, <2>2
  <2>4. saved[i + 1] = Save(saved[i], rest[i + 1])
    BY <1>12, <2>2
  <2>5. rest[i + 1] \in 1..Blocks
    BY <1>6, <2>2
  <2>6. /\ saved[i + 1] \in FoundType /\ Proposals(saved[i + 1])
        /\ CoveredBy(saved[i + 1], rest[i + 1])
        /\ \A j \in 1..Blocks : CoveredBy(saved[i], j) => CoveredBy(saved[i + 1], j)
        /\ Informed(saved[i + 1])
    BY <2>3, <2>4, <2>5, SaveCovers DEF CoveredBy, Informed
  <2>7. \A j \in 1..(i + 1) : j \in 1..i \/ j = i + 1
    OBVIOUS
  <2>8. \A j \in 1..i : rest[j] \in 1..Blocks
    <3>1. \A j \in 1..i : j \in 1..count
      BY <1>8, <2>2
    <3> QED BY <1>6, <3>1
  <2>9. \A j \in 1..(i + 1) : CoveredBy(saved[i + 1], rest[j])
    BY <2>3, <2>6, <2>7, <2>8
  <2> QED BY <2>3, <2>6, <2>9
<1>15. Covered(count)
  <2>1. count \in Good
    <3> HIDE DEF Good
    <3> QED BY <1>8, <1>13, <1>14, InductiveSet
  <2> HIDE DEF Covered
  <2> QED BY <1>8, <2>1
<1>16. /\ sizesToTry' \in Seq(1..Blocks)
       /\ \A j \in (count + 1)..length : rest[j] \in Range(sizesToTry')
  <2>1. count + 1 \in Int /\ length \in Int /\ \A j \in (count + 1)..length : j \in 1..length
    BY <1>2, <1>5
  <2>2. /\ SubSeq(rest, count + 1, length) \in Seq(1..Blocks)
        /\ Len(SubSeq(rest, count + 1, length)) = IF count + 1 <= length THEN length - (count + 1) + 1 ELSE 0
        /\ \A i \in 1..(length - (count + 1) + 1) : SubSeq(rest, count + 1, length)[i] = rest[count + 1 + i - 1]
    <3> DEFINE from == count + 1
               S == 1..Blocks
    <3>1. from \in Int /\ length \in Int /\ \A i \in from..length : rest[i] \in S
      BY <1>2, <2>1
    <3> HIDE DEF from, S
    <3>2. /\ SubSeq(rest, from, length) \in Seq(S)
          /\ Len(SubSeq(rest, from, length)) = IF from <= length THEN length - from + 1 ELSE 0
          /\ \A i \in 1..(length - from + 1) : SubSeq(rest, from, length)[i] = rest[from + i - 1]
      BY <3>1, SubSeqProperties
    <3> QED BY <3>2 DEF from, S
  <2>3. ASSUME NEW j \in (count + 1)..length PROVE rest[j] \in Range(SubSeq(rest, count + 1, length))
    <3>1. j - count \in 1..(length - (count + 1) + 1) /\ count + 1 + (j - count) - 1 = j
      BY <1>5, <1>8, <2>1, <2>3
    <3>2. SubSeq(rest, count + 1, length)[j - count] = rest[j]
      BY <2>2, <3>1
    <3>3. j - count \in 1..Len(SubSeq(rest, count + 1, length))
      BY <1>2, <1>8, <2>2, <3>1
    <3>4. Range(SubSeq(rest, count + 1, length)) =
            {SubSeq(rest, count + 1, length)[i] : i \in 1..Len(SubSeq(rest, count + 1, length))}
      BY <2>2, RangeEquality
    <3> QED BY <3>2, <3>3, <3>4
  <2> QED BY <1>4, <2>2, <2>3
<1>17. ASSUME NEW k \in 1..Blocks PROVE k \in Range(sizesToTry') \/ CoveredBy(found, k)
  <2>1. CASE CoveredBy(Found, k)
    BY <1>15, <1>17, <2>1
  <2>2. CASE k \in Range(rest)
    <3>1. PICK j \in 1..length : k = rest[j]
      BY <1>2, <2>2 DEF Range
    <3>2. j \in 1..count \/ j \in (count + 1)..length
      BY <1>2, <1>5, <1>8
    <3> QED BY <1>15, <1>16, <3>1, <3>2
  <2> QED BY <1>1, <2>1, <2>2
<1>18. attempts' \in Nat /\ attempts' >= attempts /\ (Retained # <<>> => attempts' > attempts)
  <2>1. attempts \in Nat /\ (Retained # <<>> => count > 0)
    BY <1>3, <1>5 DEF Searching, rest
  <2> QED BY <1>4, <1>8, <2>1
<1>19. found \in FoundType /\ Proposals(found)
  BY <1>15
<1>20. Retained # <<>> \/ Informed(Found) => Informed(found)
  <2>1. ASSUME Retained # <<>> PROVE Informed(found)
    <3>1. 1 \in 1..count
      BY <1>3, <1>5, <1>8, <2>1 DEF rest
    <3> QED BY <1>15, <3>1 DEF CoveredBy, Informed
  <2> QED BY <1>15, <2>1
<1> QED BY <1>4, <1>16, <1>17, <1>18, <1>19, <1>20

\* More blocks are not smaller.
LEMMA SizesGrow ==
  ASSUME NEW s \in CompressedSizes
  PROVE  /\ s \in Seq(Nat \ {0}) /\ Len(s) \in Nat \ {0}
         /\ \A k, l \in 1..Len(s) : k <= l => s[k] <= s[l]
<1>1. s \in Seq(Nat \ {0}) /\ s # <<>> /\ \A k \in 2..Len(s) : s[k - 1] <= s[k]
  BY OptimizerAssumption
<1>2. Len(s) \in Nat \ {0} /\ \A k \in 1..Len(s) : s[k] \in Nat
  BY <1>1, EmptySeq, ElementOfSeq
<1> DEFINE length == Len(s)
           Grown == {m \in Nat : \A k \in 1..length : k + m <= length => s[k] <= s[k + m]}
<1> HIDE DEF length
<1>3. 0 \in Grown
  BY <1>2 DEF length
<1>4. ASSUME NEW m \in Nat, m \in Grown PROVE m + 1 \in Grown
  <2>1. SUFFICES ASSUME NEW k \in 1..length, k + (m + 1) <= length PROVE s[k] <= s[k + (m + 1)]
    OBVIOUS
  <2>2. /\ k + m \in 1..length /\ k + (m + 1) \in 2..length /\ k + (m + 1) \in 1..length
        /\ (k + (m + 1)) - 1 = k + m /\ k + m <= length
    BY <1>2, <2>1 DEF length
  <2>3. s[k] <= s[k + m]
    BY <1>4, <2>2
  <2>4. s[k + m] <= s[k + (m + 1)]
    BY <1>1, <2>2 DEF length
  <2>5. s[k] \in Nat /\ s[k + m] \in Nat /\ s[k + (m + 1)] \in Nat
    BY <1>2, <2>2 DEF length
  <2> QED BY <2>3, <2>4, <2>5
<1>5. \A m \in Nat : m \in Grown
  <2> HIDE DEF Grown
  <2> QED BY <1>3, <1>4, InductiveSet
<1>6. ASSUME NEW k \in 1..length, NEW l \in 1..length, k <= l PROVE s[k] <= s[l]
  <2>1. l - k \in Nat /\ k + (l - k) = l /\ l <= length
    BY <1>2, <1>6 DEF length
  <2> QED BY <1>5, <2>1
<1> QED BY <1>1, <1>2, <1>6 DEF length

\* What holds of the proposals saved by a step holds after it.
LEMMA ProposalsCarry ==
  ASSUME Workload, NEW found \in FoundType, Proposals(found), UNCHANGED size,
         best' = found.best, invalid' = found.invalid, limit' = found.limit
  PROVE  /\ Workload' /\ Blocks' = Blocks /\ limit' \in 1..Blocks'
         /\ (Found \in FoundType)' /\ Proposals(Found)'
         /\ \A k \in 1..Blocks : CoveredBy(found, k) => CoveredBy(Found, k)'
         /\ Informed(found) => Informed(Found)'
<1>1. Workload' /\ Blocks' = Blocks
  BY DEF Workload, Blocks
<1>2. best' \in 0..Blocks /\ invalid' \in 0..Blocks /\ limit' \in 1..Blocks
  BY DEF FoundType
<1>3. ASSUME NEW k PROVE CoveredBy(found, k) => CoveredBy(Found, k)'
  BY DEF CoveredBy, Found, Fits, Cheaper, CreateProposal, NumFragments
<1>4. (found.best # None => Fits(best)') /\ (found.invalid # None => ~Fits(invalid)')
  BY DEF Proposals, Fits, CreateProposal, NumFragments
<1>5. Proposals(Found)'
  <2>1. (Found.best # None => Fits(Found.best))' /\ (Found.invalid # None => ~Fits(Found.invalid))'
    BY <1>4 DEF Found, Fits, CreateProposal, NumFragments
  <2>2. \A k \in (limit' + 1)..Blocks' : CoveredBy(Found, k)'
    BY <1>1, <1>3 DEF Proposals
  <2>3. Found'.limit = limit'
    BY DEF Found
  <2> QED BY <2>1, <2>2, <2>3 DEF Proposals
<1>6. (Found \in FoundType)'
  BY <1>1, <1>2 DEF Found, FoundType
<1>7. Informed(found) => Informed(Found)'
  BY DEF Informed, Found
<1> QED BY <1>1, <1>2, <1>3, <1>5, <1>6, <1>7

\* Of the sizes covered the proposal saved is the best, or the smallest.
LEMMA CoveredIsBest ==
  ASSUME Workload, NEW found \in FoundType, Proposals(found), Informed(found),
         NEW S \in SUBSET (1..Blocks), \A k \in S : CoveredBy(found, k),
         NEW b, b = IF found.best # None THEN found.best ELSE found.invalid
  PROVE  /\ b # None
         /\ \/ Fits(b) /\ \A k \in S : Fits(k) => ~Cheaper(k, b)
            \/ \A k \in S : ~Fits(k) /\ size[b] <= size[k]
<1>1. CASE found.best # None
  BY <1>1 DEF Proposals, CoveredBy
<1>2. CASE found.best = None
  BY <1>2 DEF CoveredBy, Informed
<1> QED BY <1>1, <1>2

\* The search begins with every size to try.
LEMMA StartOptimizingStep == ASSUME OptInv, StartOptimizing PROVE OptInv'
<1>1. PICK s \in CompressedSizes, step \in Steps, c \in Concurrency :
        size' = s /\ concurrency' = c /\ sizesToTry' = GenerateAttempts(Len(s), step) /\ limit' = Len(s)
  BY DEF StartOptimizing
<1>2. /\ stage = "idle" /\ stage' = "optimizing" /\ UNCHANGED <<attempts, best, invalid, bundle>>
      /\ attempts = 0 /\ best = None /\ invalid = None /\ bundle = NoBundle
  BY DEF StartOptimizing, OptInv
<1>3. s \in Seq(Nat \ {0}) /\ Len(s) \in Nat \ {0} /\ \A k, l \in 1..Len(s) : k <= l => s[k] <= s[l]
  BY SizesGrow
<1>4. step \in Nat \ {0} /\ c \in Nat \ {0}
  BY OptimizerAssumption
<1>5. Blocks' = Len(s)
  BY <1>1 DEF Blocks
<1>6. Workload'
  BY <1>1, <1>3, <1>5 DEF Workload
<1>7. sizesToTry' \in Seq(1..Blocks') /\ Range(sizesToTry') = 1..Blocks'
  BY <1>1, <1>3, <1>4, <1>5, AttemptsAreComplete
<1>8. limit' \in 1..Blocks' /\ limit' = Blocks'
  BY <1>1, <1>3, <1>5
<1>9. sizesToTry' # <<>>
  <2>1. 1 \in Range(sizesToTry')
    BY <1>3, <1>5, <1>7
  <2>2. Range(<<>>) = {}
    BY DEF Range
  <2> QED BY <2>1, <2>2
<1>10. OptTypeOK'
  <2>1. size' \in Seq(Nat)
    BY <1>1, <1>3, SeqMonotonic
  <2>2. Blocks' \in Nat
    BY <1>3, <1>5
  <2> QED BY <1>2, <1>7, <1>8, <2>1, <2>2 DEF OptTypeOK, NoBundle, None
<1>11. Proposals(Found)'
  <2>1. \A k \in (limit' + 1)..Blocks' : FALSE
    BY <1>3, <1>5, <1>8
  <2>2. Found'.best = None /\ Found'.invalid = None /\ Found'.limit = limit'
    BY <1>2 DEF Found
  <2> QED BY <2>1, <2>2 DEF Proposals
<1>12. stage' = "optimizing" /\ attempts' = 0 /\ bundle' = NoBundle /\ best' = None /\ invalid' = None
       /\ concurrency' \in Nat \ {0}
  BY <1>1, <1>2, <1>4
<1>13. ~(attempts' > 0)
  BY <1>12
<1>14. BestTriedIsChosen' /\ TrimsNoMoreThanNeeded'
  BY <1>12 DEF BestTriedIsChosen, TrimsNoMoreThanNeeded
<1> QED BY <1>6, <1>7, <1>8, <1>9, <1>10, <1>11, <1>12, <1>13, <1>14 DEF OptInv

\* What the invariant says of a search.
LEMMA SearchGoesOn ==
  ASSUME OptInv, stage \in {"optimizing", "finishing"}
  PROVE  Workload /\ Searching /\ concurrency \in Nat \ {0}
         /\ (attempts > 0 \/ Retained # <<>>) /\ (stage = "finishing" => attempts > 0)
         /\ (Retained # <<>> \/ Informed(Found))
<1>1. Workload /\ limit \in 1..Blocks /\ concurrency \in Nat \ {0}
  BY DEF OptInv
<1>2. best \in 0..Blocks /\ invalid \in 0..Blocks /\ attempts \in Nat /\ sizesToTry \in Seq(1..Blocks)
  BY DEF OptInv, OptTypeOK
<1>3. Searching
  BY <1>1, <1>2 DEF OptInv, Searching, Found, FoundType
<1> QED BY <1>1, <1>3, RetainedIsOpen DEF OptInv

\* An advance of the search.
LEMMA OptimizeStep == ASSUME OptInv, Optimize PROVE OptInv'
<1>1. stage = "optimizing" /\ stage' \in {"optimizing", "finishing"} /\ Advance(concurrency)
      /\ UNCHANGED <<size, concurrency, bundle>>
  BY DEF Optimize
<1>2. /\ Workload /\ Searching /\ concurrency \in Nat \ {0} /\ (attempts > 0 \/ Retained # <<>>)
      /\ Retained # <<>> \/ Informed(Found)
  <2>1. stage \in {"optimizing", "finishing"}
    BY <1>1
  <2> QED BY <2>1, SearchGoesOn
<1>3. PICK found \in FoundType :
        /\ best' = found.best /\ invalid' = found.invalid /\ limit' = found.limit
        /\ Proposals(found)
        /\ sizesToTry' \in Seq(1..Blocks)
        /\ \A k \in 1..Blocks : k \in Range(sizesToTry') \/ CoveredBy(found, k)
        /\ attempts' \in Nat /\ attempts' >= attempts /\ (Retained # <<>> => attempts' > attempts)
        /\ Informed(found)
  BY <1>1, <1>2, AdvanceCovers
<1>4. /\ Workload' /\ Blocks' = Blocks /\ limit' \in 1..Blocks'
      /\ (Found \in FoundType)' /\ Proposals(Found)'
      /\ \A k \in 1..Blocks : CoveredBy(found, k) => CoveredBy(Found, k)'
      /\ Informed(Found)'
  BY <1>1, <1>2, <1>3, ProposalsCarry
<1>5. attempts' > 0
  BY <1>2, <1>3 DEF Searching
<1>6. \A k \in 1..Blocks' : k \in Range(sizesToTry') \/ CoveredBy(Found, k)'
  BY <1>3, <1>4
<1>7. OptTypeOK'
  <2>1. best' \in 0..Blocks' /\ invalid' \in 0..Blocks' /\ limit' \in 0..Blocks'
    BY <1>3, <1>4 DEF FoundType
  <2> QED BY <1>1, <1>3, <1>4, <2>1 DEF OptTypeOK, OptInv
<1> QED BY <1>1, <1>2, <1>4, <1>5, <1>6, <1>7 DEF OptInv, BestTriedIsChosen, TrimsNoMoreThanNeeded

\* The end of a search: the bundle is the best of the sizes that are settled.
LEMMA SearchEnds ==
  ASSUME OptInv, stage = "finishing", stage' = "done", UNCHANGED <<size, concurrency>>, NEW found \in FoundType,
         Proposals(found), best' = found.best, invalid' = found.invalid, limit' = found.limit,
         sizesToTry' \in Seq(1..Blocks), attempts' \in Nat, attempts' > 0, Informed(found),
         \A k \in 1..Blocks : k \in Range(sizesToTry') \/ CoveredBy(found, k),
         bundle' = [blocks  |-> IF found.best # None THEN found.best ELSE found.invalid,
                    optimal |-> sizesToTry' = <<>>]
  PROVE  OptInv'
<1>1. Workload
  BY DEF OptInv
<1>2. Workload' /\ Blocks' = Blocks /\ limit' \in 1..Blocks'
  BY <1>1, ProposalsCarry
<1> DEFINE b == IF found.best # None THEN found.best ELSE found.invalid
<1>3. bundle'.blocks = b /\ bundle'.optimal = (sizesToTry' = <<>>)
  OBVIOUS
<1>4. b \in 0..Blocks
  BY DEF FoundType
<1> HIDE DEF b
<1>5. BestTriedIsChosen'
  <2> DEFINE S == (1..Blocks) \ Range(sizesToTry')
  <2>1. b # None /\ (\/ Fits(b) /\ \A k \in S : Fits(k) => ~Cheaper(k, b)
                    \/ \A k \in S : ~Fits(k) /\ size[b] <= size[k])
    <3>1. S \in SUBSET (1..Blocks) /\ \A k \in S : CoveredBy(found, k)
      OBVIOUS
    <3> HIDE DEF S
    <3> QED BY <1>1, <3>1, CoveredIsBest DEF b
  <2>2. Settled' = S
    BY <1>2 DEF Settled
  <2>3. sizesToTry' = <<>> => S = 1..Blocks
    BY DEF Range
  <2>4. \A k : Fits(k)' = Fits(k) /\ Cheaper(k, b)' = Cheaper(k, b)
    BY <1>1 DEF Fits, Cheaper, CreateProposal, NumFragments
  <2> HIDE DEF S
  <2>5. bundle'.blocks = b /\ (Fits(bundle.blocks))' = Fits(b)
    BY <1>3 DEF Fits, CreateProposal, NumFragments
  <2>6. \A k : Cheaper(k, bundle.blocks)' = Cheaper(k, b)
    BY <1>3 DEF Cheaper, CreateProposal, NumFragments
  <2> QED BY <1>2, <1>3, <2>1, <2>2, <2>3, <2>4, <2>5, <2>6 DEF BestTriedIsChosen
<1>6. OptTypeOK'
  <2>1. best' \in 0..Blocks' /\ invalid' \in 0..Blocks' /\ limit' \in 0..Blocks'
    BY <1>2 DEF FoundType
  <2> QED BY <1>2, <1>3, <1>4, <2>1 DEF OptTypeOK, OptInv
<1> QED BY <1>2, <1>5, <1>6 DEF OptInv, TrimsNoMoreThanNeeded

\* The last advance, and the end without it.
LEMMA FinishStep == ASSUME OptInv, LastAttempt \/ Finish PROVE OptInv'
<1>1. stage = "finishing" /\ stage' = "done" /\ UNCHANGED <<size, concurrency>>
  BY DEF LastAttempt, Finish
<1>2. Workload /\ Searching /\ attempts > 0 /\ Informed(Found)
  <2>1. stage \in {"optimizing", "finishing"}
    BY <1>1
  <2>2. Workload /\ Searching /\ attempts > 0
    BY <1>1, <2>1, SearchGoesOn
  <2> QED BY <2>1, <2>2 DEF OptInv, Informed
<1>3. CASE LastAttempt
  <2>1. PICK found \in FoundType :
          /\ best' = found.best /\ invalid' = found.invalid /\ limit' = found.limit
          /\ Proposals(found)
          /\ sizesToTry' \in Seq(1..Blocks)
          /\ \A k \in 1..Blocks : k \in Range(sizesToTry') \/ CoveredBy(found, k)
          /\ attempts' \in Nat /\ attempts' >= attempts /\ (Retained # <<>> => attempts' > attempts)
          /\ Informed(found)
    BY <1>2, <1>3, AdvanceCovers DEF LastAttempt
  <2>2. attempts' > 0
    BY <1>2, <2>1 DEF Searching
  <2>3. bundle' = [blocks  |-> IF found.best # None THEN found.best ELSE found.invalid,
                   optimal |-> sizesToTry' = <<>>]
    BY <1>3, <2>1 DEF LastAttempt
  <2> QED BY <1>1, <2>1, <2>2, <2>3, SearchEnds
<1>4. CASE Finish
  <2>1. /\ sizesToTry' = IF best = None THEN Retained ELSE sizesToTry
        /\ bundle' = [blocks |-> IF best # None THEN best ELSE invalid, optimal |-> sizesToTry' = <<>>]
        /\ UNCHANGED <<attempts, best, invalid, limit>>
    BY <1>4 DEF Finish
  <2>2. /\ sizesToTry' \in Seq(1..Blocks)
        /\ \A k \in 1..Blocks : k \in Range(sizesToTry') \/ CoveredBy(Found, k)
    BY <1>2, <2>1, RetainedIsOpen DEF Searching
  <2>3. /\ Found \in FoundType /\ Proposals(Found)
        /\ best' = Found.best /\ invalid' = Found.invalid /\ limit' = Found.limit
        /\ attempts' \in Nat /\ attempts' > 0
        /\ bundle' = [blocks |-> IF Found.best # None THEN Found.best ELSE Found.invalid,
                      optimal |-> sizesToTry' = <<>>]
    <3>1. Found.best = best /\ Found.invalid = invalid /\ Found.limit = limit
      BY DEF Found
    <3> QED BY <1>2, <2>1, <3>1 DEF Searching
  <2>4. PICK found : found = Found
    OBVIOUS
  <2>5. /\ found \in FoundType /\ Proposals(found) /\ Informed(found)
        /\ best' = found.best /\ invalid' = found.invalid /\ limit' = found.limit
        /\ bundle' = [blocks  |-> IF found.best # None THEN found.best ELSE found.invalid,
                      optimal |-> sizesToTry' = <<>>]
        /\ \A k \in 1..Blocks : k \in Range(sizesToTry') \/ CoveredBy(found, k)
    BY <1>2, <2>2, <2>3, <2>4
  <2> QED BY <1>1, <2>2, <2>3, <2>5, SearchEnds
<1> QED BY <1>3, <1>4

\* The bundler for EigenDA begins with all blocks.
LEMMA StartTrimmingStep == ASSUME OptInv, StartTrimming PROVE OptInv'
<1>1. PICK s \in CompressedSizes : size' = s /\ limit' = Len(s)
  BY DEF StartTrimming
<1>2. /\ stage = "idle" /\ stage' = "trimming"
      /\ UNCHANGED <<concurrency, sizesToTry, attempts, best, invalid, bundle>>
      /\ attempts = 0 /\ best = None /\ invalid = None /\ bundle = NoBundle /\ sizesToTry = <<>>
      /\ concurrency \in Nat \ {0}
  BY DEF StartTrimming, OptInv
<1>3. s \in Seq(Nat \ {0}) /\ Len(s) \in Nat \ {0} /\ \A k, l \in 1..Len(s) : k <= l => s[k] <= s[l]
  BY SizesGrow
<1>4. Blocks' = Len(s)
  BY <1>1 DEF Blocks
<1>5. Workload'
  BY <1>1, <1>3, <1>4 DEF Workload
<1>6. limit' \in 1..Blocks' /\ \A k \in (limit' + 1)..Blocks' : FALSE
  BY <1>1, <1>3, <1>4
<1>7. OptTypeOK'
  <2>1. size' \in Seq(Nat) /\ sizesToTry' \in Seq(1..Blocks')
    BY <1>1, <1>2, <1>3, SeqMonotonic, EmptySeq
  <2>2. Blocks' \in Nat
    BY <1>3, <1>4
  <2> QED BY <1>2, <1>6, <2>1, <2>2 DEF OptTypeOK, NoBundle, None
<1> QED BY <1>2, <1>5, <1>6, <1>7 DEF OptInv, BestTriedIsChosen, TrimsNoMoreThanNeeded

\* A block is dropped only if it must be.
LEMMA DropStep == ASSUME OptInv, DropBlock PROVE OptInv'
<1>1. /\ stage = "trimming" /\ ~Fits(limit)
      /\ UNCHANGED <<size, concurrency, sizesToTry, attempts, best, invalid, bundle>>
  BY DEF DropBlock
<1>2. /\ Workload /\ limit \in 1..Blocks /\ OptTypeOK /\ concurrency \in Nat \ {0}
      /\ attempts = 0 /\ \A k \in (limit + 1)..Blocks : ~Fits(k)
  BY <1>1 DEF OptInv
<1>3. Workload' /\ Blocks' = Blocks /\ Blocks \in Nat /\ \A k \in 1..Blocks : Fits(k)' = Fits(k)
  BY <1>1, <1>2 DEF Workload, Blocks, Fits, CreateProposal, NumFragments
<1>4. \A k \in limit..Blocks : ~Fits(k)
  <2>1. \A k \in limit..Blocks : k = limit \/ k \in (limit + 1)..Blocks
    BY <1>2, <1>3
  <2> QED BY <1>1, <1>2, <2>1
<1>5. CASE limit = 1 /\ stage' = "failed" /\ limit' = limit
  <2>1. TrimsNoMoreThanNeeded'
    BY <1>3, <1>4, <1>5 DEF TrimsNoMoreThanNeeded
  <2>2. OptTypeOK'
    BY <1>1, <1>2, <1>3, <1>5 DEF OptTypeOK
  <2> QED BY <1>1, <1>2, <1>3, <1>5, <2>1, <2>2 DEF OptInv, BestTriedIsChosen
<1>6. CASE limit # 1 /\ limit' = limit - 1 /\ stage' = stage
  <2>1. limit' \in 1..Blocks /\ limit' + 1 = limit
    BY <1>2, <1>3, <1>6
  <2>2. \A k \in (limit' + 1)..Blocks' : ~Fits(k)'
    <3>1. \A k \in limit..Blocks : k \in 1..Blocks
      BY <1>2, <1>3
    <3> QED BY <1>3, <1>4, <2>1, <3>1
  <2>3. OptTypeOK'
    BY <1>1, <1>2, <1>3, <1>6, <2>1 DEF OptTypeOK
  <2> QED BY <1>1, <1>2, <1>3, <1>6, <2>1, <2>2, <2>3 DEF OptInv, BestTriedIsChosen, TrimsNoMoreThanNeeded
<1> QED BY <1>1, <1>5, <1>6 DEF DropBlock

\* What is left fits, and one more block would not.
LEMMA FinishTrimmedStep == ASSUME OptInv, FinishTrimmed PROVE OptInv'
<1>1. /\ stage = "trimming" /\ stage' = "done" /\ Fits(limit)
      /\ bundle' = [blocks |-> limit, optimal |-> TRUE]
      /\ UNCHANGED <<size, concurrency, sizesToTry, attempts, best, invalid, limit>>
  BY DEF FinishTrimmed
<1>2. /\ Workload /\ limit \in 1..Blocks /\ OptTypeOK /\ concurrency \in Nat \ {0}
      /\ attempts = 0 /\ \A k \in (limit + 1)..Blocks : ~Fits(k)
  BY <1>1 DEF OptInv
<1>3. Workload' /\ Blocks' = Blocks /\ \A k : Fits(k)' = Fits(k)
  BY <1>1, <1>2 DEF Workload, Blocks, Fits, CreateProposal, NumFragments
<1>4. TrimsNoMoreThanNeeded'
  <2>1. bundle'.blocks = limit /\ Fits(bundle.blocks)'
    BY <1>1 DEF Fits, CreateProposal, NumFragments
  <2> QED BY <1>1, <1>2, <1>3, <2>1 DEF TrimsNoMoreThanNeeded
<1>5. OptTypeOK'
  BY <1>1, <1>2, <1>3 DEF OptTypeOK
<1> QED BY <1>1, <1>2, <1>3, <1>4, <1>5 DEF OptInv, BestTriedIsChosen

\* The types of the optimizer, and what it knows between two steps.
THEOREM OptimizerInvariance == OptSpec => []OptInv
<1>1. OptInit => OptInv
  <2>1. SUFFICES ASSUME OptInit PROVE OptInv
    OBVIOUS
  <2>2. Blocks = 0 /\ size \in Seq(Nat) /\ sizesToTry \in Seq(1..Blocks)
    BY <2>1, EmptySeq DEF OptInit, Blocks
  <2>3. OptTypeOK
    BY <2>1, <2>2 DEF OptInit, OptTypeOK, NoBundle, None
  <2> QED BY <2>1, <2>3 DEF OptInit, OptInv, BestTriedIsChosen, TrimsNoMoreThanNeeded
<1>2. OptInv /\ [OptNext]_optVars => OptInv'
  <2>1. SUFFICES ASSUME OptInv, [OptNext]_optVars PROVE OptInv'
    OBVIOUS
  <2>2. CASE UNCHANGED optVars
    BY <2>1, <2>2
       DEF optVars, OptInv, OptTypeOK, Workload, Blocks, Proposals, CoveredBy, Found, Fits, Cheaper, CreateProposal,
           NumFragments, BestTriedIsChosen, TrimsNoMoreThanNeeded, Settled, Informed
  <2> QED BY <2>1, <2>2, StartOptimizingStep, OptimizeStep, FinishStep, StartTrimmingStep, DropStep,
             FinishTrimmedStep DEF OptNext
<1> QED BY <1>1, <1>2, PTL DEF OptSpec

\* find_optimal_bundle, also when it runs out of time: the bundle is the cheapest per byte
\* of the sizes settled that fit, and exceeds the fragments only if all settled do.  One
\* that is known_to_be_optimal is the best of all sizes.
THEOREM BestTried == OptSpec => []BestTriedIsChosen
<1>1. OptInv => BestTriedIsChosen
  BY DEF OptInv
<1> QED BY <1>1, OptimizerInvariance, PTL

\* The bundler for EigenDA takes the longest prefix that fits.
THEOREM TrimmedIsLongest == OptSpec => []TrimsNoMoreThanNeeded
<1>1. OptInv => TrimsNoMoreThanNeeded
  BY DEF OptInv
<1> QED BY <1>1, OptimizerInvariance, PTL

-----------------------------------------------------------------------------
(* The costs.  Each row, that of a pruned bundle included, is the sum of   *)
(* what the transactions ever finalized contribute, so the amounts charged *)
(* are a table of contributions summed by bundles, and the fees paid bound *)
(* it summed by transactions.                                              *)

\* A transaction the listener finalizes.
SoundTx(t) ==
  /\ t.fragments \in SUBSET DOMAIN Fragments /\ t.fragments # {}
  /\ t.total_fee \in Nat /\ t.da_block_height \in Nat

\* What a transaction on record delivered is still there.
TxsAreSound ==
  /\ IsFiniteSet(chargedTxs) /\ finalizedTxs \subseteq chargedTxs
  /\ \A t \in chargedTxs : SoundTx(t)
  /\ Delivered \subseteq storedFragments

\* Each bundle is inserted once, and has its cost row until it is pruned.
TablesAreSound ==
  /\ storedFragments \subseteq DOMAIN Fragments
  /\ inserted \subseteq Bundles
  /\ Stored \subseteq inserted
  /\ DOMAIN bundleCost \subseteq Stored
  /\ DOMAIN prunedCost \subseteq inserted \ Stored
  /\ \A b, c \in Stored : b # c => Precedes(b, c) \/ Precedes(c, b)

Touching(txs, b) == {t \in txs : Of(t, b) # {}}

\* What some transactions contribute to a bundle.
CostOver(txs, b) == SumFunction([t \in txs |-> CostContribution(t, b)])

SizeOver(txs, b) == SumFunction([t \in txs |-> SizeContribution(t, b)])

RowsAreSums ==
  /\ DOMAIN Ledger = {b \in Bundles : Touching(chargedTxs, b) # {}}
  /\ \A b \in DOMAIN Ledger :
       /\ Ledger[b].cost = CostOver(chargedTxs, b)
       /\ Ledger[b].size = SizeOver(chargedTxs, b)
       /\ Ledger[b].da_block_height = Tip(Touching(chargedTxs, b))
       /\ Ledger[b].is_finalized \in BOOLEAN

CostInv == TxsAreSound /\ TablesAreSound /\ RowsAreSums /\ FinalityIsExact

\* The rows of two tables.
LEMMA RowsOfBoth ==
  ASSUME NEW rows, NEW rest
  PROVE  /\ DOMAIN BothRows(rows, rest) = DOMAIN rows \union DOMAIN rest
         /\ \A b \in DOMAIN rows : BothRows(rows, rest)[b] = rows[b]
         /\ \A b \in DOMAIN rest \ DOMAIN rows : BothRows(rows, rest)[b] = rest[b]
BY DEF BothRows

LEMMA BundlesAreFinite == IsFiniteSet(Bundles) /\ Bundles \subseteq Nat
<1> DEFINE bundleOf == [f \in DOMAIN Fragments |-> Fragments[f].bundle]
<1>1. IsFiniteSet(Bundles)
  <2>1. bundleOf \in Surjection(DOMAIN Fragments, Bundles)
    BY DEF Surjection, Bundles
  <2> HIDE DEF bundleOf
  <2> QED BY <2>1, CostAssumption, FS_Surjection
<1> QED BY <1>1, CostAssumption DEF Bundles

\* The fragments a transaction carries of a bundle are finitely many; their bytes add up.
LEMMA OfTypes ==
  ASSUME NEW t, SoundTx(t)
  PROVE  /\ IsFiniteSet(t.fragments) /\ Cardinality(t.fragments) \in Nat \ {0}
         /\ Summable(Used, DOMAIN Fragments)
         /\ \A b : /\ Of(t, b) \in SUBSET DOMAIN Fragments /\ IsFiniteSet(Of(t, b))
                   /\ Cardinality(Of(t, b)) \in Nat
                   /\ Of(t, b) = {} => Cardinality(Of(t, b)) = 0
                   /\ Of(t, b) # {} => b \in Bundles
<1>1. IsFiniteSet(t.fragments) /\ Cardinality(t.fragments) \in Nat
  BY CostAssumption, FS_Subset, FS_CardinalityType DEF SoundTx
<1>2. Cardinality(t.fragments) # 0
  BY <1>1, FS_EmptySet DEF SoundTx
<1>3. Summable(Used, DOMAIN Fragments)
  <2>1. \A f \in DOMAIN Fragments : Used[f] \in Nat
    BY CostAssumption DEF Used
  <2> QED BY <2>1, CostAssumption DEF Summable
<1>4. ASSUME NEW b
      PROVE  /\ Of(t, b) \in SUBSET DOMAIN Fragments /\ Of(t, b) \in SUBSET t.fragments
             /\ Of(t, b) # {} => b \in Bundles
  BY DEF Of, SoundTx, Bundles
<1>5. ASSUME NEW b
      PROVE  IsFiniteSet(Of(t, b)) /\ Cardinality(Of(t, b)) \in Nat /\ (Of(t, b) = {} => Cardinality(Of(t, b)) = 0)
  BY <1>1, <1>4, FS_Subset, FS_CardinalityType, FS_EmptySet
<1> QED BY <1>1, <1>2, <1>3, <1>4, <1>5

\* What a transaction contributes to a bundle, nothing if it carries none of its fragments.
LEMMA ContributionTypes ==
  ASSUME NEW t, SoundTx(t), NEW b
  PROVE  /\ CostContribution(t, b) \in Nat /\ SizeContribution(t, b) \in Nat
         /\ Of(t, b) = {} => CostContribution(t, b) = 0 /\ SizeContribution(t, b) = 0
<1> DEFINE n == Cardinality(Of(t, b))
           of == Cardinality(t.fragments)
           product == n * PpmOfFee
           ppm == product \div of
           amount == ppm * t.total_fee
<1>1. n \in Nat /\ of \in Nat \ {0} /\ PpmOfFee \in Nat \ {0} /\ t.total_fee \in Nat /\ (Of(t, b) = {} => n = 0)
  BY OfTypes, CostAssumption DEF SoundTx
<1>2. product \in Nat /\ (n = 0 => product = 0)
  <2> HIDE DEF n
  <2> QED BY <1>1
<1>3. ppm \in Nat /\ (product = 0 => ppm = 0)
  <2> HIDE DEF product, of
  <2> QED BY <1>1, <1>2, Quotient
<1>4. amount \in Nat /\ (ppm = 0 => amount = 0)
  <2> HIDE DEF ppm
  <2> QED BY <1>1, <1>3
<1>5. CostContribution(t, b) = amount \div PpmOfFee
  BY DEF CostContribution
<1>6. CostContribution(t, b) \in Nat /\ (amount = 0 => CostContribution(t, b) = 0)
  <2> HIDE DEF amount
  <2> QED BY <1>1, <1>4, <1>5, Quotient
<1>7. SizeContribution(t, b) \in Nat
  <2>1. Summable(Used, DOMAIN Fragments) /\ Of(t, b) \in SUBSET DOMAIN Fragments
    BY OfTypes
  <2> QED BY <2>1, SummableParts DEF SizeContribution, UsedBytes
<1>8. Of(t, b) = {} => SizeContribution(t, b) = 0
  BY SumOfNone DEF SizeContribution, UsedBytes
<1> QED BY <1>1, <1>2, <1>3, <1>4, <1>6, <1>7, <1>8

\* What a transaction contributes to each bundle, and what share of the fee that is.
Shares(t) == [b \in Bundles |-> CostContribution(t, b)]

\* The shares of one transaction: never more than its fee, and less by the rounding at most.
LEMMA SharesAddUp ==
  ASSUME NEW t, SoundTx(t)
  PROVE  /\ Summable(Shares(t), Bundles)
         /\ SumFunctionOnSet(Shares(t), Bundles) <= t.total_fee
         /\ RoundingOf(t) \in Nat
         /\ PpmOfFee * t.total_fee <= PpmOfFee * SumFunctionOnSet(Shares(t), Bundles) + RoundingOf(t)
<1> DEFINE N == Cardinality(t.fragments)
           P == PpmOfFee
           fee == t.total_fee
           touched == {b \in Bundles : Of(t, b) # {}}
           k == Cardinality(touched)
           count == [b \in Bundles |-> Cardinality(Of(t, b))]
           one == [b \in Bundles |-> IF Of(t, b) # {} THEN 1 ELSE 0]
           ppm == [b \in Bundles |-> (count[b] * P) \div N]
           share == Shares(t)
           Sum(f) == SumFunctionOnSet(f, Bundles)
<1>1. N \in Nat \ {0} /\ P \in Nat \ {0} /\ fee \in Nat /\ IsFiniteSet(Bundles)
  BY OfTypes, CostAssumption, BundlesAreFinite DEF SoundTx
<1>2. Summable(count, Bundles) /\ Summable(one, Bundles) /\ Summable(share, Bundles)
  BY <1>1, OfTypes, ContributionTypes DEF Summable, Shares
<1>3. Summable(ppm, Bundles)
  <2>1. ASSUME NEW b \in Bundles PROVE ppm[b] \in Nat
    <3> DEFINE n == count[b]
               product == n * P
    <3>1. n \in Nat
      BY <1>2 DEF Summable
    <3>2. product \in Nat
      <4> HIDE DEF n
      <4> QED BY <1>1, <3>1
    <3>3. product \div N \in Nat
      <4> HIDE DEF product, N
      <4> QED BY <1>1, <3>2, Quotient
    <3> QED BY <3>3
  <2> HIDE DEF ppm
  <2> QED BY <1>1, <2>1 DEF Summable
<1>4. Sum(count) = N
  <2> DEFINE ones == [f \in t.fragments |-> 1]
             class == [f \in t.fragments |-> Fragments[f].bundle]
  <2>1. class \in [t.fragments -> Bundles]
    BY DEF SoundTx, Bundles
  <2>2. IsFiniteSet(t.fragments) /\ Summable(ones, t.fragments)
    BY OfTypes DEF Summable
  <2>3. SumFunctionOnSet(ones, t.fragments) = N
    BY <2>2, SumOfOnes
  <2>4. SumFunctionOnSet(ones, t.fragments)
          = Sum([b \in Bundles |-> SumFunctionOnSet(ones, {f \in t.fragments : class[f] = b})])
    <3> HIDE DEF ones, class
    <3> QED BY <1>1, <2>1, <2>2, SumByClass
  <2>5. ASSUME NEW b \in Bundles PROVE SumFunctionOnSet(ones, {f \in t.fragments : class[f] = b}) = count[b]
    <3>1. {f \in t.fragments : class[f] = b} = Of(t, b)
      BY DEF Of
    <3>2. IsFiniteSet(Of(t, b)) /\ \A f \in Of(t, b) : ones[f] = 1
      BY OfTypes DEF Of
    <3>3. SumFunctionOnSet(ones, Of(t, b)) = Cardinality(Of(t, b))
      <4> HIDE DEF ones
      <4> QED BY <3>2, SumOfOnes
    <3> HIDE DEF ones, class
    <3> QED BY <3>1, <3>3
  <2>6. [b \in Bundles |-> SumFunctionOnSet(ones, {f \in t.fragments : class[f] = b})] = count
    <3>1. count = [b \in Bundles |-> count[b]]
      OBVIOUS
    <3> HIDE DEF ones, class, count
    <3> QED BY <2>5, <3>1
  <2> HIDE DEF Sum, ones, class, count, N
  <2> QED BY <2>3, <2>4, <2>6
<1>5. Sum(one) = k
  <2>1. touched \in SUBSET Bundles /\ (\A b \in Bundles \ touched : one[b] = 0) /\ \A b \in touched : one[b] = 1
    OBVIOUS
  <2>2. IsFiniteSet(touched)
    BY <1>1, <2>1, FS_Subset
  <2> HIDE DEF touched, one
  <2> QED BY <1>2, <2>1, <2>2, SumOfSupport, SumOfOnes
<1>6. /\ N * Sum(ppm) <= P * Sum(count) /\ P * Sum(count) <= N * (Sum(ppm) + Sum(one))
      /\ Sum(ppm) \in Nat /\ Sum(one) \in Nat /\ Sum(share) \in Nat
  <2>1. \A b \in Bundles : ppm[b] = (count[b] * P) \div N
    OBVIOUS
  <2>2. \A b \in Bundles : one[b] = 1 \/ count[b] = 0
    BY OfTypes
  <2>3. Sum(ppm) \in Nat /\ Sum(one) \in Nat /\ Sum(share) \in Nat
    <3> HIDE DEF ppm, one, share
    <3> QED BY <1>2, <1>3, SumType
  <2> HIDE DEF ppm, one, count, share, N, P
  <2> QED BY <1>1, <1>2, <1>3, <2>1, <2>2, <2>3, SumOfQuotients
<1>7. P * Sum(share) <= fee * Sum(ppm) /\ fee * Sum(ppm) <= P * (Sum(share) + Sum(one))
  <2>1. \A b \in Bundles : share[b] = (ppm[b] * fee) \div P
    BY DEF Shares, CostContribution
  <2>2. ASSUME NEW b \in Bundles PROVE one[b] = 1 \/ ppm[b] = 0
    <3>1. SUFFICES ASSUME count[b] = 0 PROVE ppm[b] = 0
      BY OfTypes
    <3>2. ppm[b] = (count[b] * P) \div N /\ count[b] * P = 0
      BY <1>1, <3>1
    <3>3. 0 \div N = 0
      <4>1. 0 \div N \in Nat /\ (0 \div N) * N <= 0
        <5> HIDE DEF N
        <5> QED BY <1>1, Quotient
      <4> HIDE DEF N
      <4> QED BY <1>1, <4>1
    <3> HIDE DEF ppm, count, N, P
    <3> QED BY <3>2, <3>3
  <2> HIDE DEF ppm, one, count, share, N, P, fee
  <2> QED BY <1>1, <1>2, <1>3, <2>1, <2>2, SumOfQuotients
<1>8. Sum(ppm) <= P /\ P <= Sum(ppm) + k
  <2> DEFINE q == Sum(ppm)
  <2>1. q \in Nat /\ k \in Nat /\ N * q <= P * N /\ P * N <= N * (q + k)
    BY <1>4, <1>5, <1>6
  <2> HIDE DEF q, k, N, P
  <2>2. q <= P
    <3>1. SUFFICES ASSUME P + 1 <= q PROVE FALSE
      BY <1>1, <2>1
    <3>2. N * (P + 1) <= N * q
      BY <1>1, <2>1, <3>1
    <3> QED BY <1>1, <2>1, <3>2
  <2>3. P <= q + k
    <3>1. SUFFICES ASSUME q + k + 1 <= P PROVE FALSE
      BY <1>1, <2>1
    <3>2. N * (q + k + 1) <= N * P
      BY <1>1, <2>1, <3>1
    <3> QED BY <1>1, <2>1, <3>2
  <2> QED BY <2>2, <2>3 DEF q
<1> DEFINE s == Sum(share)
           q == Sum(ppm)
<1>9. s \in Nat /\ q \in Nat /\ k \in Nat /\ q <= P /\ P <= q + k /\ P * s <= fee * q /\ fee * q <= P * (s + k)
  BY <1>5, <1>6, <1>7, <1>8
<1>10. RoundingOf(t) = k * (fee + P)
  BY DEF RoundingOf
<1>11. s <= fee /\ k * (fee + P) \in Nat /\ P * fee <= P * s + k * (fee + P)
  <2> HIDE DEF s, q, k, P, fee
  <2>1. s <= fee
    <3>1. fee * q <= fee * P
      BY <1>1, <1>9
    <3>2. SUFFICES ASSUME fee + 1 <= s PROVE FALSE
      BY <1>1, <1>9
    <3>3. P * (fee + 1) <= P * s
      BY <1>1, <1>9, <3>2
    <3> QED BY <1>1, <1>9, <3>1, <3>3
  <2>2. k * (fee + P) \in Nat
    BY <1>1, <1>9
  <2>3. fee * P <= fee * (q + k)
    BY <1>1, <1>9
  <2>4. fee * (q + k) = fee * q + fee * k /\ P * (s + k) = P * s + P * k /\ k * (fee + P) = fee * k + P * k
    BY <1>1, <1>9
  <2> DEFINE fq == fee * q  fk == fee * k  pk == P * k  ps == P * s  pf == fee * P
  <2>5. fq \in Nat /\ fk \in Nat /\ pk \in Nat /\ ps \in Nat /\ pf \in Nat /\ P * fee = pf
    BY <1>1, <1>9
  <2>6. pf <= fq + fk /\ fq <= ps + pk /\ k * (fee + P) = fk + pk
    BY <1>9, <2>3, <2>4
  <2>7. pf <= ps + (fk + pk)
    <3> HIDE DEF fq, fk, pk, ps, pf
    <3> QED BY <2>5, <2>6
  <2> QED BY <2>1, <2>2, <2>5, <2>6, <2>7
<1> QED BY <1>2, <1>10, <1>11

\* The amounts charged and those paid, for all transactions and bundles.
LEMMA AmountsFollow == ASSUME CostInv PROVE AmountsAddUp
<1> DEFINE F == chargedTxs
           m == [t \in F |-> Shares(t)]
           rows == RowSums(m, F, Bundles)
           columns == ColumnSums(m, F, Bundles)
           fees == [t \in F |-> t.total_fee]
           cost == [b \in DOMAIN Ledger |-> Ledger[b].cost]
           losses == [t \in F |-> RoundingOf(t)]
           Sum(f) == SumFunctionOnSet(f, F)
<1>1. IsFiniteSet(F) /\ (\A t \in F : SoundTx(t)) /\ IsFiniteSet(Bundles) /\ DOMAIN Ledger \in SUBSET Bundles
  BY BundlesAreFinite DEF CostInv, TxsAreSound, RowsAreSums
<1>2. ASSUME NEW t \in F, NEW b \in Bundles
      PROVE  m[t][b] = CostContribution(t, b) /\ m[t][b] \in Nat /\ (Of(t, b) = {} => m[t][b] = 0)
  <2>1. m[t][b] = CostContribution(t, b)
    BY DEF Shares
  <2> HIDE DEF m
  <2> QED BY <1>1, <2>1, ContributionTypes
<1>3. Sum(rows) = SumFunctionOnSet(columns, Bundles)
  <2> HIDE DEF m
  <2> QED BY <1>1, <1>2, SumsSwap
<1>4. ASSUME NEW b \in Bundles
      PROVE  /\ columns[b] \in Nat
             /\ b \in DOMAIN Ledger => columns[b] = cost[b]
             /\ b \notin DOMAIN Ledger => columns[b] = 0
  <2> DEFINE column == [t \in F |-> m[t][b]]
  <2>1. Summable(column, F)
    <3> HIDE DEF m
    <3> QED BY <1>1, <1>2 DEF Summable
  <2>2. columns[b] = Sum(column)
    <3> HIDE DEF m
    <3> QED BY DEF ColumnSums
  <2>3. column = [t \in F |-> CostContribution(t, b)]
    <3> HIDE DEF m
    <3> QED BY <1>2
  <2>4. ASSUME b \in DOMAIN Ledger PROVE columns[b] = cost[b]
    <3>1. cost[b] = SumFunction([t \in F |-> CostContribution(t, b)])
      BY <2>4 DEF CostInv, RowsAreSums, CostOver
    <3>2. cost[b] = Sum([t \in F |-> CostContribution(t, b)])
      BY <3>1 DEF SumFunction
    <3> HIDE DEF cost, column, columns
    <3> QED BY <2>2, <2>3, <3>2
  <2>5. ASSUME b \notin DOMAIN Ledger PROVE columns[b] = 0
    <3>1. ASSUME NEW t \in F PROVE column[t] = 0
      <4>1. Of(t, b) = {}
        BY <2>5 DEF CostInv, RowsAreSums, Touching
      <4> HIDE DEF m
      <4> QED BY <1>2, <4>1
    <3> HIDE DEF column
    <3>2. Sum(column) = SumFunctionOnSet(column, {})
      BY <2>1, <3>1, SumOfSupport
    <3> QED BY <2>2, <3>2, SumOfNone
  <2> HIDE DEF column, columns, cost
  <2> QED BY <2>1, <2>2, <2>4, <2>5, SumType
<1>5. Charged = Sum(rows)
  <2>1. Charged = SumFunctionOnSet(cost, DOMAIN Ledger)
    BY DEF Charged, SumFunction
  <2>2. Summable(columns, Bundles) /\ Summable(columns, DOMAIN Ledger) /\ Summable(cost, DOMAIN Ledger)
    <3> HIDE DEF columns, cost
    <3> QED BY <1>1, <1>4, FS_Subset DEF Summable
  <2>3. SumFunctionOnSet(columns, Bundles) = SumFunctionOnSet(columns, DOMAIN Ledger)
    <3> HIDE DEF columns, cost
    <3> QED BY <1>1, <1>4, <2>2, SumOfSupport
  <2>4. SumFunctionOnSet(columns, DOMAIN Ledger) = SumFunctionOnSet(cost, DOMAIN Ledger)
    <3> HIDE DEF columns, cost
    <3> QED BY <1>1, <1>4, <2>2, SumOfSame
  <2> HIDE DEF columns, cost, rows
  <2> QED BY <1>3, <2>1, <2>3, <2>4
<1>6. Paid = Sum(fees)
  BY DEF Paid, SumFunction
<1>7. ASSUME NEW t \in F
      PROVE  /\ fees[t] \in Nat /\ rows[t] \in Nat /\ losses[t] \in Nat
             /\ rows[t] <= fees[t] /\ PpmOfFee * fees[t] <= PpmOfFee * rows[t] + losses[t]
  <2>1. rows[t] = SumFunctionOnSet(Shares(t), Bundles)
    BY DEF RowSums
  <2>2. SumFunctionOnSet(Shares(t), Bundles) \in Nat
    BY <1>1, SharesAddUp, SumType
  <2>3. fees[t] = t.total_fee /\ losses[t] = RoundingOf(t) /\ t.total_fee \in Nat
    BY <1>1 DEF SoundTx
  <2> HIDE DEF rows, fees, losses
  <2> QED BY <1>1, <2>1, <2>2, <2>3, SharesAddUp
<1>8. Summable(fees, F) /\ Summable(rows, F) /\ Summable(losses, F)
  <2> HIDE DEF rows, fees, losses
  <2> QED BY <1>1, <1>7 DEF Summable
<1>9. Sum(rows) <= Sum(fees)
  <2> HIDE DEF rows, fees, losses
  <2> QED BY <1>7, <1>8, SumGrows
<1> DEFINE feesUp == [t \in F |-> PpmOfFee * fees[t]]
           rowsUp == [t \in F |-> PpmOfFee * rows[t]]
           bound == [t \in F |-> rowsUp[t] + losses[t]]
<1>10. PpmOfFee * Sum(fees) <= PpmOfFee * Sum(rows) + Sum(losses)
  <2>1. PpmOfFee \in Nat
    BY CostAssumption
  <2>2. Summable(feesUp, F) /\ Sum(feesUp) = PpmOfFee * Sum(fees)
    <3>1. \A t \in F : feesUp[t] = PpmOfFee * fees[t]
      OBVIOUS
    <3> HIDE DEF feesUp, fees
    <3> QED BY <1>8, <2>1, <3>1, SumScales
  <2>3. Summable(rowsUp, F) /\ Sum(rowsUp) = PpmOfFee * Sum(rows)
    <3>1. \A t \in F : rowsUp[t] = PpmOfFee * rows[t]
      OBVIOUS
    <3> HIDE DEF rowsUp, rows
    <3> QED BY <1>8, <2>1, <3>1, SumScales
  <2>4. \A t \in F : bound[t] = rowsUp[t] + losses[t]
    OBVIOUS
  <2>5. \A t \in F : feesUp[t] <= bound[t]
    <3>1. \A t \in F : feesUp[t] = PpmOfFee * fees[t] /\ rowsUp[t] = PpmOfFee * rows[t]
      OBVIOUS
    <3> HIDE DEF rows, fees, losses, feesUp, rowsUp, bound
    <3> QED BY <1>7, <2>4, <3>1
  <2> HIDE DEF rows, fees, losses, feesUp, rowsUp, bound
  <2>6. Summable(bound, F) /\ Sum(bound) = Sum(rowsUp) + Sum(losses)
    BY <1>8, <2>3, <2>4, SumOfSums DEF Summable
  <2>7. Sum(feesUp) <= Sum(bound)
    BY <2>2, <2>5, <2>6, SumGrows
  <2> HIDE DEF Sum
  <2> QED BY <2>2, <2>3, <2>6, <2>7
<1>11. SumFunction(losses) = Sum(losses)
  BY DEF SumFunction
<1> HIDE DEF rows, fees, losses
<1>12. Charged <= Paid /\ PpmOfFee * Paid <= PpmOfFee * Charged + SumFunction(losses)
  <2> HIDE DEF Sum
  <2> QED BY <1>5, <1>6, <1>9, <1>10, <1>11
<1> QED BY <1>12 DEF AmountsAddUp, losses

\* The height of the latest of finitely many transactions.
LEMMA TipIsGreatest ==
  ASSUME NEW txs, IsFiniteSet(txs), \A t \in txs : t.da_block_height \in Nat
  PROVE  /\ Tip(txs) \in Nat
         /\ \A t \in txs : t.da_block_height <= Tip(txs)
         /\ \/ Tip(txs) = 0
            \/ \E t \in txs : Tip(txs) = t.da_block_height
<1> DEFINE Heights == {t.da_block_height : t \in txs} \union {0}
           G == {S \in SUBSET txs : \E n \in Nat : \A t \in S : t.da_block_height <= n}
<1>1. {} \in G
  OBVIOUS
<1>2. ASSUME NEW S \in SUBSET txs, NEW x \in txs \ S, S \in G PROVE S \union {x} \in G
  <2>1. PICK n \in Nat : \A t \in S : t.da_block_height <= n
    BY <1>2
  <2>2. \A t \in S \union {x} : t.da_block_height <= n + x.da_block_height /\ n + x.da_block_height \in Nat
    BY <2>1
  <2> QED BY <2>2
<1>3. txs \in G
  <2> HIDE DEF G
  <2> QED BY <1>1, <1>2, InductiveParts
<1>4. PICK n \in Nat : \A t \in txs : t.da_block_height <= n
  BY <1>3
<1>5. Heights \subseteq 0..n /\ Heights # {}
  BY <1>4
<1>6. Max(Heights) \in Heights /\ \A m \in Heights : m <= Max(Heights)
  <2> HIDE DEF Heights
  <2> QED BY <1>5, MaxIsGreatest
<1> QED BY <1>5, <1>6 DEF Tip

\* Transactions in later blocks decide the height.
LEMMA TipMoves ==
  ASSUME NEW old, NEW new, IsFiniteSet(old), IsFiniteSet(new), new # {},
         \A t \in old \union new : t.da_block_height \in Nat,
         \A t \in old, u \in new : t.da_block_height < u.da_block_height
  PROVE  Tip(old \union new) = Tip(new)
<1> DEFINE all == old \union new
<1>1. IsFiniteSet(all)
  BY FS_Union
<1>2. /\ Tip(all) \in Nat /\ \A t \in all : t.da_block_height <= Tip(all)
      /\ Tip(all) = 0 \/ \E t \in all : Tip(all) = t.da_block_height
  BY <1>1, TipIsGreatest
<1>3. /\ Tip(new) \in Nat /\ \A t \in new : t.da_block_height <= Tip(new)
      /\ Tip(new) = 0 \/ \E t \in new : Tip(new) = t.da_block_height
  BY TipIsGreatest
<1>4. Tip(all) <= Tip(new)
  BY <1>2, <1>3
<1>5. Tip(new) <= Tip(all)
  BY <1>2, <1>3
<1> QED BY <1>2, <1>3, <1>4, <1>5

\* Transactions from before a run of the listener and those of the run.
OldAndNew(old, new) ==
  /\ IsFiniteSet(old) /\ IsFiniteSet(new) /\ old \intersect new = {}
  /\ \A t \in old \union new : SoundTx(t)

\* What a run of the listener adds to the contributions to a bundle.
LEMMA ContributionsExtend ==
  ASSUME NEW old, NEW new, OldAndNew(old, new), NEW b
  PROVE  /\ CostOver(old \union new, b) = CostOver(old, b) + CostOver(Touching(new, b), b)
         /\ SizeOver(old \union new, b) = SizeOver(old, b) + SizeOver(Touching(new, b), b)
         /\ CostOver(old, b) \in Nat /\ SizeOver(old, b) \in Nat
         /\ Touching(new, b) = {} => CostOver(Touching(new, b), b) = 0 /\ SizeOver(Touching(new, b), b) = 0
         /\ Touching(old, b) = {} => CostOver(old, b) = 0 /\ SizeOver(old, b) = 0
<1> USE DEF OldAndNew
<1> DEFINE S == Touching(new, b)
           all == old \union new
           h == [t \in all |-> CostContribution(t, b)]
           f == [t \in old |-> CostContribution(t, b)]
           g == [t \in S |-> CostContribution(t, b)]
           hs == [t \in all |-> SizeContribution(t, b)]
           fs == [t \in old |-> SizeContribution(t, b)]
           gs == [t \in S |-> SizeContribution(t, b)]
<1>1. S \in SUBSET new /\ (\A t \in new \ S : Of(t, b) = {}) /\ IsFiniteSet(all)
  BY FS_Union DEF Touching
<1>2. /\ \A t \in all : h[t] \in Nat /\ hs[t] \in Nat
      /\ \A t \in old : h[t] = f[t] /\ hs[t] = fs[t]
      /\ \A t \in S : h[t] = g[t] /\ hs[t] = gs[t]
      /\ \A t \in new \ S : h[t] = 0 /\ hs[t] = 0
  <2>1. \A t \in all : h[t] = CostContribution(t, b) /\ hs[t] = SizeContribution(t, b)
    OBVIOUS
  <2>2. \A t \in all : CostContribution(t, b) \in Nat /\ SizeContribution(t, b) \in Nat
    BY ContributionTypes
  <2>3. \A t \in new \ S : CostContribution(t, b) = 0 /\ SizeContribution(t, b) = 0
    <3> HIDE DEF S
    <3> QED BY <1>1, ContributionTypes
  <2>4. (\A t \in old : f[t] = CostContribution(t, b) /\ fs[t] = SizeContribution(t, b))
        /\ (\A t \in S : g[t] = CostContribution(t, b) /\ gs[t] = SizeContribution(t, b))
    OBVIOUS
  <2>5. (\A t \in old : t \in all) /\ (\A t \in S : t \in all) /\ (\A t \in new \ S : t \in all)
    BY <1>1
  <2> HIDE DEF h, f, g, hs, fs, gs, S, all
  <2> QED BY <2>1, <2>2, <2>3, <2>4, <2>5
<1>3. Summable(h, all) /\ Summable(hs, all)
  <2> HIDE DEF h, hs, all
  <2> QED BY <1>1, <1>2 DEF Summable
<1>4. /\ SumFunctionOnSet(h, all) = SumFunctionOnSet(f, old) + SumFunctionOnSet(g, S)
      /\ SumFunctionOnSet(f, old) \in Nat
  <2>1. /\ \A t \in old : h[t] = f[t]
        /\ \A t \in S : h[t] = g[t]
        /\ \A t \in new \ S : h[t] = 0
    BY <1>2
  <2>2. S \in SUBSET new /\ Summable(h, old \union new)
    BY <1>1, <1>3
  <2>3. Extends(h, f, old, g, new, S)
    <3> HIDE DEF h, f, g, S
    <3> QED BY <2>1, <2>2 DEF Extends
  <2> HIDE DEF h, f, g, S, all
  <2>4. /\ SumFunctionOnSet(h, old \union new) = SumFunctionOnSet(f, old) + SumFunctionOnSet(g, S)
        /\ SumFunctionOnSet(f, old) \in Nat
    BY <2>3, SumExtends
  <2> QED BY <2>4 DEF all
<1>5. /\ SumFunctionOnSet(hs, all) = SumFunctionOnSet(fs, old) + SumFunctionOnSet(gs, S)
      /\ SumFunctionOnSet(fs, old) \in Nat
  <2>1. /\ \A t \in old : hs[t] = fs[t]
        /\ \A t \in S : hs[t] = gs[t]
        /\ \A t \in new \ S : hs[t] = 0
    BY <1>2
  <2>2. S \in SUBSET new /\ Summable(hs, old \union new)
    BY <1>1, <1>3
  <2>3. Extends(hs, fs, old, gs, new, S)
    <3> HIDE DEF hs, fs, gs, S
    <3> QED BY <2>1, <2>2 DEF Extends
  <2> HIDE DEF hs, fs, gs, S, all
  <2>4. /\ SumFunctionOnSet(hs, old \union new) = SumFunctionOnSet(fs, old) + SumFunctionOnSet(gs, S)
        /\ SumFunctionOnSet(fs, old) \in Nat
    BY <2>3, SumExtends
  <2> QED BY <2>4 DEF all
<1>6. S = {} => SumFunctionOnSet(g, S) = 0 /\ SumFunctionOnSet(gs, S) = 0
  BY SumOfNone
<1>7. ASSUME Touching(old, b) = {} PROVE SumFunctionOnSet(f, old) = 0 /\ SumFunctionOnSet(fs, old) = 0
  <2>1. \A t \in old : Of(t, b) = {}
    BY <1>7 DEF Touching
  <2>2. \A t \in old : f[t] = 0 /\ fs[t] = 0
    BY <2>1, ContributionTypes
  <2>3. {} \in SUBSET old /\ old \ {} = old /\ Summable(f, old) /\ Summable(fs, old)
    <3> HIDE DEF f, fs
    <3> QED BY <2>2 DEF Summable
  <2> HIDE DEF f, fs
  <2>4. SumFunctionOnSet(f, old) = SumFunctionOnSet(f, {}) /\ SumFunctionOnSet(fs, old) = SumFunctionOnSet(fs, {})
    BY <2>2, <2>3, SumOfSupport
  <2> QED BY <2>4, SumOfNone
<1>8. /\ SumFunction(h) = SumFunctionOnSet(h, all) /\ SumFunction(hs) = SumFunctionOnSet(hs, all)
      /\ SumFunction(f) = SumFunctionOnSet(f, old) /\ SumFunction(fs) = SumFunctionOnSet(fs, old)
      /\ SumFunction(g) = SumFunctionOnSet(g, S) /\ SumFunction(gs) = SumFunctionOnSet(gs, S)
  BY DEF SumFunction
<1>9. /\ SumFunction(h) = SumFunction(f) + SumFunction(g) /\ SumFunction(hs) = SumFunction(fs) + SumFunction(gs)
      /\ SumFunction(f) \in Nat /\ SumFunction(fs) \in Nat
      /\ S = {} => SumFunction(g) = 0 /\ SumFunction(gs) = 0
      /\ Touching(old, b) = {} => SumFunction(f) = 0 /\ SumFunction(fs) = 0
  <2> HIDE DEF h, f, g, hs, fs, gs, S, all
  <2> QED BY <1>4, <1>5, <1>6, <1>7, <1>8
<1> QED BY <1>9 DEF CostOver, SizeOver

\* A run of the listener: the transactions it finalizes, apart from those before it.
LEMMA NewTxsAreSound ==
  ASSUME CostInv, NEW t \in NewlyFinal, NEW u \in NewlyFinal,
         chargedTxs' = chargedTxs \union {t, u}, finalizedTxs' = finalizedTxs \union {t, u},
         UNCHANGED storedFragments
  PROVE  /\ IsFiniteSet({t, u}) /\ \A n \in {t, u} : SoundTx(n)
         /\ chargedTxs \intersect {t, u} = {}
         /\ \A n \in {t, u} : n.fragments \subseteq storedFragments
         /\ \A n \in {t, u}, o \in chargedTxs : o.da_block_height < n.da_block_height
         /\ Delivered' = Delivered \union t.fragments \union u.fragments
         /\ TxsAreSound'
<1>1. IsFiniteSet(chargedTxs) /\ \A o \in chargedTxs : SoundTx(o)
  BY DEF CostInv, TxsAreSound
<1>2. Tip(chargedTxs) \in Nat /\ \A o \in chargedTxs : o.da_block_height <= Tip(chargedTxs)
  BY <1>1, TipIsGreatest DEF SoundTx
<1>3. ASSUME NEW n \in NewlyFinal
      PROVE  /\ SoundTx(n) /\ n.fragments \subseteq storedFragments
             /\ \A o \in chargedTxs : o.da_block_height < n.da_block_height
  <2>1. /\ n.fragments \in UNION {kSubset(k, storedFragments \ Delivered) : k \in 1..MaxPerTx}
        /\ n.total_fee \in TotalFees /\ n.da_block_height \in Tip(chargedTxs) + 1 .. Tip(chargedTxs) + 2
    BY DEF NewlyFinal
  <2>2. PICK k \in 1..MaxPerTx : n.fragments \in kSubset(k, storedFragments \ Delivered)
    BY <2>1
  <2>3. n.fragments \in SUBSET storedFragments /\ Cardinality(n.fragments) = k
    BY <2>2 DEF kSubset
  <2>4. n.fragments # {}
    BY <2>3, FS_EmptySet
  <2>5. n.total_fee \in Nat
    BY <2>1, CostAssumption
  <2>6. n.da_block_height \in Nat /\ Tip(chargedTxs) < n.da_block_height
    BY <1>2, <2>1
  <2>7. \A o \in chargedTxs : o.da_block_height < n.da_block_height
    BY <1>1, <1>2, <2>6 DEF SoundTx
  <2> QED BY <2>3, <2>4, <2>5, <2>6, <2>7 DEF SoundTx, CostInv, TablesAreSound
<1>4. IsFiniteSet({t, u})
  <2>1. IsFiniteSet({t}) /\ IsFiniteSet({u}) /\ {t, u} = {t} \union {u}
    BY FS_Singleton
  <2>2. IsFiniteSet({t} \union {u})
    BY <2>1, FS_Union
  <2> QED BY <2>1, <2>2
<1>5. chargedTxs \intersect {t, u} = {}
  <2>1. \A o \in chargedTxs : o.da_block_height \in Nat
    BY <1>1 DEF SoundTx
  <2> QED BY <1>3, <2>1
<1>6. Delivered' = Delivered \union t.fragments \union u.fragments
  BY DEF Delivered, FragmentsOf
<1>7. IsFiniteSet(chargedTxs') /\ \A n \in chargedTxs' : SoundTx(n)
  BY <1>1, <1>3, <1>4, FS_Union
<1>8. finalizedTxs' \subseteq chargedTxs' /\ Delivered' \subseteq storedFragments'
  BY <1>3, <1>6 DEF CostInv, TxsAreSound
<1>9. TxsAreSound'
  BY <1>7, <1>8 DEF TxsAreSound, SoundTx
<1> QED BY <1>3, <1>4, <1>5, <1>6, <1>9

\* A run of the listener keeps every row the sum of its contributions.  The flag of a
\* row that is final changes only if fragments are finalized again.
LEMMA RowsFollow ==
  ASSUME CostInv, FinalizeAndCharge
  PROVE  CostInv' /\ ReportedStays
<1>1. PICK t \in NewlyFinal, u \in NewlyFinal :
        /\ finalizedTxs' = finalizedTxs \union {t, u}
        /\ chargedTxs' = chargedTxs \union {t, u}
        /\ LET updates == BundleUpdates({t, u})
           IN  bundleCost' = [b \in DOMAIN bundleCost \union DOMAIN updates |->
                                IF b \in DOMAIN updates THEN UpdateBundleCost(b, updates[b], Delivered')
                                                        ELSE bundleCost[b]]
        /\ UNCHANGED <<inserted, storedFragments, prunedCost>>
  BY DEF FinalizeAndCharge
<1> DEFINE F == chargedTxs
           N == {t, u}
           all == F \union N
           updates == BundleUpdates(N)
           update(b) == [cost            |-> CostOver(Touching(N, b), b),
                         size            |-> SizeOver(Touching(N, b), b),
                         da_block_height |-> Tip(Touching(N, b))]
<1>2. /\ IsFiniteSet(F) /\ IsFiniteSet(N) /\ \A n \in all : SoundTx(n)
      /\ F \intersect N = {}
      /\ \A n \in N : n.fragments \subseteq storedFragments
      /\ \A n \in N, o \in F : o.da_block_height < n.da_block_height
      /\ Delivered' = Delivered \union t.fragments \union u.fragments
      /\ TxsAreSound'
  BY <1>1, NewTxsAreSound DEF CostInv, TxsAreSound
<1>3. /\ DOMAIN updates = {b \in Bundles : Touching(N, b) # {}}
      /\ \A b \in DOMAIN updates : updates[b] = update(b)
  BY DEF BundleUpdates, Touching, CostOver, SizeOver
<1>4. /\ chargedTxs' = all
      /\ DOMAIN bundleCost' = DOMAIN bundleCost \union DOMAIN updates
      /\ \A b \in DOMAIN updates : bundleCost'[b] = UpdateBundleCost(b, updates[b], Delivered')
      /\ \A b \in DOMAIN bundleCost \ DOMAIN updates : bundleCost'[b] = bundleCost[b]
  <2> HIDE DEF updates
  <2> QED BY <1>1 DEF updates
<1>10. DOMAIN updates \subseteq Stored /\ DOMAIN prunedCost \intersect Stored = {} /\ DOMAIN bundleCost \subseteq Stored
  <2>1. ASSUME NEW b \in DOMAIN updates PROVE b \in Stored
    <3>1. PICK n \in N : Of(n, b) # {}
      BY <1>3, <2>1 DEF Touching
    <3>2. PICK f \in n.fragments : Fragments[f].bundle = b
      BY <3>1 DEF Of
    <3> QED BY <1>2, <3>2 DEF Stored, BundlesOf
  <2> HIDE DEF updates
  <2> QED BY <2>1 DEF CostInv, TablesAreSound
<1>11. /\ DOMAIN Ledger' = DOMAIN Ledger \union DOMAIN updates
       /\ \A b \in DOMAIN updates : /\ Ledger'[b] = UpdateBundleCost(b, updates[b], Delivered')
                                    /\ b \in DOMAIN Ledger <=> b \in DOMAIN bundleCost
       /\ \A b \in DOMAIN Ledger \ DOMAIN updates : Ledger'[b] = Ledger[b]
       /\ \A b \in DOMAIN bundleCost : Ledger[b] = bundleCost[b]
  <2>1. /\ DOMAIN Ledger = DOMAIN bundleCost \union DOMAIN prunedCost
        /\ \A b \in DOMAIN bundleCost : Ledger[b] = bundleCost[b]
        /\ \A b \in DOMAIN prunedCost \ DOMAIN bundleCost : Ledger[b] = prunedCost[b]
    BY RowsOfBoth DEF Ledger
  <2>2. /\ DOMAIN Ledger' = DOMAIN bundleCost' \union DOMAIN prunedCost
        /\ \A b \in DOMAIN bundleCost' : Ledger'[b] = bundleCost'[b]
        /\ \A b \in DOMAIN prunedCost \ DOMAIN bundleCost' : Ledger'[b] = prunedCost[b]
    <3>1. Ledger' = BothRows(bundleCost', prunedCost') /\ prunedCost' = prunedCost
      BY <1>1 DEF Ledger
    <3> QED BY <3>1 DEF BothRows
  <2> HIDE DEF updates
  <2> QED BY <1>4, <1>10, <2>1, <2>2
<1>5. \A b : Touching(all, b) = Touching(F, b) \union Touching(N, b)
  BY DEF Touching
<1>6. DOMAIN Ledger = {b \in Bundles : Touching(F, b) # {}}
  BY DEF CostInv, RowsAreSums
<1>7. DOMAIN Ledger' = {b \in Bundles : Touching(chargedTxs', b) # {}}
  <2> HIDE DEF all, updates
  <2> QED BY <1>3, <1>4, <1>5, <1>6, <1>11
<1>8. ASSUME NEW b \in DOMAIN Ledger'
      PROVE  /\ Ledger'[b].cost = CostOver(all, b)
             /\ Ledger'[b].size = SizeOver(all, b)
             /\ Ledger'[b].da_block_height = Tip(Touching(all, b))
             /\ Ledger'[b].is_finalized \in BOOLEAN
  <2> DEFINE C(txs) == CostOver(txs, b)
             Z(txs) == SizeOver(txs, b)
             TN == Touching(N, b)
             TF == Touching(F, b)
  <2>1. /\ C(all) = C(F) + C(TN) /\ Z(all) = Z(F) + Z(TN)
        /\ C(F) \in Nat /\ Z(F) \in Nat
        /\ TN = {} => C(TN) = 0 /\ Z(TN) = 0
        /\ TF = {} => C(F) = 0 /\ Z(F) = 0
    <3>1. OldAndNew(F, N)
      BY <1>2 DEF OldAndNew
    <3> HIDE DEF N
    <3> QED BY <3>1, ContributionsExtend
  <2>2. b \in DOMAIN Ledger =>
          /\ Ledger[b].cost = C(F) /\ Ledger[b].size = Z(F)
          /\ Ledger[b].da_block_height = Tip(TF)
          /\ Ledger[b].is_finalized \in BOOLEAN
    BY DEF CostInv, RowsAreSums
  <2>3. /\ IsFiniteSet(TF) /\ IsFiniteSet(TN)
        /\ \A n \in TF \union TN : n.da_block_height \in Nat
        /\ \A o \in TF, n \in TN : o.da_block_height < n.da_block_height
    <3>1. TF \in SUBSET F /\ TN \in SUBSET N
      BY DEF Touching
    <3> HIDE DEF TF, TN, N
    <3> QED BY <1>2, <3>1, FS_Subset DEF SoundTx
  <2>4. CASE b \in DOMAIN updates
    <3>1. TN # {}
      BY <1>3, <2>4
    <3>2. Ledger'[b] = UpdateBundleCost(b, update(b), Delivered')
      <4> HIDE DEF updates, update
      <4> QED BY <1>3, <1>11, <2>4
    <3>3. /\ update(b).cost = C(TN) /\ update(b).size = Z(TN) /\ update(b).da_block_height = Tip(TN)
      OBVIOUS
    <3>4. Ledger'[b].da_block_height = Tip(TN) /\ Ledger'[b].is_finalized \in BOOLEAN
      <4> DEFINE final == \A f \in storedFragments : Fragments[f].bundle = b => f \in Delivered'
      <4>1. Ledger'[b].is_finalized = final /\ final \in BOOLEAN
        <5> DEFINE new == UpdateBundleCost(b, update(b), Delivered')
        <5>1. new.is_finalized = final /\ final \in BOOLEAN
          BY DEF UpdateBundleCost
        <5>2. Ledger'[b] = new
          BY <3>2
        <5> HIDE DEF final, new
        <5> QED BY <5>1, <5>2
      <4>2. Ledger'[b].da_block_height = Tip(TN)
        <5> HIDE DEF update, TN
        <5> QED BY <3>2, <3>3 DEF UpdateBundleCost
      <4> QED BY <4>1, <4>2
    <3>5. Ledger'[b].cost = C(F) + C(TN) /\ Ledger'[b].size = Z(F) + Z(TN)
      <4>1. CASE b \in DOMAIN bundleCost
        <5>1. Ledger[b] = bundleCost[b] /\ b \in DOMAIN Ledger
          <6> HIDE DEF updates
          <6> QED BY <1>11, <2>4, <4>1
        <5> HIDE DEF update, C, Z, TN
        <5> QED BY <2>2, <3>2, <3>3, <4>1, <5>1 DEF UpdateBundleCost
      <4>2. CASE b \notin DOMAIN bundleCost
        <5>1. C(F) = 0 /\ Z(F) = 0
          <6>1. b \in Bundles
            BY <1>7
          <6>2. b \notin DOMAIN Ledger
            <7> HIDE DEF updates
            <7> QED BY <1>11, <2>4, <4>2
          <6>3. TF = {}
            BY <1>6, <6>1, <6>2
          <6> QED BY <2>1, <6>3
        <5> HIDE DEF update, C, Z, TN
        <5> QED BY <3>2, <3>3, <4>2, <5>1 DEF UpdateBundleCost
      <4> QED BY <4>1, <4>2
    <3>6. Tip(Touching(all, b)) = Tip(TN)
      <4>1. Tip(TF \union TN) = Tip(TN)
        <5> HIDE DEF TF, TN
        <5> QED BY <2>3, <3>1, TipMoves
      <4> HIDE DEF all
      <4> QED BY <1>5, <4>1
    <3>7. Ledger'[b].cost = C(all) /\ Ledger'[b].size = Z(all)
      <4> HIDE DEF C, Z, all, TN
      <4> QED BY <2>1, <3>5
    <3> HIDE DEF C, Z, all, TN
    <3> QED BY <3>4, <3>6, <3>7 DEF C, Z
  <2>5. CASE b \notin DOMAIN updates
    <3>1. b \in DOMAIN Ledger /\ Ledger'[b] = Ledger[b]
      <4> HIDE DEF updates
      <4> QED BY <1>11, <2>5
    <3>2. TN = {}
      <4>1. b \in Bundles
        BY <1>7
      <4> QED BY <1>3, <2>5, <4>1
    <3>3. Touching(all, b) = TF
      <4> HIDE DEF all
      <4> QED BY <1>5, <3>2
    <3>4. Ledger[b].cost = C(all) /\ Ledger[b].size = Z(all)
      <4> HIDE DEF C, Z, all, TN
      <4> QED BY <2>1, <2>2, <3>1, <3>2
    <3>5. /\ Ledger'[b].cost = C(all) /\ Ledger'[b].size = Z(all)
          /\ Ledger'[b].da_block_height = Tip(Touching(all, b))
      <4> HIDE DEF C, Z, all
      <4> QED BY <2>2, <3>1, <3>3, <3>4
    <3> HIDE DEF all
    <3> QED BY <2>2, <3>1, <3>5
  <2> QED BY <2>4, <2>5
<1>9. RowsAreSums'
  <2> HIDE DEF all
  <2> QED BY <1>4, <1>7, <1>8 DEF RowsAreSums, CostOver, SizeOver, CostContribution, SizeContribution, UsedBytes, Of, Tip
<1>12. TablesAreSound'
  <2>1. DOMAIN bundleCost' \subseteq Stored
    <3> HIDE DEF updates
    <3> QED BY <1>4, <1>10
  <2> QED BY <1>1, <2>1 DEF CostInv, TablesAreSound, Stored
<1>13. FinalityIsExact'
  <2>1. SUFFICES ASSUME NEW b \in DOMAIN bundleCost'
                 PROVE  LET fragments == {f \in DOMAIN Fragments : Fragments[f].bundle = b}
                        IN  /\ fragments \subseteq Delivered' => bundleCost'[b].is_finalized
                            /\ bundleCost'[b].is_finalized =>
                                 fragments \cap storedFragments \subseteq FragmentsOf(chargedTxs')
    BY <1>1 DEF FinalityIsExact, FragmentsOf
  <2>2. FragmentsOf(chargedTxs) \subseteq FragmentsOf(chargedTxs') /\ Delivered' \subseteq FragmentsOf(chargedTxs')
    <3> HIDE DEF all
    <3> QED BY <1>1, <1>2 DEF FragmentsOf, Delivered, TxsAreSound
  <2>3. storedFragments \subseteq DOMAIN Fragments
    BY DEF CostInv, TablesAreSound
  <2>4. CASE b \in DOMAIN updates
    <3>1. bundleCost'[b].is_finalized = \A f \in storedFragments : Fragments[f].bundle = b => f \in Delivered'
      <4> HIDE DEF updates
      <4>1. bundleCost'[b] = UpdateBundleCost(b, updates[b], Delivered')
        BY <1>4, <2>4
      <4> DEFINE final == \A f \in storedFragments : Fragments[f].bundle = b => f \in Delivered'
                 new == UpdateBundleCost(b, updates[b], Delivered')
      <4>2. new.is_finalized = final
        BY DEF UpdateBundleCost
      <4> HIDE DEF final, new
      <4>3. bundleCost'[b].is_finalized = final
        BY <4>1, <4>2 DEF new
      <4> QED BY <4>3 DEF final
    <3> QED BY <2>2, <2>3, <3>1
  <2>5. CASE b \notin DOMAIN updates
    <3>1. b \in DOMAIN bundleCost /\ bundleCost'[b] = bundleCost[b] /\ b \in Bundles
      <4> HIDE DEF updates
      <4> QED BY <1>4, <2>5 DEF CostInv, TablesAreSound
    <3>2. \A n \in N : Of(n, b) = {}
      <4> HIDE DEF updates
      <4> QED BY <1>3, <2>5, <3>1 DEF Touching
    <3>3. \A f \in t.fragments \union u.fragments : Fragments[f].bundle # b
      BY <3>2 DEF Of
    <3>4. \A f \in DOMAIN Fragments : Fragments[f].bundle = b => (f \in Delivered' => f \in Delivered)
      BY <1>2, <3>3
    <3> QED BY <2>2, <3>1, <3>4 DEF CostInv, FinalityIsExact
  <2> QED BY <2>4, <2>5
<1>14. ReportedStays
  <2>1. SUFFICES ASSUME NEW b \in Finalized
                 PROVE  \/ b \in DOMAIN bundleCost' /\ bundleCost'[b] = bundleCost[b]
                        \/ \E n \in chargedTxs' \ chargedTxs : Of(n, b) \cap FragmentsOf(chargedTxs) # {}
    BY DEF ReportedStays
  <2>2. b \in DOMAIN bundleCost /\ bundleCost[b].is_finalized
    BY DEF Finalized
  <2>3. CASE b \notin DOMAIN updates
    <3> HIDE DEF updates
    <3> QED BY <1>4, <2>2, <2>3
  <2>4. CASE b \in DOMAIN updates
    <3>1. PICK n \in N : Of(n, b) # {}
      BY <1>3, <2>4 DEF Touching
    <3>2. n \in chargedTxs' \ chargedTxs /\ Of(n, b) \subseteq storedFragments
      BY <1>2, <1>4 DEF Of
    <3>3. storedFragments \subseteq DOMAIN Fragments
      BY DEF CostInv, TablesAreSound
    <3>4. \A f \in Of(n, b) : f \in FragmentsOf(chargedTxs)
      BY <2>2, <3>2, <3>3 DEF CostInv, FinalityIsExact, Of
    <3> QED BY <3>1, <3>2, <3>4
  <2> QED BY <2>3, <2>4
<1> QED BY <1>2, <1>9, <1>12, <1>13, <1>14 DEF CostInv

\* A new bundle has no rows yet.
LEMMA InsertKeepsRows ==
  ASSUME CostInv, NEW b \in Bundles, InsertBundleAndFragments(b)
  PROVE  CostInv' /\ ReportedStays
<1> DEFINE new == {f \in DOMAIN Fragments : Fragments[f].bundle = b}
<1>1. /\ \A c \in inserted : c < b
      /\ \A c \in Stored : Precedes(b, c) \/ Precedes(c, b)
      /\ inserted' = inserted \union {b} /\ storedFragments' = storedFragments \union new
      /\ UNCHANGED <<finalizedTxs, chargedTxs, bundleCost, prunedCost>>
  BY DEF InsertBundleAndFragments
<1>2. b \notin inserted
  BY <1>1, BundlesAreFinite DEF CostInv, TablesAreSound
<1>3. Stored' = Stored \union {b}
  <2>1. \E f \in DOMAIN Fragments : Fragments[f].bundle = b
    BY DEF Bundles
  <2> QED BY <1>1, <2>1 DEF Stored, BundlesOf
<1>4. TxsAreSound'
  BY <1>1 DEF CostInv, TxsAreSound, Delivered, FragmentsOf, SoundTx
<1>5. TablesAreSound'
  BY <1>1, <1>2, <1>3 DEF CostInv, TablesAreSound
<1>6. RowsAreSums'
  BY <1>1 DEF CostInv, RowsAreSums, Ledger, Touching, Of, CostOver, SizeOver, CostContribution,
              SizeContribution, UsedBytes, Tip
<1>7. FinalityIsExact'
  <2>1. \A c \in DOMAIN bundleCost : c # b
    BY <1>2 DEF CostInv, TablesAreSound
  <2>2. Delivered' = Delivered /\ FragmentsOf(chargedTxs') = FragmentsOf(chargedTxs)
    BY <1>1 DEF Delivered, FragmentsOf
  <2>3. \A c \in DOMAIN bundleCost :
          LET fragments == {f \in DOMAIN Fragments : Fragments[f].bundle = c}
          IN  fragments \cap storedFragments' = fragments \cap storedFragments
    BY <1>1, <2>1
  <2> QED BY <1>1, <2>2, <2>3 DEF CostInv, FinalityIsExact, FragmentsOf
<1>8. ReportedStays
  BY <1>1 DEF ReportedStays, Finalized
<1> QED BY <1>4, <1>5, <1>6, <1>7, <1>8 DEF CostInv

\* The pruner moves rows out of the table with the last fragment of their bundle.
LEMMA PruneKeepsRows ==
  ASSUME CostInv, NEW date, NEW kept \in SUBSET finalizedTxs, NEW unsent \in SUBSET (storedFragments \ Delivered),
         PruneEntriesOlderThan(date, kept, unsent)
  PROVE  CostInv' /\ ReportedStays
<1> DEFINE old == {t \in finalizedTxs : t.da_block_height <= date}
           freed == (FragmentsOf(old) \ FragmentsOf(finalizedTxs \ old)) \ FragmentsOf(kept)
           remaining == (storedFragments \ freed) \ unsent
           gone == DOMAIN bundleCost \ BundlesOf(remaining)
<1>1. /\ finalizedTxs' = finalizedTxs \ old /\ storedFragments' = remaining
      /\ bundleCost' = [b \in DOMAIN bundleCost \ gone |-> bundleCost[b]]
      /\ prunedCost' = BothRows(prunedCost, [b \in gone |-> bundleCost[b]])
      /\ UNCHANGED <<inserted, chargedTxs>>
  BY DEF PruneEntriesOlderThan
<1>2. /\ remaining \subseteq storedFragments /\ BundlesOf(remaining) \subseteq Stored
      /\ Stored' = BundlesOf(remaining) /\ Delivered' = FragmentsOf(finalizedTxs \ old)
      /\ Delivered' \subseteq Delivered
  BY <1>1 DEF Stored, BundlesOf, Delivered, FragmentsOf
<1>3. Delivered' \subseteq remaining
  BY <1>2 DEF CostInv, TxsAreSound
<1>4. /\ DOMAIN bundleCost' = DOMAIN bundleCost \ gone
      /\ \A b \in DOMAIN bundleCost \ gone : bundleCost'[b] = bundleCost[b]
      /\ DOMAIN bundleCost' \subseteq Stored'
  <2>1. /\ DOMAIN bundleCost' = DOMAIN bundleCost \ gone
        /\ \A b \in DOMAIN bundleCost \ gone : bundleCost'[b] = bundleCost[b]
    <3> HIDE DEF gone
    <3> QED BY <1>1
  <2> QED BY <1>2, <2>1
<1>5. /\ DOMAIN prunedCost' = DOMAIN prunedCost \union gone
      /\ \A b \in DOMAIN prunedCost : prunedCost'[b] = prunedCost[b]
      /\ \A b \in gone \ DOMAIN prunedCost : prunedCost'[b] = bundleCost[b]
  <2> DEFINE rest == [b \in gone |-> bundleCost[b]]
  <2>1. DOMAIN rest = gone /\ \A b \in gone : rest[b] = bundleCost[b]
    OBVIOUS
  <2>2. prunedCost' = BothRows(prunedCost, rest)
    BY <1>1
  <2> HIDE DEF rest, gone
  <2>3. /\ DOMAIN prunedCost' = DOMAIN prunedCost \union DOMAIN rest
        /\ \A b \in DOMAIN prunedCost : prunedCost'[b] = prunedCost[b]
        /\ \A b \in DOMAIN rest \ DOMAIN prunedCost : prunedCost'[b] = rest[b]
    BY <2>2 DEF BothRows
  <2> QED BY <2>1, <2>3
<1> HIDE DEF old, freed, remaining
<1>6. TxsAreSound'
  BY <1>1, <1>3 DEF CostInv, TxsAreSound, SoundTx
<1>7. TablesAreSound'
  <2>1. gone \subseteq inserted \ Stored'
    BY <1>2 DEF CostInv, TablesAreSound
  <2> HIDE DEF gone
  <2> QED BY <1>1, <1>2, <1>4, <1>5, <2>1 DEF CostInv, TablesAreSound
<1>8. /\ DOMAIN Ledger' = DOMAIN Ledger
      /\ \A b \in DOMAIN Ledger : Ledger'[b] = Ledger[b]
  <2>1. /\ DOMAIN Ledger = DOMAIN bundleCost \union DOMAIN prunedCost
        /\ \A b \in DOMAIN bundleCost : Ledger[b] = bundleCost[b]
        /\ \A b \in DOMAIN prunedCost \ DOMAIN bundleCost : Ledger[b] = prunedCost[b]
    BY RowsOfBoth DEF Ledger
  <2>2. /\ DOMAIN Ledger' = DOMAIN bundleCost' \union DOMAIN prunedCost'
        /\ \A b \in DOMAIN bundleCost' : Ledger'[b] = bundleCost'[b]
        /\ \A b \in DOMAIN prunedCost' \ DOMAIN bundleCost' : Ledger'[b] = prunedCost'[b]
    BY RowsOfBoth DEF Ledger
  <2>3. gone \subseteq DOMAIN bundleCost /\ DOMAIN bundleCost \intersect DOMAIN prunedCost = {}
    BY DEF CostInv, TablesAreSound
  <2> HIDE DEF gone
  <2> QED BY <1>4, <1>5, <2>1, <2>2, <2>3
<1>9. RowsAreSums'
  BY <1>1, <1>8 DEF CostInv, RowsAreSums, Touching, Of, CostOver, SizeOver, CostContribution,
                    SizeContribution, UsedBytes, Tip
<1>10. FinalityIsExact'
  <2>1. FragmentsOf(chargedTxs') = FragmentsOf(chargedTxs)
    BY <1>1 DEF FragmentsOf
  <2> HIDE DEF gone
  <2> QED BY <1>1, <1>2, <1>4, <2>1 DEF CostInv, FinalityIsExact, FragmentsOf
<1>11. ReportedStays
  <2>1. ASSUME NEW b \in Finalized
        PROVE  b \in Stored' => b \in DOMAIN bundleCost' /\ bundleCost'[b] = bundleCost[b]
    BY <1>2, <1>4 DEF Finalized
  <2> QED BY <2>1 DEF ReportedStays
<1> QED BY <1>6, <1>7, <1>9, <1>10, <1>11 DEF CostInv

\* What the rows say is exact.
LEMMA RowsAreExactlySums == ASSUME CostInv PROVE RowsAreExact
<1>1. SUFFICES ASSUME NEW b \in DOMAIN Ledger
      PROVE  /\ Ledger[b].size = SumFunction([t \in Touching(chargedTxs, b) |-> UsedBytes(Of(t, b))])
             /\ Ledger[b].da_block_height = Tip(Touching(chargedTxs, b))
  BY DEF RowsAreExact, Touching
<1> DEFINE F == chargedTxs
           S == Touching(F, b)
           all == [t \in F |-> SizeContribution(t, b)]
           some == [t \in S |-> UsedBytes(Of(t, b))]
<1>2. Ledger[b].size = SumFunctionOnSet(all, F) /\ Ledger[b].da_block_height = Tip(S)
  BY DEF CostInv, RowsAreSums, SizeOver, SumFunction
<1>3. S \in SUBSET F /\ IsFiniteSet(F) /\ \A t \in F : SoundTx(t) /\ (t \notin S => Of(t, b) = {})
  BY DEF Touching, CostInv, TxsAreSound
<1>4. \A t \in F : all[t] = SizeContribution(t, b) /\ all[t] \in Nat /\ (t \notin S => all[t] = 0)
  <2>1. \A t \in F : all[t] = SizeContribution(t, b)
    OBVIOUS
  <2> HIDE DEF all, S
  <2> QED BY <1>3, <2>1, ContributionTypes
<1>5. \A t \in S : all[t] = some[t]
  <2>1. \A t \in S : some[t] = UsedBytes(Of(t, b))
    OBVIOUS
  <2> HIDE DEF all, some, S
  <2> QED BY <1>3, <1>4, <2>1 DEF SizeContribution
<1>6. Summable(all, F) /\ Summable(all, S)
  <2> HIDE DEF all, S
  <2> QED BY <1>3, <1>4, FS_Subset DEF Summable
<1>7. SumFunctionOnSet(all, F) = SumFunctionOnSet(some, S)
  <2>1. SumFunctionOnSet(all, F) = SumFunctionOnSet(all, S)
    <3> HIDE DEF all, S
    <3> QED BY <1>3, <1>4, <1>6, SumOfSupport
  <2>2. SumFunctionOnSet(all, S) = SumFunctionOnSet(some, S)
    <3> HIDE DEF all, some, S
    <3> QED BY <1>5, <1>6, SumOfSame
  <2> QED BY <2>1, <2>2
<1>8. SumFunction(some) = SumFunctionOnSet(some, S)
  BY DEF SumFunction
<1> QED BY <1>2, <1>7, <1>8

\* Each row is the sum of what the transactions ever finalized contribute to
\* its bundle, and is in the table while a fragment of the bundle is
\* (process_cost_updates, update_bundle_cost and the pruner's DELETEs).
THEOREM CostInvariance == CostSpec => []CostInv
<1>1. CostInit => CostInv
  <2> SUFFICES ASSUME CostInit PROVE CostInv
    OBVIOUS
  <2>1. DOMAIN bundleCost = {} /\ DOMAIN prunedCost = {} /\ DOMAIN Ledger = {} /\ Stored = {} /\ Delivered = {}
    <3>1. DOMAIN bundleCost = {} /\ DOMAIN prunedCost = {} /\ Stored = {} /\ Delivered = {}
      BY DEF CostInit, Stored, BundlesOf, Delivered, FragmentsOf
    <3>2. DOMAIN Ledger = DOMAIN bundleCost \union DOMAIN prunedCost
      BY RowsOfBoth DEF Ledger
    <3> QED BY <3>1, <3>2
  <2>2. TxsAreSound
    BY <2>1, FS_EmptySet DEF CostInit, TxsAreSound
  <2>3. TablesAreSound
    BY <2>1 DEF CostInit, TablesAreSound
  <2>4. RowsAreSums
    BY <2>1 DEF CostInit, RowsAreSums, Touching
  <2>5. FinalityIsExact
    BY <2>1 DEF FinalityIsExact
  <2> QED BY <2>2, <2>3, <2>4, <2>5 DEF CostInv
<1>2. CostInv /\ [CostNext]_costVars => CostInv'
  <2> SUFFICES ASSUME CostInv, [CostNext]_costVars PROVE CostInv'
    OBVIOUS
  <2>1. CASE CostNext
    BY <2>1, RowsFollow, InsertKeepsRows, PruneKeepsRows DEF CostNext
  <2>2. CASE UNCHANGED costVars
    <3>1. UNCHANGED <<inserted, storedFragments, finalizedTxs, chargedTxs, bundleCost, prunedCost>>
      BY <2>2 DEF costVars
    <3>2. TxsAreSound' /\ TablesAreSound'
      BY <3>1 DEF CostInv, TxsAreSound, TablesAreSound, SoundTx, Delivered, FragmentsOf, Stored, BundlesOf
    <3>3. RowsAreSums'
      BY <3>1 DEF CostInv, RowsAreSums, Ledger, Touching, Of, CostOver, SizeOver, CostContribution,
                  SizeContribution, UsedBytes, Tip
    <3>4. FinalityIsExact'
      BY <3>1 DEF CostInv, FinalityIsExact, Delivered, FragmentsOf
    <3> QED BY <3>2, <3>3, <3>4 DEF CostInv
  <2> QED BY <2>1, <2>2
<1> QED BY <1>1, <1>2, PTL DEF CostSpec

\* A row has the columns of bundle_cost.
HasColumns(r) ==
  r = [cost |-> r.cost, size |-> r.size, da_block_height |-> r.da_block_height, is_finalized |-> r.is_finalized]

CostShape ==
  /\ \A b \in DOMAIN bundleCost : HasColumns(bundleCost[b])
  /\ \A b \in DOMAIN prunedCost : HasColumns(prunedCost[b])

\* The columns of a row hold what the table was made for.
LEMMA RowTypes ==
  ASSUME CostInv, NEW b \in DOMAIN Ledger, HasColumns(Ledger[b])
  PROVE  Ledger[b] \in CostRow
<1> DEFINE r == Ledger[b]
           F == chargedTxs
           C == [t \in F |-> CostContribution(t, b)]
           Z == [t \in F |-> SizeContribution(t, b)]
<1>1. IsFiniteSet(F) /\ \A t \in F : SoundTx(t)
  BY DEF CostInv, TxsAreSound
<1>2. r.cost = SumFunction(C) /\ r.size = SumFunction(Z) /\ r.da_block_height = Tip(Touching(F, b)) /\ r.is_finalized \in BOOLEAN
  BY DEF CostInv, RowsAreSums, CostOver, SizeOver
<1>3. SumFunction(C) \in Nat /\ SumFunction(Z) \in Nat
  <2>1. \A t \in F : C[t] = CostContribution(t, b) /\ Z[t] = SizeContribution(t, b)
    OBVIOUS
  <2>2. SumFunction(C) = SumFunctionOnSet(C, F) /\ SumFunction(Z) = SumFunctionOnSet(Z, F)
    BY DEF SumFunction
  <2> HIDE DEF C, Z
  <2>3. Summable(C, F) /\ Summable(Z, F)
    BY <1>1, <2>1, ContributionTypes DEF Summable
  <2> QED BY <2>2, <2>3, SumType
<1>4. Tip(Touching(F, b)) \in Nat
  <2>1. IsFiniteSet(Touching(F, b))
    BY <1>1, FS_Subset DEF Touching
  <2>2. \A t \in Touching(F, b) : t.da_block_height \in Nat
    BY <1>1 DEF Touching, SoundTx
  <2> QED BY <2>1, <2>2, TipIsGreatest
<1>5. r.cost \in Nat /\ r.size \in Nat /\ r.da_block_height \in Nat /\ r.is_finalized \in BOOLEAN
  BY <1>2, <1>3, <1>4
<1>6. HasColumns(r)
  OBVIOUS
<1> HIDE DEF r
<1>7. r \in CostRow
  BY <1>5, <1>6 DEF HasColumns, CostRow
<1> QED BY <1>7 DEF r

\* The listener writes rows with all columns, and the pruner moves rows.
LEMMA StepsKeepShape ==
  ASSUME CostInv, CostShape, CostNext
  PROVE  CostShape'
<1>1. CASE FinalizeAndCharge
  <2>1. PICK t \in NewlyFinal, u \in NewlyFinal :
          /\ bundleCost' = [b \in DOMAIN bundleCost \union DOMAIN BundleUpdates({t, u}) |->
                              IF b \in DOMAIN BundleUpdates({t, u})
                                THEN UpdateBundleCost(b, BundleUpdates({t, u})[b], Delivered') ELSE bundleCost[b]]
          /\ prunedCost' = prunedCost
    BY <1>1, Zenon DEF FinalizeAndCharge
  <2> DEFINE updates == BundleUpdates({t, u})
  <2> HIDE DEF updates
  <2>2. ASSUME NEW b \in DOMAIN bundleCost' PROVE HasColumns(bundleCost'[b])
    <3>1. CASE b \in DOMAIN updates
      <4>1. bundleCost'[b] = UpdateBundleCost(b, updates[b], Delivered')
        BY <2>1, <2>2, <3>1 DEF updates
      <4> QED BY <4>1 DEF UpdateBundleCost, HasColumns
    <3>2. CASE b \notin DOMAIN updates
      <4>1. b \in DOMAIN bundleCost /\ bundleCost'[b] = bundleCost[b]
        BY <2>1, <2>2, <3>2 DEF updates
      <4> QED BY <4>1 DEF CostShape
    <3> QED BY <3>1, <3>2
  <2> QED BY <2>1, <2>2 DEF CostShape
<1>2. ASSUME NEW b \in Bundles, InsertBundleAndFragments(b) PROVE CostShape'
  BY <1>2 DEF InsertBundleAndFragments, CostShape
<1>3. ASSUME NEW date, NEW kept \in SUBSET finalizedTxs, NEW unsent \in SUBSET (storedFragments \ Delivered),
             PruneEntriesOlderThan(date, kept, unsent)
      PROVE  CostShape'
  <2>1. PICK gone \in SUBSET DOMAIN bundleCost :
          /\ bundleCost' = [b \in DOMAIN bundleCost \ gone |-> bundleCost[b]]
          /\ prunedCost' = BothRows(prunedCost, [b \in gone |-> bundleCost[b]])
    BY <1>3 DEF PruneEntriesOlderThan
  <2> DEFINE rest == [b \in gone |-> bundleCost[b]]
  <2>2. DOMAIN rest = gone /\ \A b \in gone : rest[b] = bundleCost[b]
    OBVIOUS
  <2>3. prunedCost' = BothRows(prunedCost, rest)
    BY <2>1
  <2> HIDE DEF rest
  <2>4. /\ DOMAIN prunedCost' = DOMAIN prunedCost \union DOMAIN rest
        /\ \A b \in DOMAIN prunedCost : prunedCost'[b] = prunedCost[b]
        /\ \A b \in DOMAIN rest \ DOMAIN prunedCost : prunedCost'[b] = rest[b]
    BY <2>3 DEF BothRows
  <2>5. \A b \in DOMAIN prunedCost' : HasColumns(prunedCost'[b])
    BY <2>2, <2>4 DEF CostShape
  <2>6. \A b \in DOMAIN bundleCost' : HasColumns(bundleCost'[b])
    BY <2>1 DEF CostShape
  <2> QED BY <2>5, <2>6 DEF CostShape
<1> QED BY <1>1, <1>2, <1>3 DEF CostNext

\* The rows of bundle_cost, the pruned ones included, have their types, and are
\* there for bundles that are, or were.
THEOREM CostTypes == CostSpec => []CostTypeOK
<1>1. CostInit => CostShape
  BY DEF CostInit, CostShape
<1>2. ASSUME CostInv, CostShape, [CostNext]_costVars PROVE CostShape'
  <2>1. CASE UNCHANGED costVars
    BY <1>2, <2>1 DEF costVars, CostShape
  <2> QED BY <1>2, <2>1, StepsKeepShape
<1>3. ASSUME CostInv, CostShape PROVE CostTypeOK
  <2>1. /\ DOMAIN Ledger = DOMAIN bundleCost \union DOMAIN prunedCost
        /\ \A b \in DOMAIN bundleCost : Ledger[b] = bundleCost[b]
        /\ \A b \in DOMAIN prunedCost \ DOMAIN bundleCost : Ledger[b] = prunedCost[b]
    BY RowsOfBoth DEF Ledger
  <2>2. DOMAIN bundleCost \intersect DOMAIN prunedCost = {}
    BY <1>3 DEF CostInv, TablesAreSound
  <2>3. /\ \A b \in DOMAIN bundleCost : bundleCost[b] \in CostRow
        /\ \A b \in DOMAIN prunedCost : prunedCost[b] \in CostRow
    BY <1>3, <2>1, <2>2, RowTypes DEF CostShape
  <2>4. FragmentsOf(chargedTxs) \subseteq DOMAIN Fragments /\ finalizedTxs \subseteq chargedTxs
    BY <1>3 DEF CostInv, TxsAreSound, SoundTx, FragmentsOf
  <2>5. /\ inserted \subseteq Bundles /\ storedFragments \subseteq DOMAIN Fragments
        /\ DOMAIN bundleCost \subseteq Stored /\ DOMAIN prunedCost \subseteq inserted
    BY <1>3 DEF CostInv, TablesAreSound
  <2> QED BY <2>3, <2>4, <2>5 DEF CostTypeOK
<1> QED BY <1>1, <1>2, <1>3, CostInvariance, PTL DEF CostSpec

\* The queries of the cost report leave nothing out: the heights of the bundles
\* in the table are disjoint, so the order of their starts is theirs.
LEMMA PagesLeaveNothingOut == ASSUME CostInv PROVE PagesAreComplete
<1> DEFINE Up == {p \in Stored \X Stored : Start(p[1]) < Start(p[2])}
           Down == {p \in Stored \X Stored : Start(p[1]) > Start(p[2])}
<1>1. /\ Stored \subseteq Bundles /\ Finalized \subseteq Stored
      /\ \A b, c \in Stored : b # c => Precedes(b, c) \/ Precedes(c, b)
  BY DEF CostInv, TablesAreSound, Finalized
<1>2. \A b \in Stored : Start(b) \in Nat /\ BundleHeights[b].end \in Nat /\ Start(b) <= BundleHeights[b].end
  BY <1>1, CostAssumption DEF Start
<1>3. \A b, c \in Stored : /\ Start(b) < Start(c) => Precedes(b, c)
                           /\ b # c => Start(b) < Start(c) \/ Start(c) < Start(b)
  BY <1>1, <1>2 DEF Precedes, Start
<1>4. \A S \in SUBSET Stored : IsFiniteSet(S) /\ StrictOrder(Up, S) /\ StrictOrder(Down, S)
  <2>1. SUFFICES ASSUME NEW S \in SUBSET Stored PROVE IsFiniteSet(S) /\ StrictOrder(Up, S) /\ StrictOrder(Down, S)
    OBVIOUS
  <2>2. IsFiniteSet(S)
    BY <1>1, BundlesAreFinite, FS_Subset
  <2>3. \A b, c \in S : /\ <<b, c>> \in Up <=> Start(b) < Start(c)
                        /\ <<b, c>> \in Down <=> Start(c) < Start(b)
    BY <1>2
  <2> HIDE DEF Up, Down
  <2> QED BY <1>2, <1>3, <2>2, <2>3 DEF StrictOrder
<1>5. \A S \in SUBSET Stored : \A most \in Nat \ {0} :
        FirstOf(most, S) = Leading(most, Up, S) /\ LastOf(most, S) = Leading(most, Down, S)
  <2>1. SUFFICES ASSUME NEW S \in SUBSET Stored, NEW most \in Nat \ {0}
                 PROVE  FirstOf(most, S) = Leading(most, Up, S) /\ LastOf(most, S) = Leading(most, Down, S)
    OBVIOUS
  <2>2. \A b \in S : /\ {c \in S : Start(c) < Start(b)} = Before(Up, S, b)
                     /\ {c \in S : Start(c) > Start(b)} = Before(Down, S, b)
    BY DEF Before
  <2> HIDE DEF Up, Down
  <2> QED BY <2>2 DEF FirstOf, LastOf, Leading
<1>6. ASSUME NEW S \in SUBSET Stored, NEW most \in Nat \ {0}
      PROVE  /\ \/ FirstOf(most, S) = S
                \/ /\ Cardinality(FirstOf(most, S)) = most
                   /\ \A b \in FirstOf(most, S), c \in S \ FirstOf(most, S) : Precedes(b, c)
             /\ \/ LastOf(most, S) = S
                \/ /\ Cardinality(LastOf(most, S)) = most
                   /\ \A b \in LastOf(most, S), c \in S \ LastOf(most, S) : Precedes(c, b)
  <2>1. \/ FirstOf(most, S) = S
        \/ Cardinality(FirstOf(most, S)) = most /\ \A b \in FirstOf(most, S), c \in S \ FirstOf(most, S) : <<b, c>> \in Up
    <3> HIDE DEF Up, Down
    <3> QED BY <1>4, <1>5, LeadingComeFirst
  <2>2. \/ LastOf(most, S) = S
        \/ Cardinality(LastOf(most, S)) = most /\ \A b \in LastOf(most, S), c \in S \ LastOf(most, S) : <<b, c>> \in Down
    <3> HIDE DEF Up, Down
    <3> QED BY <1>4, <1>5, LeadingComeFirst
  <2>3. \A b, c : (<<b, c>> \in Up => Precedes(b, c)) /\ (<<b, c>> \in Down => Precedes(c, b))
    <3>1. \A b, c : /\ <<b, c>> \in Up => b \in Stored /\ c \in Stored /\ Start(b) < Start(c)
                    /\ <<b, c>> \in Down => b \in Stored /\ c \in Stored /\ Start(c) < Start(b)
      BY <1>2
    <3> HIDE DEF Up, Down
    <3> QED BY <1>3, <3>1
  <2> HIDE DEF Up, Down
  <2> QED BY <2>1, <2>2, <2>3
<1> HIDE DEF Up, Down
<1>7. ASSUME NEW most \in 1..RequestLimit, NEW from
      PROVE  LET page == GetCosts(from, most)
                 asked == {b \in Finalized : BundleHeights[b].end >= from}
             IN  /\ page \subseteq asked
                 /\ page = asked \/ (Cardinality(page) = most /\ \A b \in page, c \in asked \ page : Precedes(b, c))
  <2> DEFINE S == {b \in Finalized : BundleHeights[b].end >= from}
  <2>1. most \in Nat \ {0} /\ ~(most > RequestLimit)
    BY CostAssumption
  <2>2. GetCosts(from, most) = FirstOf(most, S)
    BY <2>1 DEF GetCosts, FinalizedCosts
  <2>3. S \in SUBSET Stored
    BY <1>1
  <2>4. FirstOf(most, S) \subseteq S
    BY DEF FirstOf
  <2>5. SUFFICES /\ FirstOf(most, S) \subseteq S
                 /\ \/ FirstOf(most, S) = S
                    \/ /\ Cardinality(FirstOf(most, S)) = most
                       /\ \A b \in FirstOf(most, S), c \in S \ FirstOf(most, S) : Precedes(b, c)
    BY <2>2
  <2> HIDE DEF S
  <2> QED BY <1>6, <2>1, <2>3, <2>4
<1>8. ASSUME NEW most \in 1..RequestLimit
      PROVE  LET page == GetLatestCosts(most)
             IN  /\ page \subseteq Finalized
                 /\ page = Finalized \/ (Cardinality(page) = most /\ \A b \in page, c \in Finalized \ page : Precedes(c, b))
  <2>1. most \in Nat \ {0} /\ ~(most > RequestLimit)
    BY CostAssumption
  <2>2. GetLatestCosts(most) = LastOf(most, Finalized)
    BY <2>1 DEF GetLatestCosts, LatestCosts
  <2>3. LastOf(most, Finalized) \subseteq Finalized
    BY DEF LastOf
  <2> QED BY <1>1, <1>6, <2>1, <2>2, <2>3
<1> QED BY <1>7, <1>8 DEF PagesAreComplete

\* The fees paid are split among the bundles without charging more than was
\* paid and losing no more than the rounding, the rows are exact, the pages
\* of the report are complete, and a cost that was reported stays until the
\* pruner takes its bundle, unless a fragment already delivered is finalized
\* again (update_costs, prune_entries_older_than, _get_finalized_costs).
THEOREM CostsAreExact == CostSpec => CostsAddUp
<1>1. CostInv => AmountsAddUp /\ RowsAreExact /\ FinalityIsExact /\ PagesAreComplete
  BY AmountsFollow, RowsAreExactlySums, PagesLeaveNothingOut DEF CostInv
<1>2. CostInv /\ [CostNext]_costVars => [ReportedStays]_costVars
  BY RowsFollow, InsertKeepsRows, PruneKeepsRows DEF CostNext
<1> QED BY <1>1, <1>2, CostInvariance, PTL DEF CostSpec, CostsAddUp

-----------------------------------------------------------------------------
(* The rows.  A row is at any time what its table makes of one value, and  *)
(* each conversion has the conversion back as its inverse on such values.  *)

\* The values a table is given.
CommitTxs ==
  [id : Ids, nonce : Numbers, max_fee : Amounts, priority_fee : Amounts,
   state : {s \in States : s.kind # "IncludedInBlock"}]

BlobTxs ==
  [id : Ids, nonce : Numbers, max_fee : Amounts, priority_fee : Amounts, blob_fee : Amounts, state : States]

Submissions == [id : Ids, block_height : Numbers, completed : BOOLEAN]

FragmentValues ==
  [id : Ids, bundle_id : Ids, idx : {0, 1}, unused_bytes : Numbers, total_bytes : Numbers \ {0}]

BlockValues == [height : Numbers]

Charges == [id : Ids, cost : 0..DecimalMax, size : 0..I64Max, da_block_height : 0..U64Max]

Values ==
  CASE table = "l1_transaction"           -> CommitTxs
    [] table = "l1_blob_transaction"      -> BlobTxs
    [] table = "l1_fuel_block_submission" -> Submissions
    [] table = "l1_fragments"             -> FragmentValues
    [] table = "fuel_blocks"              -> BlockValues
    [] table = "bundle_cost"              -> Charges

\* What is stored of a value.
RowFor(w) ==
  CASE table = "l1_transaction"      -> CommitTxRow(w)
    [] table = "l1_blob_transaction" -> BlobTxRow(w)
    [] table = "bundle_cost"         -> [w EXCEPT !.cost = U128ToBigDecimal(@)]
    [] OTHER                         -> w

RowsInv ==
  /\ table \in Tables
  /\ refused = FALSE
  /\ \/ written = {} /\ row = NoRow
     \/ \E w \in Values : written = {w} /\ row = {RowFor(w)}

\* The powers of ten are what they are.
LEMMA PowersOfTen == TenTo[0] = 1 /\ \A k \in 0..TrailingZeros : TenTo[k] \in Nat \ {0}
<1> DEFINE g == TenTo
<1>1. g = CHOOSE f : f = PowersOf(f, 10, TrailingZeros)
  BY DEF TenTo, PowersOf
<1>2. 10 \in Nat \ {0} /\ TrailingZeros \in Nat
  BY RowsAssumption
<1> HIDE DEF g
<1>3. g[0] = 1 /\ \A k \in 0..TrailingZeros : g[k] \in Nat \ {0}
  BY <1>1, <1>2, Powers
<1> QED BY <1>3 DEF g

\* An amount is read back whichever form the database gives it.
LEMMA AmountsReadBack ==
  ASSUME NEW n \in 0..DecimalMax
  PROVE  AmountRead(U128ToBigDecimal(n)) = {n}
<1> DEFINE d == U128ToBigDecimal(n)
<1>1. DecimalMax \in Nat /\ n \in Nat /\ n <= DecimalMax /\ 1 <= DecimalMax /\ TrailingZeros \in Nat
  BY RowsAssumption
<1>2. ASSUME NEW q \in Nat, NEW k \in 0..TrailingZeros, q * TenTo[k] = n, q <= n, TenTo[k] <= DecimalMax
      PROVE  BigDecimalToU128([digits |-> q, scale |-> -k]) = {n}
  <2> DEFINE e == [digits |-> q, scale |-> -k]
  <2>1. e.digits = q /\ e.scale = -k /\ ~(e.scale > 0) /\ -(e.scale) = k
    BY <1>1
  <2>2. TenTo[k] \in Nat \ {0}
    BY PowersOfTen
  <2>3. SaturatedAmount(TenTo[k]) = TenTo[k] /\ SaturatedAmount(n) = n
    BY <1>1, <1>2, <2>2 DEF SaturatedAmount
  <2>4. {m \in {q} : m <= DecimalMax} = {q}
    BY <1>1, <1>2
  <2>5. BigDecimalToU128(e) = {SaturatedAmount(digits * SaturatedAmount(TenTo[k])) : digits \in {m \in {q} : m <= DecimalMax}}
    <3> HIDE DEF e
    <3> QED BY <2>1 DEF BigDecimalToU128
  <2>6. BigDecimalToU128(e) = {SaturatedAmount(q * TenTo[k])}
    <3> HIDE DEF e
    <3> QED BY <2>3, <2>4, <2>5
  <2> HIDE DEF e
  <2>7. BigDecimalToU128(e) = {n}
    BY <1>2, <2>3, <2>6
  <2> QED BY <2>7 DEF e
<1>3. BigDecimalToU128(d) = {n}
  <2>1. TenTo[0] = 1 /\ 0 \in 0..TrailingZeros
    BY <1>1, PowersOfTen
  <2>2. d = [digits |-> n, scale |-> -0]
    BY DEF U128ToBigDecimal
  <2> HIDE DEF d
  <2> QED BY <1>1, <1>2, <2>1, <2>2
<1>4. ASSUME NEW k \in 1..TrailingZeros, n # 0, n % TenTo[k] = 0
      PROVE  BigDecimalToU128([digits |-> n \div TenTo[k], scale |-> -k]) = {n}
  <2> DEFINE T == TenTo[k]
             q == n \div T
  <2>1. T \in Nat \ {0} /\ k \in 0..TrailingZeros
    BY <1>1, PowersOfTen
  <2>2. q \in Nat /\ q * T = n /\ q <= n /\ T <= n
    <3> HIDE DEF T
    <3>1. q \in Nat /\ n = T * q + (n % T)
      BY <1>1, <2>1
    <3>2. q * T = n
      BY <1>4, <2>1, <3>1 DEF T
    <3> HIDE DEF q
    <3>3. q # 0
      BY <1>1, <1>4, <2>1, <3>1, <3>2
    <3>4. q <= q * T /\ T <= q * T
      BY <2>1, <3>1, <3>3
    <3> QED BY <3>1, <3>2, <3>4
  <2>3. T <= DecimalMax
    BY <1>1, <2>1, <2>2
  <2> HIDE DEF q
  <2>4. BigDecimalToU128([digits |-> q, scale |-> -k]) = {n}
    BY <1>2, <2>1, <2>2, <2>3
  <2> QED BY <2>4 DEF q
<1>5. ASSUME NEW e \in Returned(d) PROVE BigDecimalToU128(e) = {n}
  <2>1. d.digits = n
    BY DEF U128ToBigDecimal
  <2> HIDE DEF d
  <2>2. \/ e = d
        \/ \E k \in 1..TrailingZeros : n # 0 /\ n % TenTo[k] = 0 /\ e = [digits |-> n \div TenTo[k], scale |-> -k]
    BY <2>1 DEF Returned
  <2> QED BY <1>3, <1>4, <2>2
<1>6. d \in Returned(d)
  <2> HIDE DEF d
  <2> QED BY DEF Returned
<1>7. AmountRead(d) = UNION {LET amount == BigDecimalToU128(e) IN IF amount = {} THEN {Null} ELSE amount : e \in Returned(d)}
  <2> HIDE DEF d
  <2> QED BY DEF AmountRead
<1>8. \A e \in Returned(d) : (LET amount == BigDecimalToU128(e) IN IF amount = {} THEN {Null} ELSE amount) = {n}
  <2> HIDE DEF d
  <2> QED BY <1>5
<1> HIDE DEF d
<1>9. AmountRead(d) = {n}
  BY <1>6, <1>7, <1>8
<1> QED BY <1>9 DEF d

\* The widths, and the numbers that fit them.
LEMMA Widths ==
  /\ I32Max \in Nat \ {0} /\ U32Max \in Nat /\ I64Max \in Nat /\ U64Max \in Nat /\ DecimalMax \in Nat
  /\ I32Max < U32Max /\ U32Max < I64Max /\ I64Max < U64Max
  /\ \A n \in Numbers : n \in 0..U32Max
  /\ \A n \in Ids : n \in 0..U64Max
  /\ \A n \in Amounts : n \in 0..DecimalMax
<1>1. /\ I32Max \in Nat \ {0} /\ U32Max \in Nat /\ I64Max \in Nat /\ U64Max \in Nat /\ DecimalMax \in Nat
      /\ I32Max < U32Max /\ U32Max < I64Max /\ I64Max < U64Max
  BY RowsAssumption
<1> QED BY <1>1, RowsAssumption DEF Ids

\* Numbers that fit are read back.
LEMMA NumbersReadBack ==
  /\ \A n \in 0..U64Max : TryIntoU64(n) = {n} /\ NonNegative(n) = {n}
  /\ \A n \in 0..U32Max : TryIntoU32(n) = {n} /\ AsU32(n) = {n} /\ NonNegative(n) = {n}
<1>1. U32Max \in Nat /\ U64Max \in Nat
  BY Widths
<1>2. ASSUME NEW n \in 0..U32Max PROVE AsU32(n) = {n}
  <2>1. n % (U32Max + 1) = n
    BY <1>1
  <2> QED BY <2>1 DEF AsU32
<1>3. ASSUME NEW n \in 0..U32Max PROVE TryIntoU32(n) = {n} /\ NonNegative(n) = {n}
  BY <1>1 DEF TryIntoU32, NonNegative
<1>4. ASSUME NEW n \in 0..U64Max PROVE TryIntoU64(n) = {n} /\ NonNegative(n) = {n}
  BY <1>1 DEF TryIntoU64, NonNegative
<1> QED BY <1>2, <1>3, <1>4

\* The codes tell the states apart, and the column of the time says when.
LEMMA StatesReadBack ==
  ASSUME NEW s \in States, NEW r, r.state = StateCode(s), r.finalized_at = FinalizedAt(s)
  PROVE  /\ ParseBlobState(r) = {s}
         /\ s.kind # "IncludedInBlock" => ParseCommitState(r) = {s}
         /\ StateCode(s) \in 0..3 /\ (StateCode(s) = 1 => FinalizedAt(s) # Null)
         /\ s.kind # "IncludedInBlock" => StateCode(s) \in 0..2
<1>1. \A u \in States :
        \/ /\ u.kind \in {"Pending", "IncludedInBlock", "Failed"} /\ u.at = Null
           /\ u = [kind |-> u.kind, at |-> Null]
        \/ /\ u.kind = "Finalized" /\ u.at \in Times /\ u.at # Null
           /\ u = [kind |-> "Finalized", at |-> u.at]
  <2>1. Null \notin Times
    BY RowsAssumption DEF Null
  <2> QED BY <2>1 DEF States
<1>2. \A u \in States :
        /\ StateCode(u) \in 0..3
        /\ u.kind = "Pending" <=> StateCode(u) = 0
        /\ u.kind = "Finalized" <=> StateCode(u) = 1
        /\ u.kind = "Failed" <=> StateCode(u) = 2
        /\ u.kind = "IncludedInBlock" <=> StateCode(u) = 3
  BY <1>1 DEF StateCode
<1>3. ASSUME NEW u \in States, StateCode(u) = r.state, u.at \in {Null, r.finalized_at} PROVE u = s
  <2>1. u.kind = s.kind
    BY <1>1, <1>2, <1>3
  <2>2. u.at = s.at
    BY <1>1, <1>3, <2>1 DEF FinalizedAt
  <2> QED BY <1>1, <2>1, <2>2
<1>4. s.at \in {Null, r.finalized_at}
  BY <1>1 DEF FinalizedAt
<1>5. StateCode(s) = 1 => FinalizedAt(s) # Null
  BY <1>1, <1>2 DEF FinalizedAt
<1>6. ParseBlobState(r) = {s}
  <2>1. ParseBlobState(r) = {u \in States : StateCode(u) = r.state /\ u.at \in {Null, r.finalized_at}}
    BY DEF ParseBlobState
  <2> QED BY <1>3, <1>4, <2>1
<1>7. ASSUME s.kind # "IncludedInBlock" PROVE ParseCommitState(r) = {s} /\ StateCode(s) \in 0..2
  <2>1. ParseCommitState(r)
          = {u \in States : StateCode(u) = r.state /\ u.kind # "IncludedInBlock" /\ u.at \in {Null, r.finalized_at}}
    BY DEF ParseCommitState
  <2>2. StateCode(s) \in 0..2
    BY <1>2, <1>7
  <2> QED BY <1>3, <1>4, <1>7, <2>1, <2>2
<1> QED BY <1>2, <1>5, <1>6, <1>7

\* What a table keeps of a value is read back as that value.
LEMMA ValuesReadBack ==
  ASSUME table \in Tables, NEW w \in Values
  PROVE  Read(RowFor(w)) = {w} /\ Accepted(table, RowFor(w))
<1> DEFINE r == RowFor(w)
<1>1. CASE table = "l1_transaction"
  <2>1. w \in CommitTxs /\ r = CommitTxRow(w) /\ Read(r) = ReadCommitTx(r)
    BY <1>1 DEF Values, RowFor, Read
  <2>2. /\ w.id \in Ids /\ w.nonce \in Numbers /\ w.max_fee \in Amounts /\ w.priority_fee \in Amounts
        /\ w.state \in States /\ w.state.kind # "IncludedInBlock"
        /\ w = [id |-> w.id, nonce |-> w.nonce, max_fee |-> w.max_fee, priority_fee |-> w.priority_fee, state |-> w.state]
    BY <2>1 DEF CommitTxs
  <2>3. /\ r.id = w.id /\ r.nonce = w.nonce /\ r.max_fee = U128ToBigDecimal(w.max_fee)
        /\ r.priority_fee = U128ToBigDecimal(w.priority_fee)
        /\ r.state = StateCode(w.state) /\ r.finalized_at = FinalizedAt(w.state)
    BY <2>1 DEF CommitTxRow
  <2> HIDE DEF r
  <2>4. /\ NonNegative(r.id) = {w.id} /\ AsU32(r.nonce) = {w.nonce}
        /\ AmountRead(r.max_fee) = {w.max_fee} /\ AmountRead(r.priority_fee) = {w.priority_fee}
        /\ ParseCommitState(r) = {w.state}
    BY <2>2, <2>3, Widths, NumbersReadBack, AmountsReadBack, StatesReadBack
  <2>5. Read(r) = [id : {w.id}, nonce : {w.nonce}, max_fee : {w.max_fee}, priority_fee : {w.priority_fee}, state : {w.state}]
    BY <2>1, <2>4 DEF ReadCommitTx
  <2>6. Read(r) = {w}
    <3>1. w \in [id : {w.id}, nonce : {w.nonce}, max_fee : {w.max_fee}, priority_fee : {w.priority_fee}, state : {w.state}]
      BY <2>2
    <3>2. ASSUME NEW x \in [id : {w.id}, nonce : {w.nonce}, max_fee : {w.max_fee}, priority_fee : {w.priority_fee}, state : {w.state}] PROVE x = w
      <4>1. x = [id |-> w.id, nonce |-> w.nonce, max_fee |-> w.max_fee, priority_fee |-> w.priority_fee, state |-> w.state]
        OBVIOUS
      <4> QED BY <2>2, <4>1
    <3> QED BY <2>5, <3>1, <3>2
  <2>7. Accepted(table, r)
    BY <1>1, <2>2, <2>3, StatesReadBack DEF Accepted
  <2> QED BY <2>6, <2>7 DEF r
<1>2. CASE table = "l1_blob_transaction"
  <2>1. w \in BlobTxs /\ r = BlobTxRow(w) /\ Read(r) = ReadBlobTx(r)
    BY <1>2 DEF Values, RowFor, Read
  <2>2. /\ w.id \in Ids /\ w.nonce \in Numbers /\ w.max_fee \in Amounts /\ w.priority_fee \in Amounts
        /\ w.blob_fee \in Amounts /\ w.state \in States
        /\ w = [id |-> w.id, nonce |-> w.nonce, max_fee |-> w.max_fee, priority_fee |-> w.priority_fee,
                blob_fee |-> w.blob_fee, state |-> w.state]
    BY <2>1 DEF BlobTxs
  <2>3. /\ r.id = w.id /\ r.nonce = w.nonce /\ r.max_fee = U128ToBigDecimal(w.max_fee)
        /\ r.priority_fee = U128ToBigDecimal(w.priority_fee) /\ r.blob_fee = U128ToBigDecimal(w.blob_fee)
        /\ r.state = StateCode(w.state) /\ r.finalized_at = FinalizedAt(w.state)
    BY <2>1 DEF BlobTxRow
  <2> HIDE DEF r
  <2>4. /\ TryIntoU64(r.id) = {w.id} /\ AsU32(r.nonce) = {w.nonce}
        /\ AmountRead(r.max_fee) = {w.max_fee} /\ AmountRead(r.priority_fee) = {w.priority_fee}
        /\ AmountRead(r.blob_fee) = {w.blob_fee}
        /\ ParseBlobState(r) = {w.state}
    BY <2>2, <2>3, Widths, NumbersReadBack, AmountsReadBack, StatesReadBack
  <2>5. Read(r) = [id : {w.id}, nonce : {w.nonce}, max_fee : {w.max_fee}, priority_fee : {w.priority_fee},
                   blob_fee : {w.blob_fee}, state : {w.state}]
    BY <2>1, <2>4 DEF ReadBlobTx
  <2>6. Read(r) = {w}
    <3>1. w \in [id : {w.id}, nonce : {w.nonce}, max_fee : {w.max_fee}, priority_fee : {w.priority_fee}, blob_fee : {w.blob_fee}, state : {w.state}]
      BY <2>2
    <3>2. ASSUME NEW x \in [id : {w.id}, nonce : {w.nonce}, max_fee : {w.max_fee}, priority_fee : {w.priority_fee}, blob_fee : {w.blob_fee}, state : {w.state}] PROVE x = w
      <4>1. x = [id |-> w.id, nonce |-> w.nonce, max_fee |-> w.max_fee, priority_fee |-> w.priority_fee, blob_fee |-> w.blob_fee, state |-> w.state]
        OBVIOUS
      <4> QED BY <2>2, <4>1
    <3> QED BY <2>5, <3>1, <3>2
  <2>7. Accepted(table, r)
    BY <1>2, <2>2, <2>3, StatesReadBack DEF Accepted
  <2> QED BY <2>6, <2>7 DEF r
<1>3. CASE table = "l1_fuel_block_submission"
  <2>1. w \in Submissions /\ r = w /\ Read(r) = ReadSubmission(w)
    BY <1>3 DEF Values, RowFor, Read
  <2>2. /\ w.id \in Ids /\ w.block_height \in Numbers
        /\ w = [id |-> w.id, block_height |-> w.block_height, completed |-> w.completed]
    BY <2>1 DEF Submissions
  <2>3. NonNegative(w.id) = {w.id} /\ TryIntoU32(w.block_height) = {w.block_height}
    BY <2>2, Widths, NumbersReadBack
  <2>4. ReadSubmission(w) = [id : {w.id}, block_height : {w.block_height}, completed : {w.completed}]
    BY <2>3 DEF ReadSubmission
  <2>5. ReadSubmission(w) = {w}
    <3>1. w \in [id : {w.id}, block_height : {w.block_height}, completed : {w.completed}]
      BY <2>2
    <3>2. ASSUME NEW x \in [id : {w.id}, block_height : {w.block_height}, completed : {w.completed}] PROVE x = w
      <4>1. x = [id |-> w.id, block_height |-> w.block_height, completed |-> w.completed]
        OBVIOUS
      <4> QED BY <2>2, <4>1
    <3> QED BY <2>4, <3>1, <3>2
  <2> QED BY <1>3, <2>1, <2>5 DEF Accepted, TxTables
<1>4. CASE table = "l1_fragments"
  <2>1. w \in FragmentValues /\ r = w /\ Read(r) = ReadFragment(w)
    BY <1>4 DEF Values, RowFor, Read
  <2>2. /\ w.id \in Ids /\ w.bundle_id \in Ids /\ w.idx \in {0, 1} /\ w.unused_bytes \in Numbers
        /\ w.total_bytes \in Numbers /\ w.total_bytes # 0
        /\ w = [id |-> w.id, bundle_id |-> w.bundle_id, idx |-> w.idx,
                unused_bytes |-> w.unused_bytes, total_bytes |-> w.total_bytes]
    BY <2>1 DEF FragmentValues
  <2>3. /\ NonNegative(w.id) = {w.id} /\ NonNegative(w.bundle_id) = {w.bundle_id} /\ NonNegative(w.idx) = {w.idx}
        /\ NonNegative(w.unused_bytes) = {w.unused_bytes} /\ NonNegative(w.total_bytes) = {w.total_bytes}
        /\ TryIntoU32(w.unused_bytes) = {w.unused_bytes} /\ TryIntoU32(w.total_bytes) = {w.total_bytes}
    <3>1. w.idx \in 0..U64Max
      BY <2>2, Widths
    <3> QED BY <2>2, <3>1, Widths, NumbersReadBack
  <2>4. ReadFragment(w) = [id : {w.id}, bundle_id : {w.bundle_id}, idx : {w.idx},
                           unused_bytes : {w.unused_bytes}, total_bytes : {w.total_bytes}]
    <3>1. /\ UNION {TryIntoU32(n) : n \in NonNegative(w.unused_bytes)} = {w.unused_bytes}
          /\ (UNION {TryIntoU32(n) : n \in NonNegative(w.total_bytes)}) \ {0} = {w.total_bytes}
      <4>1. \A m : NonNegative(m) = {m} /\ TryIntoU32(m) = {m} => UNION {TryIntoU32(n) : n \in NonNegative(m)} = {m}
        OBVIOUS
      <4>2. /\ UNION {TryIntoU32(n) : n \in NonNegative(w.unused_bytes)} = {w.unused_bytes}
            /\ UNION {TryIntoU32(n) : n \in NonNegative(w.total_bytes)} = {w.total_bytes}
        BY <2>3, <4>1, Zenon
      <4>3. {w.total_bytes} \ {0} = {w.total_bytes}
        BY <2>2
      <4> QED BY <4>2, <4>3
    <3> QED BY <2>3, <3>1 DEF ReadFragment
  <2>5. ReadFragment(w) = {w}
    <3>1. w \in [id : {w.id}, bundle_id : {w.bundle_id}, idx : {w.idx}, unused_bytes : {w.unused_bytes}, total_bytes : {w.total_bytes}]
      BY <2>2
    <3>2. ASSUME NEW x \in [id : {w.id}, bundle_id : {w.bundle_id}, idx : {w.idx}, unused_bytes : {w.unused_bytes}, total_bytes : {w.total_bytes}] PROVE x = w
      <4>1. x = [id |-> w.id, bundle_id |-> w.bundle_id, idx |-> w.idx, unused_bytes |-> w.unused_bytes, total_bytes |-> w.total_bytes]
        OBVIOUS
      <4> QED BY <2>2, <4>1
    <3> QED BY <2>4, <3>1, <3>2
  <2> QED BY <1>4, <2>1, <2>5 DEF Accepted, TxTables
<1>5. CASE table = "fuel_blocks"
  <2>1. w \in BlockValues /\ r = w /\ Read(r) = ReadBlock(w)
    BY <1>5 DEF Values, RowFor, Read
  <2>2. w.height \in Numbers /\ w = [height |-> w.height]
    BY <2>1 DEF BlockValues
  <2>3. ReadBlock(w) = [height : {w.height}]
    BY <2>2, Widths, NumbersReadBack DEF ReadBlock
  <2>4. ReadBlock(w) = {w}
    <3>1. w \in [height : {w.height}]
      BY <2>2
    <3>2. ASSUME NEW x \in [height : {w.height}] PROVE x = w
      <4>1. x = [height |-> w.height]
        OBVIOUS
      <4> QED BY <2>2, <4>1
    <3> QED BY <2>3, <3>1, <3>2
  <2> QED BY <1>5, <2>1, <2>4 DEF Accepted, TxTables
<1>6. CASE table = "bundle_cost"
  <2>1. w \in Charges /\ r = [w EXCEPT !.cost = U128ToBigDecimal(@)] /\ Read(r) = ReadBundleCost(r)
    BY <1>6 DEF Values, RowFor, Read
  <2>2. /\ w.id \in Ids /\ w.cost \in 0..DecimalMax /\ w.size \in 0..I64Max /\ w.da_block_height \in 0..U64Max
        /\ w = [id |-> w.id, cost |-> w.cost, size |-> w.size, da_block_height |-> w.da_block_height]
    BY <2>1 DEF Charges
  <2>3. /\ r.id = w.id /\ r.cost = U128ToBigDecimal(w.cost) /\ r.size = w.size
        /\ r.da_block_height = w.da_block_height
    BY <2>1, <2>2
  <2> HIDE DEF r
  <2>4. /\ TryIntoU64(r.id) = {w.id} /\ AmountRead(r.cost) = {w.cost} /\ TryIntoU64(r.size) = {w.size}
        /\ TryIntoU64(r.da_block_height) = {w.da_block_height}
    <3>1. w.size \in 0..U64Max
      BY <2>2, Widths
    <3> QED BY <2>2, <2>3, <3>1, Widths, NumbersReadBack, AmountsReadBack
  <2>5. Read(r) = [id : {w.id}, cost : {w.cost}, size : {w.size}, da_block_height : {w.da_block_height}]
    BY <2>1, <2>4 DEF ReadBundleCost
  <2>6. Read(r) = {w}
    <3>1. w \in [id : {w.id}, cost : {w.cost}, size : {w.size}, da_block_height : {w.da_block_height}]
      BY <2>2
    <3>2. ASSUME NEW x \in [id : {w.id}, cost : {w.cost}, size : {w.size}, da_block_height : {w.da_block_height}] PROVE x = w
      <4>1. x = [id |-> w.id, cost |-> w.cost, size |-> w.size, da_block_height |-> w.da_block_height]
        OBVIOUS
      <4> QED BY <2>2, <4>1
    <3> QED BY <2>5, <3>1, <3>2
  <2> QED BY <1>6, <2>6 DEF Accepted, TxTables, r
<1> QED BY <1>1, <1>2, <1>3, <1>4, <1>5, <1>6 DEF Tables

\* Charges add up within their columns: the bounds of the model's inputs.
LEMMA ChargesFit ==
  ASSUME NEW old \in Charges, NEW cost \in Amounts, NEW bytes \in Numbers,
         NEW height \in L1Height(U32Max) \union L1Height(I64Max - 1),
         old.cost + cost <= DecimalMax, old.size + bytes <= I64Max
  PROVE  [id |-> old.id, cost |-> old.cost + cost, size |-> old.size + bytes, da_block_height |-> height] \in Charges
<1>1. height \in 0..U64Max
  BY Widths DEF L1Height
<1>2. old.cost + cost \in 0..DecimalMax /\ old.size + bytes \in 0..I64Max
  BY Widths DEF Charges
<1> QED BY <1>1, <1>2 DEF Charges

\* A value of the table is stored.
LEMMA StoreKeepsInv ==
  ASSUME RowsInv, NEW t \in Tables, NEW w, NEW r, Store(t, w, r), table = t => w \in Values /\ r = RowFor(w)
  PROVE  RowsInv'
<1>1. table = t /\ table' = table /\ table \in Tables
  BY DEF Store, RowsInv
<1>2. w \in Values /\ r = RowFor(w) /\ Accepted(t, r)
  BY <1>1, ValuesReadBack
<1>3. written' = {w} /\ row' = {r} /\ refused' = refused
  BY <1>2 DEF Store
<1>4. Values' = Values /\ RowFor(w)' = RowFor(w)
  BY <1>1 DEF Values, RowFor, CommitTxs, BlobTxs, Submissions, FragmentValues, BlockValues, Charges,
              CommitTxRow, BlobTxRow, U128ToBigDecimal, StateCode, FinalizedAt, Ids
<1> QED BY <1>1, <1>2, <1>3, <1>4 DEF RowsInv

\* A row is at any time what its table makes of the value last written, and no
\* write is refused (mappings/tables.rs, the migrations).
THEOREM RowsInvariance == RowsSpec => []RowsInv
<1>1. RowsInit => RowsInv
  BY DEF RowsInit, RowsInv
<1>2. RowsInv /\ [RowsNext]_rowVars => RowsInv'
  <2> SUFFICES ASSUME RowsInv, [RowsNext]_rowVars PROVE RowsInv'
    OBVIOUS
  <2>1. CASE RecordTx
    <3>1. PICK w, r, t : Store(t, w, r) /\ t \in TxTables /\
                 (table = t => w \in Values /\ r = RowFor(w))
      <4>1. CASE \E tx \in [id : Ids, nonce : Numbers, max_fee : Amounts, priority_fee : Amounts, blob_fee : Amounts, state : {Pending}] :
                   Store("l1_blob_transaction", tx, BlobTxRow(tx))
        <5>1. PICK tx \in [id : Ids, nonce : Numbers, max_fee : Amounts, priority_fee : Amounts, blob_fee : Amounts, state : {Pending}] :
                     Store("l1_blob_transaction", tx, BlobTxRow(tx))
          BY <4>1
        <5>2. tx \in BlobTxs
          BY DEF BlobTxs, States, Pending
        <5> QED BY <5>1, <5>2 DEF Values, RowFor, TxTables
      <4>2. CASE \E tx \in [id : Ids, nonce : Numbers, max_fee : Amounts, priority_fee : Amounts, state : {Pending}] :
                   Store("l1_transaction", tx, CommitTxRow(tx))
        <5>1. PICK tx \in [id : Ids, nonce : Numbers, max_fee : Amounts, priority_fee : Amounts, state : {Pending}] :
                     Store("l1_transaction", tx, CommitTxRow(tx))
          BY <4>2
        <5>2. tx \in CommitTxs
          BY DEF CommitTxs, States, Pending
        <5> QED BY <5>1, <5>2 DEF Values, RowFor, TxTables
      <4> QED BY <2>1, <4>1, <4>2 DEF RecordTx
    <3> QED BY <3>1, StoreKeepsInv DEF Tables, TxTables
  <2>2. CASE UpdateTxState
    <3>1. PICK s \in States, tx \in written, r \in row :
            LET changed == [r EXCEPT !.state = StateCode(s), !.finalized_at = FinalizedAt(s)]
            IN  \/ Store("l1_blob_transaction", [tx EXCEPT !.state = s], changed)
                \/ /\ s.kind \in {"Finalized", "Failed"}
                   /\ Store("l1_transaction", [tx EXCEPT !.state = s], changed)
      BY <2>2 DEF UpdateTxState
    <3> DEFINE w == [tx EXCEPT !.state = s]
               changed == [r EXCEPT !.state = StateCode(s), !.finalized_at = FinalizedAt(s)]
    <3>2. tx \in Values /\ r = RowFor(tx)
      BY DEF RowsInv, NoRow
    <3>3. CASE Store("l1_blob_transaction", w, changed)
      <4>1. ASSUME table = "l1_blob_transaction" PROVE w \in Values /\ changed = RowFor(w)
        <5>1. tx \in BlobTxs /\ r = BlobTxRow(tx)
          BY <3>2, <4>1 DEF Values, RowFor
        <5>2. w \in BlobTxs
          BY <5>1 DEF BlobTxs
        <5>3. /\ w.id = tx.id /\ w.nonce = tx.nonce /\ w.max_fee = tx.max_fee /\ w.priority_fee = tx.priority_fee
              /\ w.blob_fee = tx.blob_fee /\ w.state = s
          BY <5>1 DEF BlobTxs
        <5> HIDE DEF w
        <5>4. changed = BlobTxRow(w)
          <6> DEFINE Shape ==
                [id : {tx.id}, nonce : {tx.nonce}, max_fee : {U128ToBigDecimal(tx.max_fee)}, priority_fee : {U128ToBigDecimal(tx.priority_fee)}, blob_fee : {U128ToBigDecimal(tx.blob_fee)},
                 state : {StateCode(tx.state), StateCode(s)}, finalized_at : {FinalizedAt(tx.state), FinalizedAt(s)}]
          <6>1. r \in Shape
            BY <5>1 DEF BlobTxRow
          <6>2. changed \in Shape
            BY <6>1
          <6>3. /\ changed.id = tx.id /\ changed.nonce = tx.nonce
                /\ changed.max_fee = U128ToBigDecimal(tx.max_fee) /\ changed.priority_fee = U128ToBigDecimal(tx.priority_fee) /\ changed.blob_fee = U128ToBigDecimal(tx.blob_fee)
                /\ changed.state = StateCode(s) /\ changed.finalized_at = FinalizedAt(s)
            BY <5>1 DEF BlobTxRow
          <6> HIDE DEF changed
          <6>4. changed = [id |-> tx.id, nonce |-> tx.nonce, max_fee |-> U128ToBigDecimal(tx.max_fee), priority_fee |-> U128ToBigDecimal(tx.priority_fee), blob_fee |-> U128ToBigDecimal(tx.blob_fee),
                           state |-> StateCode(s), finalized_at |-> FinalizedAt(s)]
            BY <6>2, <6>3
          <6> QED BY <5>3, <6>4 DEF BlobTxRow
        <5> HIDE DEF changed
        <5> QED BY <4>1, <5>2, <5>4 DEF Values, RowFor
      <4> HIDE DEF w, changed
      <4> QED BY <3>3, <4>1, StoreKeepsInv DEF Tables
    <3>4. CASE s.kind \in {"Finalized", "Failed"} /\ Store("l1_transaction", w, changed)
      <4>1. ASSUME table = "l1_transaction" PROVE w \in Values /\ changed = RowFor(w)
        <5>1. tx \in CommitTxs /\ r = CommitTxRow(tx)
          BY <3>2, <4>1 DEF Values, RowFor
        <5>2. w \in CommitTxs
          BY <3>4, <5>1 DEF CommitTxs
        <5>3. /\ w.id = tx.id /\ w.nonce = tx.nonce /\ w.max_fee = tx.max_fee /\ w.priority_fee = tx.priority_fee
              /\ w.state = s
          BY <5>1 DEF CommitTxs
        <5> HIDE DEF w
        <5>4. changed = CommitTxRow(w)
          <6> DEFINE Shape ==
                [id : {tx.id}, nonce : {tx.nonce}, max_fee : {U128ToBigDecimal(tx.max_fee)}, priority_fee : {U128ToBigDecimal(tx.priority_fee)},
                 state : {StateCode(tx.state), StateCode(s)}, finalized_at : {FinalizedAt(tx.state), FinalizedAt(s)}]
          <6>1. r \in Shape
            BY <5>1 DEF CommitTxRow
          <6>2. changed \in Shape
            BY <6>1
          <6>3. /\ changed.id = tx.id /\ changed.nonce = tx.nonce
                /\ changed.max_fee = U128ToBigDecimal(tx.max_fee) /\ changed.priority_fee = U128ToBigDecimal(tx.priority_fee)
                /\ changed.state = StateCode(s) /\ changed.finalized_at = FinalizedAt(s)
            BY <5>1 DEF CommitTxRow
          <6> HIDE DEF changed
          <6>4. changed = [id |-> tx.id, nonce |-> tx.nonce, max_fee |-> U128ToBigDecimal(tx.max_fee), priority_fee |-> U128ToBigDecimal(tx.priority_fee),
                           state |-> StateCode(s), finalized_at |-> FinalizedAt(s)]
            BY <6>2, <6>3
          <6> QED BY <5>3, <6>4 DEF CommitTxRow
        <5> HIDE DEF changed
        <5> QED BY <4>1, <5>2, <5>4 DEF Values, RowFor
      <4> HIDE DEF w, changed
      <4> QED BY <3>4, <4>1, StoreKeepsInv DEF Tables
    <3> QED BY <3>1, <3>3, <3>4
  <2>3. CASE RecordSubmission
    <3>1. PICK s \in [id : Ids, block_height : Numbers, completed : {FALSE}] : Store("l1_fuel_block_submission", s, s)
      BY <2>3 DEF RecordSubmission
    <3>2. table = "l1_fuel_block_submission" => s \in Values /\ s = RowFor(s)
      BY DEF Values, RowFor, Submissions
    <3> QED BY <3>1, <3>2, StoreKeepsInv DEF Tables
  <2>4. CASE CompleteSubmission
    <3>1. PICK s \in written, r \in row :
            Store("l1_fuel_block_submission", [s EXCEPT !.completed = TRUE], [r EXCEPT !.completed = TRUE])
      BY <2>4 DEF CompleteSubmission
    <3> DEFINE w == [s EXCEPT !.completed = TRUE]
    <3>2. s \in Values /\ r = RowFor(s)
      BY DEF RowsInv, NoRow
    <3>3. ASSUME table = "l1_fuel_block_submission" PROVE w \in Values /\ [r EXCEPT !.completed = TRUE] = RowFor(w)
      <4>1. s \in Submissions /\ r = s
        BY <3>2, <3>3 DEF Values, RowFor
      <4>2. w \in Submissions
        BY <4>1 DEF Submissions
      <4> QED BY <3>3, <4>1, <4>2 DEF Values, RowFor
    <3> QED BY <3>1, <3>3, StoreKeepsInv DEF Tables
  <2>5. CASE RecordFragment
    <3>1. PICK f \in [id : Ids, bundle_id : Ids, idx : {0, 1}, unused_bytes : Numbers, total_bytes : Numbers \ {0}] :
            Store("l1_fragments", f, f)
      BY <2>5 DEF RecordFragment
    <3>2. table = "l1_fragments" => f \in Values /\ f = RowFor(f)
      BY DEF Values, RowFor, FragmentValues
    <3> QED BY <3>1, <3>2, StoreKeepsInv DEF Tables
  <2>6. CASE RecordBlock
    <3>1. PICK b \in [height : Numbers] : Store("fuel_blocks", b, b)
      BY <2>6 DEF RecordBlock
    <3>2. table = "fuel_blocks" => b \in Values /\ b = RowFor(b)
      BY DEF Values, RowFor, BlockValues
    <3> QED BY <3>1, <3>2, StoreKeepsInv DEF Tables
  <2>7. CASE ChargeBundle
    <3> DEFINE fresh == [id |-> I32Max, cost |-> 0, size |-> 0, da_block_height |-> 0]
    <3>1. PICK cost \in Amounts, bytes \in Numbers, height \in L1Height(U32Max) \union L1Height(I64Max - 1),
               old \in IF written = {} THEN {fresh} ELSE {w \in written : table = "bundle_cost"} :
            LET next == [id |-> old.id, cost |-> old.cost + cost, size |-> old.size + bytes, da_block_height |-> height]
            IN  /\ table = "bundle_cost" => next.cost <= DecimalMax /\ next.size <= I64Max
                /\ Store("bundle_cost", next, [next EXCEPT !.cost = U128ToBigDecimal(@)])
      BY <2>7 DEF ChargeBundle
    <3> DEFINE next == [id |-> old.id, cost |-> old.cost + cost, size |-> old.size + bytes, da_block_height |-> height]
    <3>2. ASSUME table = "bundle_cost" PROVE next \in Values /\ [next EXCEPT !.cost = U128ToBigDecimal(@)] = RowFor(next)
      <4>1. old \in Charges
        <5>1. CASE written = {}
          BY <3>1, <5>1, Widths DEF Charges, Ids
        <5>2. CASE written # {}
          <6>1. old \in Values
            BY <3>1, <5>2 DEF RowsInv
          <6> QED BY <3>2, <6>1 DEF Values
        <5> QED BY <5>1, <5>2
      <4>2. old.cost + cost <= DecimalMax /\ old.size + bytes <= I64Max
        BY <3>1, <3>2
      <4>3. next \in Charges
        BY <4>1, <4>2, ChargesFit
      <4> HIDE DEF next
      <4> QED BY <3>2, <4>3 DEF Values, RowFor
    <3> HIDE DEF next
    <3> QED BY <3>1, <3>2, StoreKeepsInv DEF Tables, next
  <2>8. CASE UNCHANGED rowVars
    <3>1. UNCHANGED <<table, written, row, refused>>
      BY <2>8 DEF rowVars
    <3>2. Values' = Values
      BY <3>1 DEF Values
    <3>3. \A w : RowFor(w)' = RowFor(w)
      BY <3>1 DEF RowFor
    <3> QED BY <3>1, <3>2, <3>3 DEF RowsInv
  <2> QED BY <2>1, <2>2, <2>3, <2>4, <2>5, <2>6, <2>7, <2>8 DEF RowsNext
<1> QED BY <1>1, <1>2, PTL DEF RowsSpec

\* There is a row exactly if a value was written.
THEOREM RowsTypes == RowsSpec => []RowsTypeOK
<1>1. ASSUME RowsInv PROVE RowsTypeOK
  <2>1. table \in Tables /\ refused \in BOOLEAN
    BY <1>1 DEF RowsInv
  <2>2. CASE written = {} /\ row = NoRow
    BY <2>1, <2>2, FS_EmptySet DEF RowsTypeOK, NoRow
  <2>3. CASE \E w \in Values : written = {w} /\ row = {RowFor(w)}
    <3>1. PICK w : written = {w} /\ row = {RowFor(w)}
      BY <2>3
    <3>2. Cardinality(written) = 1 /\ Cardinality(row) = 1
      BY <3>1, FS_Singleton
    <3>3. row # NoRow /\ written # {}
      BY <3>1 DEF NoRow
    <3> QED BY <2>1, <3>2, <3>3 DEF RowsTypeOK
  <2> QED BY <1>1, <2>2, <2>3 DEF RowsInv
<1> QED BY <1>1, RowsInvariance, PTL

\* What was stored is read back, whatever the widths of the columns and the
\* form the database gives a decimal, and no write is refused.
THEOREM RowsAreReadBack == RowsSpec => []RowsReadBack
<1>1. RowsInv => RowsReadBack
  BY ValuesReadBack DEF RowsInv, RowsReadBack, NoRow
<1> QED BY <1>1, RowsInvariance, PTL
=============================================================================
