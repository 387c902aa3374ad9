------------------------------- MODULE Process -------------------------------
(***************************************************************************)
(* The life of the process: main.rs, and from setup.rs the services it     *)
(* starts, the polling loop they run in and the orderly stop.              *)
(*                                                                         *)
(* main validates the configuration, connects the database and Ethereum,   *)
(* spawns the services, serves HTTP until a signal stops the server, and   *)
(* then cancels the services and waits for each of them before it closes   *)
(* the database.  Whenever main returns, the runtime drops what still      *)
(* runs.                                                                   *)
(***************************************************************************)
EXTENDS Naturals, Sequences, SequencesExt

CONSTANTS
  Watched,    \* the services that are followed; the others end in time
  MaxPanics   \* bound: how many runs panic

ASSUME ProcessAssumption == MaxPanics \in Nat

\* The services in the order of the handles that shut_down waits for.
BaseServices == <<"wallet_balance_tracker", "block_committer">>

EthereumServices ==
  <<"state_committer", "block_importer", "block_bundler", "state_listener",
    "ethereum_da_fee_metrics_tracker", "state_pruner">>

EigenServices ==
  <<"eigen_state_committer", "block_importer", "eigen_block_bundler",
    "eigen_state_listener", "state_pruner", "eigen_fee_metrics_tracker">>

AllServices == Range(BaseServices) \union Range(EthereumServices) \union Range(EigenServices)

Services == Watched \intersect AllServices

VARIABLES
  config,    \* what main reads of the configuration
  mainPhase,     \* how far main is
  service,   \* [Services -> the state of its task]
  handles,   \* the tasks to wait for, in order
  joined,    \* how many have been waited for
  cancelled, \* the cancellation token
  lateRuns,  \* [Services -> runs begun after the cancellation]
  closed,    \* the database pool is closed
  result,    \* what main returns
  panics

processVars == <<config, mainPhase, service, handles, joined, cancelled, lateRuns, closed, result, panics>>

Keys == {"key1", "key2", "unusable"}

ProcessTypeOK ==
  /\ config \in [main : Keys, blob : Keys \union {"none"}, da_layer : BOOLEAN, in_range : BOOLEAN]
  /\ mainPhase \in {"validate", "storage", "migrate", "last finalization", "l1", "contract", "services",
                   "eigen key", "disperser", "eigen services", "bind", "serving", "joining", "exited"}
  /\ service \in [Services -> {"absent", "running", "sleeping", "ended", "panicked", "aborted"}]
  /\ handles \in Seq(AllServices)
  /\ joined \in 0..Len(handles)
  /\ cancelled \in BOOLEAN /\ closed \in BOOLEAN
  /\ lateRuns \in [Services -> Nat]
  /\ result \in {"none", "ok", "error"}
  /\ panics \in 0..MaxPanics

ProcessInit ==
  /\ config \in [main : {"key1", "unusable"}, blob : Keys \union {"none"}, da_layer : BOOLEAN, in_range : BOOLEAN]
  /\ mainPhase = "validate"
  /\ service = [s \in Services |-> "absent"]
  /\ handles = <<>> /\ joined = 0
  /\ cancelled = FALSE /\ closed = FALSE
  /\ lateRuns = [s \in Services |-> 0]
  /\ result = "none"
  /\ panics = 0

-----------------------------------------------------------------------------
(* The polling loop of a service.                                          *)

Spawned(services) == [s \in Services |-> IF s \in services THEN "running" ELSE service[s]]

\* The token is looked at when a run is over and nowhere else.
RunEnds(s) ==
  /\ service[s] = "running"
  /\ service' = [service EXCEPT ![s] = IF cancelled THEN "ended" ELSE "sleeping"]
  /\ UNCHANGED <<config, mainPhase, handles, joined, cancelled, lateRuns, closed, result, panics>>

\* Mutant of SleepEnds: a service asleep at the cancellation stays asleep.
SleepEndsBefore(s) ==
  /\ service[s] = "sleeping" /\ ~cancelled
  /\ service' = [service EXCEPT ![s] = "running"]
  /\ UNCHANGED <<config, mainPhase, handles, joined, cancelled, lateRuns, closed, result, panics>>

\* Nothing wakes a sleeping service early: one more run follows a cancellation.
SleepEnds(s) ==
  /\ service[s] = "sleeping"
  /\ service' = [service EXCEPT ![s] = "running"]
  /\ lateRuns' = IF cancelled THEN [lateRuns EXCEPT ![s] = @ + 1] ELSE lateRuns
  /\ UNCHANGED <<config, mainPhase, handles, joined, cancelled, closed, result, panics>>

Panic(s) ==
  /\ service[s] = "running" /\ panics < MaxPanics
  /\ service' = [service EXCEPT ![s] = "panicked"]
  /\ panics' = panics + 1
  /\ UNCHANGED <<config, mainPhase, handles, joined, cancelled, lateRuns, closed, result>>

-----------------------------------------------------------------------------
(* main.                                                                   *)

Return(r) ==
  /\ mainPhase' = "exited"
  /\ result' = r
  /\ service' = [s \in Services |-> IF service[s] \in {"running", "sleeping"} THEN "aborted" ELSE service[s]]
  /\ UNCHANGED <<config, handles, joined, cancelled, lateRuns, panics>>

GoOn(next) ==
  /\ mainPhase' = next
  /\ UNCHANGED <<config, cancelled, lateRuns, closed, result, panics>>

\* in_range stands for the three bounds on numbers.
IsValid == config.blob # config.main /\ config.in_range

Validate ==
  /\ mainPhase = "validate"
  /\ IF IsValid THEN GoOn("storage") /\ UNCHANGED <<service, handles, joined>>
                ELSE Return("error") /\ UNCHANGED closed

\* An operation outside the process: main goes on with the next, or fails.
Try(phase, next) ==
  /\ mainPhase = phase
  /\ \/ GoOn(next) /\ UNCHANGED <<service, handles, joined>>
     \/ Return("error") /\ UNCHANGED closed

ConnectDatabase == Try("storage", "migrate")

Migrate == Try("migrate", "last finalization")

\* With a layer configured the last submission to EigenDA is asked for, also when a
\* blob key decides for Ethereum.
LastEigenSubmissionFinalized == config.da_layer /\ Try("last finalization", "l1")

LastFragmentFinalized == ~config.da_layer /\ Try("last finalization", "l1")

\* A signer for the main key, and for the blob key if there is one.
HasSigners == config.main # "unusable" /\ config.blob # "unusable"

MakeSigners == Try("l1", "contract") /\ (mainPhase' = "contract" => HasSigners)

\* A contract that reports a commit interval of 0 is refused.
ConnectL1 == Try("contract", "services")

\* A blob key decides for Ethereum, also when a layer is configured.
StartEthereum ==
  /\ mainPhase = "services" /\ config.blob # "none"
  /\ handles' = BaseServices \o EthereumServices
  /\ service' = Spawned(Range(BaseServices) \union Range(EthereumServices))
  /\ GoOn("bind") /\ UNCHANGED joined

\* Of the services of EigenDA the bundler starts before the disperser's client is made.
StartEigen ==
  /\ mainPhase = "services" /\ config.blob = "none" /\ config.da_layer
  /\ handles' = BaseServices
  /\ service' = Spawned(Range(BaseServices) \union {"eigen_block_bundler"})
  /\ GoOn("eigen key") /\ UNCHANGED joined

MakeEigenSigner == Try("eigen key", "disperser")

\* A throughput of 0 is refused.
ConnectDisperser == Try("disperser", "eigen services")

StartEigenRest ==
  /\ mainPhase = "eigen services"
  /\ handles' = BaseServices \o EigenServices
  /\ service' = Spawned({s \in Range(EigenServices) \intersect Services : service[s] = "absent"})
  /\ GoOn("bind") /\ UNCHANGED joined

StartBase ==
  /\ mainPhase = "services" /\ config.blob = "none" /\ ~config.da_layer
  /\ handles' = BaseServices
  /\ service' = Spawned(Range(BaseServices))
  /\ GoOn("bind") /\ UNCHANGED joined

LaunchApiServer == Try("bind", "serving")

\* A signal stops the server, and main goes on to shut_down.
Stop ==
  /\ mainPhase = "serving"
  /\ mainPhase' = "joining"
  /\ cancelled' = TRUE
  /\ UNCHANGED <<config, service, handles, joined, lateRuns, closed, result, panics>>

\* The server itself fails: main returns, and stops nothing in order.
ServerFails ==
  /\ mainPhase = "serving"
  /\ Return("error") /\ UNCHANGED closed

\* Mutant of CanJoin: a service is not waited for while it sleeps.
CanJoinSleeping(s) == s \in Services => service[s] \in {"ended", "panicked", "sleeping"}

CanJoin(s) == s \in Services => service[s] \in {"ended", "panicked"}

\* `handle.await?`: a task that panicked ends main here and now.
Join ==
  /\ mainPhase = "joining" /\ joined < Len(handles)
  /\ LET s == handles[joined + 1] IN
       /\ CanJoin(s)
       /\ IF s \in Services /\ service[s] = "panicked"
          THEN Return("error") /\ UNCHANGED closed
          ELSE joined' = joined + 1 /\ GoOn("joining") /\ UNCHANGED <<service, handles>>

Close ==
  /\ mainPhase = "joining" /\ joined = Len(handles)
  /\ closed' = TRUE
  /\ Return("ok")

Main ==
  \/ Validate \/ ConnectDatabase \/ Migrate \/ LastEigenSubmissionFinalized \/ LastFragmentFinalized
  \/ MakeSigners \/ ConnectL1
  \/ StartEthereum \/ StartEigen \/ MakeEigenSigner \/ ConnectDisperser \/ StartEigenRest \/ StartBase
  \/ LaunchApiServer \/ Join \/ Close

ProcessNext ==
  \/ Main \/ Stop \/ ServerFails
  \/ \E s \in Services : RunEnds(s) \/ SleepEnds(s) \/ Panic(s)

\* main is not blocked for ever, runs return and sleeps end.  The signal to
\* stop may never come, and the server may never fail.
ProcessFairness ==
  /\ WF_processVars(Main)
  /\ \A s \in Services : WF_processVars(RunEnds(s)) /\ WF_processVars(SleepEnds(s))

ProcessSpec == ProcessInit /\ [][ProcessNext]_processVars /\ ProcessFairness

-----------------------------------------------------------------------------
(* An orderly stop lets every service finish: if main returns without an   *)
(* error, each service it started has ended by itself, and the database    *)
(* was closed after them.  A service starts at most one run after the stop.*)
ShutdownIsClean ==
  /\ result = "ok" => closed /\ \A s \in Services : service[s] \in {"absent", "ended"}
  /\ \A s \in Services : lateRuns[s] <= 1

\* shut_down comes to an end, whatever the services are doing when the signal comes.
StopEnds == mainPhase = "joining" ~> mainPhase = "exited"
=============================================================================
